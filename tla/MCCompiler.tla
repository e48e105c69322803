----------------------------- MODULE MCCompiler -----------------------------
(***************************************************************************)
(* The compiler: three passes over the declarations of a program, which    *)
(* resolve imports, expand generic classes and hoist the class hierarchy;  *)
(* and four parts of what the code generator emits, the clean-up of        *)
(* scopes, control flow, classes, closures.  `part' says which one a       *)
(* behaviour is about; the others stay where they start.  Programs end,    *)
(* so deadlock is not checked.                                             *)
(***************************************************************************)
EXTENDS ScopeCleanup

CONSTANTS
    Parts,      \* the parts of the run, of "imports", "generics", "hierarchy",
                \* "scope", "flow", "class", "closure"
    Values,     \* of a captured variable
    Orders,     \* of declaration of the classes
    A, B, C, NoClass

-----------------------------------------------------------------------------
(* Programs: a statement with a jump in it, inside a loop, and a statement *)
(* after the loop.                                                         *)

R == [k |-> "read"]
Act(n) == [k |-> "act", n |-> n]
Do(ss) == [k |-> "block", b |-> ss]
If(s) == [k |-> "if", c |-> R, a |-> s, b |-> <<>>]
Case(n, ss) == [v |-> n, a |-> ss]
Both(op) == [k |-> op, l |-> R, r |-> R]

Jumps ==
    [k : {"break", "continue"}, label : {"", "out"}] \cup {[k |-> "return"], Act(2)}
Inner(j) ==
    {[k |-> "if", c |-> Both("and"), a |-> Do(<<Act(1), j>>), b |-> <<Act(3)>>],
     [k |-> "if", c |-> Both("or"), a |-> Do(<<j, Act(1)>>), b |-> <<j>>],
     [k |-> "while", c |-> R, a |-> Do(<<Act(1), j>>), label |-> ""],
     [k |-> "do", c |-> R, a |-> Do(<<Act(1), If(j)>>), label |-> ""],
     [k |-> "for", hi |-> 2, a |-> Do(<<If(j), Act(1)>>)],
     [k |-> "switch", cases |-> <<Case(0, <<Act(1)>>), Case(-1, <<Act(4), j>>), Case(1, <<Act(5)>>)>>],
     [k |-> "match", cases |-> <<Case(-1, <<Act(1)>>), Case(0, <<Act(4), j>>), Case(1, <<Act(5)>>)>>],
     [k |-> "match", cases |-> <<Case(0, <<Act(4), j>>), Case(1, <<Act(5)>>)>>]}
Outer(s) ==
    {[k |-> "while", c |-> R, a |-> Do(<<s, Act(7)>>), label |-> "out"],
     [k |-> "do", c |-> R, a |-> Do(<<s, Act(7)>>), label |-> ""],
     [k |-> "for", hi |-> 2, a |-> Do(<<s, Act(7)>>)],
     [k |-> "while", c |-> R, label |-> "out", a |-> [k |-> "for", hi |-> 1, a |-> s]]}
Loops == {Do(<<o, Act(9)>>) : o \in UNION {Outer(s) : s \in UNION {Inner(j) : j \in Jumps}}}

-----------------------------------------------------------------------------
(* Lambda bodies over the outer x and y and the parameter p.               *)

Name(x) == [k |-> "name", x |-> x]
Node(k, sub) == [k |-> k, sub |-> sub]
Names == {Name("x"), Name("y"), Name("p")}
Lines == {Node("expr", <<a>>) : a \in Names} \cup {[k |-> "decl", x |-> "x", sub |-> <<a>>] : a \in Names}
Lambdas ==
    {Node("block", <<Node("block", <<s>>), t, u>>) : s \in Lines, t \in Lines, u \in Lines}
    \cup {Node("block", <<Node("while", <<a, Node("block", <<s>>)>>), t>>) : a \in Names, s \in Lines, t \in Lines}
    \cup {Node("block", <<Node(k, <<a>>), s>>) : k \in {"opaque", "other"}, a \in Names, s \in Lines}

Chain == [c \in {A, B, C} |-> IF c = A THEN NoClass ELSE IF c = B THEN A ELSE B]
AnyOrder == {<<A, B, C>>, <<B, A, C>>, <<A, C, B>>}
BaseFirst == {<<A, B, C>>}

-----------------------------------------------------------------------------
(* Libraries of three files, with every order of imports, cycles, a shared *)
(* file and one that is not there.                                         *)

Some(s) == UNION {{q \in [1 .. n -> s] : \A i, j \in 1 .. n : q[i] = q[j] => i = j} : n \in 0 .. 2}
Libraries ==
    {("main" :> m) @@ ("a" :> a) @@ ("b" :> b) @@ ("c" :> c) @@ ("gone" :> <<>>) :
        m \in Some({"a", "b", "gone"}), a \in Some({"b", "c"}), b \in Some({"a", "c"}), c \in Some({"a"})}

-----------------------------------------------------------------------------
(* Two templates that mention each other in their bodies, and programs     *)
(* that apply them, nested and with a wrong number of arguments.           *)

Template == ("Box" :> <<"T">>) @@ ("Pair" :> <<"A", "B">>)
Type(x, args, params) == [name |-> <<x>>, args |-> args, fn |-> params, of |-> <<>>]
Plain(x) == Type(x, <<>>, <<>>)
App(g, args) == Type(g, args, <<>>)
In(path, type) == [path |-> path, type |-> type]

InBox == {App("Box", <<Plain("T")>>), App("Pair", <<Plain("T"), Plain("T")>>),
          Type("__fn", <<>>, <<App("Pair", <<Plain("int"), Plain("T")>>)>>)}
InPair == {App("Box", <<Plain("A")>>), App("Pair", <<Plain("B"), Plain("A")>>), Plain("A")}
Paths == {{"field"}, {"body", "variable", "lambda"}, {"body", "match", "variable"}, {"initialiser list", "new"}}
Templates ==
    {("Box" :> <<In(p, t), In({"result"}, u)>>) @@ ("Pair" :> <<In(q, v)>>) :
        p \in Paths, t \in InBox, u \in InBox, q \in Paths, v \in InPair}
InMain == {App("Box", <<App("Box", <<Plain("str")>>)>>), App("Pair", <<Plain("int"), App("Box", <<Plain("str")>>)>>),
           App("Pair", <<Plain("int")>>)}
Uses == {<<In({"body", "variable"}, t), In({"body", "expression", "new"}, u)>> : t \in InMain, u \in InMain}

-----------------------------------------------------------------------------
(* Three classes and an interface, in every order.                         *)

ClassOf(x, b, m) == [name |-> x, kind |-> "class", bases |-> b, methods |-> m]
Iface == [name |-> "I", kind |-> "interface", bases |-> <<>>, methods |-> {"m"}]
Hierarchies ==
    UNION {{[j \in 1 .. 4 |-> ds[p[j]]] : p \in Permutations(1 .. 4)} : ds \in
        {<<Iface, ClassOf("A", a, ma), ClassOf("B", b, mb), ClassOf("C", c, {})>> :
            a \in {<<>>, <<"I">>}, b \in {<<"A">>, <<"A", "I">>}, c \in {<<"B">>, <<"I", "A">>, <<"B", "none">>},
            ma \in SUBSET {"m"}, mb \in SUBSET {"m"}}}

-----------------------------------------------------------------------------
VARIABLES
    part,
    iGraph, iCalls, iLoaded,
    gPhase, gBody, gMain, gPending, gDone, gDecls,
    hDecls, hPass, hAt, hKind, hParent, hErrors,
    fProg, fInput, fMeaning, fCode, fAt, fVal, fSlot, fUsed, fTrace, fStatus,
    cOrder, cLaid, cLayouts, cOverrides, cDtors, cParts, cV, cDeclared, cPhase, cFreed, cCalled, cMade,
    lBody, lState, lCaptures, lActive, lSlot, lClosures, lCall

I == INSTANCE Imports WITH
        Graphs <- Libraries, Broken <- {"gone"}, graph <- iGraph, calls <- iCalls, loaded <- iLoaded
G == INSTANCE Generics WITH
        Params <- Template, Bodies <- Templates, Mains <- Uses,
        phase <- gPhase, body <- gBody, main <- gMain, pending <- gPending, done <- gDone,
        new_decls <- gDecls
H == INSTANCE Hierarchy WITH
        Programs <- Hierarchies, decls <- hDecls, pass <- hPass, at <- hAt, kind <- hKind,
        parent <- hParent, error_count <- hErrors
F == INSTANCE ControlFlow WITH
        Programs <- Loops, Inputs <- [1 .. 4 -> 0 .. 2], IntMax <- 3,
        prog <- fProg, input <- fInput, meaning <- fMeaning, code <- fCode, at <- fAt, val <- fVal,
        slot <- fSlot, used <- fUsed, trace <- fTrace, status <- fStatus
K == INSTANCE Classes WITH
        Class <- {A, B, C}, Parent <- Chain, MaxObjects <- 1,
        order <- cOrder, laid <- cLaid, layouts <- cLayouts, overrides <- cOverrides, dtors <- cDtors,
        parts <- cParts, v <- cV, declared <- cDeclared, phase <- cPhase, freed <- cFreed,
        called <- cCalled, made <- cMade
L == INSTANCE Closures WITH
        Bodies <- Lambdas, Params <- {"p"}, Vars <- {"x", "y"}, MaxClosures <- 1,
        body <- lBody, state <- lState, captures <- lCaptures, active <- lActive, slot <- lSlot,
        closures <- lClosures, call <- lCall

iVars == <<iGraph, iCalls, iLoaded>>
gVars == <<gPhase, gBody, gMain, gPending, gDone, gDecls>>
hVars == <<hDecls, hPass, hAt, hKind, hParent, hErrors>>
fVars == <<fProg, fInput, fMeaning, fCode, fAt, fVal, fSlot, fUsed, fTrace, fStatus>>
cVars == <<cOrder, cLaid, cLayouts, cOverrides, cDtors, cParts, cV, cDeclared, cPhase, cFreed, cCalled, cMade>>
lVars == <<lBody, lState, lCaptures, lActive, lSlot, lClosures, lCall>>
allVars == <<part, vars, iVars, gVars, hVars, fVars, cVars, lVars>>

\* A part that the behaviour is not about.
Off(x) == x = "-"
ImportOff == Off(iGraph) /\ Off(iCalls) /\ Off(iLoaded)
GenericOff ==
    /\ Off(gPhase) /\ Off(gBody) /\ Off(gMain)
    /\ Off(gPending) /\ Off(gDone) /\ Off(gDecls)
HierarchyOff ==
    /\ Off(hDecls) /\ Off(hPass) /\ Off(hAt)
    /\ Off(hKind) /\ Off(hParent) /\ Off(hErrors)
FlowOff ==
    /\ Off(fProg) /\ Off(fInput) /\ Off(fMeaning) /\ Off(fCode) /\ Off(fAt)
    /\ Off(fVal) /\ Off(fSlot) /\ Off(fUsed) /\ Off(fTrace) /\ Off(fStatus)
ClassOff ==
    /\ Off(cOrder) /\ Off(cLaid) /\ Off(cLayouts) /\ Off(cOverrides) /\ Off(cDtors)
    /\ Off(cParts) /\ Off(cV) /\ Off(cDeclared) /\ Off(cPhase) /\ Off(cFreed)
    /\ Off(cCalled) /\ Off(cMade)
ClosureOff ==
    /\ Off(lBody) /\ Off(lState) /\ Off(lCaptures) /\ Off(lActive) /\ Off(lSlot)
    /\ Off(lClosures) /\ Off(lCall)

CompilerInit ==
    /\ part \in Parts
    /\ Init
    /\ IF part = "imports" THEN I!Init ELSE ImportOff
    /\ IF part = "generics" THEN G!Init ELSE GenericOff
    /\ IF part = "hierarchy" THEN H!Init ELSE HierarchyOff
    /\ IF part = "flow" THEN F!Init ELSE FlowOff
    /\ IF part = "class" THEN K!Init ELSE ClassOff
    /\ IF part = "closure" THEN L!Init ELSE ClosureOff

Import == part = "imports" /\ I!Next /\ UNCHANGED <<part, vars, gVars, hVars, fVars, cVars, lVars>>
Generic == part = "generics" /\ G!Next /\ UNCHANGED <<part, vars, iVars, hVars, fVars, cVars, lVars>>
Hoist == part = "hierarchy" /\ H!Next /\ UNCHANGED <<part, vars, iVars, gVars, fVars, cVars, lVars>>
Scopes == part = "scope" /\ Next /\ UNCHANGED <<part, iVars, gVars, hVars, fVars, cVars, lVars>>
Flow == part = "flow" /\ F!Next /\ UNCHANGED <<part, vars, iVars, gVars, hVars, cVars, lVars>>
Klass == part = "class" /\ K!Next /\ UNCHANGED <<part, vars, iVars, gVars, hVars, fVars, lVars>>
Lambda == part = "closure" /\ L!Next /\ UNCHANGED <<part, vars, iVars, gVars, hVars, fVars, cVars>>

CompilerNext == Import \/ Generic \/ Hoist \/ Scopes \/ Flow \/ Klass \/ Lambda

CompilerSpec == CompilerInit /\ [][CompilerNext]_allVars

-----------------------------------------------------------------------------
(* The properties of the parts; those of ScopeCleanup come with EXTENDS.   *)

\* Imports: every file that is needed is there once.
ImportedOnce == part = "imports" => I!ImportedOnce
\* Generics: every mention names the one copy it means.
Expanded == part = "generics" => G!Expanded
\* Hierarchy: what is assignable is a descendant.
SubtypingRight == part = "hierarchy" => H!SubtypingRight
\* Hierarchy: what is assignable to an interface has its methods.
Substitutable == part = "hierarchy" => H!Substitutable
\* ControlFlow: the blocks do what the program says.
ExecutesAsWritten == part = "flow" => F!ExecutesAsWritten
\* Classes: an instance shows the same fields through every base.
FieldsAgree == part = "class" => K!FieldsAgree
\* Classes: the parts of an instance are destroyed once.
PartsDestroyedOnce == part = "class" => K!PartsDestroyedOnce
\* Closures: what collect_fv walks it captures.
CapturesFree == part = "closure" => L!CapturesFree
\* Classes: a call runs the method of the instance's class.
DispatchByInstance == part = "class" => K!DispatchByInstance
\* Closures: a call sees the variables as they were.
CapturesByValue == part = "closure" => L!CapturesByValue
=============================================================================
