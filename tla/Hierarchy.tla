----------------------------- MODULE Hierarchy -----------------------------
(***************************************************************************)
(* The type table of semantic analysis (src/src/sema/types.cpp) while the  *)
(* classes and interfaces of a program are entered into it: hoist_top of   *)
(* src/src/sema/sema.cpp takes the declarations in their order, and then   *)
(* check_decl takes them again.  A parent is what the table has last been  *)
(* told, so what is_subtype answers depends on how far the analysis is;    *)
(* function bodies are checked in the second pass, top-level statements    *)
(* after it.                                                               *)
(***************************************************************************)
EXTENDS Integers, FiniteSets, Sequences, SequencesExt

CONSTANT Programs
    \* sequences of declarations [name, kind, bases, methods] with distinct names and no
    \* class among its own ancestors: is_subtype and check_member never end on such a class

Object == "object"
Unknown == "unknown"

VARIABLES
    decls, pass, at,    \* the program, the pass over it, the next declaration of the pass
    kind, parent,       \* the table, over the names it knows
    error_count

vars == <<decls, pass, at, kind, parent, error_count>>

Init ==
    /\ decls \in Programs /\ pass = "hoist" /\ at = 1
    /\ kind = [t \in {Object} |-> "object"] /\ parent = [t \in {Object} |-> Unknown]
    /\ error_count = 0

-----------------------------------------------------------------------------
(* types.cpp *)

from_name(x) == IF x \in DOMAIN kind THEN x ELSE Unknown

RECURSIVE Chain(_)
\* The types a walk along the parents meets.
Chain(t) == IF t = Unknown THEN <<>> ELSE <<t>> \o Chain(parent[t])

\* Mutant: the walk ends at the parent.
SubtypeOfParentOnly(child, ancestor) == child = ancestor \/ ancestor = Object \/ parent[child] = ancestor

is_subtype(child, ancestor) ==
    child = ancestor \/ ancestor = Object \/ ancestor \in Range(Chain(child))

\* Two classes, or a class and an interface; what is declared as object goes anywhere.
assignable(from, to) == from = Unknown \/ to = Unknown \/ from = Object \/ is_subtype(from, to)

-----------------------------------------------------------------------------
(* Pass 1 *)

Decl == decls[at]

Entered(x, k, p) ==
    /\ kind' = [t \in DOMAIN kind \union {x} |-> IF t = x THEN k ELSE kind[t]]
    /\ parent' = [t \in DOMAIN parent \union {x} |-> IF t = x THEN p ELSE parent[t]]

\* The first base is the parent, if it has been met; else the parent is object.
hoist_class ==
    /\ pass = "hoist" /\ at <= Len(decls) /\ Decl.kind = "class"
    /\ Entered(Decl.name, "class",
           IF Decl.bases = <<>> \/ from_name(Head(Decl.bases)) = Unknown THEN Object ELSE Head(Decl.bases))
    /\ at' = at + 1
    /\ UNCHANGED <<decls, pass, error_count>>

hoist_interface ==
    /\ pass = "hoist" /\ at <= Len(decls) /\ Decl.kind = "interface"
    /\ Entered(Decl.name, "interface", Object)
    /\ at' = at + 1
    /\ UNCHANGED <<decls, pass, error_count>>

\* run: the second pass begins, and at its end the top-level statements.
NextPass ==
    /\ pass # "statements" /\ at > Len(decls)
    /\ pass' = (IF pass = "hoist" THEN "check" ELSE "statements") /\ at' = 1
    /\ UNCHANGED <<decls, kind, parent, error_count>>

-----------------------------------------------------------------------------
(* Pass 2 *)

DeclOf(x) == CHOOSE d \in Range(decls) : d.name = x

\* The bases that are found; a warning is printed for the others.
Found(d) == SelectSeq(d.bases, LAMBDA b : b \in DOMAIN kind)

\* The errors of a class that leaves methods of its interfaces undefined.
Missing(d) ==
    {<<b, m>> \in {b \in Range(Found(d)) : kind[b] = "interface"} \X UNION {e.methods : e \in Range(decls)} :
        m \in DeclOf(b).methods \ d.methods}

\* Mutant: only the first base is held to its contract.
MissingOfFirst(d) == {x \in Missing(d) : x[1] = Head(d.bases)}

CheckWith(d, missing, p) ==
    /\ parent' = [parent EXCEPT ![d.name] = p]
    /\ error_count' = error_count + Cardinality(missing)

\* Mutant: as check_class, with the contract of the first base only.
CheckFirstContract ==
    /\ pass = "check" /\ at <= Len(decls) /\ Decl.kind = "class"
    /\ CheckWith(Decl, MissingOfFirst(Decl), IF Found(Decl) = <<>> THEN parent[Decl.name] ELSE Last(Found(Decl)))
    /\ at' = at + 1
    /\ UNCHANGED <<decls, pass, kind>>

\* Every base that is found becomes the parent, so the last one stays.
check_class ==
    /\ pass = "check" /\ at <= Len(decls) /\ Decl.kind = "class"
    /\ CheckWith(Decl, Missing(Decl), IF Found(Decl) = <<>> THEN parent[Decl.name] ELSE Last(Found(Decl)))
    /\ at' = at + 1
    /\ UNCHANGED <<decls, pass, kind>>

check_interface ==
    /\ pass = "check" /\ at <= Len(decls) /\ Decl.kind = "interface"
    /\ at' = at + 1
    /\ UNCHANGED <<decls, pass, kind, parent, error_count>>

Next == hoist_class \/ hoist_interface \/ NextPass \/ check_class \/ check_interface

Spec == Init /\ [][Next]_vars

-----------------------------------------------------------------------------
(* check_member: a member is looked for along the parents, up to the first *)
(* type that is not a class.                                               *)
has_member(t, m) ==
    LET chain == Chain(t)
    IN  \E i \in DOMAIN chain :
            /\ \A j \in 1..i : kind[chain[j]] = "class"
            /\ m \in DeclOf(chain[i]).methods

-----------------------------------------------------------------------------
(* Properties.                                                             *)

RECURSIVE Ancestors(_)
\* What the declarations say.
Ancestors(x) == {x} \union UNION {Ancestors(b) : b \in Range(Found(DeclOf(x)))}

\* A declaration the table is right about: one base at most, which came first or which
\* the second pass has entered.
Settled(x) ==
    LET i == CHOOSE j \in DOMAIN decls : decls[j].name = x
        b == decls[i].bases
    IN  /\ Len(b) <= 1
        /\ Len(b) = 1 => \/ \E j \in 1..i : decls[j].name = Head(b)
                         \/ pass = "check" /\ i < at
                         \/ pass = "statements"

\* check_class, check_stmts: once a body is checked, nothing is assignable to a class or
\* an interface it does not descend from, and what descends from it through single bases
\* is assignable as soon as the table has settled, whatever the order of declarations.
SubtypingRight ==
    pass # "hoist" =>
        \A c, a \in DOMAIN kind \ {Object} :
            /\ assignable(c, a) => a \in Ancestors(c)
            /\ a \in Ancestors(c) /\ (\A x \in Ancestors(c) : Settled(x)) => assignable(c, a)

\* check_class, check_member: in a program without errors, what may be assigned to an
\* interface has every method of it, of its own or from a parent.
Substitutable ==
    pass = "statements" /\ error_count = 0 =>
        \A c, i \in DOMAIN kind :
            kind[c] = "class" /\ kind[i] = "interface" /\ assignable(c, i) =>
                \A m \in DeclOf(i).methods : has_member(c, m)

=============================================================================
