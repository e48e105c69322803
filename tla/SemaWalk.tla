----------------------------- MODULE SemaWalk ------------------------------
(***************************************************************************)
(* The second pass of semantic analysis (src/src/sema/sema.cpp) as a walk  *)
(* over a program: the checks enter a construct and leave it, and what is  *)
(* allowed inside depends on the members in_loop_, in_await_, in_unsafe_   *)
(* and current_return_type_, which an entry saves and an exit restores,    *)
(* and on the scopes that are pushed and popped (src/src/sema/symbol.cpp). *)
(*                                                                         *)
(* Of the names of a program, one variable `x', which may be declared many *)
(* times, `this', and an async function are followed; of its types, the    *)
(* result types of functions.                                              *)
(***************************************************************************)
EXTENDS Integers, Sequences, SequencesExt

CONSTANT MaxDepth       \* bound: constructs open at a time

VARIABLES
    open,       \* the constructs the walk is in, the program first: [kind, result, saved],
                \* with x, what the text of the construct has declared (history)
    flags,      \* in_loop_, in_await_, in_unsafe_, current_return_type_
    scopes,     \* the scopes, the global one first: [x, this]
    ok          \* no error has been reported

vars == <<open, flags, scopes, ok>>

Results == {"int", "str"}
Variable == {"none", "variable", "const"}

Init ==
    /\ flags = [loop |-> FALSE, await |-> FALSE, unsafe |-> FALSE, ret |-> "void"]
    /\ open = <<[kind |-> "program", x |-> "none", result |-> "void", saved |-> flags]>>
    /\ ok = TRUE
    /\ scopes = <<[x |-> "none", this |-> FALSE]>>

-----------------------------------------------------------------------------
(* Constructs.                                                             *)

Looping == {"while", "for", "switch"}
Functions == {"function", "method", "static method"}
Scoping == Functions \union {"namespace", "class", "block", "for", "case", "arm", "catch", "lambda"}
\* Those that may put x into their scope: parameters, loop variables, payloads,
\* exceptions, fields.
Binding == Functions \union {"class", "for", "arm", "catch", "lambda"}

Here == Last(open).kind

Statements == {"block", "while", "for", "switch", "arm", "catch", "unsafe", "defer"}
HoldsStatements == (Functions \union Statements \union {"program", "namespace", "case", "lambda"}) \ {"switch"}
MayHold(outer) ==
    (IF outer \in HoldsStatements THEN Statements ELSE {})
    \union (IF outer \in {"class", "switch"} THEN {} ELSE {"await", "lambda"})
    \union (IF outer \in {"program", "namespace"} THEN {"namespace", "class", "function"} ELSE {})
    \union (IF outer = "class" THEN {"method", "static method", "await", "lambda"} ELSE {})
    \union (IF outer = "switch" THEN {"case"} ELSE {})

-----------------------------------------------------------------------------
(* symbol.cpp *)

push(x, this) == scopes' = Append(scopes, [x |-> x, this |-> this])
pop == scopes' = Front(scopes)

\* lookup, for x and for `this'.
xKnown == \E i \in DOMAIN scopes : scopes[i].x # "none"
thisKnown == \E i \in DOMAIN scopes : scopes[i].this
\* The innermost declaration of x.
xFound == scopes[CHOOSE i \in DOMAIN scopes :
              scopes[i].x # "none" /\ \A j \in i + 1..Len(scopes) : scopes[j].x = "none"].x
define(x) == scopes' = [scopes EXCEPT ![Len(scopes)].x = x]
Free == Last(scopes).x = "none"

-----------------------------------------------------------------------------
(* Entering and leaving.                                                   *)

\* What the code sets on the way in.
Inside(kind, result) ==
    [loop   |-> flags.loop \/ kind \in Looping,
     await  |-> flags.await \/ kind = "await",
     unsafe |-> flags.unsafe \/ kind = "unsafe",
     ret    |-> IF kind \in Functions THEN result ELSE IF kind = "lambda" THEN "unknown" ELSE flags.ret]

\* check_func, check_class, check_namespace, check_block, check_while, check_do_while,
\* check_for_in, check_for_c, check_switch, check_match, check_try_catch, check_lambda,
\* and the cases of check_stmt and check_expr for unsafe, defer and await.  Declarations
\* are checked before the statements of the program or the namespace they are in.
Enter ==
    \E kind \in MayHold(Here), x \in {"none", "variable"}, result \in Results :
        /\ Len(open) <= MaxDepth
        /\ x # "none" => kind \in Binding
        /\ kind \notin Functions => result = "int"
        /\ kind \in {"namespace", "class", "function"} => Free
        /\ open' = Append(open, [kind |-> kind, x |-> x, result |-> result, saved |-> flags])
        /\ flags' = Inside(kind, result)
        /\ IF kind \in Scoping THEN push(x, kind = "method") ELSE UNCHANGED scopes
        /\ UNCHANGED ok

\* Mutant: the end of an await clears the flag instead of restoring it.
LeaveClearing ==
    /\ Len(open) > 1
    /\ open' = Front(open)
    /\ flags' = IF Here = "await" THEN [flags EXCEPT !.await = FALSE] ELSE Last(open).saved
    /\ IF Here \in Scoping THEN pop ELSE UNCHANGED scopes
    /\ UNCHANGED ok

\* Mutant: the scope of a catch clause stays.
LeaveCatchOpen ==
    /\ Len(open) > 1
    /\ open' = Front(open)
    /\ flags' = Last(open).saved
    /\ IF Here \in Scoping \ {"catch"} THEN pop ELSE UNCHANGED scopes
    /\ UNCHANGED ok

Leave ==
    /\ Len(open) > 1
    /\ open' = Front(open)
    /\ flags' = Last(open).saved
    /\ IF Here \in Scoping THEN pop ELSE UNCHANGED scopes
    /\ UNCHANGED ok

-----------------------------------------------------------------------------
(* Statements and expressions.                                             *)

\* What each leaf needs to pass without an error: break and continue, a call of the
\* async function, a reinterpretation of a pointer, a return of an int, `this', a use
\* of x, an assignment to it, a declaration, a thread_local declaration.
Accepts(leaf) ==
    CASE leaf = "break"        -> flags.loop
      [] leaf = "async call"   -> flags.await
      [] leaf = "reinterpret"  -> flags.unsafe
      [] leaf = "return int"   -> flags.ret \in {"int", "unknown"}
      [] leaf = "this"         -> thisKnown
      [] leaf = "use"          -> xKnown
      [] leaf = "assign"       -> xKnown => xFound # "const"
      [] leaf = "declare"      -> Free
      [] leaf = "thread_local" -> Free /\ Len(scopes) = 1

Expressions == {"async call", "reinterpret", "this", "use"}
Leaves == Expressions \union {"break", "return int"}

MayContain(leaf) ==
    IF leaf \in Expressions THEN Here \notin {"class", "switch"} ELSE Here \in HoldsStatements

\* check_stmt, check_call, require_assignable, check_return, check_expr.
Check ==
    \E leaf \in Leaves :
        /\ MayContain(leaf)
        /\ ok' = (ok /\ Accepts(leaf))
        /\ UNCHANGED <<open, flags, scopes>>

\* The construct whose block a declaration stands in: unsafe, defer, loops without a
\* variable and await are no blocks of their own.
Home == CHOOSE i \in DOMAIN open :
            /\ open[i].kind \in Scoping \union {"program"}
            /\ \A j \in i + 1..Len(open) : open[j].kind \notin Scoping
Says(x) == open' = [open EXCEPT ![Home].x = x]

\* check_assign: a plain assignment to an unknown name declares it, in the innermost scope.
Assign ==
    /\ MayContain("use")
    /\ IF xKnown THEN UNCHANGED scopes ELSE define("variable")
    /\ IF \E i \in DOMAIN open : open[i].x # "none" THEN UNCHANGED open ELSE Says("variable")
    /\ ok' = (ok /\ Accepts("assign"))
    /\ UNCHANGED flags

\* check_var_decl: the first declaration of a scope stays; a second one is an error.
Declare ==
    \E x \in {"variable", "const"}, leaf \in {"declare", "thread_local"} :
        /\ MayContain(leaf)
        /\ IF Free THEN define(x) ELSE UNCHANGED scopes
        /\ IF open[Home].x = "none" THEN Says(x) ELSE UNCHANGED open
        /\ ok' = (ok /\ Accepts(leaf))
        /\ UNCHANGED flags

Next == Enter \/ Leave \/ Check \/ Assign \/ Declare

Spec == Init /\ [][Next]_vars

-----------------------------------------------------------------------------
(* Property.                                                               *)

Within(kinds) == \E i \in DOMAIN open : open[i].kind \in kinds
Innermost(is(_)) ==
    open[CHOOSE i \in DOMAIN open : is(open[i]) /\ \A j \in i + 1..Len(open) : ~is(open[j])]

\* What the text around a leaf allows, whatever was entered and left before.
Allowed(leaf) ==
    CASE leaf = "break"        -> Within(Looping)
      [] leaf = "async call"   -> Within({"await"})
      [] leaf = "reinterpret"  -> Within({"unsafe"})
      [] leaf = "return int"   -> LET f == Innermost(LAMBDA c : c.kind \in Functions \union {"lambda", "program"})
                                  IN  f.kind = "lambda" \/ f.result = "int"
      [] leaf = "this"         -> Within({"method"})
      [] leaf = "use"          -> \E i \in DOMAIN open : open[i].x # "none"
      [] leaf = "assign"       -> (\E i \in DOMAIN open : open[i].x # "none") =>
                                      Innermost(LAMBDA c : c.x # "none").x # "const"
      [] leaf = "declare"      -> open[Home].x = "none"
      [] leaf = "thread_local" -> open[Home].x = "none" /\ ~Within(Scoping)

\* check_stmt, check_expr, check_var_decl: at every point of the walk the verdict on
\* each leaf is the one the constructs around it call for: what was entered and left
\* before leaves no trace, and what is still open is not forgotten.  The constructs
\* around a leaf include those outside a lambda, so a break in a lambda in a loop, and
\* an async call in a lambda under an await, are accepted.
JudgedByContext ==
    \A leaf \in Leaves \union {"assign", "declare", "thread_local"} : Accepts(leaf) <=> Allowed(leaf)

=============================================================================
