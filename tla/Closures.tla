------------------------------ MODULE Closures ------------------------------
(***************************************************************************)
(* Lambdas as src/src/codegen/codegen.cpp compiles them: collect_fv walks  *)
(* the body for the names that are free in it, gen_lambda stores in a heap *)
(* record the address of the slot of each one that the enclosing function  *)
(* has, and a call reads the variables through these addresses.            *)
(*                                                                         *)
(* An enclosing function with variables Vars is entered, assigns, makes    *)
(* closures of the lambda `body', calls them and returns; its next         *)
(* activation uses the same stack slots.  A body is a tree of the forms    *)
(* that Free takes apart.                                                  *)
(***************************************************************************)
EXTENDS Integers, Sequences, SequencesExt

CONSTANTS
    Bodies,        \* the lambda bodies considered
    Params,        \* the parameters of the lambda
    Vars,          \* the variables of the enclosing function
    Values,
    MaxClosures    \* bound: closures made

VARIABLES
    body,
    state,         \* "unknown", then "compiled" or "rejected" (an undefined variable)
    captures,      \* the names captured
    active,        \* the current activation of the enclosing function, 0 if none
    slot,          \* slot[x]: what the stack slot of x holds
    closures,      \* those made: [by |-> activation, seen |-> values when made]
    call           \* the last call: [want |-> , got |-> ], per captured variable

vars == <<body, state, captures, active, slot, closures, call>>

-----------------------------------------------------------------------------
(* collect_fv_stmt and collect_fv_expr.  acc.locals are the names declared *)
(* so far in the scope, acc.free those found free.  "expr" stands for the  *)
(* expressions that are walked (operators, calls, members, indexing,       *)
(* assignments, new), "opaque" for those that are not (literals of lists   *)
(* and dicts, lambdas, await), "other" for the statements that are not     *)
(* (for, do, switch, match, try, throw, assert, delete, defer).            *)

RECURSIVE Collect(_, _)
CollectAll(acc, ns) == FoldLeft(Collect, acc, ns)
\* Mutant: a declaration of an inner block stays in scope after it.
CollectBlockLeaky(acc, n) == CollectAll(acc, n.sub)
CollectBlock(acc, n) == [CollectAll(acc, n.sub) EXCEPT !.locals = acc.locals]
Collect(acc, n) ==
    CASE n.k = "name"  -> IF n.x \in acc.locals THEN acc ELSE [acc EXCEPT !.free = @ \cup {n.x}]
      [] n.k = "block" -> CollectBlock(acc, n)
      [] n.k = "decl"  -> LET init == CollectAll(acc, n.sub)
                          IN [init EXCEPT !.locals = @ \cup {n.x}]
      [] n.k \in {"if", "while", "expr"} -> CollectAll(acc, n.sub)
      [] n.k \in {"opaque", "other"} -> acc

\* The names gen_lambda captures: the free ones that are variables of the function.
Captured(b) == Collect([locals |-> Params, free |-> {}], b).free \cap Vars

-----------------------------------------------------------------------------
(* What is free in a body: the names used where no declaration of the body *)
(* reaches.                                                                *)

RECURSIVE Free(_, _)
\* Of a sequence: a declaration holds for what follows it.
FreeAll(ns, bound) ==
    UNION {Free(ns[i], bound \cup {ns[j].x : j \in {j \in 1 .. i - 1 : ns[j].k = "decl"}}) : i \in DOMAIN ns}
Free(n, bound) ==
    IF n.k = "name" THEN {n.x} \ bound ELSE FreeAll(n.sub, bound)

RECURSIVE Walked(_)
\* Every part of the body is of a form that collect_fv walks.
Walked(n) ==
    /\ n.k \notin {"opaque", "other"}
    /\ n.k # "name" => \A i \in DOMAIN n.sub : Walked(n.sub[i])

-----------------------------------------------------------------------------
Init ==
    /\ body \in Bodies /\ state = "unknown" /\ captures = {}
    /\ active = 0 /\ slot \in [Vars -> Values] /\ closures = {}
    /\ call = [want |-> <<>>, got |-> <<>>]

\* gen_lambda: inside the body only the captures, the parameters and the body's own
\* variables are defined (load_var).
Compile ==
    /\ state = "unknown"
    /\ captures' = Captured(body)
    /\ state' = IF (Free(body, Params) \cap Vars) \subseteq captures' THEN "compiled" ELSE "rejected"
    /\ UNCHANGED <<body, active, slot, closures, call>>

\* The function is entered again: the slots are where they were, its variables are
\* initialised.
Enter(s) ==
    /\ state = "compiled" /\ active = 0
    /\ active' = 1 + Cardinality(closures) /\ slot' = s
    /\ UNCHANGED <<body, state, captures, closures, call>>

Assign(x, val) ==
    /\ active # 0
    /\ slot' = [slot EXCEPT ![x] = val]
    /\ UNCHANGED <<body, state, captures, active, closures, call>>

\* The record holds the address of each slot; `seen' is only remembered here.
Make ==
    /\ active # 0 /\ Cardinality(closures) < MaxClosures
    /\ closures' = closures \cup {[by |-> active, seen |-> [x \in captures |-> slot[x]]]}
    /\ UNCHANGED <<body, state, captures, active, slot, call>>

\* Also after the activation that made the closure is gone: the address then is
\* that of whatever uses the stack there.
Call(c) ==
    /\ c \in closures
    /\ call' = [want |-> c.seen, got |-> [x \in captures |-> slot[x]]]
    /\ UNCHANGED <<body, state, captures, active, slot, closures>>

Return ==
    /\ active # 0 /\ active' = 0
    /\ UNCHANGED <<body, state, captures, slot, closures, call>>

Next ==
    \/ Compile \/ Make \/ Return
    \/ \E s \in [Vars -> Values] : Enter(s)
    \/ \E x \in Vars, val \in Values : Assign(x, val)
    \/ \E c \in closures : Call(c)

Spec == Init /\ [][Next]_vars

-----------------------------------------------------------------------------
(* Properties.                                                             *)

\* A body of the forms that collect_fv walks compiles, and captures the variables
\* that are free in it and no other: scopes that end, shadowing and names met
\* both as a local and as an outer variable included.
CapturesFree ==
    state # "unknown" /\ Walked(body) =>
        state = "compiled" /\ captures = Free(body, Params) \cap Vars

\* A call sees the variables as they were when the closure was made ("Closures
\* capture variables from the enclosing scope by value", docs/grammar.md:871).
CapturesByValue == call.want = call.got

=============================================================================
