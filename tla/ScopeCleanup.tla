---------------------------- MODULE ScopeCleanup ----------------------------
(***************************************************************************)
(* The clean-up code that src/src/codegen/codegen.cpp emits around scopes: *)
(* destructors, list and dict releases, string releases, `defer` blocks    *)
(* and __cxa_end_catch, on the five ways out of a scope (its end, return,  *)
(* break or continue, throw, delete).                                      *)
(*                                                                         *)
(* The model executes one activation of one Dux function.  The compiler's  *)
(* cleanup_scopes_, str_scopes_, loop_stack_ and lp_stack_ at the point    *)
(* that is executing are `scopes`: a stack whose entries hold the ids of   *)
(* what the statements of the scope registered, in order.  `todo` are the  *)
(* emitted cleanups not yet executed, whose order is Precedes, and `next`  *)
(* is where the emitted code goes after them.                              *)
(*                                                                         *)
(* Abstractions: the program's values are left out; the slot of a class    *)
(* instance, a list, a dict and a closure are one kind "slot", since all   *)
(* are released behind a null test that the release itself establishes.    *)
(* A destructor called by `delete` does not throw.                         *)
(***************************************************************************)
EXTENDS Integers, Sequences, SequencesExt, FiniteSetsExt

CONSTANTS
    MaxItems,    \* bound: cleanups registered in one activation
    MaxDepth,    \* bound: nested scopes
    MaxThrows    \* bound: exceptions raised in one activation

ASSUME ScopeAssumption ==
    /\ MaxItems \in Nat /\ MaxDepth \in Nat \ {0} /\ MaxThrows \in Nat

VARIABLES
    items,     \* items[i]: kind, slot contents and executions of the i-th cleanup
    scopes,    \* the stack of open scopes: [kind, regs], regs a sequence of ids
    control,   \* "running" | "cleaning" | "returned" | "unwound"
    todo,      \* ids of the emitted cleanups still to execute
    next,      \* where the clean-up sequence leads
    throws,    \* exceptions raised so far
    early,     \* ids cleaned by a jump that does not leave their scope, or by a
               \* clean-up that was itself interrupted by an exception (history)
    lost       \* ids of the blocks an exception left without cleanup (history)

vars == <<items, scopes, control, todo, next, throws, early, lost>>

MaxRan == 2    \* bound: executions of one cleanup are counted up to two

Kinds == {"slot", "str", "defer"}

Item(kind, slot) == [kind |-> kind, slot |-> slot, ran |-> 0]

Scope(kind) == [kind |-> kind, regs |-> <<>>]

Init ==
    /\ items = <<>>
    /\ scopes = <<Scope("fn")>>
    /\ control = "running"
    /\ todo = {}
    /\ next = "none"
    /\ throws = 0
    /\ early = {} /\ lost = {}

-----------------------------------------------------------------------------
(* What the compiler emits for the scopes that are open.                   *)

\* What the scopes of a stack have registered.
Registered(stack) == UNION { ToSet(stack[k].regs) : k \in DOMAIN stack }

\* Mutant: the cleanups of the innermost scope only.
AllPlanInnermost(stack) == ToSet(Last(stack).regs)

\* The cleanups of return, break, continue and the landing pads: those of every
\* scope of the function.
AllPlan(stack) == Registered(stack)

\* i was registered in a scope inside that of j.
Deeper(i, j) ==
    \E l, k \in DOMAIN scopes :
        l < k /\ i \in ToSet(scopes[k].regs) /\ j \in ToSet(scopes[l].regs)

IsStr(i) == items[i].kind = "str"

\* Mutant: scopes are walked in registration order.
PrecedesInOrder(i, j) == i < j

\* The emitted code cleans up i before j: the cleanups of all scopes come before any
\* string, and inner scopes first; env_pop and emit_all_scope_cleanups walk
\* a scope backwards, strings are released forwards.
Precedes(i, j) ==
    \/ ~IsStr(i) /\ IsStr(j)
    \/ /\ IsStr(i) <=> IsStr(j)
       /\ Deeper(i, j) \/ (~Deeper(j, i) /\ IF IsStr(i) THEN i < j ELSE j < i)

IsNext(i) == i \in todo /\ \A j \in todo \ {i} : Precedes(i, j)

Innermost(kind, stack) == Max({k \in DOMAIN stack : stack[k].kind = kind} \cup {0})

\* The landing pad that covers the code executing now.  gen_try_catch pops
\* lp_stack_ before it emits the env_pop of the try body, so the normal exit of
\* the body is covered by the next outer one.
LandingPad ==
    IF next = "leave" /\ Last(scopes).kind = "try"
    THEN Innermost("try", Front(scopes))
    ELSE Innermost("try", scopes)

Plan(ids, where) ==
    /\ control' = "cleaning"
    /\ todo' = ids
    /\ next' = where

-----------------------------------------------------------------------------
(* Statements.                                                             *)

\* A declaration or a defer statement: its cleanup joins the innermost scope.
Register(kind) ==
    /\ control = "running"
    /\ Len(items) < MaxItems
    /\ items' = Append(items, Item(kind, "live"))
    /\ scopes' = [scopes EXCEPT ![Len(scopes)].regs = Append(@, Len(items) + 1)]
    /\ UNCHANGED <<control, todo, next, throws, early, lost>>

\* A block, a loop body or a try body begins.
Enter(kind) ==
    /\ control = "running"
    /\ Len(scopes) < MaxDepth
    /\ scopes' = Append(scopes, Scope(kind))
    /\ UNCHANGED <<items, control, todo, next, throws, early, lost>>

\* The end of a scope is reached: env_pop.
Leave ==
    /\ control = "running"
    /\ Len(scopes) > 1
    /\ Plan(ToSet(Last(scopes).regs), "leave")
    /\ UNCHANGED <<items, scopes, throws, early, lost>>

Return ==
    /\ control = "running"
    /\ Plan(AllPlan(scopes), "return")
    /\ UNCHANGED <<items, scopes, throws, early, lost>>

\* break, and continue (which is a break followed by the next Enter("loop")).
Break ==
    /\ control = "running"
    /\ Innermost("loop", scopes) # 0
    /\ Plan(AllPlan(scopes), "break")
    /\ early' = early \cup Registered(SubSeq(scopes, 1, Innermost("loop", scopes) - 1))
    /\ UNCHANGED <<items, scopes, throws, lost>>

\* `delete x`: release now and store null, which makes the later cleanup a no-op.
Delete(i) ==
    /\ control = "running"
    /\ \E k \in DOMAIN scopes : i \in ToSet(scopes[k].regs)
    /\ items[i].kind \in {"slot", "str"} /\ items[i].slot = "live"
    /\ items' = [items EXCEPT ![i] = [@ EXCEPT !.slot = "null", !.ran = 1]]
    /\ UNCHANGED <<scopes, control, todo, next, throws, early, lost>>

\* An exception reaches this frame.  The landing pad of the innermost try was
\* emitted when the body of the try was complete: it holds everything that the
\* body registers at its own level, `later` included, which is registered by
\* statements the execution has not reached, and nothing of the blocks nested
\* in the body, whose scopes were popped by then.  Without a try in this
\* function the throw is a plain call and the frame has no landing pad at all.
\* `its` are the items as the interrupted statement or cleanup leaves them.
Raise(its, later) ==
    LET lp == LandingPad
        all == its \o [j \in 1..Len(later) |-> Item(later[j], "unset")]
        unreached == [j \in 1..Len(later) |-> Len(its) + j]
        stack == [SubSeq(scopes, 1, lp) EXCEPT ![lp].regs = @ \o unreached]
    IN  /\ throws < MaxThrows
        /\ throws' = throws + 1
        /\ IF lp = 0
           THEN /\ later = <<>>
                /\ items' = its
                /\ control' = "unwound"
                /\ UNCHANGED <<scopes, todo, next, early, lost>>
           ELSE /\ next = "catch" => later = <<>>
                /\ Len(all) <= MaxItems
                /\ items' = all
                /\ scopes' = stack
                /\ Plan(AllPlan(stack), "catch")
                /\ early' = early \cup IF control = "cleaning" THEN DOMAIN all
                                     ELSE Registered(SubSeq(scopes, 1, lp - 1))
                /\ lost' = lost \cup Registered(SubSeq(scopes, lp + 1, Len(scopes)))

\* What a try body may still register after the statement that throws.
LaterRegs == {<<>>} \cup { <<k>> : k \in Kinds }

Throw(later) ==
    /\ control = "running"
    /\ Raise(items, later)

-----------------------------------------------------------------------------
(* The emitted clean-up code executes.                                     *)

Counted(item) == [item EXCEPT !.ran = IF @ < MaxRan THEN @ + 1 ELSE @]

\* Mutant: emit_dtor frees and leaves the slot as it is.
CleanedKeepingSlot(item) ==
    IF item.slot = "null" THEN {item} ELSE {Counted(item)}

\* One cleanup completes.  emit_dtor and emit_rc_release test the slot for null
\* and store null; emit_str_release is given whatever the slot holds and the
\* slot keeps it.  A slot that was never stored holds anything.
Cleaned(item) ==
    IF item.kind \in {"defer", "end_catch"} THEN {Counted(item)}
    ELSE CASE item.slot = "null"  -> {item}
           [] item.slot = "unset" -> {item, Counted(item)}
           [] item.slot = "live"  -> {[Counted(item) EXCEPT
                                          !.slot = IF item.kind = "slot" THEN "null" ELSE @]}

CleanupStep ==
    /\ control = "cleaning"
    /\ \E i \in todo :
          /\ IsNext(i)
          /\ \E it \in Cleaned(items[i]) : items' = [items EXCEPT ![i] = it]
          /\ todo' = todo \ {i}
    /\ UNCHANGED <<scopes, control, next, throws, early, lost>>

\* A destructor throws before its object is freed and its slot nulled, or the
\* body of a defer throws.
CleanupThrows(later) ==
    /\ control = "cleaning"
    /\ \E i \in todo :
          /\ IsNext(i)
          /\ \/ /\ items[i].kind = "slot" /\ items[i].slot = "live"
                /\ Raise(items, later)
             \/ /\ items[i].kind = "defer"
                /\ Raise([items EXCEPT ![i] = Counted(@)], later)

Cleaning(where) == control = "cleaning" /\ todo = {} /\ next = where

Resume(stack) ==
    /\ control' = "running" /\ next' = "none"
    /\ scopes' = stack

Left ==
    /\ Cleaning("leave")
    /\ Resume(Front(scopes))
    /\ UNCHANGED <<items, todo, throws, early, lost>>

Returned ==
    /\ Cleaning("return")
    /\ control' = "returned"
    /\ UNCHANGED <<items, scopes, todo, next, throws, early, lost>>

Broken ==
    /\ Cleaning("break")
    /\ Resume(SubSeq(scopes, 1, Innermost("loop", scopes) - 1))
    /\ UNCHANGED <<items, todo, throws, early, lost>>

\* The landing pad's cleanups are done, the handler begins: its scope registers
\* __cxa_end_catch.
Caught ==
    /\ Cleaning("catch")
    /\ items' = Append(items, Item("end_catch", "live"))
    /\ Resume(Append(Front(scopes), [kind |-> "catch", regs |-> <<Len(items) + 1>>]))
    /\ UNCHANGED <<todo, throws, early, lost>>

\* catch (T e) and the exception is no T: __cxa_rethrow by a plain call, which
\* no landing pad of this function covers.
Mismatch ==
    /\ Cleaning("catch")
    /\ control' = "unwound"
    /\ scopes' = Front(scopes)
    /\ UNCHANGED <<items, todo, next, throws, early, lost>>

Next ==
    \/ \E kind \in Kinds : Register(kind)
    \/ \E kind \in {"block", "loop", "try"} : Enter(kind)
    \/ Leave \/ Return \/ Break
    \/ \E i \in DOMAIN items : Delete(i)
    \/ \E later \in LaterRegs : Throw(later) \/ CleanupThrows(later)
    \/ CleanupStep
    \/ Left \/ Returned \/ Broken \/ Caught \/ Mismatch

Spec == Init /\ [][Next]_vars /\ WF_vars(CleanupStep)

-----------------------------------------------------------------------------
(* Properties.                                                             *)

\* Type correctness.
TypeOK ==
    /\ \A i \in DOMAIN items :
          items[i] \in [kind : Kinds \cup {"end_catch"},
                        slot : {"live", "null", "unset"}, ran : 0..MaxRan]
    /\ \A k \in DOMAIN scopes :
          /\ scopes[k].kind \in {"fn", "block", "loop", "try", "catch"}
          /\ ToSet(scopes[k].regs) \subseteq DOMAIN items
    /\ control \in {"running", "cleaning", "returned", "unwound"}
    /\ todo \subseteq DOMAIN items
    /\ next \in {"none", "leave", "return", "break", "catch"}
    /\ throws \in 0..MaxThrows

\* emit_dtor, emit_rc_release and gen_delete: whatever ways out of its scopes a
\* function takes, re-entered landing pads and deletes included, the object in
\* a slot that was stored is freed at most once.
FreedOnce ==
    \A i \in DOMAIN items :
       items[i].kind = "slot" /\ items[i].slot # "unset" => items[i].ran <= 1

\* The cleanups the compiler handles as intended: registered by a statement that
\* was executed, and neither cleaned ahead of time nor abandoned.
Regular(i) == i \notin early \cup lost /\ items[i].slot # "unset"

\* gen_return, env_pop and the landing pads: when the function has returned,
\* every regular cleanup has run exactly once, whichever blocks, breaks and
\* caught exceptions the execution went through.
LeaveExact ==
    control = "returned" => \A i \in DOMAIN items : Regular(i) => items[i].ran = 1

\* env_pop and emit_all_scope_cleanups: the emitted code never runs a destructor,
\* list release or defer before the regular ones registered after it.
Lifo ==
    [][control = "cleaning" =>
         \A i, j \in DOMAIN items :
            /\ i < j
            /\ items'[i].ran > items[i].ran
            /\ items[i].kind # "str" /\ items[j].kind # "str"
            /\ Regular(j)
            => items[j].ran > 0]_vars

\* A defer block runs once for each time its statement was executed.  This does
\* not hold: break, continue and landing pads run the defers of every scope of
\* the function, and the end of those scopes runs them again.
DeferOnce ==
    \A i \in DOMAIN items : items[i].kind = "defer" => items[i].ran <= 1

\* Only what has been registered is cleaned up on the unwind path.  This does
\* not hold with MaxThrows > 0: see Raise.
OnlyReached == \A i \in DOMAIN items : items[i].slot = "unset" => items[i].ran = 0

\* A defer whose statement was executed has run by the end of the function "even if
\* a return or exception occurs" (docs/memory_model.md).  After an exception that was
\* caught one that was registered in a block of the try body has not: see Raise.
CaughtRunsDefers ==
    control = "returned" =>
       \A i \in DOMAIN items :
          items[i].kind = "defer" /\ items[i].slot # "unset" => items[i].ran > 0

\* The same when the exception leaves the function.  Where there is no try, there is
\* no landing pad.
UnwindRunsDefers ==
    control = "unwound" =>
       \A i \in DOMAIN items :
          items[i].kind = "defer" /\ items[i].slot # "unset" => items[i].ran > 0

\* A typed catch that does not match rethrows "so the exception propagates to the
\* next handler" (codegen.cpp:1887), which may be one of the same function.  It does
\* not: see Mismatch.
NextHandler ==
    [][Cleaning("catch") /\ control' = "unwound" => Innermost("try", scopes') = 0]_vars

=============================================================================
