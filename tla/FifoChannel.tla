---------------------------- MODULE FifoChannel -----------------------------
(***************************************************************************)
(* What both channels of the runtime promise: a FIFO of bounded or         *)
(* unbounded capacity that accepts values until it is closed and hands     *)
(* each accepted value out once, in order, closed or not.                  *)
(***************************************************************************)
EXTENDS Integers, Sequences

CONSTANTS
    Values,
    Cap         \* the capacity; 0 means unbounded

VARIABLES
    items,      \* what is in the channel, oldest first
    closed,
    received    \* what has been handed out, in order

chanVars == <<items, closed, received>>

Room == Cap = 0 \/ Len(items) < Cap

Init == items = <<>> /\ closed = FALSE /\ received = <<>>

Put(v) ==
    /\ ~closed
    /\ Room
    /\ items' = Append(items, v)
    /\ UNCHANGED <<closed, received>>

Take ==
    /\ items # <<>>
    /\ items' = Tail(items)
    /\ received' = Append(received, Head(items))
    /\ UNCHANGED closed

Close ==
    /\ closed' = TRUE
    /\ UNCHANGED <<items, received>>

Next == Take \/ Close \/ \E v \in Values : Put(v)

Spec == Init /\ [][Next]_chanVars
=============================================================================
