-------------------------------- MODULE Chan --------------------------------
(***************************************************************************)
(* The blocking channel of src/src/runtime/thread_rt.c, a linked list      *)
(* under one mutex with two condition variables, as the Chan class of      *)
(* src/stdlib/thread/chan.dux uses it.                                     *)
(*                                                                         *)
(* Every critical section is one step.  A thread that finds the channel    *)
(* full or empty joins a wait set (pc "sendwait", "recvwait"); a signal, a *)
(* broadcast or a spurious wakeup makes it re-evaluate the while condition *)
(* (pc "send", "recv").                                                    *)
(***************************************************************************)
EXTENDS Integers, Sequences, FiniteSets

CONSTANTS
    Threads,    \* the threads that share the channel
    Values,     \* the values sent, each at most once
    NoVal,
    Cap,        \* DuxChan.cap: 0 is unbounded
    HasOut      \* the caller of try_recv passes an out pointer (chan.dux does not)

ChanAssumption ==
    /\ IsFiniteSet(Threads) /\ Cap \in Nat /\ NoVal \notin Values /\ HasOut \in BOOLEAN

VARIABLES
    items,      \* the list head..tail; its length is DuxChan.len
    closed,     \* DuxChan.closed
    pc,         \* where each thread is
    arg,        \* the value a thread is sending
    accepted,   \* history: the values put on the list, in order
    received    \* history: the values handed to a caller, in order

vars == <<items, closed, pc, arg, accepted, received>>

SeqSet(s) == {s[i] : i \in DOMAIN s}
At(p) == {t \in Threads : pc[t] = p}

\* pc after a signal that wakes one thread of a wait set, if it has any.
\* from is where the calling thread's own step leaves everyone.
Signal(from, wait, wake) ==
    IF \E t \in Threads : from[t] = wait
    THEN {[from EXCEPT ![t] = wake] : t \in {u \in Threads : from[u] = wait}}
    ELSE {from}

Init ==
    /\ items = <<>>
    /\ closed = FALSE
    /\ pc = [t \in Threads |-> "idle"]
    /\ arg = [t \in Threads |-> NoVal]
    /\ accepted = <<>>
    /\ received = <<>>

-----------------------------------------------------------------------------
(* duxrt_chan_send *)

Full == Cap > 0 /\ Len(items) >= Cap

\* Each value is sent once: values stand for the distinct calls of send.
SendCall(t, v) ==
    /\ pc[t] = "idle"
    /\ v \notin SeqSet(accepted)
    /\ \A u \in Threads : arg[u] # v
    /\ pc' = [pc EXCEPT ![t] = "send"]
    /\ arg' = [arg EXCEPT ![t] = v]
    /\ UNCHANGED <<items, closed, accepted, received>>

SendWait(t) ==
    /\ pc[t] = "send"
    /\ Full /\ ~closed
    /\ pc' = [pc EXCEPT ![t] = "sendwait"]
    /\ UNCHANGED <<items, closed, arg, accepted, received>>

\* The channel is closed: the value is dropped.
SendClosed(t) ==
    /\ pc[t] = "send"
    /\ closed
    /\ pc' = [pc EXCEPT ![t] = "idle"]
    /\ arg' = [arg EXCEPT ![t] = NoVal]
    /\ UNCHANGED <<items, closed, accepted, received>>

\* Mutants: closed is not tested after the wait; not_empty is signalled only when
\* the list was empty.
SendPutClosed(t) ==
    /\ pc[t] = "send"
    /\ ~Full
    /\ items' = Append(items, arg[t])
    /\ accepted' = Append(accepted, arg[t])
    /\ arg' = [arg EXCEPT ![t] = NoVal]
    /\ pc' \in Signal([pc EXCEPT ![t] = "idle"], "recvwait", "recv")
    /\ UNCHANGED <<closed, received>>
SendPutLazySignal(t) ==
    /\ pc[t] = "send"
    /\ ~Full /\ ~closed
    /\ items' = Append(items, arg[t])
    /\ accepted' = Append(accepted, arg[t])
    /\ arg' = [arg EXCEPT ![t] = NoVal]
    /\ IF items = <<>>
       THEN pc' \in Signal([pc EXCEPT ![t] = "idle"], "recvwait", "recv")
       ELSE pc' = [pc EXCEPT ![t] = "idle"]
    /\ UNCHANGED <<closed, received>>

\* There is room: append, signal one receiver.
SendPut(t) ==
    /\ pc[t] = "send"
    /\ ~Full /\ ~closed
    /\ items' = Append(items, arg[t])
    /\ accepted' = Append(accepted, arg[t])
    /\ arg' = [arg EXCEPT ![t] = NoVal]
    /\ pc' \in Signal([pc EXCEPT ![t] = "idle"], "recvwait", "recv")
    /\ UNCHANGED <<closed, received>>

-----------------------------------------------------------------------------
(* duxrt_chan_recv and duxrt_chan_try_recv *)

RecvCall(t) ==
    /\ pc[t] = "idle"
    /\ pc' = [pc EXCEPT ![t] = "recv"]
    /\ UNCHANGED <<items, closed, arg, accepted, received>>

RecvWait(t) ==
    /\ pc[t] = "recv"
    /\ items = <<>> /\ ~closed
    /\ pc' = [pc EXCEPT ![t] = "recvwait"]
    /\ UNCHANGED <<items, closed, arg, accepted, received>>

\* Closed and drained: NULL.
RecvNull(t) ==
    /\ pc[t] = "recv"
    /\ items = <<>> /\ closed
    /\ pc' = [pc EXCEPT ![t] = "idle"]
    /\ UNCHANGED <<items, closed, arg, accepted, received>>

\* Pop the head, signal one sender.
RecvItem(t) ==
    /\ pc[t] = "recv"
    /\ items # <<>>
    /\ items' = Tail(items)
    /\ received' = Append(received, Head(items))
    /\ pc' \in Signal([pc EXCEPT ![t] = "idle"], "sendwait", "send")
    /\ UNCHANGED <<closed, arg, accepted>>

\* duxrt_chan_try_recv with an item: it is popped; without an out pointer its
\* value reaches nobody.
TryRecvItem(t) ==
    /\ pc[t] = "idle"
    /\ items # <<>>
    /\ items' = Tail(items)
    /\ received' = IF HasOut THEN Append(received, Head(items)) ELSE received
    /\ pc' \in Signal(pc, "sendwait", "send")
    /\ UNCHANGED <<closed, arg, accepted>>

-----------------------------------------------------------------------------
(* duxrt_chan_close *)

\* Mutant: only the receivers are woken.
CloseWakesReceivers ==
    /\ closed' = TRUE
    /\ pc' = [t \in Threads |-> IF pc[t] = "recvwait" THEN "recv" ELSE pc[t]]
    /\ UNCHANGED <<items, arg, accepted, received>>

Close ==
    /\ closed' = TRUE
    /\ pc' = [t \in Threads |->
                CASE pc[t] = "recvwait" -> "recv"
                  [] pc[t] = "sendwait" -> "send"
                  [] OTHER -> pc[t]]
    /\ UNCHANGED <<items, arg, accepted, received>>

\* POSIX lets pthread_cond_wait return without a signal.
Spurious(t) ==
    /\ pc[t] \in {"recvwait", "sendwait"}
    /\ pc' = [pc EXCEPT ![t] = IF @ = "recvwait" THEN "recv" ELSE "send"]
    /\ UNCHANGED <<items, closed, arg, accepted, received>>

-----------------------------------------------------------------------------
InCall(t) ==
    \/ SendWait(t)
    \/ SendClosed(t)
    \/ SendPut(t)
    \/ RecvWait(t)
    \/ RecvNull(t)
    \/ RecvItem(t)

Next ==
    \/ Close
    \/ \E t \in Threads :
          \/ InCall(t)
          \/ Spurious(t)
          \/ RecvCall(t)
          \/ TryRecvItem(t)
          \/ \E v \in Values : SendCall(t, v)

Spec == Init /\ [][Next]_vars

\* A thread inside a call that can take a step takes it; calls are free.
FairSpec == Spec /\ \A t \in Threads : WF_vars(InCall(t))

-----------------------------------------------------------------------------
(* Properties *)

TypeOK ==
    /\ items \in Seq(Values)
    /\ closed \in BOOLEAN
    /\ pc \in [Threads -> {"idle", "send", "sendwait", "recv", "recvwait"}]
    /\ arg \in [Threads -> Values \cup {NoVal}]
    /\ accepted \in Seq(Values)
    /\ received \in Seq(Values)

\* Every accepted value is handed out once, in the order of the sends, or is
\* still on the list ("a thread-safe FIFO channel for passing values between
\* threads", chan.dux:12).
NothingLost == accepted = received \o items

\* Nobody sleeps on an open channel without reason: every free slot has an awake
\* sender coming for it and every item an awake receiver.  One signal per send,
\* recv and try_recv is enough, whoever competes for the slot or the item.
NobodyStranded ==
    ~closed =>
        /\ At("sendwait") # {} => Cap - Len(items) <= Cardinality(At("send"))
        /\ At("recvwait") # {} => Len(items) <= Cardinality(At("recv"))

\* A close releases everyone who is inside a call.
CloseReleases ==
    \A t \in Threads : (closed /\ pc[t] # "idle") ~> (pc[t] = "idle")

\* The channel implements the abstract FIFO: capacity, order and the rule that a
\* closed channel takes nothing and still hands out what it holds, under every
\* interleaving of senders, receivers and a close.
Abstract == INSTANCE FifoChannel
Implements == Abstract!Spec
=============================================================================
