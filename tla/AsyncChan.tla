------------------------------ MODULE AsyncChan -----------------------------
(***************************************************************************)
(* The ring-buffer channel of src/src/runtime/achan_rt.c, blocking and     *)
(* non-blocking, as the AsyncChan class of src/stdlib/async/chan.dux uses  *)
(* it.  Unlike Chan it stores the values in cap slots: head is the next    *)
(* slot to write, tail the next to read, both modulo cap, and len tells a  *)
(* full ring from an empty one.  Critical sections are steps, as in Chan.  *)
(***************************************************************************)
EXTENDS Integers, Sequences, FiniteSets

CONSTANTS
    Threads,
    Values,     \* the values sent, each at most once
    NoVal,      \* the content of a slot never written (calloc)
    RequestedCap    \* the argument of duxrt_achan_new

AsyncChanAssumption ==
    /\ IsFiniteSet(Threads)
    /\ RequestedCap \in Int
    /\ NoVal \notin Values

VARIABLES
    buf,        \* AchanBuf.buf
    head, tail, len, closed,
    pc,         \* where each thread is
    arg,        \* the value a thread is sending
    accepted,   \* history: the values written, in order
    received    \* history: the values read, in order

vars == <<buf, head, tail, len, closed, pc, arg, accepted, received>>

\* duxrt_achan_new replaces a capacity that is not positive by 1.
Cap == IF RequestedCap <= 0 THEN 1 ELSE RequestedCap
Slots == 0 .. (Cap - 1)

SeqSet(s) == {s[i] : i \in DOMAIN s}
At(p) == {t \in Threads : pc[t] = p}

\* pc after a signal that wakes one thread of a wait set, if it has any.
Signal(from, wait, wake) ==
    IF \E t \in Threads : from[t] = wait
    THEN {[from EXCEPT ![t] = wake] : t \in {u \in Threads : from[u] = wait}}
    ELSE {from}

Init ==
    /\ buf = [s \in Slots |-> NoVal]
    /\ head = 0 /\ tail = 0 /\ len = 0
    /\ closed = FALSE
    /\ pc = [t \in Threads |-> "idle"]
    /\ arg = [t \in Threads |-> NoVal]
    /\ accepted = <<>>
    /\ received = <<>>

-----------------------------------------------------------------------------
(* The ring *)

\* Mutant: the index is not wrapped to the first slot.
WriteSlotNoWrap(v) ==
    /\ buf' = [buf EXCEPT ![head] = v]
    /\ head' = IF head + 1 < Cap THEN head + 1 ELSE head
    /\ len' = len + 1
    /\ accepted' = Append(accepted, v)
    /\ UNCHANGED <<tail, received>>

WriteSlot(v) ==
    /\ buf' = [buf EXCEPT ![head] = v]
    /\ head' = (head + 1) % Cap
    /\ len' = len + 1
    /\ accepted' = Append(accepted, v)
    /\ UNCHANGED <<tail, received>>

ReadSlot ==
    /\ received' = Append(received, buf[tail])
    /\ tail' = (tail + 1) % Cap
    /\ len' = len - 1
    /\ UNCHANGED <<buf, head, accepted>>

\* What a sender and a receiver may do now; they wait on the same conditions.
CanWrite == ~closed /\ len < Cap
CanRead == len > 0

-----------------------------------------------------------------------------
(* duxrt_achan_send and duxrt_achan_try_send *)

SendCall(t, v) ==
    /\ pc[t] = "idle"
    /\ v \notin SeqSet(accepted)
    /\ \A u \in Threads : arg[u] # v
    /\ pc' = [pc EXCEPT ![t] = "send"]
    /\ arg' = [arg EXCEPT ![t] = v]
    /\ UNCHANGED <<buf, head, tail, len, closed, accepted, received>>

SendWait(t) ==
    /\ pc[t] = "send"
    /\ ~closed /\ len >= Cap
    /\ pc' = [pc EXCEPT ![t] = "sendwait"]
    /\ UNCHANGED <<buf, head, tail, len, closed, arg, accepted, received>>

SendClosed(t) ==
    /\ pc[t] = "send"
    /\ closed
    /\ pc' = [pc EXCEPT ![t] = "idle"]
    /\ arg' = [arg EXCEPT ![t] = NoVal]
    /\ UNCHANGED <<buf, head, tail, len, closed, accepted, received>>

SendPut(t) ==
    /\ pc[t] = "send"
    /\ CanWrite
    /\ WriteSlot(arg[t])
    /\ arg' = [arg EXCEPT ![t] = NoVal]
    /\ pc' \in Signal([pc EXCEPT ![t] = "idle"], "recvwait", "recv")
    /\ UNCHANGED closed

\* try_send that returns 1; when it returns 0 nothing changes.
TrySend(t, v) ==
    /\ pc[t] = "idle"
    /\ v \notin SeqSet(accepted)
    /\ \A u \in Threads : arg[u] # v
    /\ CanWrite
    /\ WriteSlot(v)
    /\ pc' \in Signal(pc, "recvwait", "recv")
    /\ UNCHANGED <<closed, arg>>

-----------------------------------------------------------------------------
(* duxrt_achan_recv and duxrt_achan_try_recv *)

RecvCall(t) ==
    /\ pc[t] = "idle"
    /\ pc' = [pc EXCEPT ![t] = "recv"]
    /\ UNCHANGED <<buf, head, tail, len, closed, arg, accepted, received>>

RecvWait(t) ==
    /\ pc[t] = "recv"
    /\ ~CanRead /\ ~closed
    /\ pc' = [pc EXCEPT ![t] = "recvwait"]
    /\ UNCHANGED <<buf, head, tail, len, closed, arg, accepted, received>>

RecvNull(t) ==
    /\ pc[t] = "recv"
    /\ ~CanRead /\ closed
    /\ pc' = [pc EXCEPT ![t] = "idle"]
    /\ UNCHANGED <<buf, head, tail, len, closed, arg, accepted, received>>

RecvItem(t) ==
    /\ pc[t] = "recv"
    /\ CanRead
    /\ ReadSlot
    /\ pc' \in Signal([pc EXCEPT ![t] = "idle"], "sendwait", "send")
    /\ UNCHANGED <<closed, arg>>

\* Mutant: try_recv wakes no sender.
TryRecvSilent(t) ==
    /\ pc[t] = "idle"
    /\ CanRead
    /\ ReadSlot
    /\ UNCHANGED <<closed, pc, arg>>

\* try_recv that returns an item; it returns NULL on an empty ring, open or not.
TryRecv(t) ==
    /\ pc[t] = "idle"
    /\ CanRead
    /\ ReadSlot
    /\ pc' \in Signal(pc, "sendwait", "send")
    /\ UNCHANGED <<closed, arg>>

-----------------------------------------------------------------------------
(* duxrt_achan_close *)

Close ==
    /\ closed' = TRUE
    /\ pc' = [t \in Threads |->
                CASE pc[t] = "recvwait" -> "recv"
                  [] pc[t] = "sendwait" -> "send"
                  [] OTHER -> pc[t]]
    /\ UNCHANGED <<buf, head, tail, len, arg, accepted, received>>

Spurious(t) ==
    /\ pc[t] \in {"recvwait", "sendwait"}
    /\ pc' = [pc EXCEPT ![t] = IF @ = "recvwait" THEN "recv" ELSE "send"]
    /\ UNCHANGED <<buf, head, tail, len, closed, arg, accepted, received>>

-----------------------------------------------------------------------------
InCall(t) ==
    \/ SendWait(t)
    \/ SendClosed(t)
    \/ SendPut(t)
    \/ RecvWait(t)
    \/ RecvNull(t)
    \/ RecvItem(t)

Next ==
    \/ Close
    \/ \E t \in Threads :
          \/ InCall(t)
          \/ Spurious(t)
          \/ RecvCall(t)
          \/ TryRecv(t)
          \/ \E v \in Values : SendCall(t, v) \/ TrySend(t, v)

Spec == Init /\ [][Next]_vars

-----------------------------------------------------------------------------
(* Properties *)

TypeOK ==
    /\ buf \in [Slots -> Values \cup {NoVal}]
    /\ head \in Slots /\ tail \in Slots /\ len \in 0 .. Cap
    /\ closed \in BOOLEAN
    /\ pc \in [Threads -> {"idle", "send", "sendwait", "recv", "recvwait"}]
    /\ arg \in [Threads -> Values \cup {NoVal}]
    /\ accepted \in Seq(Values)
    /\ received \in Seq(Values)

\* The values in the ring, oldest first.
items == [i \in 1 .. len |-> buf[(tail + i - 1) % Cap]]

\* A sleeper has an awake competitor for everything it could take: mixing
\* try_send and try_recv with send and recv strands nobody.
NobodyStranded ==
    ~closed =>
        /\ At("sendwait") # {} => Cap - len <= Cardinality(At("send"))
        /\ At("recvwait") # {} => len <= Cardinality(At("recv"))

\* The ring implements the abstract FIFO of capacity Cap: no unread slot is
\* overwritten and no stale one is read across every wrap of head and tail.
Abstract == INSTANCE FifoChannel
Implements == Abstract!Spec
=============================================================================
