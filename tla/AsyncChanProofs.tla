-------------------------- MODULE AsyncChanProofs ---------------------------
(***************************************************************************)
(* Safety of the ring channel for any set of threads, any values and any   *)
(* requested capacity.  What a signal does to the counts of waiting and    *)
(* awake threads is proved in ChanProofs, for both channels.               *)
(***************************************************************************)
EXTENDS AsyncChan, TLAPS

L == INSTANCE ChanProofs WITH HasOut <- TRUE

-----------------------------------------------------------------------------
(* Arithmetic of the ring                                                  *)

\* duxrt_achan_new leaves no ring without a slot.
LEMMA CapPositive == ASSUME AsyncChanAssumption PROVE Cap \in Nat \ {0}
BY DEF AsyncChanAssumption, Cap

\* An index less than twice the capacity wraps at most once.
LEMMA Wraps ==
    ASSUME NEW n \in Int, NEW a \in Int, 0 < n, 0 <= a, a < 2 * n
    PROVE  a % n = IF a < n THEN a ELSE a - n
<1>1. CASE a < n
  BY <1>1
<1>2. CASE a >= n
  BY <1>2
<1>. QED
  BY <1>1, <1>2

\* So a % Cap for the indices the ring uses.
Wrap(a) == IF a < Cap THEN a ELSE a - Cap

-----------------------------------------------------------------------------
(* The ring holds what it should                                           *)

\* The threads' own state: a thread inside send has a value.
CallsOK ==
    /\ closed \in BOOLEAN
    /\ pc \in [Threads -> L!PCs]
    /\ arg \in [Threads -> Values \cup {NoVal}]
    /\ \A t \in Threads : pc[t] \in {"send", "sendwait"} => arg[t] \in Values

\* Head is len slots past tail, and the slots in between have been written.
RingInv ==
    /\ TypeOK
    /\ CallsOK
    /\ head = Wrap(tail + len)
    /\ \A i \in 0 .. len - 1 : buf[Wrap(tail + i)] \in Values

\* The ring starts empty.
LEMMA RingInit == ASSUME AsyncChanAssumption, Init PROVE RingInv
<1>1. Cap \in Nat \ {0}
  BY CapPositive
<1>2. accepted \in Seq(Values) /\ received \in Seq(Values)
  BY DEF Init
<1>. QED
  BY <1>1, <1>2 DEF Init, RingInv, CallsOK, TypeOK, Slots, Wrap, L!PCs

\* Writing a value keeps the ring in order and touches no unread slot.
LEMMA WriteKeeps ==
    ASSUME AsyncChanAssumption, RingInv, NEW v \in Values, WriteSlot(v), len < Cap
    PROVE  /\ buf' \in [Slots -> Values \cup {NoVal}]
           /\ head' \in Slots /\ tail' \in Slots /\ len' \in 0 .. Cap
           /\ accepted' \in Seq(Values) /\ received' \in Seq(Values)
           /\ head' = Wrap(tail' + len')
           /\ \A i \in 0 .. len - 1 : buf'[Wrap(tail + i)] = buf[Wrap(tail + i)]
           /\ buf'[Wrap(tail + len)] = v
           /\ \A i \in 0 .. len' - 1 : buf'[Wrap(tail' + i)] \in Values
<1>1. /\ Cap \in Nat \ {0} /\ tail \in 0 .. Cap - 1 /\ len \in 0 .. Cap - 1
      /\ head = Wrap(tail + len) /\ head \in 0 .. Cap - 1
  BY CapPositive DEF RingInv, TypeOK, Slots
<1>2. /\ buf \in [Slots -> Values \cup {NoVal}]
      /\ accepted \in Seq(Values) /\ received \in Seq(Values)
      /\ \A i \in 0 .. len - 1 : buf[Wrap(tail + i)] \in Values
  BY DEF RingInv, TypeOK
<1>3. /\ buf' = [buf EXCEPT ![head] = v] /\ head' = (head + 1) % Cap /\ len' = len + 1
      /\ accepted' = Append(accepted, v) /\ tail' = tail /\ received' = received
  BY DEF WriteSlot
<1>4. (head + 1) % Cap = Wrap(head + 1)
  BY <1>1, Wraps DEF Wrap
<1>5. head' \in 0 .. Cap - 1 /\ head' = Wrap(tail' + len')
  <2>1. Wrap(head + 1) \in 0 .. Cap - 1 /\ Wrap(head + 1) = Wrap(tail + (len + 1))
    BY <1>1 DEF Wrap
  <2>. QED BY <1>3, <1>4, <2>1
<1>6. ASSUME NEW i \in 0 .. len - 1
      PROVE  Wrap(tail + i) \in Slots /\ Wrap(tail + i) # head
  BY <1>1 DEF Wrap, Slots
<1>7. \A i \in 0 .. len - 1 : buf'[Wrap(tail + i)] = buf[Wrap(tail + i)]
  BY <1>2, <1>3, <1>6
<1>8. buf'[head] = v
  BY <1>1, <1>2, <1>3 DEF Slots
<1>9. buf' \in [Slots -> Values \cup {NoVal}] /\ accepted' \in Seq(Values)
  <2>1. buf' \in [Slots -> Values \cup {NoVal}]
    BY <1>2, <1>3
  <2>2. accepted' \in Seq(Values)
    BY <1>2, <1>3
  <2>. QED BY <2>1, <2>2
<1>10. ASSUME NEW i \in 0 .. len
       PROVE  buf'[Wrap(tail + i)] \in Values
  <2>1. CASE i = len
    <3>1. Wrap(tail + i) = head
      BY <1>1, <2>1
    <3>. QED BY <1>8, <3>1
  <2>2. CASE i # len
    <3>1. i \in 0 .. len - 1
      BY <1>1, <2>2
    <3>. QED BY <1>2, <1>7, <3>1
  <2>. QED BY <2>1, <2>2
<1>11. len' - 1 = len /\ len' \in 0 .. Cap
  BY <1>1, <1>3
<1>. QED
  BY <1>1, <1>2, <1>3, <1>5, <1>7, <1>8, <1>9, <1>10, <1>11 DEF Slots

\* Reading the oldest value keeps the ring in order.
LEMMA ReadKeeps ==
    ASSUME AsyncChanAssumption, RingInv, ReadSlot, CanRead
    PROVE  /\ buf' \in [Slots -> Values \cup {NoVal}]
           /\ head' \in Slots /\ tail' \in Slots /\ len' \in 0 .. Cap
           /\ accepted' \in Seq(Values) /\ received' \in Seq(Values)
           /\ head' = Wrap(tail' + len')
           /\ \A i \in 0 .. len' - 1 : /\ Wrap(tail' + i) = Wrap(tail + i + 1)
                                       /\ buf'[Wrap(tail' + i)] \in Values
<1>1. /\ Cap \in Nat \ {0} /\ tail \in 0 .. Cap - 1 /\ len \in 1 .. Cap
      /\ head = Wrap(tail + len) /\ head \in 0 .. Cap - 1
  BY CapPositive DEF RingInv, TypeOK, Slots, CanRead
<1>2. /\ received' = Append(received, buf[tail]) /\ tail' = (tail + 1) % Cap
      /\ len' = len - 1 /\ buf' = buf /\ head' = head /\ accepted' = accepted
  BY DEF ReadSlot
<1>3. /\ buf \in [Slots -> Values \cup {NoVal}]
      /\ accepted \in Seq(Values) /\ received \in Seq(Values)
      /\ \A i \in 0 .. len - 1 : buf[Wrap(tail + i)] \in Values
  BY DEF RingInv, TypeOK
<1>4. (tail + 1) % Cap = Wrap(tail + 1)
  BY <1>1, Wraps DEF Wrap
<1>5. buf[tail] \in Values
  <2>1. 0 \in 0 .. len - 1 /\ Wrap(tail + 0) = tail
    BY <1>1 DEF Wrap
  <2>. QED BY <1>3, <2>1
<1>6. tail' \in 0 .. Cap - 1 /\ len' \in 0 .. Cap /\ head' = Wrap(tail' + len')
  BY <1>1, <1>2, <1>4 DEF Wrap
<1>7. ASSUME NEW i \in 0 .. len' - 1
      PROVE  /\ Wrap(tail' + i) = Wrap(tail + i + 1)
             /\ buf'[Wrap(tail' + i)] \in Values
  <2>1. Wrap(tail' + i) = Wrap(tail + (i + 1)) /\ i + 1 \in 0 .. len - 1
    BY <1>1, <1>2, <1>4 DEF Wrap
  <2>2. buf[Wrap(tail + (i + 1))] \in Values
    BY <1>3, <2>1
  <2>3. tail + (i + 1) = tail + i + 1
    BY <1>1
  <2>. QED BY <1>2, <2>1, <2>2, <2>3
<1>8. received' \in Seq(Values)
  BY <1>3, <1>2, <1>5
<1>. QED
  BY <1>1, <1>2, <1>3, <1>6, <1>7, <1>8 DEF Slots

\* A step of the ring channel keeps the ring in order.
LEMMA RingStep ==
    ASSUME AsyncChanAssumption, RingInv, [Next]_vars
    PROVE  RingInv'
<1>1. /\ TypeOK /\ CallsOK
      /\ head = Wrap(tail + len)
      /\ \A i \in 0 .. len - 1 : buf[Wrap(tail + i)] \in Values
  BY DEF RingInv
<1>2. ASSUME UNCHANGED <<buf, head, tail, len, accepted, received>>, CallsOK'
      PROVE  RingInv'
  BY <1>1, <1>2 DEF RingInv, CallsOK, TypeOK, Slots, Wrap, L!PCs
<1>3. ASSUME NEW t \in Threads, NEW v \in Values, SendCall(t, v) PROVE RingInv'
  BY <1>1, <1>2, <1>3 DEF SendCall, CallsOK, L!PCs
<1>4. ASSUME NEW t \in Threads,
             \/ SendWait(t) \/ SendClosed(t)
             \/ RecvCall(t) \/ RecvWait(t) \/ RecvNull(t)
             \/ Spurious(t)
      PROVE  RingInv'
  BY <1>1, <1>2, <1>4 DEF SendWait, SendClosed, RecvCall, RecvWait, RecvNull, Spurious,
                          CallsOK, L!PCs
<1>5. ASSUME Close PROVE RingInv'
  BY <1>1, <1>2, <1>5 DEF Close, CallsOK, L!PCs
<1>6. ASSUME UNCHANGED vars PROVE RingInv'
  BY <1>1, <1>2, <1>6 DEF vars, CallsOK, L!PCs
<1>7. ASSUME NEW v \in Values, WriteSlot(v), len < Cap, CallsOK' PROVE RingInv'
  BY <1>7, WriteKeeps DEF RingInv, CallsOK, TypeOK, L!PCs
<1>8. ASSUME NEW t \in Threads, SendPut(t) PROVE RingInv'
  <2>1. CallsOK'
    BY <1>1, <1>8 DEF SendPut, Signal, CallsOK, L!PCs
  <2>. QED BY <1>1, <1>7, <1>8, <2>1 DEF SendPut, CanWrite, CallsOK
<1>9. ASSUME NEW t \in Threads, NEW v \in Values, TrySend(t, v) PROVE RingInv'
  <2>1. CallsOK'
    BY <1>1, <1>9 DEF TrySend, Signal, CallsOK, L!PCs
  <2>. QED BY <1>7, <1>9, <2>1 DEF TrySend, CanWrite
<1>10. ASSUME NEW t \in Threads, RecvItem(t) \/ TryRecv(t) PROVE RingInv'
  <2>1. ReadSlot /\ CanRead
    BY <1>10 DEF RecvItem, TryRecv
  <2>2. CallsOK'
    BY <1>1, <1>10 DEF RecvItem, TryRecv, Signal, CallsOK, L!PCs
  <2>. QED BY <2>1, <2>2, ReadKeeps DEF RingInv, CallsOK, TypeOK, L!PCs
<1>. QED
  BY <1>3, <1>4, <1>5, <1>6, <1>8, <1>9, <1>10 DEF Next, InCall

\* Every variable of the ring channel keeps its type: head and tail are slots,
\* len is at most the capacity.
THEOREM RingTypeCorrect == ASSUME AsyncChanAssumption PROVE Spec => []TypeOK
<1>1. Init => RingInv
  BY RingInit
<1>2. RingInv /\ [Next]_vars => RingInv'
  BY RingStep
<1>3. RingInv => TypeOK
  BY DEF RingInv
<1>. QED
  BY <1>1, <1>2, <1>3, PTL DEF Spec

-----------------------------------------------------------------------------
(* Nobody sleeps while there is something for him to do                    *)

\* The two modules mean the same by finite, and signal in the same way.
LEMMA SameFinite == ASSUME NEW S, IsFiniteSet(S) PROVE L!IsFiniteSet(S)
BY DEF IsFiniteSet, L!IsFiniteSet

\* A signal of the ring is a signal of the list.
LEMMA SameSignal ==
    ASSUME NEW f, NEW wait, NEW wake
    PROVE  Signal(f, wait, wake) = L!Signal(f, wait, wake)
BY DEF Signal, L!Signal

\* A sender that leaves with a value on the ring has woken a receiver for it.
LEMMA PutAwake ==
    ASSUME AsyncChanAssumption, CallsOK, L!Awake(pc, len), len \in Nat,
           NEW f \in [Threads -> L!PCs], pc' \in Signal(f, "recvwait", "recv"),
           L!Count(f, "send") >= L!Count(pc, "send") - 1,
           \A u \in Threads : f[u] = pc[u] \/ (pc[u] = "send" /\ f[u] = "idle")
    PROVE  L!Awake(pc', len + 1)
<1>1. L!IsFiniteSet(Threads) /\ Cap \in Nat
  BY CapPositive, SameFinite DEF AsyncChanAssumption
<1>2. pc \in [Threads -> L!PCs]
  BY DEF CallsOK
<1>3. pc' \in L!Signal(f, "recvwait", "recv")
  BY SameSignal
<1>4. /\ L!Count(pc', "send") = L!Count(f, "send")
      /\ \A u \in Threads : pc'[u] = f[u] \/ (f[u] = "recvwait" /\ pc'[u] = "recv")
      /\ (\E u \in Threads : f[u] = "recvwait") =>
            L!Count(pc', "recv") = L!Count(f, "recv") + 1
  <2>1. {"send", "sendwait", "recv", "recvwait"} \subseteq L!PCs
    BY DEF L!PCs
  <2>. QED BY <1>1, <1>3, <2>1, L!SignalCount
<1>5. \A u \in Threads : /\ f[u] = "recv" <=> pc[u] = "recv"
                         /\ f[u] = "recvwait" <=> pc[u] = "recvwait"
                         /\ pc'[u] = "sendwait" => pc[u] = "sendwait"
                         /\ pc'[u] = "recvwait" => pc[u] = "recvwait"
  BY <1>4
<1>6. L!Count(f, "recv") = L!Count(pc, "recv")
  BY <1>5, L!CountStay
<1>7. \A p \in L!PCs : L!Count(pc, p) \in Nat /\ L!Count(pc', p) \in Nat
  BY <1>1, L!CountNat
<1>. QED
  BY <1>1, <1>4, <1>5, <1>6, <1>7 DEF L!Awake, L!PCs

\* A receiver that leaves a slot free has woken a sender for it.
LEMMA TakeAwake ==
    ASSUME AsyncChanAssumption, CallsOK, L!Awake(pc, len), len \in Nat, len > 0,
           NEW f \in [Threads -> L!PCs], pc' \in Signal(f, "sendwait", "send"),
           L!Count(f, "recv") >= L!Count(pc, "recv") - 1,
           \A u \in Threads : f[u] = pc[u] \/ (pc[u] = "recv" /\ f[u] = "idle")
    PROVE  L!Awake(pc', len - 1)
<1>1. L!IsFiniteSet(Threads) /\ Cap \in Nat
  BY CapPositive, SameFinite DEF AsyncChanAssumption
<1>2. pc \in [Threads -> L!PCs]
  BY DEF CallsOK
<1>3. pc' \in L!Signal(f, "sendwait", "send")
  BY SameSignal
<1>4. /\ L!Count(pc', "recv") = L!Count(f, "recv")
      /\ \A u \in Threads : pc'[u] = f[u] \/ (f[u] = "sendwait" /\ pc'[u] = "send")
      /\ (\E u \in Threads : f[u] = "sendwait") =>
            L!Count(pc', "send") = L!Count(f, "send") + 1
  <2>1. {"send", "sendwait", "recv", "recvwait"} \subseteq L!PCs
    BY DEF L!PCs
  <2>. QED BY <1>1, <1>3, <2>1, L!SignalCount
<1>5. \A u \in Threads : /\ f[u] = "send" <=> pc[u] = "send"
                         /\ f[u] = "sendwait" <=> pc[u] = "sendwait"
                         /\ pc'[u] = "sendwait" => pc[u] = "sendwait"
                         /\ pc'[u] = "recvwait" => pc[u] = "recvwait"
  BY <1>4
<1>6. L!Count(f, "send") = L!Count(pc, "send")
  BY <1>5, L!CountStay
<1>7. \A p \in L!PCs : L!Count(pc, p) \in Nat /\ L!Count(pc', p) \in Nat
  BY <1>1, L!CountNat
<1>. QED
  BY <1>1, <1>4, <1>5, <1>6, <1>7 DEF L!Awake, L!PCs

\* A step keeps an awake sender per free slot and an awake receiver per value.
LEMMA RingAwakeStep ==
    ASSUME AsyncChanAssumption, RingInv, L!Awake(pc, len), ~closed', [Next]_vars
    PROVE  L!Awake(pc', len')
<1>1. L!IsFiniteSet(Threads) /\ Cap \in Nat
  BY CapPositive, SameFinite DEF AsyncChanAssumption
<1>2. RingInv'
  BY RingStep
<1>3. /\ len \in Nat /\ pc \in [Threads -> L!PCs] /\ CallsOK
      /\ len' \in Nat /\ pc' \in [Threads -> L!PCs]
  BY <1>1, <1>2 DEF RingInv, TypeOK, CallsOK
<1>4. \A p \in L!PCs : L!Count(pc, p) \in Nat /\ L!Count(pc', p) \in Nat
  BY <1>1, L!CountNat
<1>5. ASSUME NEW t \in Threads,
             (\E v \in Values : SendCall(t, v)) \/ RecvCall(t) \/ Spurious(t)
      PROVE  L!Awake(pc', len')
  <2>1. /\ pc[t] \notin {"send", "recv"} /\ pc'[t] \notin {"sendwait", "recvwait"}
        /\ \A u \in Threads \ {t} : pc'[u] = pc[u]
        /\ len' = len
    BY <1>3, <1>5 DEF SendCall, RecvCall, Spurious
  <2>. QED BY <1>1, <1>3, <2>1, L!AwakeMore
<1>6. ASSUME NEW t \in Threads, SendWait(t)
      PROVE  L!Awake(pc', len')
  <2>1. /\ pc[t] = "send" /\ pc'[t] = "sendwait" /\ len' = len /\ len >= Cap
        /\ \A u \in Threads \ {t} : pc'[u] = pc[u]
    BY <1>3, <1>6 DEF SendWait
  <2>2. \A u \in Threads : /\ pc'[u] = "recv" <=> pc[u] = "recv"
                           /\ pc'[u] = "recvwait" <=> pc[u] = "recvwait"
    BY <2>1
  <2>3. L!Count(pc', "recv") = L!Count(pc, "recv")
    BY <2>2, L!CountStay
  <2>. QED BY <1>1, <1>3, <1>4, <2>1, <2>2, <2>3 DEF L!Awake, L!PCs
<1>7. ASSUME NEW t \in Threads, RecvWait(t)
      PROVE  L!Awake(pc', len')
  <2>1. /\ pc[t] = "recv" /\ pc'[t] = "recvwait" /\ len' = len /\ len = 0
        /\ \A u \in Threads \ {t} : pc'[u] = pc[u]
    BY <1>3, <1>7 DEF RecvWait, CanRead
  <2>2. \A u \in Threads : /\ pc'[u] = "send" <=> pc[u] = "send"
                           /\ pc'[u] = "sendwait" <=> pc[u] = "sendwait"
    BY <2>1
  <2>3. L!Count(pc', "send") = L!Count(pc, "send")
    BY <2>2, L!CountStay
  <2>. QED BY <1>1, <1>3, <1>4, <2>1, <2>2, <2>3 DEF L!Awake, L!PCs
<1>8. ASSUME NEW t \in Threads, SendPut(t)
      PROVE  L!Awake(pc', len')
  <2>. DEFINE f == [pc EXCEPT ![t] = "idle"]
  <2>1. /\ f \in [Threads -> L!PCs] /\ f[t] = "idle" /\ pc[t] = "send" /\ len' = len + 1
        /\ \A u \in Threads \ {t} : f[u] = pc[u]
        /\ pc' \in Signal(f, "recvwait", "recv")
    BY <1>3, <1>8 DEF SendPut, WriteSlot, L!PCs
  <2>. HIDE DEF f
  <2>2. L!Count(pc, "send") = L!Count(f, "send") + 1 /\ L!Count(f, "send") \in Nat
    <3>1. L!Joins(pc, f, "send", t)
      BY <2>1 DEF L!Joins
    <3>. QED BY <1>1, <3>1, L!CountJoin, L!CountNat
  <2>3. /\ L!Count(f, "send") >= L!Count(pc, "send") - 1
        /\ \A u \in Threads : f[u] = pc[u] \/ (pc[u] = "send" /\ f[u] = "idle")
    BY <2>1, <2>2
  <2>. QED BY <1>3, <2>1, <2>3, PutAwake
<1>9. ASSUME NEW t \in Threads, NEW v \in Values, TrySend(t, v)
      PROVE  L!Awake(pc', len')
  <2>1. pc' \in Signal(pc, "recvwait", "recv") /\ len' = len + 1
    BY <1>9 DEF TrySend, WriteSlot
  <2>2. L!Count(pc, "send") >= L!Count(pc, "send") - 1
    BY <1>4 DEF L!PCs
  <2>. QED BY <1>3, <2>1, <2>2, PutAwake
<1>10. ASSUME NEW t \in Threads, RecvItem(t)
       PROVE  L!Awake(pc', len')
  <2>. DEFINE f == [pc EXCEPT ![t] = "idle"]
  <2>1. /\ f \in [Threads -> L!PCs] /\ f[t] = "idle" /\ pc[t] = "recv"
        /\ len' = len - 1 /\ len > 0
        /\ \A u \in Threads \ {t} : f[u] = pc[u]
        /\ pc' \in Signal(f, "sendwait", "send")
    BY <1>3, <1>10 DEF RecvItem, ReadSlot, CanRead, L!PCs
  <2>. HIDE DEF f
  <2>2. L!Count(pc, "recv") = L!Count(f, "recv") + 1 /\ L!Count(f, "recv") \in Nat
    <3>1. L!Joins(pc, f, "recv", t)
      BY <2>1 DEF L!Joins
    <3>. QED BY <1>1, <3>1, L!CountJoin, L!CountNat
  <2>3. /\ L!Count(f, "recv") >= L!Count(pc, "recv") - 1
        /\ \A u \in Threads : f[u] = pc[u] \/ (pc[u] = "recv" /\ f[u] = "idle")
    BY <2>1, <2>2
  <2>. QED BY <1>3, <2>1, <2>3, TakeAwake
<1>11. ASSUME NEW t \in Threads, TryRecv(t)
       PROVE  L!Awake(pc', len')
  <2>1. pc' \in Signal(pc, "sendwait", "send") /\ len' = len - 1 /\ len > 0
    BY <1>11 DEF TryRecv, ReadSlot, CanRead
  <2>2. L!Count(pc, "recv") >= L!Count(pc, "recv") - 1
    BY <1>4 DEF L!PCs
  <2>. QED BY <1>3, <2>1, <2>2, TakeAwake
<1>12. ASSUME Close \/ \E t \in Threads : SendClosed(t) \/ RecvNull(t)
       PROVE  FALSE
  BY <1>12 DEF SendClosed, RecvNull, Close
<1>13. CASE UNCHANGED vars
  BY <1>13 DEF vars
<1>. QED
  BY <1>5, <1>6, <1>7, <1>8, <1>9, <1>10, <1>11, <1>12, <1>13 DEF Next, InCall

\* What a waiting sender or receiver relies on while the ring is open.
RingAwakeInv == RingInv /\ (closed \/ L!Awake(pc, len))

\* Nobody waits at first.
LEMMA RingAwakeStart == ASSUME AsyncChanAssumption, Init PROVE RingAwakeInv
<1>1. L!Awake(pc, len)
  BY DEF Init, L!Awake
<1>. QED
  BY <1>1, RingInit DEF RingAwakeInv

\* Every step, a close included, keeps it.
LEMMA RingAwakeKeeps ==
    ASSUME AsyncChanAssumption, RingAwakeInv, [Next]_vars
    PROVE  RingAwakeInv'
<1>. USE DEF RingAwakeInv
<1>1. RingInv'
  BY RingStep
<1>2. CASE closed
  <2>1. closed'
    BY <1>2 DEF Next, vars, InCall, SendCall, SendWait, SendClosed, SendPut, TrySend,
                RecvCall, RecvWait, RecvNull, RecvItem, TryRecv, Close, Spurious
  <2>. QED BY <1>1, <2>1
<1>3. CASE ~closed /\ ~closed'
  <2>1. L!Awake(pc', len')
    BY <1>3, RingAwakeStep
  <2>. QED BY <1>1, <2>1
<1>. QED
  BY <1>1, <1>2, <1>3

\* It says of the ring what NobodyStranded says.
LEMMA RingAwakeMeans == RingAwakeInv => NobodyStranded
<1>. SUFFICES ASSUME RingAwakeInv, ~closed PROVE NobodyStranded
  BY DEF NobodyStranded
<1>1. L!Awake(pc, len)
  BY DEF RingAwakeInv
<1>2. \A S : L!Cardinality(S) = Cardinality(S)
  BY DEF L!Cardinality, Cardinality
<1>. QED
  BY <1>1, <1>2 DEF NobodyStranded, L!Awake, L!Count, At

\* Nobody waits for a slot that is free or for a value that is there, however the
\* blocking calls and the try calls are mixed.
THEOREM RingNobodyStranded == ASSUME AsyncChanAssumption PROVE Spec => []NobodyStranded
<1>1. Init => RingAwakeInv
  BY RingAwakeStart
<1>2. RingAwakeInv /\ [Next]_vars => RingAwakeInv'
  BY RingAwakeKeeps
<1>. QED
  BY <1>1, <1>2, RingAwakeMeans, PTL DEF Spec

-----------------------------------------------------------------------------
(* The ring is a FIFO                                                      *)

\* The slot of the i-th value from tail on, with the wrap written out.
LEMMA Unwrapped ==
    ASSUME AsyncChanAssumption, NEW t \in 0 .. Cap - 1, NEW n \in 0 .. Cap,
           NEW i \in 1 .. n
    PROVE  (t + i - 1) % Cap = Wrap(t + i - 1)
<1>. DEFINE k == t + i - 1
<1>1. k \in Int /\ Cap \in Int /\ 0 < Cap /\ 0 <= k /\ k < 2 * Cap
  BY CapPositive
<1>. HIDE DEF k
<1>2. k % Cap = Wrap(k)
  BY <1>1, Wraps DEF Wrap
<1>. QED
  BY <1>2 DEF k

\* The oldest value is at tail, the others follow; all are values that were sent.
LEMMA ItemsAre ==
    ASSUME AsyncChanAssumption, RingInv
    PROVE  /\ items = [i \in 1 .. len |-> buf[Wrap(tail + i - 1)]]
           /\ items \in Seq(Values) /\ Len(items) = len
<1>1. /\ Cap \in Nat \ {0} /\ tail \in 0 .. Cap - 1 /\ len \in 0 .. Cap
      /\ \A i \in 0 .. len - 1 : buf[Wrap(tail + i)] \in Values
  BY CapPositive DEF RingInv, TypeOK, Slots
<1>2. items = [i \in 1 .. len |-> buf[Wrap(tail + i - 1)]]
  <2>1. \A i \in 1 .. len : (tail + i - 1) % Cap = Wrap(tail + i - 1)
    BY <1>1, Unwrapped
  <2>. QED BY <2>1 DEF items
<1>3. ASSUME NEW i \in 1 .. len PROVE buf[Wrap(tail + i - 1)] \in Values
  <2>1. i - 1 \in 0 .. len - 1 /\ tail + (i - 1) = tail + i - 1
    BY <1>1
  <2>2. buf[Wrap(tail + (i - 1))] \in Values
    BY <1>1, <2>1
  <2>. QED BY <2>1, <2>2
<1>4. len \in Nat
  BY <1>1
<1>5. items \in Seq(Values)
  BY <1>2, <1>3, <1>4
<1>6. Len(items) = len
  BY <1>2, <1>4
<1>. QED
  BY <1>2, <1>5, <1>6

\* Writing a slot appends to the values in the ring.
LEMMA WriteAppends ==
    ASSUME AsyncChanAssumption, RingInv, NEW v \in Values, WriteSlot(v), len < Cap
    PROVE  items' = Append(items, v)
<1>1. /\ Cap \in Nat \ {0} /\ tail \in 0 .. Cap - 1 /\ len \in 0 .. Cap - 1
      /\ tail' = tail /\ len' = len + 1
  BY CapPositive DEF RingInv, TypeOK, Slots, WriteSlot
<1>2. /\ \A i \in 0 .. len - 1 : buf'[Wrap(tail + i)] = buf[Wrap(tail + i)]
      /\ buf'[Wrap(tail + len)] = v
  BY WriteKeeps
<1>3. items' = [i \in 1 .. len + 1 |-> buf'[Wrap(tail + i - 1)]]
  <2>1. items' = [i \in 1 .. len + 1 |-> buf'[(tail + i - 1) % Cap]]
    BY <1>1 DEF items
  <2>2. len + 1 \in 0 .. Cap
    BY <1>1
  <2>3. \A i \in 1 .. len + 1 : (tail + i - 1) % Cap = Wrap(tail + i - 1)
    BY <1>1, <2>2, Unwrapped
  <2>. QED BY <2>1, <2>3
<1>4. /\ items = [i \in 1 .. len |-> buf[Wrap(tail + i - 1)]]
      /\ items \in Seq(Values) /\ Len(items) = len
  BY ItemsAre
<1>5. ASSUME NEW i \in 1 .. len
      PROVE  buf'[Wrap(tail + i - 1)] = items[i]
  <2>1. i - 1 \in 0 .. len - 1 /\ tail + (i - 1) = tail + i - 1
    BY <1>1
  <2>2. buf'[Wrap(tail + (i - 1))] = buf[Wrap(tail + (i - 1))]
    BY <1>2, <2>1
  <2>. QED BY <1>4, <2>1, <2>2
<1>6. buf'[Wrap(tail + (len + 1) - 1)] = v
  <2>1. tail + (len + 1) - 1 = tail + len
    BY <1>1
  <2>. QED BY <1>2, <2>1
<1>7. Append(items, v) = [i \in 1 .. len + 1 |-> IF i <= len THEN items[i] ELSE v]
  BY <1>1, <1>4
<1>8. ASSUME NEW i \in 1 .. len + 1
      PROVE  buf'[Wrap(tail + i - 1)] = IF i <= len THEN items[i] ELSE v
  <2>1. CASE i = len + 1
    BY <1>1, <1>6, <2>1
  <2>2. CASE i # len + 1
    <3>1. i \in 1 .. len
      BY <1>1, <2>2
    <3>. QED BY <1>1, <1>5, <3>1
  <2>. QED BY <2>1, <2>2
<1>. QED
  BY <1>3, <1>7, <1>8

\* Reading a slot takes the oldest value.
LEMMA ReadTakes ==
    ASSUME AsyncChanAssumption, RingInv, ReadSlot, CanRead
    PROVE  /\ items # <<>> /\ items' = Tail(items)
           /\ received' = Append(received, Head(items))
<1>1. /\ Cap \in Nat \ {0} /\ tail \in 0 .. Cap - 1 /\ len \in 1 .. Cap
      /\ received' = Append(received, buf[tail]) /\ buf' = buf /\ len' = len - 1
  BY CapPositive DEF RingInv, TypeOK, Slots, CanRead, ReadSlot
<1>2. /\ tail' \in 0 .. Cap - 1
      /\ \A i \in 0 .. len' - 1 : Wrap(tail' + i) = Wrap(tail + i + 1)
  BY ReadKeeps DEF Slots
<1>3. items' = [i \in 1 .. len - 1 |-> buf[Wrap(tail' + i - 1)]]
  <2>1. items' = [i \in 1 .. len - 1 |-> buf[(tail' + i - 1) % Cap]]
    BY <1>1 DEF items
  <2>2. len - 1 \in 0 .. Cap
    BY <1>1
  <2>3. \A i \in 1 .. len - 1 : (tail' + i - 1) % Cap = Wrap(tail' + i - 1)
    BY <1>2, <2>2, Unwrapped
  <2>. QED BY <2>1, <2>3
<1>4. /\ items = [i \in 1 .. len |-> buf[Wrap(tail + i - 1)]]
      /\ items \in Seq(Values) /\ Len(items) = len
  BY ItemsAre
<1>5. items # <<>> /\ Head(items) = buf[tail]
  <2>1. Wrap(tail + 1 - 1) = tail /\ 1 \in 1 .. len
    BY <1>1 DEF Wrap
  <2>2. items # <<>> /\ Head(items) = items[1]
    <3>1. items \in Seq(Values) /\ Len(items) # 0
      BY <1>1, <1>4
    <3>. QED BY <3>1
  <2>3. items[1] = buf[Wrap(tail + 1 - 1)]
    BY <1>4, <2>1
  <2>. QED BY <2>1, <2>2, <2>3
<1>6. Tail(items) = [i \in 1 .. len - 1 |-> items[i + 1]]
  BY <1>1, <1>4, <1>5
<1>7. ASSUME NEW i \in 1 .. len - 1
      PROVE  buf[Wrap(tail' + i - 1)] = items[i + 1]
  <2>1. /\ i - 1 \in 0 .. len' - 1 /\ i + 1 \in 1 .. len
        /\ tail' + (i - 1) = tail' + i - 1
        /\ tail + (i - 1) + 1 = tail + (i + 1) - 1
    BY <1>1, <1>2
  <2>2. Wrap(tail' + (i - 1)) = Wrap(tail + (i - 1) + 1)
    BY <1>2, <2>1
  <2>. QED BY <1>4, <2>1, <2>2
<1>. QED
  BY <1>1, <1>3, <1>5, <1>6, <1>7

\* A step of the ring channel is a step of the abstract FIFO, or leaves it alone.
LEMMA RingFifoStep ==
    ASSUME AsyncChanAssumption, RingInv, [Next]_vars
    PROVE  [Abstract!Next]_(Abstract!chanVars)
<1>1. Len(items) = len /\ len \in Nat /\ Cap \in Nat
  BY ItemsAre, CapPositive DEF RingInv, TypeOK
<1>2. ASSUME NEW v \in Values, WriteSlot(v), CanWrite, closed' = closed
      PROVE  Abstract!Next
  <2>1. items' = Append(items, v)
    BY <1>2, WriteAppends DEF CanWrite
  <2>2. Abstract!Put(v)
    BY <1>1, <1>2, <2>1 DEF WriteSlot, CanWrite, Abstract!Put, Abstract!Room
  <2>. QED BY <2>2 DEF Abstract!Next
<1>3. ASSUME NEW t \in Threads, SendPut(t) PROVE Abstract!Next
  <2>1. arg[t] \in Values
    BY <1>3 DEF SendPut, RingInv, CallsOK
  <2>. QED BY <1>2, <1>3, <2>1 DEF SendPut
<1>4. ASSUME NEW t \in Threads, NEW v \in Values, TrySend(t, v) PROVE Abstract!Next
  BY <1>2, <1>4 DEF TrySend
<1>5. ASSUME NEW t \in Threads, RecvItem(t) \/ TryRecv(t) PROVE Abstract!Next
  <2>1. ReadSlot /\ CanRead /\ closed' = closed
    BY <1>5 DEF RecvItem, TryRecv
  <2>. QED BY <2>1, ReadTakes DEF Abstract!Next, Abstract!Take
<1>6. ASSUME UNCHANGED <<buf, tail, len>> PROVE items' = items
  BY <1>6 DEF items
<1>7. ASSUME Close PROVE Abstract!Next
  BY <1>6, <1>7 DEF Close, Abstract!Next, Abstract!Close
<1>8. ASSUME NEW t \in Threads,
             \/ \E v \in Values : SendCall(t, v)
             \/ SendWait(t) \/ SendClosed(t) \/ RecvCall(t) \/ RecvWait(t) \/ RecvNull(t)
             \/ Spurious(t)
      PROVE  UNCHANGED Abstract!chanVars
  <2>1. UNCHANGED <<buf, tail, len, closed, received>>
    BY <1>8 DEF SendCall, SendWait, SendClosed, RecvCall, RecvWait, RecvNull, Spurious
  <2>. QED BY <1>6, <2>1 DEF Abstract!chanVars
<1>9. CASE UNCHANGED vars
  BY <1>6, <1>9 DEF vars, Abstract!chanVars
<1>. QED
  BY <1>3, <1>4, <1>5, <1>7, <1>8, <1>9 DEF Next, InCall

\* A new ring is an empty FIFO.
LEMMA RingFifoStart == ASSUME AsyncChanAssumption, Init PROVE Abstract!Init
<1>1. len = 0 /\ items \in Seq(Values) /\ Len(items) = len
  BY RingInit, ItemsAre DEF Init
<1>2. items = <<>>
  BY <1>1
<1>. QED
  BY <1>2 DEF Init, Abstract!Init

\* The ring implements the abstract FIFO of its capacity: across every wrap of
\* head and tail no unread slot is overwritten and no stale one is read.
THEOREM RingImplementsFifo == ASSUME AsyncChanAssumption PROVE Spec => Implements
<1>1. Init => Abstract!Init
  BY RingFifoStart
<1>2. Init => RingInv
  BY RingInit
<1>3. RingInv /\ [Next]_vars => RingInv'
  BY RingStep
<1>4. RingInv /\ [Next]_vars => [Abstract!Next]_(Abstract!chanVars)
  BY RingFifoStep
<1>. QED
  BY <1>1, <1>2, <1>3, <1>4, PTL DEF Spec, Implements, Abstract!Spec
=============================================================================
