----------------------------- MODULE ChanProofs -----------------------------
(***************************************************************************)
(* Safety of the blocking channel for any set of threads, any values and   *)
(* any capacity, 0 (unbounded) included.                                   *)
(***************************************************************************)
EXTENDS Chan, FiniteSetTheorems, TLAPS

PCs == {"idle", "send", "sendwait", "recv", "recvwait"}

-----------------------------------------------------------------------------
(* Counting threads, and what a signal does                                *)

\* The number of threads that f puts at p.
Count(f, p) == Cardinality({t \in Threads : f[t] = p})

\* The count is a natural number.
LEMMA CountNat ==
    ASSUME IsFiniteSet(Threads), NEW f, NEW p
    PROVE  Count(f, p) \in Nat
BY FS_Subset, FS_CardinalityType DEF Count

\* The count of a place depends only on who is there.
LEMMA CountStay ==
    ASSUME NEW f, NEW g, NEW p, \A u \in Threads : g[u] = p <=> f[u] = p
    PROVE  Count(g, p) = Count(f, p)
BY Zenon DEF Count

\* What is appended to the list is appended to the history.
LEMMA AppendLast ==
    \A s, r \in Seq(Values), v \in Values : Append(s \o r, v) = s \o Append(r, v)
OBVIOUS

\* From f to g thread t arrives at p, and no other thread arrives or leaves.
Joins(g, f, p, t) == f[t] # p /\ g[t] = p /\ \A u \in Threads \ {t} : g[u] = p <=> f[u] = p

\* A thread that arrives is one more.
LEMMA CountJoin ==
    ASSUME IsFiniteSet(Threads), NEW f, NEW g, NEW p, NEW t \in Threads, Joins(g, f, p, t)
    PROVE  Count(g, p) = Count(f, p) + 1
<1>. DEFINE S == {u \in Threads : f[u] = p}
            T == {u \in Threads : g[u] = p}
<1>1. IsFiniteSet(S)
  BY FS_Subset
<1>2. T = S \cup {t} /\ t \notin S
  BY DEF Joins
<1>3. Cardinality(T) = Cardinality(S) + 1
  BY <1>1, <1>2, FS_AddElement
<1>. QED
  BY <1>3 DEF Count

\* pthread_cond_signal moves one waiter, if there is one, and nobody else.
LEMMA SignalMoves ==
    ASSUME NEW f \in [Threads -> PCs], NEW wait \in PCs, NEW wake \in PCs,
           NEW g \in Signal(f, wait, wake)
    PROVE  /\ g \in [Threads -> PCs]
           /\ \/ g = f /\ \A t \in Threads : f[t] # wait
              \/ \E t \in Threads : f[t] = wait /\ g = [f EXCEPT ![t] = wake]
BY DEF Signal

\* So it adds one to the awake threads of its kind unless nobody waits, and no
\* thread of another kind is touched.
LEMMA SignalCount ==
    ASSUME IsFiniteSet(Threads), NEW f \in [Threads -> PCs], NEW wait \in PCs,
           NEW wake \in PCs, wait # wake, NEW g \in Signal(f, wait, wake)
    PROVE  /\ \A p \in PCs \ {wait, wake} : Count(g, p) = Count(f, p)
           /\ \A t \in Threads : g[t] = f[t] \/ (f[t] = wait /\ g[t] = wake)
           /\ (\E t \in Threads : f[t] = wait) => Count(g, wake) = Count(f, wake) + 1
<1>1. CASE g = f /\ \A t \in Threads : f[t] # wait
  BY <1>1
<1>2. ASSUME NEW t \in Threads, f[t] = wait, g = [f EXCEPT ![t] = wake]
      PROVE  /\ \A p \in PCs \ {wait, wake} : Count(g, p) = Count(f, p)
             /\ Count(g, wake) = Count(f, wake) + 1
  <2>1. f[t] # wake /\ g[t] = wake /\ \A u \in Threads \ {t} : g[u] = f[u]
    BY <1>2
  <2>2. Count(g, wake) = Count(f, wake) + 1
    <3>1. Joins(g, f, wake, t)
      BY <2>1 DEF Joins
    <3>. QED BY <3>1, CountJoin
  <2>3. ASSUME NEW p \in PCs \ {wait, wake}
        PROVE  Count(g, p) = Count(f, p)
    <3>1. \A u \in Threads : g[u] = p <=> f[u] = p
      BY <1>2, <2>3
    <3>. QED BY <3>1, CountStay
  <2>. QED BY <2>2, <2>3
<1>. QED
  BY <1>1, <1>2, SignalMoves

-----------------------------------------------------------------------------
(* Type correctness *)

\* A thread inside send has the value it sends.
HasValue == \A t \in Threads : pc[t] \in {"send", "sendwait"} => arg[t] \in Values

\* The channel starts empty, open and with nobody inside a call.
LEMMA ChanInitType == Init => TypeOK /\ HasValue
<1>. SUFFICES ASSUME Init PROVE TypeOK /\ HasValue
  OBVIOUS
<1>1. items \in Seq(Values) /\ accepted \in Seq(Values) /\ received \in Seq(Values)
  BY DEF Init
<1>2. closed \in BOOLEAN
  BY DEF Init
<1>. QED
  BY <1>1, <1>2 DEF Init, TypeOK, HasValue

\* A step keeps the types, and a value with every sender.
LEMMA ChanTypeStep ==
    ASSUME TypeOK, HasValue, [Next]_vars
    PROVE  TypeOK' /\ HasValue'
<1>. USE DEF TypeOK, HasValue
<1>1. ASSUME NEW t \in Threads, NEW v \in Values, SendCall(t, v)
      PROVE  TypeOK' /\ HasValue'
  BY <1>1 DEF SendCall
<1>2. ASSUME NEW t \in Threads, SendWait(t) \/ SendClosed(t)
      PROVE  TypeOK' /\ HasValue'
  BY <1>2 DEF SendWait, SendClosed
<1>3. ASSUME NEW t \in Threads, SendPut(t)
      PROVE  TypeOK' /\ HasValue'
  <2>1. arg[t] \in Values
    BY <1>3 DEF SendPut
  <2>2. items' \in Seq(Values) /\ accepted' \in Seq(Values)
    BY <1>3, <2>1 DEF SendPut
  <2>3. /\ pc' \in [Threads -> PCs]
        /\ \A u \in Threads : pc'[u] \in {"send", "sendwait"} => u # t /\ pc'[u] = pc[u]
    BY <1>3 DEF SendPut, PCs, Signal
  <2>. QED BY <1>3, <2>2, <2>3 DEF SendPut, PCs
<1>4. ASSUME NEW t \in Threads, RecvCall(t) \/ RecvWait(t) \/ RecvNull(t) \/ Spurious(t)
      PROVE  TypeOK' /\ HasValue'
  BY <1>4 DEF RecvCall, RecvWait, RecvNull, Spurious
<1>5. ASSUME NEW t \in Threads, RecvItem(t) \/ TryRecvItem(t)
      PROVE  TypeOK' /\ HasValue'
  <2>1. items # <<>> /\ items' = Tail(items) /\ UNCHANGED <<closed, arg, accepted>>
    BY <1>5 DEF RecvItem, TryRecvItem
  <2>2. received' = received \/ received' = Append(received, Head(items))
    BY <1>5 DEF RecvItem, TryRecvItem
  <2>3. Head(items) \in Values /\ Tail(items) \in Seq(Values)
    BY <2>1
  <2>4. Append(received, Head(items)) \in Seq(Values)
    BY <2>3
  <2>5. items' \in Seq(Values) /\ received' \in Seq(Values)
    BY <2>1, <2>2, <2>3, <2>4
  <2>6. /\ pc' \in [Threads -> PCs]
        /\ \A u \in Threads :
              pc'[u] \in {"send", "sendwait"} => pc[u] \in {"send", "sendwait"}
    BY <1>5 DEF RecvItem, TryRecvItem, PCs, Signal
  <2>. QED BY <2>1, <2>5, <2>6 DEF PCs
<1>6. CASE Close
  BY <1>6 DEF Close
<1>7. CASE UNCHANGED vars
  BY <1>7 DEF vars
<1>. QED
  BY <1>1, <1>2, <1>3, <1>4, <1>5, <1>6, <1>7 DEF Next, InCall

\* Every variable of the channel keeps its type.
THEOREM ChanTypeCorrect == Spec => []TypeOK
<1>1. TypeOK /\ HasValue /\ [Next]_vars => TypeOK' /\ HasValue'
  BY ChanTypeStep
<1>. QED
  BY ChanInitType, <1>1, PTL DEF Spec

-----------------------------------------------------------------------------
(* Nobody sleeps while there is something for him to do                    *)

\* NobodyStranded of an open channel, for threads at f and n values on the list.
Awake(f, n) ==
    /\ (\E t \in Threads : f[t] = "sendwait") => Cap - n <= Count(f, "send")
    /\ (\E t \in Threads : f[t] = "recvwait") => n <= Count(f, "recv")

\* A change of length or of one thread's place that leaves the awake threads
\* enough: who waits waited before, and the gap and the length shrink with them.
LEMMA AwakeKept ==
    ASSUME NEW f \in [Threads -> PCs], NEW g \in [Threads -> PCs],
           NEW n \in Nat, NEW m \in Nat, Cap \in Nat, IsFiniteSet(Threads),
           Awake(f, n),
           \/ \A t \in Threads : g[t] # "sendwait"
           \/ m >= Cap
           \/ /\ \E t \in Threads : f[t] = "sendwait"
              /\ Count(g, "send") + m >= Count(f, "send") + n,
           \/ \A t \in Threads : g[t] # "recvwait"
           \/ m = 0
           \/ /\ \E t \in Threads : f[t] = "recvwait"
              /\ Count(g, "recv") - m >= Count(f, "recv") - n
    PROVE  Awake(g, m)
<1>1. /\ Count(f, "send") \in Nat /\ Count(f, "recv") \in Nat
      /\ Count(g, "send") \in Nat /\ Count(g, "recv") \in Nat
  BY CountNat
<1>. QED
  BY <1>1 DEF Awake

\* Calling send or recv, and waking up without a signal, adds an awake thread.
LEMMA AwakeMore ==
    ASSUME NEW f \in [Threads -> PCs], NEW g \in [Threads -> PCs], NEW n \in Nat,
           Cap \in Nat, IsFiniteSet(Threads), Awake(f, n), NEW t \in Threads,
           f[t] \notin {"send", "recv"}, g[t] \notin {"sendwait", "recvwait"},
           \A u \in Threads \ {t} : g[u] = f[u]
    PROVE  Awake(g, n)
<1>1. ASSUME NEW p \in {"send", "recv"}
      PROVE  Count(f, p) \in Nat /\ Count(g, p) \in Nat /\ Count(g, p) >= Count(f, p)
  <2>1. Count(f, p) \in Nat /\ Count(g, p) \in Nat
    BY CountNat
  <2>2. f[t] # p /\ \A u \in Threads \ {t} : g[u] = p <=> f[u] = p
    BY <1>1
  <2>3. CASE g[t] = p
    <3>1. Count(g, p) = Count(f, p) + 1
      <4>1. Joins(g, f, p, t)
        BY <2>2, <2>3 DEF Joins
      <4>. QED BY <4>1, CountJoin
    <3>. QED BY <2>1, <3>1
  <2>4. CASE g[t] # p
    <3>1. \A u \in Threads : g[u] = p <=> f[u] = p
      BY <2>2, <2>4
    <3>2. Count(g, p) = Count(f, p)
      BY <3>1, CountStay
    <3>. QED BY <2>1, <3>2
  <2>. QED BY <2>3, <2>4
<1>2. /\ (\E u \in Threads : g[u] = "sendwait") => \E u \in Threads : f[u] = "sendwait"
      /\ (\E u \in Threads : g[u] = "recvwait") => \E u \in Threads : f[u] = "recvwait"
  OBVIOUS
<1>. QED
  BY <1>1, <1>2 DEF Awake

\* A step keeps an awake sender per free slot and an awake receiver per item.
LEMMA AwakeStep ==
    ASSUME ChanAssumption, TypeOK, HasValue, Awake(pc, Len(items)), ~closed', [Next]_vars
    PROVE  Awake(pc', Len(items'))
<1>. DEFINE n == Len(items)
            m == Len(items')
<1>1. IsFiniteSet(Threads) /\ Cap \in Nat
  BY DEF ChanAssumption
<1>2. TypeOK'
  BY ChanTypeStep
<1>3. /\ n \in Nat /\ pc \in [Threads -> PCs] /\ items \in Seq(Values)
      /\ m \in Nat /\ pc' \in [Threads -> PCs]
  BY <1>2 DEF TypeOK, PCs
<1>4. \A p \in PCs : Count(pc, p) \in Nat /\ Count(pc', p) \in Nat
  BY <1>1, CountNat
<1>5. ASSUME NEW t \in Threads,
             (\E v \in Values : SendCall(t, v)) \/ RecvCall(t) \/ Spurious(t)
      PROVE  Awake(pc', m)
  <2>1. /\ pc[t] \notin {"send", "recv"} /\ pc'[t] \notin {"sendwait", "recvwait"}
        /\ \A u \in Threads \ {t} : pc'[u] = pc[u]
        /\ m = n
    BY <1>3, <1>5 DEF SendCall, RecvCall, Spurious
  <2>. QED BY <1>1, <1>3, <2>1, AwakeMore
<1>6. ASSUME NEW t \in Threads, SendWait(t)
      PROVE  Awake(pc', m)
  <2>1. /\ pc[t] = "send" /\ pc'[t] = "sendwait" /\ m = n /\ n >= Cap
        /\ \A u \in Threads \ {t} : pc'[u] = pc[u]
    BY <1>3, <1>6 DEF SendWait, Full
  <2>2. \A u \in Threads : /\ pc'[u] = "recv" <=> pc[u] = "recv"
                           /\ pc'[u] = "recvwait" <=> pc[u] = "recvwait"
    BY <2>1
  <2>3. Count(pc', "recv") = Count(pc, "recv")
    BY <2>2, CountStay
  <2>. QED BY <1>1, <1>3, <1>4, <2>1, <2>2, <2>3, SMTT(30) DEF Awake, PCs
<1>7. ASSUME NEW t \in Threads, RecvWait(t)
      PROVE  Awake(pc', m)
  <2>1. /\ pc[t] = "recv" /\ pc'[t] = "recvwait" /\ m = n /\ n = 0
        /\ \A u \in Threads \ {t} : pc'[u] = pc[u]
    BY <1>3, <1>7 DEF RecvWait
  <2>2. \A u \in Threads : /\ pc'[u] = "send" <=> pc[u] = "send"
                           /\ pc'[u] = "sendwait" <=> pc[u] = "sendwait"
    BY <2>1
  <2>3. Count(pc', "send") = Count(pc, "send")
    BY <2>2, CountStay
  <2>. QED BY <1>1, <1>3, <1>4, <2>1, <2>2, <2>3, SMTT(30) DEF Awake, PCs
<1>8. ASSUME NEW t \in Threads, SendPut(t)
      PROVE  Awake(pc', m)
  <2>. DEFINE f == [pc EXCEPT ![t] = "idle"]
  <2>1. /\ f \in [Threads -> PCs] /\ f[t] = "idle" /\ pc[t] = "send" /\ m = n + 1
        /\ \A u \in Threads \ {t} : f[u] = pc[u]
        /\ pc' \in Signal(f, "recvwait", "recv")
    BY <1>3, <1>8 DEF SendPut, PCs
  <2>. HIDE DEF f
  <2>2. /\ Count(pc', "send") = Count(f, "send")
        /\ \A u \in Threads : pc'[u] = f[u] \/ (f[u] = "recvwait" /\ pc'[u] = "recv")
        /\ (\E u \in Threads : f[u] = "recvwait") => Count(pc', "recv") = Count(f, "recv") + 1
    BY <1>1, <2>1, SignalCount DEF PCs
  <2>3. Count(pc, "send") = Count(f, "send") + 1
    <3>1. Joins(pc, f, "send", t)
      BY <2>1 DEF Joins
    <3>. QED BY <1>1, <3>1, CountJoin
  <2>4. \A u \in Threads : /\ f[u] = "recv" <=> pc[u] = "recv"
                           /\ f[u] = "recvwait" <=> pc[u] = "recvwait"
                           /\ pc'[u] = "sendwait" => pc[u] = "sendwait"
    BY <2>1, <2>2
  <2>5. Count(f, "recv") = Count(pc, "recv")
    BY <2>4, CountStay
  <2>. QED BY <1>1, <1>3, <1>4, <2>1, <2>2, <2>3, <2>4, <2>5, SMTT(30) DEF Awake, PCs
<1>9. ASSUME NEW t \in Threads, RecvItem(t)
      PROVE  Awake(pc', m)
  <2>. DEFINE f == [pc EXCEPT ![t] = "idle"]
  <2>1. /\ f \in [Threads -> PCs] /\ f[t] = "idle" /\ pc[t] = "recv" /\ m = n - 1
        /\ \A u \in Threads \ {t} : f[u] = pc[u]
        /\ pc' \in Signal(f, "sendwait", "send")
    BY <1>3, <1>9 DEF RecvItem, PCs
  <2>. HIDE DEF f
  <2>2. /\ Count(pc', "recv") = Count(f, "recv")
        /\ \A u \in Threads : pc'[u] = f[u] \/ (f[u] = "sendwait" /\ pc'[u] = "send")
        /\ (\E u \in Threads : f[u] = "sendwait") => Count(pc', "send") = Count(f, "send") + 1
    BY <1>1, <2>1, SignalCount DEF PCs
  <2>3. Count(pc, "recv") = Count(f, "recv") + 1
    <3>1. Joins(pc, f, "recv", t)
      BY <2>1 DEF Joins
    <3>. QED BY <1>1, <3>1, CountJoin
  <2>4. \A u \in Threads : /\ f[u] = "send" <=> pc[u] = "send"
                           /\ f[u] = "sendwait" <=> pc[u] = "sendwait"
                           /\ pc'[u] = "recvwait" => pc[u] = "recvwait"
    BY <2>1, <2>2
  <2>5. Count(f, "send") = Count(pc, "send")
    BY <2>4, CountStay
  <2>. QED BY <1>1, <1>3, <1>4, <2>1, <2>2, <2>3, <2>4, <2>5, SMTT(30) DEF Awake, PCs
<1>10. ASSUME NEW t \in Threads, TryRecvItem(t)
       PROVE  Awake(pc', m)
  <2>1. m = n - 1 /\ pc' \in Signal(pc, "sendwait", "send")
    BY <1>3, <1>10 DEF TryRecvItem
  <2>2. /\ Count(pc', "recv") = Count(pc, "recv")
        /\ \A u \in Threads : pc'[u] = pc[u] \/ (pc[u] = "sendwait" /\ pc'[u] = "send")
        /\ (\E u \in Threads : pc[u] = "sendwait") => Count(pc', "send") = Count(pc, "send") + 1
    BY <1>1, <1>3, <2>1, SignalCount DEF PCs
  <2>3. \A u \in Threads : pc'[u] = "recvwait" => pc[u] = "recvwait"
    BY <2>2
  <2>. QED BY <1>1, <1>3, <1>4, <2>1, <2>2, <2>3, SMTT(30) DEF Awake, PCs
<1>11. ASSUME Close \/ \E t \in Threads : SendClosed(t) \/ RecvNull(t)
       PROVE  FALSE
  BY <1>11 DEF SendClosed, RecvNull, Close
<1>12. CASE UNCHANGED vars
  BY <1>12 DEF vars
<1>. QED
  BY <1>5, <1>6, <1>7, <1>8, <1>9, <1>10, <1>11, <1>12 DEF Next, InCall

\* What a waiting sender or receiver relies on while the channel is open.
AwakeInv == TypeOK /\ HasValue /\ (closed \/ Awake(pc, Len(items)))

\* Nobody waits at first.
LEMMA AwakeStart == Init => AwakeInv
<1>1. Init => Awake(pc, Len(items))
  BY DEF Init, Awake
<1>. QED
  BY <1>1, ChanInitType DEF AwakeInv

\* Every step, a close included, keeps it.
LEMMA AwakeKeeps == ASSUME ChanAssumption, AwakeInv, [Next]_vars PROVE AwakeInv'
<1>. USE DEF AwakeInv
<1>1. TypeOK' /\ HasValue'
  BY ChanTypeStep
<1>2. CASE closed
  <2>1. closed'
    BY <1>2 DEF Next, vars, InCall, SendCall, SendWait, SendClosed, SendPut, RecvCall,
                RecvWait, RecvNull, RecvItem, TryRecvItem, Close, Spurious
  <2>. QED BY <1>1, <2>1
<1>3. CASE ~closed /\ ~closed'
  <2>1. Awake(pc', Len(items'))
    BY <1>3, AwakeStep
  <2>. QED BY <1>1, <2>1
<1>. QED
  BY <1>1, <1>2, <1>3

\* Nobody waits for room that is there or for a value that is there: each free
\* slot of an open channel has an awake sender, each value an awake receiver.
THEOREM ChanNobodyStranded == ASSUME ChanAssumption PROVE Spec => []NobodyStranded
<1>1. Init => AwakeInv
  BY AwakeStart
<1>2. AwakeInv /\ [Next]_vars => AwakeInv'
  BY AwakeKeeps
<1>3. AwakeInv => NobodyStranded
  BY DEF AwakeInv, NobodyStranded, Awake, Count, At
<1>. QED
  BY <1>1, <1>2, <1>3, PTL DEF Spec

-----------------------------------------------------------------------------
(* The list is a FIFO                                                      *)

\* A step of the channel is a step of the abstract FIFO, or leaves it alone.
LEMMA FifoStep ==
    ASSUME ChanAssumption, HasOut, TypeOK, HasValue, [Next]_vars
    PROVE  [Abstract!Next]_(Abstract!chanVars)
<1>1. ASSUME NEW t \in Threads, SendPut(t)
      PROVE  Abstract!Next
  <2>1. arg[t] \in Values
    BY <1>1 DEF SendPut, HasValue
  <2>2. Len(items) \in Nat /\ Cap \in Nat
    BY DEF TypeOK, ChanAssumption
  <2>3. Abstract!Put(arg[t])
    BY <1>1, <2>2 DEF SendPut, Full, Abstract!Put, Abstract!Room
  <2>. QED BY <2>1, <2>3 DEF Abstract!Next
<1>2. ASSUME NEW t \in Threads, RecvItem(t) \/ TryRecvItem(t)
      PROVE  Abstract!Next
  BY <1>2 DEF RecvItem, TryRecvItem, Abstract!Next, Abstract!Take
<1>3. ASSUME Close PROVE Abstract!Next
  BY <1>3 DEF Close, Abstract!Next, Abstract!Close
<1>4. ASSUME NEW t \in Threads,
             \/ \E v \in Values : SendCall(t, v)
             \/ SendWait(t) \/ SendClosed(t) \/ RecvCall(t) \/ RecvWait(t) \/ RecvNull(t)
             \/ Spurious(t)
      PROVE  UNCHANGED Abstract!chanVars
  BY <1>4 DEF SendCall, SendWait, SendClosed, RecvCall, RecvWait, RecvNull, Spurious,
              Abstract!chanVars
<1>5. CASE UNCHANGED vars
  BY <1>5 DEF vars, Abstract!chanVars
<1>. QED
  BY <1>1, <1>2, <1>3, <1>4, <1>5 DEF Next, InCall

\* The blocking channel implements the abstract FIFO, whoever sends, receives and
\* closes; try_recv's caller must take the value (HasOut).
THEOREM ChanImplementsFifo == ASSUME ChanAssumption, HasOut PROVE Spec => Implements
<1>1. Init => Abstract!Init
  BY DEF Init, Abstract!Init
<1>2. TypeOK /\ HasValue /\ [Next]_vars => TypeOK' /\ HasValue'
  BY ChanTypeStep
<1>3. TypeOK /\ HasValue /\ [Next]_vars => [Abstract!Next]_(Abstract!chanVars)
  BY FifoStep
<1>. QED
  BY ChanInitType, <1>1, <1>2, <1>3, PTL DEF Spec, Implements, Abstract!Spec

\* Moving the head of one sequence to the end of the other keeps them in a row.
LEMMA HeadMoves ==
    ASSUME NEW S, NEW r \in Seq(S), NEW s \in Seq(S), s # <<>>
    PROVE  Append(r, Head(s)) \o Tail(s) = r \o s
OBVIOUS

\* Values are handed out once each and in the order in which they were sent.
THEOREM ChanNothingLost == ASSUME ChanAssumption, HasOut PROVE Spec => []NothingLost
<1>. DEFINE Inv == TypeOK /\ HasValue /\ NothingLost
<1>1. Init => Inv
  <2>1. Init => NothingLost
    BY DEF Init, NothingLost
  <2>. QED BY <2>1, ChanInitType
<1>2. Inv /\ [Next]_vars => Inv'
  <2>. SUFFICES ASSUME Inv, [Next]_vars PROVE NothingLost'
    BY ChanTypeStep
  <2>1. items \in Seq(Values) /\ received \in Seq(Values) /\ accepted \in Seq(Values)
    BY DEF TypeOK
  <2>2. ASSUME NEW t \in Threads, SendPut(t) PROVE NothingLost'
    <3>1. arg[t] \in Values
      BY <2>2 DEF SendPut, HasValue
    <3>2. Append(received \o items, arg[t]) = received \o Append(items, arg[t])
      BY <2>1, <3>1, AppendLast
    <3>. QED BY <2>2, <3>2 DEF SendPut, NothingLost
  <2>3. ASSUME NEW t \in Threads, RecvItem(t) \/ TryRecvItem(t) PROVE NothingLost'
    BY <2>1, <2>3, HeadMoves DEF RecvItem, TryRecvItem, NothingLost
  <2>4. ASSUME Close PROVE NothingLost'
    BY <2>4 DEF Close, NothingLost
  <2>5. ASSUME NEW t \in Threads,
               \/ \E v \in Values : SendCall(t, v)
               \/ SendWait(t) \/ SendClosed(t) \/ RecvCall(t) \/ RecvWait(t) \/ RecvNull(t)
               \/ Spurious(t)
        PROVE  NothingLost'
    BY <2>5 DEF SendCall, SendWait, SendClosed, RecvCall, RecvWait, RecvNull, Spurious,
                NothingLost
  <2>6. CASE UNCHANGED vars
    BY <2>6 DEF vars, NothingLost
  <2>. QED BY <2>2, <2>3, <2>4, <2>5, <2>6 DEF Next, InCall
<1>. QED
  BY <1>1, <1>2, PTL DEF Spec
=============================================================================
