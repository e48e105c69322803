-------------------------- MODULE ThreadPoolProofs --------------------------
(***************************************************************************)
(* Safety of the thread pool for any number of workers, clients and tasks. *)
(***************************************************************************)
EXTENDS ThreadPool, FiniteSetTheorems, TLAPS

-----------------------------------------------------------------------------
(* Sequences *)

\* Appending adds exactly the new element to the elements of a sequence.
LEMMA SeqSetAppend ==
    ASSUME NEW S, NEW s \in Seq(S), NEW e \in S
    PROVE  /\ SeqSet(Append(s, e)) = SeqSet(s) \cup {e}
           /\ SeqSet(s) \subseteq S
<1>1. DOMAIN s = 1 .. Len(s) /\ \A i \in 1 .. Len(s) : s[i] \in S
  OBVIOUS
<1>2. /\ Append(s, e) \in Seq(S)
      /\ Len(Append(s, e)) = Len(s) + 1
      /\ Append(s, e)[Len(s) + 1] = e
      /\ \A i \in 1 .. Len(s) : Append(s, e)[i] = s[i]
  OBVIOUS
<1>3. DOMAIN Append(s, e) = 1 .. (Len(s) + 1) /\ Len(s) \in Nat
  BY <1>2
<1>. QED
  BY <1>1, <1>2, <1>3 DEF SeqSet

-----------------------------------------------------------------------------
(* Type correctness *)

HoldsTask == \A w \in Workers : wpc[w] = "run" <=> cur[w] # NoTask

\* What duxrt_pool_submit does to the types of what it touches.
LEMMA EnqueueType ==
    ASSUME TypeOK, NEW t \in Tasks, Enqueue(t)
    PROVE  /\ queue' \in Seq(Tasks)
           /\ pending' \in Int
           /\ wpc' \in [Workers -> {"fetch", "wait", "run", "report", "exited"}]
           /\ log' \in Seq(Tasks)
           /\ \A w \in Workers : wpc'[w] # wpc[w] => wpc[w] = "wait" /\ wpc'[w] = "fetch"
BY DEF TypeOK, Enqueue, SignalNotEmpty, Waiting

\* A step of the pool keeps the types, and keeps a task at exactly the workers
\* that run one.
LEMMA TypeStep ==
    ASSUME TypeOK, HoldsTask, [Next]_vars
    PROVE  TypeOK' /\ HoldsTask'
<1>. USE PoolAssumption DEF TypeOK, HoldsTask
<1>1. ASSUME NEW w \in Workers, WorkerStep(w) \/ WorkerSpurious(w)
      PROVE  TypeOK' /\ HoldsTask'
  <2>1. CASE WorkerWait(w) BY <2>1 DEF WorkerWait
  <2>2. CASE WorkerExit(w) BY <2>2 DEF WorkerExit
  <2>3. CASE WorkerTake(w)
    <3>1. Head(queue) \in Tasks /\ Tail(queue) \in Seq(Tasks)
      BY <2>3 DEF WorkerTake
    <3>. QED BY <2>3, <3>1 DEF WorkerTake
  <2>4. CASE WorkerRan(w) BY <2>4 DEF WorkerRan
  <2>5. CASE WorkerReport(w) BY <2>5 DEF WorkerReport, BroadcastAllDone
  <2>6. CASE WorkerSpurious(w) BY <2>6 DEF WorkerSpurious
  <2>. QED BY <1>1, <2>1, <2>2, <2>3, <2>4, <2>5, <2>6 DEF WorkerStep
<1>2. ASSUME NEW w \in Workers, NEW t \in Tasks, SubmitFromTask(w, t)
      PROVE  TypeOK' /\ HoldsTask'
  BY <1>2, EnqueueType DEF SubmitFromTask
<1>3. ASSUME NEW c \in Clients, NEW t \in Tasks, Submit(c, t)
      PROVE  TypeOK' /\ HoldsTask'
  BY <1>3, EnqueueType DEF Submit
<1>4. ASSUME NEW c \in Clients, ClientStep(c) \/ WaitSpurious(c)
      PROVE  TypeOK' /\ HoldsTask'
  <2>1. CASE WaitSleep(c) BY <2>1 DEF WaitSleep
  <2>2. CASE WaitReturn(c) BY <2>2 DEF WaitReturn
  <2>3. CASE Joined(c) BY <2>3 DEF Joined
  <2>4. CASE Free(c) BY <2>4 DEF Free
  <2>5. CASE WaitSpurious(c) BY <2>5 DEF WaitSpurious
  <2>. QED BY <1>4, <2>1, <2>2, <2>3, <2>4, <2>5 DEF ClientStep
<1>5. ASSUME NEW c \in Clients, WaitCall(c)
      PROVE  TypeOK' /\ HoldsTask'
  <2>1. SeqSet(log) \subseteq Tasks
    BY DEF SeqSet
  <2>. QED BY <1>5, <2>1 DEF WaitCall
<1>6. ASSUME NEW c \in Clients, Shutdown(c)
      PROVE  TypeOK' /\ HoldsTask'
  BY <1>6 DEF Shutdown, Waiting
<1>7. CASE UNCHANGED vars
  BY <1>7 DEF vars
<1>. QED
  BY <1>1, <1>2, <1>3, <1>4, <1>5, <1>6, <1>7 DEF Next

\* The pool starts with correct types and no task at any worker.
LEMMA InitType == Init => TypeOK /\ HoldsTask
<1>. SUFFICES ASSUME Init PROVE TypeOK /\ HoldsTask
  OBVIOUS
<1>. USE DEF Init
<1>1. queue \in Seq(Tasks) /\ log \in Seq(Tasks)
  OBVIOUS
<1>2. shutdown \in BOOLEAN
  BY Zenon
<1>3. pending \in Int
  OBVIOUS
<1>4. done \in SUBSET Tasks /\ {} \in SUBSET Tasks
  OBVIOUS
<1>5. /\ wpc \in [Workers -> {"fetch", "wait", "run", "report", "exited"}]
      /\ cur \in [Workers -> Tasks \cup {NoTask}]
      /\ cpc \in [Clients -> {"idle", "check", "waiting", "joining", "joined", "freed"}]
  OBVIOUS
<1>6. snap \in [Clients -> SUBSET Tasks]
  BY <1>4
<1>7. HoldsTask
  BY DEF HoldsTask
<1>. QED
  BY <1>1, <1>2, <1>3, <1>4, <1>5, <1>6, <1>7 DEF TypeOK

\* Every variable of the pool keeps its type whatever the workers, the tasks
\* and the callers do.
THEOREM TypeCorrect == Spec => []TypeOK
<1>1. TypeOK /\ HoldsTask /\ [Next]_vars => TypeOK' /\ HoldsTask'
  BY TypeStep
<1>. QED
  BY InitType, <1>1, PTL DEF Spec

-----------------------------------------------------------------------------
(* The order and the count of the tasks *)

\* What a submit does to the list, the count and the workers: only a sleeper
\* moves, to its fetch.
LEMMA EnqueueEffect ==
    ASSUME TypeOK, NEW t \in Tasks, Enqueue(t)
    PROVE  /\ Len(queue') = Len(queue) + 1 /\ Len(log') = Len(log) + 1
           /\ queue'[Len(queue) + 1] = t /\ log'[Len(log) + 1] = t
           /\ \A i \in 1 .. Len(queue) : queue'[i] = queue[i]
           /\ \A i \in 1 .. Len(log) : log'[i] = log[i]
           /\ t \notin SeqSet(log)
           /\ SeqSet(log') = SeqSet(log) \cup {t}
           /\ Busy' = Busy /\ Running' = Running
           /\ pending' = pending + 1
<1>1. queue \in Seq(Tasks) /\ log \in Seq(Tasks)
  BY DEF TypeOK
<1>2. queue' = Append(queue, t) /\ log' = Append(log, t) /\ t \notin SeqSet(log)
      /\ pending' = pending + 1
  BY DEF Enqueue
<1>3. Busy' = Busy /\ Running' = Running
  BY EnqueueType DEF Busy, Running, TypeOK, Enqueue, SignalNotEmpty, Waiting
<1>4. SeqSet(log') = SeqSet(log) \cup {t}
  BY <1>1, <1>2, SeqSetAppend
<1>. QED
  BY <1>1, <1>2, <1>3, <1>4

\* What taking a task does to the list.
LEMMA TakeEffect ==
    ASSUME TypeOK, NEW w \in Workers, WorkerTake(w)
    PROVE  /\ Len(queue) > 0
           /\ Len(queue') = Len(queue) - 1
           /\ \A i \in 1 .. Len(queue') : queue'[i] = queue[i + 1]
           /\ cur'[w] = queue[1]
           /\ \A v \in Workers : v # w => cur'[v] = cur[v] /\ wpc'[v] = wpc[v]
           /\ wpc[w] = "fetch" /\ wpc'[w] = "run"
           /\ UNCHANGED <<log, done, pending>>
BY DEF TypeOK, WorkerTake

\* Every step submits a task, takes one, finishes one, counts one off, or leaves
\* the list, the count and the history as they are: duxrt_pool_free finds an
\* empty list.
Quiet == UNCHANGED <<queue, pending, cur, log, done>> /\ Running' = Running /\ Busy' = Busy

\* Every step is of one of these kinds.
LEMMA StepKinds ==
    ASSUME TypeOK, ShutdownPhase, [Next]_vars
    PROVE  \/ \E t \in Tasks : Enqueue(t) /\ UNCHANGED <<cur, done, snap, cpc, shutdown>>
           \/ \E w \in Workers : WorkerTake(w) \/ WorkerRan(w) \/ WorkerReport(w)
           \/ Quiet
<1>. USE DEF TypeOK, Quiet, Running, Busy
<1>1. ASSUME NEW w \in Workers, WorkerWait(w) \/ WorkerExit(w) \/ WorkerSpurious(w)
      PROVE  Quiet
  BY <1>1 DEF WorkerSpurious, WorkerWait, WorkerExit
<1>2. ASSUME NEW w \in Workers, NEW t \in Tasks, SubmitFromTask(w, t)
      PROVE  Enqueue(t) /\ UNCHANGED <<cur, done, snap, cpc, shutdown>>
  BY <1>2 DEF SubmitFromTask
<1>3. ASSUME NEW c \in Clients, NEW t \in Tasks, Submit(c, t)
      PROVE  Enqueue(t) /\ UNCHANGED <<cur, done, snap, cpc, shutdown>>
  BY <1>3 DEF Submit
<1>4. ASSUME NEW c \in Clients,
             WaitSleep(c) \/ WaitReturn(c) \/ Joined(c) \/ WaitSpurious(c) \/ WaitCall(c)
      PROVE  Quiet
  BY <1>4 DEF WaitSleep, WaitReturn, Joined, WaitSpurious, WaitCall
<1>5. ASSUME NEW c \in Clients, Shutdown(c)
      PROVE  Quiet
  BY <1>5 DEF Shutdown, Waiting
<1>6. ASSUME NEW c \in Clients, Free(c)
      PROVE  Quiet
  BY <1>6 DEF Free, ShutdownPhase
<1>7. CASE UNCHANGED vars
  BY <1>7 DEF vars
<1>. QED
  BY <1>1, <1>2, <1>3, <1>4, <1>5, <1>6, <1>7 DEF Next, WorkerStep, ClientStep

\* A step keeps the list equal to the end of the submission history.
LEMMA FifoStep ==
    ASSUME TypeOK, ShutdownPhase, FifoStart, [Next]_vars
    PROVE  FifoStart'
<1>. queue \in Seq(Tasks) /\ log \in Seq(Tasks)
  BY DEF TypeOK
<1>. Len(queue) \in Nat /\ Len(log) \in Nat
  OBVIOUS
<1>1. ASSUME NEW t \in Tasks, Enqueue(t)
      PROVE  FifoStart'
  <2>. Len(queue) <= Len(log)
    BY DEF FifoStart
  <2>. DEFINE n == Len(queue)
              m == Len(log)
  <2>0. Len(queue') = n + 1 /\ Len(log') = m + 1
    BY <1>1, EnqueueEffect
  <2>1. Len(queue') <= Len(log') /\ Len(log') - Len(queue') = m - n
    BY <2>0
  <2>2. ASSUME NEW i \in 1 .. Len(queue')
        PROVE  queue'[i] = log'[Len(log') - Len(queue') + i]
    <3>1. CASE i = n + 1
      <4>1. Len(log') - Len(queue') + i = m + 1
        BY <2>1, <3>1
      <4>. QED BY <1>1, <3>1, <4>1, EnqueueEffect
    <3>2. CASE i # n + 1
      <4>1. i \in 1 .. n /\ m - n + i \in 1 .. m
        BY <2>0, <3>2
      <4>2. queue'[i] = queue[i] /\ log'[m - n + i] = log[m - n + i]
        BY <1>1, <4>1, EnqueueEffect
      <4>3. queue[i] = log[m - n + i]
        BY <4>1 DEF FifoStart
      <4>. QED BY <2>1, <4>2, <4>3
    <3>. QED BY <3>1, <3>2
  <2>. QED BY <2>1, <2>2 DEF FifoStart
<1>2. ASSUME NEW w \in Workers, WorkerTake(w)
      PROVE  FifoStart'
  <2>1. log' = log /\ Len(queue') = Len(queue) - 1 /\ Len(queue') <= Len(log')
    BY <1>2, TakeEffect DEF FifoStart
  <2>2. ASSUME NEW i \in 1 .. Len(queue')
        PROVE  queue'[i] = log'[Len(log') - Len(queue') + i]
    <3>1. i + 1 \in 1 .. Len(queue)
      BY <2>1
    <3>2. queue'[i] = queue[i + 1]
      BY <1>2, TakeEffect
    <3>3. queue[i + 1] = log[Len(log) - Len(queue) + (i + 1)]
      BY <3>1 DEF FifoStart
    <3>4. Len(log) - Len(queue) + (i + 1) = Len(log') - Len(queue') + i
      BY <2>1
    <3>. QED BY <2>1, <3>2, <3>3, <3>4
  <2>. QED BY <2>1, <2>2 DEF FifoStart
<1>3. ASSUME UNCHANGED <<queue, log>>
      PROVE  FifoStart'
  BY <1>3 DEF FifoStart
<1>. QED
  BY <1>1, <1>2, <1>3, StepKinds DEF Quiet, WorkerRan, WorkerReport

\* A step keeps every started task at one worker or among the finished ones.
LEMMA OnceStep ==
    ASSUME TypeOK, Bookkeeping, ShutdownPhase, FifoStart, ExactlyOnce, [Next]_vars
    PROVE  ExactlyOnce'
<1>. /\ queue \in Seq(Tasks) /\ log \in Seq(Tasks)
     /\ Len(queue) \in Nat /\ Len(log) \in Nat /\ Len(queue) <= Len(log)
  BY DEF TypeOK, FifoStart
<1>1. ASSUME NEW t \in Tasks, Enqueue(t), UNCHANGED <<cur, done>>
      PROVE  ExactlyOnce'
  <2>0. /\ Len(queue') = Len(queue) + 1 /\ Len(log') = Len(log) + 1
        /\ \A i \in 1 .. Len(log) : log'[i] = log[i]
    BY <1>1, EnqueueEffect
  <2>1. Len(log') - Len(queue') = Len(log) - Len(queue)
    BY <2>0
  <2>2. \A i \in 1 .. (Len(log) - Len(queue)) : log'[i] = log[i]
    BY <2>0
  <2>3. Started' = Started
    BY <2>1, <2>2 DEF Started
  <2>. QED BY <1>1, <2>3, EnqueueEffect DEF ExactlyOnce
<1>2. ASSUME NEW w \in Workers, WorkerTake(w)
      PROVE  ExactlyOnce'
  <2>. DEFINE k == Len(log) - Len(queue) + 1
  <2>1. /\ k \in 1 .. Len(log) /\ log' = log
        /\ Len(log') - Len(queue') = k
        /\ cur'[w] = log[k]
    <3>1. /\ Len(queue) > 0 /\ Len(queue') = Len(queue) - 1 /\ log' = log
          /\ cur'[w] = queue[1]
      BY <1>2, TakeEffect
    <3>2. k \in 1 .. Len(log) /\ Len(log') - Len(queue') = k
      BY <3>1
    <3>3. queue[1] = log[Len(log) - Len(queue) + 1]
      BY <3>1 DEF FifoStart
    <3>. QED BY <3>1, <3>2, <3>3
  <2>2. Started' = Started \cup {cur'[w]}
    BY <2>1 DEF Started
  <2>3. cur'[w] \notin Started
    BY <2>1 DEF Started, Bookkeeping
  <2>4. Running' = Running \cup {w} /\ w \notin Running
    BY <1>2, TakeEffect DEF Running
  <2>5. \A v \in Running : cur'[v] = cur[v] /\ cur[v] \in Started
    BY <1>2, <2>4, TakeEffect DEF Running, ExactlyOnce
  <2>6. done' = done /\ done \subseteq Started
    BY <1>2, TakeEffect DEF ExactlyOnce
  <2>7. Started' = done' \cup {cur'[v] : v \in Running'}
    BY <2>2, <2>4, <2>5, <2>6 DEF ExactlyOnce
  <2>8. \A v \in Running' : cur'[v] \notin done'
    BY <2>3, <2>4, <2>5, <2>6 DEF ExactlyOnce
  <2>9. \A u, v \in Running' : cur'[u] = cur'[v] => u = v
    BY <2>3, <2>4, <2>5 DEF ExactlyOnce
  <2>. QED BY <2>7, <2>8, <2>9 DEF ExactlyOnce
<1>3. ASSUME NEW w \in Workers, WorkerRan(w)
      PROVE  ExactlyOnce'
  <2>1. Started' = Started
    BY <1>3 DEF Started, WorkerRan
  <2>2. Running' = Running \ {w} /\ w \in Running
    BY <1>3 DEF Running, WorkerRan, TypeOK
  <2>3. \A v \in Running' : cur'[v] = cur[v]
    BY <1>3, <2>2 DEF Running, WorkerRan, TypeOK
  <2>4. done' = done \cup {cur[w]}
    BY <1>3 DEF WorkerRan
  <2>. QED BY <2>1, <2>2, <2>3, <2>4 DEF ExactlyOnce
<1>4. ASSUME NEW w \in Workers, WorkerReport(w)
      PROVE  ExactlyOnce'
  <2>1. Running' = Running
    BY <1>4 DEF Running, WorkerReport, TypeOK
  <2>. QED BY <1>4, <2>1 DEF ExactlyOnce, Started, WorkerReport
<1>5. ASSUME Quiet
      PROVE  ExactlyOnce'
  BY <1>5 DEF Quiet, ExactlyOnce, Started
<1>. QED
  BY <1>1, <1>2, <1>3, <1>4, <1>5, StepKinds

\* A step keeps pending equal to the tasks queued or at a worker.
LEMMA PendingStep ==
    ASSUME TypeOK, ShutdownPhase, PendingExact, [Next]_vars
    PROVE  PendingExact'
<1>. /\ queue \in Seq(Tasks) /\ Len(queue) \in Nat
     /\ IsFiniteSet(Busy) /\ Cardinality(Busy) \in Nat
  BY PoolAssumption, FS_Subset, FS_CardinalityType DEF TypeOK, Busy
<1>1. ASSUME NEW t \in Tasks, Enqueue(t)
      PROVE  PendingExact'
  <2>1. Len(queue') = Len(queue) + 1 /\ Busy' = Busy /\ pending' = pending + 1
    BY <1>1, EnqueueEffect
  <2>. QED BY <2>1 DEF PendingExact
<1>2. ASSUME NEW w \in Workers, WorkerTake(w)
      PROVE  PendingExact'
  <2>1. Busy' = Busy \cup {w} /\ w \notin Busy
    BY <1>2, TakeEffect DEF Busy
  <2>2. Cardinality(Busy') = Cardinality(Busy) + 1
    BY <2>1, FS_AddElement
  <2>. QED BY <1>2, <2>2, TakeEffect DEF PendingExact
<1>3. ASSUME NEW w \in Workers, WorkerRan(w)
      PROVE  PendingExact'
  <2>1. Busy' = Busy
    BY <1>3 DEF Busy, WorkerRan, TypeOK
  <2>. QED BY <1>3, <2>1 DEF PendingExact, WorkerRan
<1>4. ASSUME NEW w \in Workers, WorkerReport(w)
      PROVE  PendingExact'
  <2>1. Busy' = Busy \ {w} /\ w \in Busy
    BY <1>4 DEF Busy, WorkerReport, TypeOK
  <2>2. Cardinality(Busy') = Cardinality(Busy) - 1
    BY <2>1, FS_RemoveElement
  <2>. QED BY <1>4, <2>2 DEF PendingExact, WorkerReport
<1>5. ASSUME Quiet
      PROVE  PendingExact'
  BY <1>5 DEF Quiet, PendingExact
<1>. QED
  BY <1>1, <1>2, <1>3, <1>4, <1>5, StepKinds

-----------------------------------------------------------------------------
(* The bookkeeping and the shutdown *)

\* A step keeps submissions distinct, tasks at running workers only, and every
\* wait's snapshot within what was submitted.
LEMMA BookStep ==
    ASSUME TypeOK, Bookkeeping, ShutdownPhase, [Next]_vars
    PROVE  Bookkeeping'
<1>. log \in Seq(Tasks) /\ Len(log) \in Nat
  BY DEF TypeOK
<1>1. HoldsTask'
  BY TypeStep DEF HoldsTask, Bookkeeping
<1>2. ASSUME NEW t \in Tasks, Enqueue(t), UNCHANGED snap
      PROVE  Bookkeeping'
  <2>1. ASSUME NEW i \in 1 .. Len(log'), NEW j \in 1 .. Len(log'), log'[i] = log'[j]
        PROVE  i = j
    <3>0. Len(log') = Len(log) + 1 /\ log'[Len(log) + 1] = t
          /\ \A k \in 1 .. Len(log) : log'[k] = log[k] /\ log[k] # t
      BY <1>2, EnqueueEffect DEF SeqSet
    <3>1. CASE i = Len(log) + 1 \/ j = Len(log) + 1
      BY <2>1, <3>0, <3>1
    <3>2. CASE i # Len(log) + 1 /\ j # Len(log) + 1
      <4>1. i \in 1 .. Len(log) /\ j \in 1 .. Len(log)
        BY <3>0, <3>2
      <4>. QED BY <2>1, <3>0, <4>1 DEF Bookkeeping
    <3>. QED BY <3>1, <3>2
  <2>2. \A c \in Clients : snap'[c] \subseteq SeqSet(log')
    BY <1>2, EnqueueEffect DEF Bookkeeping
  <2>. QED BY <1>1, <2>1, <2>2 DEF Bookkeeping, HoldsTask
<1>3. ASSUME UNCHANGED <<log, snap>>
      PROVE  Bookkeeping'
  <2>1. SeqSet(log') = SeqSet(log)
    BY <1>3
  <2>. QED BY <1>1, <1>3, <2>1 DEF Bookkeeping, HoldsTask
<1>4. ASSUME NEW c \in Clients, WaitCall(c)
      PROVE  Bookkeeping'
  <2>1. SeqSet(log') = SeqSet(log) /\ snap' = [snap EXCEPT ![c] = SeqSet(log)] /\ log' = log
    BY <1>4 DEF WaitCall
  <2>2. \A d \in Clients : snap'[d] \subseteq SeqSet(log')
    BY <2>1 DEF Bookkeeping, TypeOK
  <2>. QED BY <1>1, <2>1, <2>2 DEF Bookkeeping, HoldsTask
<1>5. ASSUME NEW w \in Workers, WorkerStep(w) \/ WorkerSpurious(w)
      PROVE  UNCHANGED <<log, snap>>
  BY <1>5 DEF WorkerStep, WorkerSpurious, WorkerWait, WorkerExit, WorkerTake, WorkerRan,
             WorkerReport
<1>6. ASSUME NEW c \in Clients, ClientStep(c) \/ WaitSpurious(c) \/ Shutdown(c)
      PROVE  UNCHANGED <<log, snap>>
  BY <1>6 DEF ClientStep, WaitSleep, WaitReturn, Joined, Free, WaitSpurious, Shutdown
<1>7. ASSUME NEW t \in Tasks,
             (\E w \in Workers : SubmitFromTask(w, t)) \/ (\E c \in Clients : Submit(c, t))
      PROVE  Enqueue(t) /\ UNCHANGED snap
  BY <1>7 DEF SubmitFromTask, Submit
<1>8. CASE UNCHANGED vars
  BY <1>3, <1>8 DEF vars
<1>. QED
  BY <1>2, <1>3, <1>4, <1>5, <1>6, <1>7, <1>8 DEF Next

\* A step keeps the phases of the destructor apart: workers leave only in a
\* shutdown, the last one behind an empty list, and the owner is alone.
LEMMA ShutdownStep ==
    ASSUME TypeOK, Bookkeeping, ShutdownPhase, [Next]_vars
    PROVE  ShutdownPhase'
<1>. USE PoolAssumption DEF TypeOK, ShutdownPhase, Closing, Waiting
<1>1. ASSUME NEW w \in Workers, WorkerWait(w)
      PROVE  ShutdownPhase'
  BY <1>1 DEF WorkerWait
<1>2. ASSUME NEW w \in Workers, WorkerExit(w)
      PROVE  ShutdownPhase'
  BY <1>2 DEF WorkerExit
<1>3. ASSUME NEW w \in Workers, WorkerTake(w)
      PROVE  ShutdownPhase'
  BY <1>3 DEF WorkerTake
<1>4. ASSUME NEW w \in Workers, WorkerRan(w)
      PROVE  ShutdownPhase'
  BY <1>4 DEF WorkerRan
<1>5. ASSUME NEW w \in Workers, WorkerReport(w)
      PROVE  ShutdownPhase'
  BY <1>5 DEF WorkerReport, BroadcastAllDone
<1>6. ASSUME NEW w \in Workers, WorkerSpurious(w)
      PROVE  ShutdownPhase'
  BY <1>6 DEF WorkerSpurious
<1>7. ASSUME NEW w \in Workers, NEW t \in Tasks, SubmitFromTask(w, t)
      PROVE  ShutdownPhase'
  BY <1>7, EnqueueType DEF SubmitFromTask
<1>8. ASSUME NEW c \in Clients, NEW t \in Tasks, Submit(c, t)
      PROVE  ShutdownPhase'
  <2>1. cpc' = cpc /\ Alive /\ cpc[c] = "idle"
    BY <1>8 DEF Submit
  <2>. QED BY <1>8, <2>1, EnqueueType, SMTT(30) DEF Submit, Alive
<1>9. ASSUME NEW c \in Clients, WaitCall(c)
      PROVE  ShutdownPhase'
  BY <1>9 DEF WaitCall, Alive
<1>10. ASSUME NEW c \in Clients, WaitSleep(c) \/ WaitReturn(c) \/ WaitSpurious(c)
       PROVE  ShutdownPhase'
  BY <1>10 DEF WaitSleep, WaitReturn, WaitSpurious
<1>11. ASSUME NEW c \in Clients, Joined(c)
       PROVE  ShutdownPhase'
  BY <1>11 DEF Joined
<1>12. ASSUME NEW c \in Clients, Free(c)
       PROVE  ShutdownPhase'
  BY <1>12 DEF Free
<1>13. ASSUME NEW c \in Clients, Shutdown(c)
       PROVE  ShutdownPhase'
  BY <1>13 DEF Shutdown
<1>14. CASE UNCHANGED vars
  BY <1>14 DEF vars
<1>. QED
  BY <1>1, <1>2, <1>3, <1>4, <1>5, <1>6, <1>7, <1>8, <1>9, <1>10, <1>11, <1>12, <1>13, <1>14
     DEF Next, WorkerStep, ClientStep

-----------------------------------------------------------------------------
(* The sleeping workers *)

\* How many workers are on their way to the list after one of them has moved.
LEMMA FetchingMoves ==
    ASSUME TypeOK, NEW w \in Workers, NEW to \in {"fetch", "wait", "run", "report", "exited"},
           wpc' = [wpc EXCEPT ![w] = to]
    PROVE  /\ Cardinality(Fetching) \in Nat
           /\ wpc[w] # "fetch" /\ to = "fetch" =>
                 Cardinality(Fetching') = Cardinality(Fetching) + 1
           /\ wpc[w] = "fetch" /\ to # "fetch" =>
                 Cardinality(Fetching') = Cardinality(Fetching) - 1
<1>1. IsFiniteSet(Fetching) /\ Cardinality(Fetching) \in Nat
  BY PoolAssumption, FS_Subset, FS_CardinalityType DEF Fetching
<1>2. CASE wpc[w] # "fetch" /\ to = "fetch"
  <2>1. Fetching' = Fetching \cup {w} /\ w \notin Fetching
    BY <1>2 DEF Fetching, TypeOK
  <2>. QED BY <1>1, <1>2, <2>1, FS_AddElement
<1>3. CASE wpc[w] = "fetch" /\ to # "fetch"
  <2>1. Fetching' = Fetching \ {w} /\ w \in Fetching
    BY <1>3 DEF Fetching, TypeOK
  <2>. QED BY <1>1, <1>3, <2>1, FS_RemoveElement
<1>. QED
  BY <1>1, <1>2, <1>3

\* A step leaves a worker asleep only while the awake ones on their way to the
\* list are enough for what is queued.
LEMMA ConserveStep ==
    ASSUME TypeOK, WorkConserving, [Next]_vars
    PROVE  WorkConserving'
<1>. queue \in Seq(Tasks) /\ Len(queue) \in Nat
  BY DEF TypeOK
<1>. USE DEF WorkConserving
<1>1. ASSUME NEW t \in Tasks, Enqueue(t)
      PROVE  WorkConserving'
  <2>1. Len(queue') = Len(queue) + 1
    BY <1>1, EnqueueEffect
  <2>2. CASE Waiting = {} /\ UNCHANGED wpc
    BY <2>2 DEF Waiting
  <2>3. ASSUME NEW w \in Waiting, wpc' = [wpc EXCEPT ![w] = "fetch"]
        PROVE  WorkConserving'
    <3>1. w \in Workers /\ wpc[w] = "wait"
      BY DEF Waiting
    <3>2. Cardinality(Fetching') = Cardinality(Fetching) + 1 /\ Cardinality(Fetching) \in Nat
      BY <2>3, <3>1, FetchingMoves
    <3>. QED BY <2>1, <3>2
  <2>. QED BY <1>1, <2>2, <2>3 DEF Enqueue, SignalNotEmpty
<1>2. ASSUME NEW w \in Workers, WorkerWait(w)
      PROVE  WorkConserving'
  <2>1. Cardinality(Fetching) \in Nat /\ Cardinality(Fetching') = Cardinality(Fetching) - 1
    BY <1>2, FetchingMoves DEF WorkerWait
  <2>2. IsFiniteSet(Fetching')
    BY PoolAssumption, FS_Subset DEF Fetching
  <2>3. Cardinality(Fetching') \in Nat /\ Len(queue') = 0
    BY <1>2, <2>2, FS_CardinalityType DEF WorkerWait
  <2>. QED BY <2>3
<1>3. ASSUME NEW w \in Workers, WorkerSpurious(w) \/ WorkerReport(w)
      PROVE  WorkConserving'
  <2>1. Cardinality(Fetching) \in Nat /\ Cardinality(Fetching') = Cardinality(Fetching) + 1
    BY <1>3, FetchingMoves DEF WorkerSpurious, WorkerReport
  <2>2. Waiting' \subseteq Waiting /\ queue' = queue
    BY <1>3 DEF WorkerSpurious, WorkerReport, Waiting, TypeOK
  <2>. QED BY <2>1, <2>2
<1>4. ASSUME NEW w \in Workers, WorkerTake(w)
      PROVE  WorkConserving'
  <2>1. Cardinality(Fetching) \in Nat /\ Cardinality(Fetching') = Cardinality(Fetching) - 1
    BY <1>4, FetchingMoves DEF WorkerTake
  <2>2. Waiting' = Waiting /\ Len(queue') = Len(queue) - 1
    BY <1>4 DEF WorkerTake, Waiting, TypeOK
  <2>. QED BY <2>1, <2>2
<1>5. ASSUME NEW w \in Workers, WorkerExit(w)
      PROVE  WorkConserving'
  <2>1. IsFiniteSet(Fetching')
    BY PoolAssumption, FS_Subset DEF Fetching
  <2>2. Cardinality(Fetching') \in Nat /\ Len(queue') = 0
    BY <1>5, <2>1, FS_CardinalityType DEF WorkerExit
  <2>. QED BY <2>2
<1>6. ASSUME NEW w \in Workers, WorkerRan(w)
      PROVE  WorkConserving'
  <2>1. Waiting' = Waiting /\ Fetching' = Fetching /\ queue' = queue
    BY <1>6 DEF WorkerRan, Waiting, Fetching, TypeOK
  <2>. QED BY <2>1
<1>7. ASSUME UNCHANGED <<wpc, queue>>
      PROVE  WorkConserving'
  BY <1>7 DEF Waiting, Fetching
<1>8. ASSUME NEW c \in Clients, Shutdown(c)
      PROVE  WorkConserving'
  <2>1. Waiting' = {}
    BY <1>8 DEF Shutdown, Waiting
  <2>. QED BY <2>1
<1>9. ASSUME NEW c \in Clients, Free(c)
      PROVE  WorkConserving'
  <2>1. Waiting' = Waiting /\ Fetching' = Fetching /\ Len(queue') = 0
    BY <1>9 DEF Free, Waiting, Fetching
  <2>2. IsFiniteSet(Fetching) /\ Cardinality(Fetching) \in Nat
    BY PoolAssumption, FS_Subset, FS_CardinalityType DEF Fetching
  <2>. QED BY <2>1, <2>2
<1>10. ASSUME NEW c \in Clients,
              WaitSleep(c) \/ WaitReturn(c) \/ Joined(c) \/ WaitSpurious(c) \/ WaitCall(c)
       PROVE  UNCHANGED <<wpc, queue>>
  BY <1>10 DEF WaitSleep, WaitReturn, Joined, WaitSpurious, WaitCall
<1>11. CASE UNCHANGED vars
  BY <1>7, <1>11 DEF vars
<1>12. ASSUME NEW t \in Tasks,
              (\E w \in Workers : SubmitFromTask(w, t)) \/ (\E c \in Clients : Submit(c, t))
       PROVE  WorkConserving'
  BY <1>1, <1>12 DEF SubmitFromTask, Submit
<1>. QED
  BY <1>2, <1>3, <1>4, <1>5, <1>6, <1>7, <1>8, <1>9, <1>10, <1>11, <1>12
     DEF Next, WorkerStep, ClientStep

\* The one pthread_cond_signal of each submit (thread_rt.c:253) is enough: no worker
\* sleeps while a task is queued that no awake worker is coming for, whatever
\* sleepers wake spuriously and whoever takes the task first.
THEOREM NoWakeupLost == Spec => []WorkConserving
<1>1. Init => WorkConserving
  BY DEF Init, WorkConserving, Waiting
<1>2. TypeOK /\ WorkConserving /\ [Next]_vars => WorkConserving'
  BY ConserveStep
<1>. QED
  BY <1>1, <1>2, TypeCorrect, PTL DEF Spec

-----------------------------------------------------------------------------
(* The theorems *)

\* The pool starts in a consistent state.
LEMMA InitInv == Init => PoolInv
<1>. SUFFICES ASSUME Init PROVE PoolInv
  OBVIOUS
<1>1. TypeOK /\ HoldsTask
  BY InitType
<1>2. queue = <<>> /\ log = <<>> /\ Len(queue) = 0 /\ Len(log) = 0
  BY DEF Init
<1>3. Running = {} /\ Busy = {} /\ Waiting = {}
  BY DEF Init, Running, Busy, Waiting
<1>4. Bookkeeping
  BY <1>1, <1>2 DEF Init, Bookkeeping, HoldsTask
<1>5. FifoStart
  BY <1>2 DEF FifoStart
<1>6. ExactlyOnce
  BY <1>2, <1>3 DEF Init, ExactlyOnce, Started
<1>7. PendingExact
  BY <1>2, <1>3, FS_EmptySet DEF Init, PendingExact
<1>8. ShutdownPhase
  BY <1>3, PoolAssumption DEF Init, ShutdownPhase, Closing
<1>. QED
  BY <1>1, <1>4, <1>5, <1>6, <1>7, <1>8 DEF PoolInv

\* A step of any thread keeps the pool consistent.
LEMMA StepInv == PoolInv /\ [Next]_vars => PoolInv'
BY TypeStep, BookStep, FifoStep, OnceStep, PendingStep, ShutdownStep
   DEF PoolInv, Bookkeeping, HoldsTask

\* The inductive invariant: in every reachable state the list is the end of the
\* submission history, every started task is at one worker or has run, pending
\* counts exactly what is queued or at a worker (thread_rt.c:253 and :287), and
\* the destructor's phases are in order.
THEOREM PoolConsistent == Spec => []PoolInv
BY InitInv, StepInv, PTL DEF Spec

\* Once the destructor has joined the workers, every task ever submitted has run
\* and nothing is left on the list that duxrt_pool_free would drop.
THEOREM ShutdownComplete == Spec => []ShutdownDrains
<1>1. PoolInv => ShutdownDrains
  <2>. SUFFICES ASSUME PoolInv, NEW c \in Clients, cpc[c] \in {"joined", "freed"}
                PROVE  /\ queue = <<>>
                       /\ done = SeqSet(log)
                       /\ \A w \in Workers : wpc[w] = "exited"
    BY DEF ShutdownDrains
  <2>1. (\A w \in Workers : wpc[w] = "exited") /\ queue = <<>>
    BY DEF PoolInv, ShutdownPhase
  <2>2. Running = {}
    BY <2>1 DEF Running
  <2>3. Len(queue) = 0 /\ log \in Seq(Tasks) /\ Len(log) \in Nat
    BY <2>1 DEF PoolInv, TypeOK
  <2>4. Started = SeqSet(log)
    BY <2>3 DEF Started, SeqSet
  <2>5. done = SeqSet(log)
    BY <2>2, <2>4 DEF PoolInv, ExactlyOnce
  <2>. QED BY <2>1, <2>5
<1>. QED
  BY <1>1, PoolConsistent, PTL

\* duxrt_pool_wait never returns early: what had been submitted when it was
\* called has run when it returns, whatever other clients and tasks submit
\* meanwhile and however the workers interleave.
THEOREM WaitIsABarrier == Spec => WaitBarrier
<1>1. ASSUME PoolInv, [Next]_vars, NEW c \in Clients, cpc[c] # "idle", cpc'[c] = "idle"
      PROVE  snap[c] \subseteq done
  <2>1. WaitReturn(c)
    <3>. USE <1>1 DEF PoolInv, TypeOK
    <3>1. ASSUME NEW w \in Workers, WorkerStep(w) \/ WorkerSpurious(w)
          PROVE  cpc'[c] # "idle"
      BY <3>1 DEF WorkerStep, WorkerSpurious, WorkerWait, WorkerExit, WorkerTake, WorkerRan,
                  WorkerReport, BroadcastAllDone
    <3>2. ASSUME NEW t \in Tasks,
                 (\E w \in Workers : SubmitFromTask(w, t)) \/ (\E d \in Clients : Submit(d, t))
          PROVE  cpc' = cpc
      BY <3>2 DEF SubmitFromTask, Submit
    <3>3. ASSUME NEW d \in Clients,
                 WaitSleep(d) \/ Joined(d) \/ Free(d) \/ WaitSpurious(d) \/ WaitCall(d)
                   \/ Shutdown(d)
          PROVE  cpc'[c] # "idle"
      BY <3>3 DEF WaitSleep, Joined, Free, WaitSpurious, WaitCall, Shutdown
    <3>4. ASSUME NEW d \in Clients, WaitReturn(d), d # c
          PROVE  cpc'[c] # "idle"
      BY <3>4 DEF WaitReturn
    <3>5. CASE UNCHANGED vars
      BY <3>5 DEF vars
    <3>. QED
      BY <3>1, <3>2, <3>3, <3>4, <3>5 DEF Next, ClientStep
  <2>2. pending <= 0
    BY <2>1 DEF WaitReturn
  <2>3. /\ IsFiniteSet(Busy) /\ Cardinality(Busy) \in Nat
        /\ Len(queue) \in Nat /\ log \in Seq(Tasks) /\ Len(log) \in Nat
    BY <1>1, PoolAssumption, FS_Subset, FS_CardinalityType DEF PoolInv, TypeOK, Busy
  <2>4. Len(queue) = 0 /\ Cardinality(Busy) = 0
    BY <1>1, <2>2, <2>3 DEF PoolInv, PendingExact
  <2>5. Running = {}
    BY <2>3, <2>4, FS_EmptySet DEF Busy, Running
  <2>6. Started = SeqSet(log)
    BY <2>3, <2>4 DEF Started, SeqSet
  <2>7. SeqSet(log) = done
    BY <1>1, <2>5, <2>6 DEF PoolInv, ExactlyOnce
  <2>. QED
    BY <1>1, <2>7 DEF PoolInv, Bookkeeping
<1>2. PoolInv /\ [Next]_vars =>
        [\A c \in Clients : cpc[c] # "idle" /\ cpc'[c] = "idle" => snap[c] \subseteq done]_vars
  BY <1>1
<1>. QED
  BY <1>2, PoolConsistent, PTL DEF Spec, WaitBarrier
=============================================================================
