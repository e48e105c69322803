------------------------- MODULE ConcurrencyProofs --------------------------
(***************************************************************************)
(* Futures and nesting of async calls, for any pool, any threads and any   *)
(* tree of awaits.  Every step of AsyncRuntime is a step of the pool or    *)
(* leaves it alone, so the pool's invariant (ThreadPoolProofs) holds and   *)
(* says which calls are in the list, at a worker or finished.  The last    *)
(* section takes what ChanProofs and AsyncChanProofs say of one channel to *)
(* the two channels of MCConcurrency.                                      *)
(***************************************************************************)
EXTENDS MCConcurrency, TLAPS

LP == INSTANCE ChanProofs WITH
        Threads <- ChanThreads, Values <- ChanValues, Cap <- Capacity, HasOut <- OutPointer,
        items <- lItems, closed <- lClosed, pc <- lPc, arg <- lArg,
        accepted <- lAccepted, received <- lReceived
RP == INSTANCE AsyncChanProofs WITH
        Threads <- ChanThreads, Values <- ChanValues, RequestedCap <- Capacity,
        buf <- rBuf, head <- rHead, tail <- rTail, len <- rLen, closed <- rClosed,
        pc <- rPc, arg <- rArg, accepted <- rAccepted, received <- rReceived
P == INSTANCE ThreadPoolProofs
        WITH Clients <- Threads, Tasks <- Calls, NoTask <- NoCall

-----------------------------------------------------------------------------
(* The pool underneath                                                     *)

\* The awaits of a frame are calls, each at its own place.
LEMMA AwaitsAre ==
    /\ \A f \in Frames : Len(Awaits[f]) \in Nat
    /\ \A f \in Frames : \A i \in 1 .. Len(Awaits[f]) : Awaits[f][i] \in Calls
    /\ \A f, g \in Frames :
          \A i \in 1 .. Len(Awaits[f]), j \in 1 .. Len(Awaits[g]) :
             Awaits[f][i] = Awaits[g][j] => f = g /\ i = j
<1>1. \A f \in Frames : Awaits[f] \in Seq(Calls)
  BY AsyncAssumption
<1>2. \A f \in Frames : DOMAIN Awaits[f] = 1 .. Len(Awaits[f])
  BY <1>1
<1>. QED
  BY <1>1, <1>2, AsyncAssumption

\* The pool runs under its own assumptions.
LEMMA PoolAssumed == P!PoolAssumption
BY AsyncAssumption DEF P!PoolAssumption, P!IsFiniteSet, IsFiniteSet

\* A step of the runtime is a step of the pool or leaves the pool alone.
LEMMA PoolStep ==
    ASSUME \A f \in Frames : next[f] \in Nat, [Next]_vars
    PROVE  [P!Next]_(P!vars)
<1>1. ASSUME NEW w \in Workers, WorkerStep(w) \/ PoolSpurious(w)
      PROVE  [P!Next]_(P!vars)
  <2>1. CASE Pool!WorkerWait(w)
    BY <2>1 DEF Pool!WorkerWait, P!WorkerWait, P!WorkerStep, P!Next
  <2>2. CASE Pool!WorkerReport(w)
    BY <2>2 DEF Pool!WorkerReport, P!WorkerReport, Pool!BroadcastAllDone,
                P!BroadcastAllDone, P!WorkerStep, P!Next
  <2>3. CASE Pool!WorkerSpurious(w)
    BY <2>3 DEF Pool!WorkerSpurious, P!WorkerSpurious, P!Next
  <2>4. CASE Pool!WorkerTake(w)
    BY <2>4 DEF Pool!WorkerTake, P!WorkerTake, P!WorkerStep, P!Next
  <2>5. CASE Pool!WorkerRan(w)
    BY <2>5 DEF Pool!WorkerRan, P!WorkerRan, P!WorkerStep, P!Next
  <2>6. CASE UNCHANGED poolVars
    BY <2>6 DEF poolVars, P!vars
  <2>. QED
    BY <1>1, <2>1, <2>2, <2>3, <2>4, <2>5, <2>6
       DEF WorkerStep, PoolSpurious, PoolIdle, StartCall, SetFuture, FinishCall
<1>2. ASSUME NEW f \in Frames, Launch(f)
      PROVE  P!Next
  <2>1. Target(f) \in Calls
    <3>1. next[f] + 1 \in 1 .. Len(Awaits[f])
      BY <1>2, AwaitsAre DEF Launch
    <3>. QED
      BY <3>1, AwaitsAre DEF Target
  <2>2. ASSUME NEW t \in Calls, Pool!Enqueue(t)
        PROVE  P!Enqueue(t)
    BY <2>2 DEF Pool!Enqueue, P!Enqueue, Pool!SignalNotEmpty, P!SignalNotEmpty,
                Pool!Waiting, P!Waiting, Pool!SeqSet, P!SeqSet
  <2>3. ASSUME f \in Threads, Pool!Submit(f, Target(f))
        PROVE  P!Submit(f, Target(f))
    BY <2>1, <2>2, <2>3 DEF Pool!Submit, P!Submit, Pool!Alive, P!Alive
  <2>4. ASSUME NEW w \in Workers, Pool!SubmitFromTask(w, Target(f))
        PROVE  P!SubmitFromTask(w, Target(f))
    BY <2>1, <2>2, <2>4 DEF Pool!SubmitFromTask, P!SubmitFromTask
  <2>. QED
    BY <1>2, <2>1, <2>3, <2>4 DEF Launch, P!Next
<1>3. ASSUME NEW f \in Frames, FrameStep(f) \/ AwaitSpurious(f)
      PROVE  [P!Next]_(P!vars)
  BY <1>2, <1>3 DEF FrameStep, AwaitSleep, AwaitDone, FreeFuture, AwaitSpurious,
                    poolVars, P!vars
<1>4. CASE UNCHANGED vars
  BY <1>4 DEF vars, poolVars, P!vars
<1>. QED
  BY <1>1, <1>3, <1>4 DEF Next

\* The runtime starts with the pool as the pool starts.
LEMMA PoolStart == Init => P!Init
BY DEF Init, Pool!Init, P!Init

-----------------------------------------------------------------------------
(* What the pool knows of a call                                           *)

\* Submitted, at a worker, returned (the pool's history variable done).
Logged == P!SeqSet(log)
Active == {cur[w] : w \in P!Running}

\* A call at a worker was submitted and has not returned, and it is at one
\* worker only; a call that returned was submitted.
LEMMA PoolKnows ==
    ASSUME P!PoolInv
    PROVE  /\ Logged \subseteq Calls
           /\ Active \subseteq Logged
           /\ done \subseteq Logged
           /\ Active \cap done = {}
           /\ \A v, w \in P!Running : cur[v] = cur[w] => v = w
<1>1. log \in Seq(Calls) /\ queue \in Seq(Calls)
  BY DEF P!PoolInv, P!TypeOK
<1>2. Logged \subseteq Calls
  BY <1>1 DEF Logged, P!SeqSet
<1>3. P!Started \subseteq Logged
  BY <1>1 DEF P!Started, Logged, P!SeqSet
<1>4. P!ExactlyOnce
  BY DEF P!PoolInv
<1>. QED
  BY <1>2, <1>3, <1>4 DEF P!ExactlyOnce, Active

\* A thread that submits a call adds it to the submitted ones, at no worker yet.
LEMMA Submitted ==
    ASSUME P!PoolInv, NEW t \in Calls, Pool!Enqueue(t), UNCHANGED <<cur, done>>
    PROVE  /\ t \notin Logged
           /\ Logged' = Logged \cup {t}
           /\ Active' = Active
<1>1. log \in Seq(Calls) /\ log' = Append(log, t) /\ t \notin Logged
  BY DEF P!PoolInv, P!TypeOK, Pool!Enqueue, Pool!SeqSet, P!SeqSet, Logged
<1>2. Logged' = Logged \cup {t}
  <2>1. P!SeqSet(Append(log, t)) = P!SeqSet(log) \cup {t}
    <3>1. /\ DOMAIN log = 1 .. Len(log) /\ Len(log) \in Nat
          /\ Append(log, t) \in Seq(Calls)
          /\ DOMAIN Append(log, t) = 1 .. (Len(log) + 1)
          /\ Append(log, t)[Len(log) + 1] = t
          /\ \A i \in 1 .. Len(log) : Append(log, t)[i] = log[i]
      BY <1>1
    <3>. QED
      BY <3>1 DEF P!SeqSet
  <2>2. Logged' = P!SeqSet(log')
    BY DEF Logged, P!SeqSet
  <2>. QED
    BY <1>1, <2>1, <2>2 DEF Logged
<1>3. P!Running' = P!Running
  BY DEF Pool!Enqueue, Pool!SignalNotEmpty, Pool!Waiting, P!Running, P!PoolInv, P!TypeOK
<1>4. Active' = Active
  BY <1>3 DEF Active
<1>. QED
  BY <1>1, <1>2, <1>4

\* A worker takes a submitted call that no worker holds and that has not returned.
LEMMA Taken ==
    ASSUME P!PoolInv, P!PoolInv', NEW w \in Workers, Pool!WorkerTake(w)
    PROVE  /\ Head(queue) \in Logged \ (Active \cup done)
           /\ Logged' = Logged
           /\ Active' = Active \cup {Head(queue)}
           /\ UNCHANGED done
<1>. DEFINE h == Head(queue)
<1>1. /\ wpc[w] = "fetch" /\ wpc' = [wpc EXCEPT ![w] = "run"]
      /\ cur' = [cur EXCEPT ![w] = h]
      /\ UNCHANGED <<log, done>>
  BY DEF Pool!WorkerTake
<1>2. wpc \in [Workers -> {"fetch", "wait", "run", "report", "exited"}]
      /\ cur \in [Workers -> Calls \cup {NoCall}]
  BY DEF P!PoolInv, P!TypeOK
<1>. HIDE DEF h
<1>3. P!Running' = P!Running \cup {w} /\ w \notin P!Running
  BY <1>1, <1>2 DEF P!Running
<1>4. cur'[w] = h /\ \A v \in P!Running : cur'[v] = cur[v]
  BY <1>1, <1>2, <1>3 DEF P!Running
<1>5. Active' = Active \cup {h}
  BY <1>3, <1>4 DEF Active
<1>6. /\ Active' \subseteq Logged' /\ Active' \cap done' = {}
      /\ \A u, v \in P!Running' : cur'[u] = cur'[v] => u = v
  <2>1. P!ExactlyOnce' /\ log' \in Seq(Calls) /\ queue' \in Seq(Calls)
    BY DEF P!PoolInv, P!TypeOK
  <2>2. P!Started' \subseteq Logged'
    BY <2>1 DEF P!Started, Logged, P!SeqSet
  <2>. QED
    BY <2>1, <2>2 DEF P!ExactlyOnce, Active
<1>7. Logged' = Logged /\ done' = done
  BY <1>1 DEF Logged
<1>8. h \notin Active
  <2>. SUFFICES ASSUME NEW v \in P!Running, cur[v] = h PROVE FALSE
    BY DEF Active
  <2>. QED
    BY <1>3, <1>4, <1>6
<1>. QED
  BY <1>5, <1>6, <1>7, <1>8 DEF h

\* The call a worker ran leaves it for the calls that returned.
LEMMA Ran ==
    ASSUME P!PoolInv, NEW w \in Workers, Pool!WorkerRan(w)
    PROVE  /\ cur[w] \in Active
           /\ Logged' = Logged
           /\ Active' = Active \ {cur[w]}
           /\ done' = done \cup {cur[w]}
<1>1. /\ wpc[w] = "run" /\ wpc' = [wpc EXCEPT ![w] = "report"]
      /\ cur' = [cur EXCEPT ![w] = NoCall]
      /\ log' = log /\ done' = done \cup {cur[w]}
  BY DEF Pool!WorkerRan
<1>2. wpc \in [Workers -> {"fetch", "wait", "run", "report", "exited"}]
      /\ cur \in [Workers -> Calls \cup {NoCall}]
  BY DEF P!PoolInv, P!TypeOK
<1>3. P!Running' = P!Running \ {w} /\ w \in P!Running
  BY <1>1, <1>2 DEF P!Running
<1>4. \A v \in P!Running' : cur'[v] = cur[v]
  BY <1>1, <1>2, <1>3 DEF P!Running
<1>5. \A v, u \in P!Running : cur[v] = cur[u] => v = u
  BY PoolKnows
<1>6. Active' = Active \ {cur[w]}
  BY <1>3, <1>4, <1>5 DEF Active
<1>. QED
  BY <1>1, <1>3, <1>6 DEF Active, Logged

\* The other steps of the pool move no call.
LEMMA Idled ==
    ASSUME P!PoolInv, NEW w \in Workers,
           \/ Pool!WorkerWait(w)
           \/ Pool!WorkerReport(w)
           \/ Pool!WorkerSpurious(w)
           \/ UNCHANGED poolVars
    PROVE  UNCHANGED <<Logged, Active, done>>
<1>1. wpc \in [Workers -> {"fetch", "wait", "run", "report", "exited"}]
  BY DEF P!PoolInv, P!TypeOK
<1>2. P!Running' = P!Running /\ UNCHANGED <<cur, log, done>>
  BY <1>1 DEF Pool!WorkerWait, Pool!WorkerReport, Pool!WorkerSpurious, poolVars, P!Running
<1>. QED
  BY <1>2 DEF Active, Logged

-----------------------------------------------------------------------------
(* Frames and futures                                                      *)

AtAwait == {"check", "sleep", "resumed"}

AsyncTypes ==
    /\ fpc \in [Frames -> {"off", "body", "check", "sleep", "resumed", "cleanup", "returned"}]
    /\ next \in [Frames -> Nat]
    /\ fut \in [Calls -> {"none", "pending", "done", "freed"}]

\* A frame is where the pool says its call is, and at most at its last await.
FramesOK ==
    /\ \A f \in Threads : fpc[f] \in AtAwait \cup {"body"}
    /\ \A c \in Calls : fpc[c] = "off" <=> c \notin Active \cup done
    /\ \A c \in Calls : fpc[c] = "returned" <=> c \in done
    /\ \A f \in Frames : next[f] <= Len(Awaits[f])
    /\ \A f \in Frames : fpc[f] \in AtAwait => next[f] < Len(Awaits[f])
    /\ \A c \in Calls : Settled(c) => next[c] = Len(Awaits[c])

\* A future exists from the submission, is pending until its call settles it, is
\* not freed while its await needs it, and is freed once the await is over.
FuturesOK ==
    /\ \A c \in Calls : fut[c] = "none" <=> c \notin Logged
    /\ \A c \in Calls : fut[c] = "pending" <=> c \in Logged /\ ~Settled(c)
    /\ \A f \in Frames : fpc[f] \in AtAwait => fut[Target(f)] \in {"pending", "done"}
    /\ \A f \in Frames : fpc[f] = "resumed" => fut[Target(f)] = "done"
    /\ \A f \in Frames : \A i \in 1 .. next[f] : fut[Awaits[f][i]] = "freed"

AsyncInv == P!PoolInv /\ AsyncTypes /\ FramesOK /\ FuturesOK

\* A frame at an await is at a call of its own list, which no other frame awaits.
LEMMA TargetIs ==
    ASSUME AsyncTypes, NEW f \in Frames, next[f] < Len(Awaits[f])
    PROVE  /\ next[f] + 1 \in 1 .. Len(Awaits[f])
           /\ Target(f) \in Calls
           /\ \A g \in Frames : next[g] < Len(Awaits[g]) /\ Target(g) = Target(f) => g = f
           /\ \A g \in Frames : \A i \in 1 .. Len(Awaits[g]) :
                 Awaits[g][i] = Target(f) => g = f /\ i = next[f] + 1
<1>1. \A g \in Frames : next[g] \in Nat /\ Len(Awaits[g]) \in Nat
  BY AwaitsAre DEF AsyncTypes
<1>2. \A g \in Frames : next[g] < Len(Awaits[g]) => next[g] + 1 \in 1 .. Len(Awaits[g])
  BY <1>1
<1>. QED
  BY <1>2, AwaitsAre DEF Target

\* The await sleeps, wakes by itself, or finds the future settled.
LEMMA AwaitStep ==
    ASSUME AsyncInv, NEW f \in Frames, AwaitSleep(f) \/ AwaitSpurious(f) \/ AwaitDone(f)
    PROVE  AsyncTypes' /\ FramesOK' /\ FuturesOK'
<1>1. UNCHANGED <<Logged, Active, done, next, fut>>
  BY DEF AwaitSleep, AwaitSpurious, AwaitDone, Logged, Active, P!Running, poolVars
<1>2. PICK x \in AtAwait : /\ fpc' = [fpc EXCEPT ![f] = x]
                           /\ x = "resumed" => fut[Target(f)] = "done"
  BY DEF AwaitSleep, AwaitSpurious, AwaitDone, AtAwait
<1>3. fpc[f] \in AtAwait
  BY DEF AwaitSleep, AwaitSpurious, AwaitDone, AtAwait
<1>4. AsyncTypes'
  BY <1>1, <1>2 DEF AsyncInv, AsyncTypes, AtAwait
<1>5. \A c \in Calls : Settled(c)' <=> Settled(c)
  BY <1>2, <1>3 DEF AsyncInv, AsyncTypes, Settled, AtAwait, Frames
<1>6. FramesOK'
  BY <1>1, <1>2, <1>3, <1>5 DEF AsyncInv, AsyncTypes, FramesOK, AtAwait, Frames
<1>7. FuturesOK'
  BY <1>1, <1>2, <1>3, <1>5 DEF AsyncInv, AsyncTypes, FuturesOK, AtAwait, Target
<1>. QED
  BY <1>4, <1>6, <1>7

\* The pool moves nothing of the frames.
LEMMA IdleStep ==
    ASSUME AsyncInv, UNCHANGED <<Logged, Active, done, fpc, next, fut>>
    PROVE  AsyncTypes' /\ FramesOK' /\ FuturesOK'
BY DEF AsyncInv, AsyncTypes, FramesOK, FuturesOK, Settled, Target

\* A worker enters a call that was "off".
LEMMA StartStep ==
    ASSUME AsyncInv, P!PoolInv', NEW w \in Workers, StartCall(w)
    PROVE  AsyncTypes' /\ FramesOK' /\ FuturesOK'
<1>. DEFINE h == Head(queue)
<1>1. /\ h \in Logged \ (Active \cup done) /\ Logged \subseteq Calls
      /\ Logged' = Logged /\ Active' = Active \cup {h} /\ done' = done
  BY Taken, PoolKnows DEF StartCall, AsyncInv
<1>2. fpc' = [fpc EXCEPT ![h] = "body"] /\ next' = next /\ fut' = fut
  BY DEF StartCall
<1>. HIDE DEF h
<1>3. h \in Calls /\ h \in Frames /\ h \notin Threads /\ fpc[h] = "off"
  BY <1>1, AsyncAssumption DEF AsyncInv, FramesOK, Frames
<1>4. AsyncTypes'
  BY <1>2, <1>3 DEF AsyncInv, AsyncTypes
<1>5. \A c \in Calls : Settled(c)' <=> Settled(c)
  BY <1>2, <1>3 DEF AsyncInv, AsyncTypes, Settled, Frames
<1>6. FramesOK'
  BY <1>1, <1>2, <1>3, <1>5 DEF AsyncInv, AsyncTypes, FramesOK, AtAwait, Frames
<1>7. FuturesOK'
  BY <1>1, <1>2, <1>3, <1>5 DEF AsyncInv, AsyncTypes, FuturesOK, AtAwait, Target
<1>. QED
  BY <1>4, <1>6, <1>7

\* The launcher submits a call that was never submitted, so its future is new.
LEMMA LaunchStep ==
    ASSUME AsyncInv, NEW f \in Frames, Launch(f)
    PROVE  AsyncTypes' /\ FramesOK' /\ FuturesOK'
<1>. DEFINE t == Target(f)
<1>1. /\ fpc[f] = "body" /\ next[f] < Len(Awaits[f])
      /\ fut' = [fut EXCEPT ![t] = "pending"]
      /\ fpc' = [fpc EXCEPT ![f] = "check"]
      /\ next' = next
  BY DEF Launch
<1>2. t \in Calls
  BY <1>1, TargetIs DEF AsyncInv
<1>3. Pool!Enqueue(t) /\ UNCHANGED <<cur, done>>
  BY DEF Launch, Pool!Submit, Pool!SubmitFromTask
<1>4. t \notin Logged /\ Logged' = Logged \cup {t} /\ Active' = Active /\ done' = done
  BY <1>2, <1>3, Submitted DEF AsyncInv
<1>5. \A g \in Frames : fpc[g] \in AtAwait => Target(g) # t
  BY <1>1, <1>4, <1>2 DEF AsyncInv, FuturesOK
<1>6. \A g \in Frames : \A i \in 1 .. next[g] : Awaits[g][i] # t
  BY <1>1, <1>4, <1>2 DEF AsyncInv, FuturesOK
<1>7. Active \subseteq Logged /\ done \subseteq Logged
  BY PoolKnows DEF AsyncInv
<1>. HIDE DEF t
<1>8. AsyncTypes'
  BY <1>1, <1>2 DEF AsyncInv, AsyncTypes
<1>9. \A c \in Calls : Settled(c)' <=> Settled(c)
  BY <1>1 DEF AsyncInv, AsyncTypes, Settled, Frames
<1>10. fpc[t] = "off" /\ ~Settled(t)
  BY <1>2, <1>4, <1>7 DEF AsyncInv, FramesOK, Settled
<1>11. FramesOK'
  BY <1>1, <1>4, <1>9 DEF AsyncInv, AsyncTypes, FramesOK, AtAwait, Frames
<1>12. \A g \in Frames : Target(g)' = Target(g)
  BY <1>1 DEF Target
<1>13. FuturesOK'
  <2>1. \A c \in Calls : (fut[c] = "none")' <=> (c \notin Logged)'
    BY <1>1, <1>2, <1>4 DEF AsyncInv, AsyncTypes, FuturesOK
  <2>2. \A c \in Calls : (fut[c] = "pending")' <=> (c \in Logged /\ ~Settled(c))'
    BY <1>1, <1>2, <1>4, <1>9, <1>10 DEF AsyncInv, AsyncTypes, FuturesOK
  <2>3. ASSUME NEW g \in Frames, fpc'[g] \in AtAwait
        PROVE  fut'[Target(g)] \in {"pending", "done"}
    <3>1. CASE g = f
      <4>1. Target(g) = t
        BY <3>1 DEF t
      <4>. QED
        BY <4>1, <1>1, <1>2 DEF AsyncInv, AsyncTypes
    <3>2. CASE g # f
      BY <3>2, <2>3, <1>1, <1>5 DEF AsyncInv, AsyncTypes, FuturesOK
    <3>. QED
      BY <3>1, <3>2
  <2>4. ASSUME NEW g \in Frames, fpc'[g] = "resumed"
        PROVE  fut'[Target(g)] = "done"
    <3>1. g # f /\ fpc[g] = "resumed"
      BY <2>4, <1>1 DEF AsyncInv, AsyncTypes
    <3>. QED
      BY <3>1, <1>1, <1>5 DEF AsyncInv, AsyncTypes, FuturesOK, AtAwait
  <2>5. \A g \in Frames : \A i \in 1 .. next'[g] : fut'[Awaits[g][i]] = "freed"
    BY <1>1, <1>6 DEF AsyncInv, AsyncTypes, FuturesOK
  <2>. QED
    BY <2>1, <2>2, <2>3, <2>4, <2>5, <1>12 DEF FuturesOK
<1>. QED
  BY <1>8, <1>11, <1>13

\* The await frees the future that only it still knows.
LEMMA FreeStep ==
    ASSUME AsyncInv, NEW f \in Frames, FreeFuture(f)
    PROVE  AsyncTypes' /\ FramesOK' /\ FuturesOK'
<1>. DEFINE t == Target(f)
<1>1. /\ fpc[f] = "resumed"
      /\ fut' = [fut EXCEPT ![t] = "freed"]
      /\ next' = [next EXCEPT ![f] = next[f] + 1]
      /\ fpc' = [fpc EXCEPT ![f] = "body"]
  BY DEF FreeFuture
<1>2. UNCHANGED <<Logged, Active, done>>
  BY DEF FreeFuture, Logged, Active, P!Running, poolVars
<1>3. next[f] < Len(Awaits[f]) /\ fut[t] = "done"
  BY <1>1 DEF AsyncInv, FramesOK, FuturesOK, AtAwait
<1>4. /\ t \in Calls /\ t = Awaits[f][next[f] + 1]
      /\ \A g \in Frames : next[g] < Len(Awaits[g]) /\ Target(g) = t => g = f
  BY <1>3, TargetIs DEF AsyncInv, Target
<1>. HIDE DEF t
<1>5. \A g \in Frames : next[g] \in Nat /\ Len(Awaits[g]) \in Nat
  BY AwaitsAre DEF AsyncInv, AsyncTypes
<1>6. AsyncTypes'
  BY <1>1, <1>4 DEF AsyncInv, AsyncTypes
<1>7. \A c \in Calls : Settled(c)' <=> Settled(c)
  BY <1>1 DEF AsyncInv, AsyncTypes, Settled, Frames
<1>8. \A c \in Calls : Settled(c) => c # f
  BY <1>1 DEF Settled
<1>9. \A g \in Frames \ {f} : next'[g] = next[g] /\ fpc'[g] = fpc[g]
  BY <1>1 DEF AsyncInv, AsyncTypes
<1>10. next'[f] = next[f] + 1 /\ fpc'[f] = "body"
  BY <1>1 DEF AsyncInv, AsyncTypes
<1>11. FramesOK'
  <2>1. \A g \in Frames : next'[g] <= Len(Awaits[g])
    BY <1>3, <1>5, <1>9, <1>10 DEF AsyncInv, FramesOK
  <2>2. \A g \in Frames : fpc'[g] \in AtAwait => next'[g] < Len(Awaits[g])
    BY <1>9, <1>10 DEF AsyncInv, FramesOK, AtAwait
  <2>3. \A c \in Calls : Settled(c)' => next'[c] = Len(Awaits[c])
    BY <1>7, <1>8, <1>9 DEF AsyncInv, FramesOK, Frames
  <2>. QED
    BY <1>1, <1>2, <1>9, <1>10, <2>1, <2>2, <2>3 DEF AsyncInv, FramesOK, AtAwait, Frames
<1>12. FuturesOK'
  <2>1. \A c \in Calls : (fut[c] = "none")' <=> (c \notin Logged)'
    BY <1>1, <1>2, <1>3, <1>4 DEF AsyncInv, AsyncTypes, FuturesOK
  <2>2. \A c \in Calls : (fut[c] = "pending")' <=> (c \in Logged /\ ~Settled(c))'
    BY <1>1, <1>2, <1>3, <1>4, <1>7 DEF AsyncInv, AsyncTypes, FuturesOK
  <2>3. ASSUME NEW g \in Frames, fpc'[g] \in AtAwait
        PROVE  /\ fut'[Target(g)'] \in {"pending", "done"}
               /\ fpc'[g] = "resumed" => fut'[Target(g)'] = "done"
    <3>1. g # f /\ next'[g] = next[g] /\ fpc'[g] = fpc[g]
      BY <2>3, <1>9, <1>10 DEF AtAwait
    <3>2. Target(g)' = Target(g) /\ Target(g) # t /\ Target(g) \in Calls
      BY <2>3, <3>1, <1>4, TargetIs DEF Target, AsyncInv, FramesOK
    <3>. QED
      BY <2>3, <3>1, <3>2, <1>1 DEF AsyncInv, AsyncTypes, FuturesOK
  <2>4. ASSUME NEW g \in Frames, NEW i \in 1 .. next'[g]
        PROVE  fut'[Awaits[g][i]] = "freed"
    <3>1. CASE i \in 1 .. next[g]
      BY <3>1, <1>1, <1>4 DEF AsyncInv, AsyncTypes, FuturesOK
    <3>2. CASE i \notin 1 .. next[g]
      <4>1. g = f /\ i = next[f] + 1
        BY <3>2, <1>5, <1>9, <1>10
      <4>. QED
        BY <4>1, <1>1, <1>4 DEF AsyncInv, AsyncTypes
    <3>. QED
      BY <3>1, <3>2
  <2>. QED
    BY <2>1, <2>2, <2>3, <2>4 DEF FuturesOK, AtAwait
<1>. QED
  BY <1>6, <1>11, <1>12

\* The call settles its future and wakes the one frame that may sleep on it.
LEMMA SettleStep ==
    ASSUME AsyncInv, NEW w \in Workers, SetFuture(w)
    PROVE  AsyncTypes' /\ FramesOK' /\ FuturesOK'
<1>. DEFINE c == cur[w]
<1>1. /\ wpc[w] = "run" /\ fpc[c] = "body" /\ next[c] = Len(Awaits[c])
      /\ fut' = [fut EXCEPT ![c] = "done"] /\ next' = next
  BY DEF SetFuture
<1>2. UNCHANGED <<Logged, Active, done>>
  BY DEF SetFuture, Logged, Active, P!Running, poolVars
<1>3. c \in Active /\ c \in Logged /\ c \in Calls /\ c \in Frames
  BY <1>1, PoolKnows DEF AsyncInv, Active, P!Running, Frames
<1>4. \A g \in Frames : fpc'[g] = IF g = c THEN "cleanup"
                                  ELSE IF fpc[g] = "sleep" /\ Target(g) = c THEN "check"
                                  ELSE fpc[g]
  BY DEF SetFuture, WakeAwaiter
<1>5. fpc' \in [Frames -> {"off", "body", "check", "sleep", "resumed", "cleanup", "returned"}]
  BY <1>1 DEF SetFuture, WakeAwaiter, AsyncInv, AsyncTypes
<1>6. fut[c] = "pending"
  BY <1>1, <1>3 DEF AsyncInv, FuturesOK, Settled
<1>. HIDE DEF c
<1>7. AsyncTypes'
  BY <1>1, <1>3, <1>5 DEF AsyncInv, AsyncTypes
<1>8. \A d \in Calls : Settled(d)' <=> Settled(d) \/ d = c
  BY <1>3, <1>4 DEF Settled, Frames
<1>9. c \notin Threads /\ c \notin done
  BY <1>3, AsyncAssumption, PoolKnows DEF AsyncInv
<1>10. \A g \in Frames : fpc'[g] \in AtAwait => g # c /\ fpc[g] \in AtAwait
  BY <1>4 DEF AtAwait
<1>11. FramesOK'
  <2>1. \A f \in Threads : fpc'[f] \in AtAwait \cup {"body"}
    BY <1>4, <1>9 DEF AsyncInv, FramesOK, AtAwait, Frames
  <2>2. \A d \in Calls : fpc'[d] = "off" <=> fpc[d] = "off"
    BY <1>1, <1>4 DEF Frames
  <2>3. \A d \in Calls : fpc'[d] = "returned" <=> fpc[d] = "returned"
    BY <1>1, <1>4 DEF Frames
  <2>4. \A d \in Calls : Settled(d)' => next'[d] = Len(Awaits[d])
    BY <1>1, <1>8 DEF AsyncInv, FramesOK
  <2>. QED
    BY <1>1, <1>2, <1>10, <2>1, <2>2, <2>3, <2>4 DEF AsyncInv, FramesOK
<1>12. FuturesOK'
  <2>1. \A d \in Calls : (fut[d] = "none")' <=> (d \notin Logged)'
    BY <1>1, <1>2, <1>3 DEF AsyncInv, AsyncTypes, FuturesOK
  <2>2. \A d \in Calls : (fut[d] = "pending")' <=> (d \in Logged /\ ~Settled(d))'
    BY <1>1, <1>2, <1>3, <1>8 DEF AsyncInv, AsyncTypes, FuturesOK
  <2>3. \A g \in Frames : Target(g)' = Target(g)
    BY <1>1 DEF Target
  <2>4. \A g \in Frames : fpc'[g] \in AtAwait => fut'[Target(g)] \in {"pending", "done"}
    BY <1>1, <1>3, <1>10 DEF AsyncInv, AsyncTypes, FuturesOK
  <2>5. \A g \in Frames : fpc'[g] = "resumed" => fut'[Target(g)] = "done"
    BY <1>1, <1>3, <1>4 DEF AsyncInv, AsyncTypes, FuturesOK
  <2>6. \A g \in Frames : \A i \in 1 .. next'[g] : fut'[Awaits[g][i]] = "freed"
    BY <1>1, <1>6 DEF AsyncInv, AsyncTypes, FuturesOK
  <2>. QED
    BY <2>1, <2>2, <2>3, <2>4, <2>5, <2>6 DEF FuturesOK
<1>. QED
  BY <1>7, <1>11, <1>12

\* The thunk returns: the call leaves its worker.
LEMMA FinishStep ==
    ASSUME AsyncInv, NEW w \in Workers, FinishCall(w)
    PROVE  AsyncTypes' /\ FramesOK' /\ FuturesOK'
<1>. DEFINE c == cur[w]
<1>1. /\ fpc[c] = "cleanup" /\ fpc' = [fpc EXCEPT ![c] = "returned"]
      /\ next' = next /\ fut' = fut
  BY DEF FinishCall
<1>2. /\ c \in Active /\ Logged' = Logged /\ Active' = Active \ {c}
      /\ done' = done \cup {c}
  BY Ran DEF FinishCall, AsyncInv
<1>3. c \in Calls /\ c \in Frames /\ c \notin Threads /\ c \notin done
  BY <1>2, PoolKnows, AsyncAssumption DEF AsyncInv, Frames
<1>. HIDE DEF c
<1>4. AsyncTypes'
  BY <1>1, <1>3 DEF AsyncInv, AsyncTypes
<1>5. \A d \in Calls : Settled(d)' <=> Settled(d)
  BY <1>1, <1>3 DEF AsyncInv, AsyncTypes, Settled, Frames
<1>6. FramesOK'
  BY <1>1, <1>2, <1>3, <1>5 DEF AsyncInv, AsyncTypes, FramesOK, AtAwait, Frames
<1>7. FuturesOK'
  BY <1>1, <1>2, <1>3, <1>5 DEF AsyncInv, AsyncTypes, FuturesOK, AtAwait, Target
<1>. QED
  BY <1>4, <1>6, <1>7

-----------------------------------------------------------------------------
(* The theorems                                                            *)

\* The runtime starts with every frame at its beginning and no future.
LEMMA AsyncStart == Init => AsyncInv
<1>. SUFFICES ASSUME Init PROVE AsyncInv
  OBVIOUS
<1>1. P!PoolInv
  BY PoolStart, PoolAssumed, P!InitInv
<1>2. /\ log = <<>> /\ done = {} /\ wpc = [w \in Workers |-> "fetch"]
      /\ fpc = [f \in Frames |-> IF f \in Threads THEN "body" ELSE "off"]
      /\ next = [f \in Frames |-> 0]
      /\ fut = [c \in Calls |-> "none"]
  BY DEF Init, Pool!Init
<1>3. Logged = {} /\ Active = {}
  BY <1>2 DEF Logged, P!SeqSet, Active, P!Running
<1>4. AsyncTypes
  BY <1>2 DEF AsyncTypes
<1>5. FramesOK
  <2>1. \A c \in Calls : c \notin Threads /\ c \in Frames
    BY AsyncAssumption DEF Frames
  <2>2. \A f \in Frames : fpc[f] \in {"body", "off"} /\ next[f] = 0
    BY <1>2
  <2>3. \A f \in Frames : Len(Awaits[f]) \in Nat
    BY AwaitsAre
  <2>. QED
    BY <1>2, <1>3, <2>1, <2>2, <2>3 DEF FramesOK, AtAwait, Settled, Frames
<1>6. FuturesOK
  BY <1>2, <1>3 DEF FuturesOK, AtAwait
<1>. QED
  BY <1>1, <1>4, <1>5, <1>6 DEF AsyncInv

\* A step of any thread keeps the pool, the frames and the futures consistent.
LEMMA AsyncStep == AsyncInv /\ [Next]_vars => AsyncInv'
<1>. SUFFICES ASSUME AsyncInv, [Next]_vars PROVE AsyncInv'
  OBVIOUS
<1>1. P!PoolInv'
  <2>1. [P!Next]_(P!vars)
    BY PoolStep DEF AsyncInv, AsyncTypes
  <2>. QED
    BY <2>1, PoolAssumed, P!StepInv DEF AsyncInv
<1>2. ASSUME NEW w \in Workers, WorkerStep(w) \/ PoolSpurious(w)
      PROVE  AsyncTypes' /\ FramesOK' /\ FuturesOK'
  <2>1. CASE PoolIdle(w) \/ PoolSpurious(w)
    <3>1. UNCHANGED <<Logged, Active, done, fpc, next, fut>>
      BY <2>1, Idled DEF PoolIdle, PoolSpurious, AsyncInv
    <3>. QED
      BY <3>1, IdleStep
  <2>2. CASE StartCall(w)
    BY <2>2, <1>1, StartStep
  <2>3. CASE SetFuture(w)
    BY <2>3, SettleStep
  <2>4. CASE FinishCall(w)
    BY <2>4, FinishStep
  <2>. QED
    BY <1>2, <2>1, <2>2, <2>3, <2>4 DEF WorkerStep
<1>3. ASSUME NEW f \in Frames, FrameStep(f) \/ AwaitSpurious(f)
      PROVE  AsyncTypes' /\ FramesOK' /\ FuturesOK'
  BY <1>3, LaunchStep, AwaitStep, FreeStep DEF FrameStep
<1>4. CASE UNCHANGED vars
  <2>1. UNCHANGED <<Logged, Active, done, fpc, next, fut>>
    BY <1>4 DEF vars, poolVars, Logged, Active, P!Running
  <2>. QED
    BY <2>1, <1>1, IdleStep DEF AsyncInv
<1>. QED
  BY <1>1, <1>2, <1>3, <1>4 DEF Next, AsyncInv

\* The inductive invariant: besides the pool's, every frame is where the pool
\* holds its call, and every future is in the state its call and its await give
\* it (gen_await, duxrt_future_set, duxrt_future_free).
THEOREM AsyncConsistent == Spec => []AsyncInv
BY AsyncStart, AsyncStep, PTL DEF Spec

\* Every variable of the runtime keeps its type.
THEOREM AsyncTypeCorrect == Spec => []TypeOK
<1>1. AsyncInv => TypeOK
  BY DEF AsyncInv, AsyncTypes, TypeOK, P!PoolInv, P!TypeOK, Pool!TypeOK
<1>. QED
  BY <1>1, AsyncConsistent, PTL

\* The runtime uses the pool only as its callers may: whatever the program
\* awaits, the pool behaves as module ThreadPool, so all that is proved of the
\* pool holds of the async calls too.
THEOREM AsyncUsesPool == Spec => P!Spec
<1>1. AsyncInv /\ [Next]_vars => [P!Next]_(P!vars)
  BY PoolStep DEF AsyncInv, AsyncTypes
<1>. QED
  BY <1>1, PoolStart, AsyncConsistent, PTL DEF Spec, P!Spec

\* A future is pending exactly while its submitted call can still settle it, and
\* none that is freed has an await left to read it (duxrt_future_free).
THEOREM FuturesOutliveUse == Spec => []FutureLifetime
<1>1. AsyncInv => FutureLifetime
  <2>. SUFFICES ASSUME AsyncInv PROVE FutureLifetime
    OBVIOUS
  <2>1. Pool!SeqSet(log) = Logged
    BY DEF Logged, P!SeqSet, Pool!SeqSet
  <2>. QED
    BY <2>1 DEF AsyncInv, AsyncTypes, FuturesOK, FutureLifetime, AtAwait
<1>. QED
  BY <1>1, AsyncConsistent, PTL

\* When an await has returned, the call it awaited has settled and so has every
\* call awaited in it: an await leaves nothing computing behind.
THEOREM AwaitsNest == Spec => []Structured
<1>1. AsyncInv => Structured
  <2>. SUFFICES ASSUME AsyncInv, NEW f \in Frames, NEW i \in 1 .. next[f]
                PROVE  Settled(Awaits[f][i])
                       /\ next[Awaits[f][i]] = Len(Awaits[Awaits[f][i]])
    BY DEF Structured
  <2>1. next[f] \in Nat /\ Len(Awaits[f]) \in Nat /\ next[f] <= Len(Awaits[f])
    BY AwaitsAre DEF AsyncInv, AsyncTypes, FramesOK
  <2>2. i \in 1 .. Len(Awaits[f])
    BY <2>1
  <2>3. Awaits[f][i] \in Calls /\ fut[Awaits[f][i]] = "freed"
    BY <2>2, AwaitsAre DEF AsyncInv, FuturesOK
  <2>. QED
    BY <2>3 DEF AsyncInv, FuturesOK, FramesOK
<1>. QED
  BY <1>1, AsyncConsistent, PTL

-----------------------------------------------------------------------------
(* The two channels side by side                                           *)

\* The instances run under the assumptions of the components.
LEMMA ChannelsAssumed == LP!ChanAssumption /\ RP!AsyncChanAssumption
BY ConcurrencyAssumption DEF L!ChanAssumption, LP!ChanAssumption, L!IsFiniteSet,
   LP!IsFiniteSet, R!AsyncChanAssumption, RP!AsyncChanAssumption, R!IsFiniteSet, RP!IsFiniteSet

\* Each step is a step of the list channel or leaves it alone.
LEMMA ListPart ==
    /\ ConcurrencyInit => LP!Init
    /\ [ConcurrencyNext]_allVars => [LP!Next]_(LP!vars)
<1>1. ConcurrencyInit => LP!Init
  <2>1. ConcurrencyInit => L!Init
    BY DEF ConcurrencyInit
  <2>. QED BY <2>1 DEF L!Init, LP!Init
<1>2. [ConcurrencyNext]_allVars => L!Next \/ UNCHANGED lVars
  BY DEF ConcurrencyNext, Async, ListChan, RingChan, allVars
<1>3. ASSUME NEW t \in ChanThreads PROVE L!InCall(t) => LP!InCall(t)
  BY DEF L!InCall, L!SendWait, L!SendClosed, L!SendPut, L!RecvWait, L!RecvNull, L!RecvItem,
         L!Full, L!Signal,
         LP!InCall, LP!SendWait, LP!SendClosed, LP!SendPut, LP!RecvWait, LP!RecvNull,
         LP!RecvItem, LP!Full, LP!Signal
<1>4. L!Next => LP!Next
  BY <1>3
  DEF L!Next, L!SendCall, L!RecvCall, L!TryRecvItem, L!Close, L!Spurious, L!Signal, L!SeqSet,
      LP!Next, LP!SendCall, LP!RecvCall, LP!TryRecvItem, LP!Close, LP!Spurious, LP!Signal,
      LP!SeqSet
<1>. QED
  BY <1>1, <1>2, <1>4 DEF lVars, LP!vars

\* Each step is a step of the ring or leaves it alone.
LEMMA RingPart ==
    /\ ConcurrencyInit => RP!Init
    /\ [ConcurrencyNext]_allVars => [RP!Next]_(RP!vars)
<1>1. ConcurrencyInit => RP!Init
  <2>1. ConcurrencyInit => R!Init
    BY DEF ConcurrencyInit
  <2>. QED BY <2>1 DEF R!Init, RP!Init, R!Slots, RP!Slots, R!Cap, RP!Cap
<1>2. [ConcurrencyNext]_allVars => R!Next \/ UNCHANGED rVars
  BY DEF ConcurrencyNext, Async, ListChan, RingChan, allVars
<1>3. ASSUME NEW t \in ChanThreads PROVE R!InCall(t) => RP!InCall(t)
  BY DEF R!InCall, R!SendWait, R!SendClosed, R!SendPut, R!RecvWait, R!RecvNull, R!RecvItem,
         R!CanWrite, R!CanRead, R!WriteSlot, R!ReadSlot, R!Signal, R!Cap,
         RP!InCall, RP!SendWait, RP!SendClosed, RP!SendPut, RP!RecvWait, RP!RecvNull,
         RP!RecvItem, RP!CanWrite, RP!CanRead, RP!WriteSlot, RP!ReadSlot, RP!Signal, RP!Cap
<1>4. R!Next => RP!Next
  BY <1>3
  DEF R!Next, R!SendCall, R!RecvCall, R!TrySend, R!TryRecv, R!Close, R!Spurious, R!Signal,
      R!SeqSet, R!CanWrite, R!CanRead, R!WriteSlot, R!ReadSlot, R!Cap,
      RP!Next, RP!SendCall, RP!RecvCall, RP!TrySend, RP!TryRecv, RP!Close, RP!Spurious,
      RP!Signal, RP!SeqSet, RP!CanWrite, RP!CanRead, RP!WriteSlot, RP!ReadSlot, RP!Cap
<1>. QED
  BY <1>1, <1>2, <1>4 DEF rVars, RP!vars

\* Whoever sends, receives, tries and closes on either channel, nobody waits for
\* room or for a value that is there (duxrt_chan_, duxrt_achan_).
THEOREM NobodyIsStranded == ConcurrencySpec => []NobodyStranded
<1>1. ConcurrencyInit => LP!AwakeInv /\ RP!RingAwakeInv
  BY ChannelsAssumed, ListPart, RingPart, LP!AwakeStart, RP!RingAwakeStart
<1>2. LP!AwakeInv /\ [ConcurrencyNext]_allVars => LP!AwakeInv'
  BY ChannelsAssumed, ListPart, LP!AwakeKeeps
<1>3. RP!RingAwakeInv /\ [ConcurrencyNext]_allVars => RP!RingAwakeInv'
  BY ChannelsAssumed, RingPart, RP!RingAwakeKeeps
<1>4. LP!AwakeInv => L!NobodyStranded
  <2>1. \A S : L!Cardinality(S) = LP!Cardinality(S)
    BY DEF L!Cardinality, LP!Cardinality
  <2>. QED
    BY <2>1 DEF LP!AwakeInv, LP!Awake, LP!Count, L!NobodyStranded, L!At
<1>5. RP!RingAwakeInv => R!NobodyStranded
  <2>1. \A S : R!Cardinality(S) = RP!Cardinality(S)
    BY DEF R!Cardinality, RP!Cardinality
  <2>2. RP!RingAwakeInv => RP!NobodyStranded
    BY RP!RingAwakeMeans
  <2>. QED
    BY <2>1, <2>2 DEF RP!NobodyStranded, RP!At, RP!Cap, R!NobodyStranded, R!At, R!Cap
<1>. QED
  BY <1>1, <1>2, <1>3, <1>4, <1>5, PTL DEF ConcurrencySpec, NobodyStranded

\* The list and the ring both implement the abstract FIFO; the caller of try_recv
\* passes an out pointer.
THEOREM ChannelsAreFifos == ASSUME OutPointer PROVE ConcurrencySpec => Implements
<1>1. ConcurrencyInit => L!Abstract!Init /\ R!Abstract!Init
  <2>1. ConcurrencyInit => L!Abstract!Init
    BY DEF ConcurrencyInit, L!Init, L!Abstract!Init
  <2>2. ConcurrencyInit => RP!Abstract!Init
    BY ChannelsAssumed, RingPart, RP!RingFifoStart
  <2>3. RP!Abstract!Init => R!Abstract!Init
    BY DEF RP!Abstract!Init, R!Abstract!Init, RP!items, R!items, RP!Cap, R!Cap
  <2>. QED BY <2>1, <2>2, <2>3
<1>2. ConcurrencyInit => LP!AwakeInv /\ RP!RingInv
  BY ChannelsAssumed, ListPart, RingPart, LP!AwakeStart, RP!RingInit
<1>3. LP!AwakeInv /\ [ConcurrencyNext]_allVars => LP!AwakeInv'
  BY ChannelsAssumed, ListPart, LP!AwakeKeeps
<1>4. RP!RingInv /\ [ConcurrencyNext]_allVars => RP!RingInv'
  BY ChannelsAssumed, RingPart, RP!RingStep
<1>5. LP!AwakeInv /\ [ConcurrencyNext]_allVars
         => [L!Abstract!Next]_(L!Abstract!chanVars)
  <2>. SUFFICES ASSUME LP!AwakeInv, [ConcurrencyNext]_allVars
                PROVE  [L!Abstract!Next]_(L!Abstract!chanVars)
    OBVIOUS
  <2>1. [LP!Abstract!Next]_(LP!Abstract!chanVars)
    BY ChannelsAssumed, ListPart, LP!FifoStep DEF LP!AwakeInv
  <2>. QED
    BY <2>1 DEF LP!Abstract!Next, LP!Abstract!Put, LP!Abstract!Take, LP!Abstract!Close,
           LP!Abstract!Room, LP!Abstract!chanVars, L!Abstract!Next, L!Abstract!Put,
           L!Abstract!Take, L!Abstract!Close, L!Abstract!Room, L!Abstract!chanVars
<1>6. RP!RingInv /\ [ConcurrencyNext]_allVars
         => [R!Abstract!Next]_(R!Abstract!chanVars)
  <2>. SUFFICES ASSUME RP!RingInv, [ConcurrencyNext]_allVars
                PROVE  [R!Abstract!Next]_(R!Abstract!chanVars)
    OBVIOUS
  <2>1. [RP!Abstract!Next]_(RP!Abstract!chanVars)
    BY ChannelsAssumed, RingPart, RP!RingFifoStep
  <2>. QED
    BY <2>1 DEF RP!Abstract!Next, RP!Abstract!Put, RP!Abstract!Take, RP!Abstract!Close,
           RP!Abstract!Room, RP!Abstract!chanVars, RP!items, RP!Cap, R!Abstract!Next,
           R!Abstract!Put, R!Abstract!Take, R!Abstract!Close, R!Abstract!Room,
           R!Abstract!chanVars, R!items, R!Cap
<1>. QED
  BY <1>1, <1>2, <1>3, <1>4, <1>5, <1>6, PTL
  DEF ConcurrencySpec, Implements, L!Implements, R!Implements, L!Abstract!Spec, R!Abstract!Spec
=============================================================================
