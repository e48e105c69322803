---------------------------- MODULE AsyncRuntime ----------------------------
(***************************************************************************)
(* async / await as the compiler and the runtime implement them together.  *)
(* Calling an async function runs its launcher (codegen.cpp): allocate a   *)
(* DuxFuture, submit the body to the one global thread pool of future_rt.c *)
(* and hand the future to the await that sema requires around the call.    *)
(* await blocks the thread it runs on, a program thread or a pool worker,  *)
(* on the future's condition variable and then frees the future.           *)
(*                                                                         *)
(* A frame is a program thread or one async call.  What a frame does       *)
(* between its awaits is left out; Awaits gives the calls it awaits.  The  *)
(* pool is module ThreadPool, step for step; it is never shut down.        *)
(***************************************************************************)
EXTENDS Integers, Sequences, FiniteSets

CONSTANTS
    Workers,    \* the workers of the global pool (2 to 16, future_rt.c:110)
    Threads,    \* the program threads that await calls
    Calls,      \* every async call of the behaviour
    NoCall,
    Awaits      \* for each frame, the calls it awaits, in order

Frames == Threads \cup Calls

\* Every call is awaited at one place: sema accepts an async call only as the
\* operand of an await.
ASSUME AsyncAssumption ==
    /\ IsFiniteSet(Workers) /\ Workers # {} /\ NoCall \notin Calls
    /\ Threads \cap Calls = {}
    /\ Awaits \in [Frames -> Seq(Calls)]
    /\ \A f, g \in Frames : \A i \in DOMAIN Awaits[f], j \in DOMAIN Awaits[g] :
          Awaits[f][i] = Awaits[g][j] => f = g /\ i = j

VARIABLES
    queue, pending, shutdown, wpc, cur, cpc, log, done, snap,   \* the pool
    fpc,        \* where each frame is
    next,       \* how many awaits each frame has finished
    fut         \* the future of each call

poolVars == <<queue, pending, shutdown, wpc, cur, cpc, log, done, snap>>
vars == <<poolVars, fpc, next, fut>>

Pool == INSTANCE ThreadPool
            WITH Clients <- Threads, Tasks <- Calls, NoTask <- NoCall

\* The await a frame is at: the future it has launched and not yet freed.
Target(f) == Awaits[f][next[f] + 1]

Init ==
    /\ Pool!Init
    /\ fpc = [f \in Frames |-> IF f \in Threads THEN "body" ELSE "off"]
    /\ next = [f \in Frames |-> 0]
    /\ fut = [c \in Calls |-> "none"]

-----------------------------------------------------------------------------
(* The pool's own steps *)

PoolIdle(w) ==
    /\ \/ Pool!WorkerWait(w)
       \/ Pool!WorkerReport(w)
    /\ UNCHANGED <<fpc, next, fut>>

PoolSpurious(w) ==
    /\ Pool!WorkerSpurious(w)
    /\ UNCHANGED <<fpc, next, fut>>

\* A worker pops a call and enters its thunk, which unpacks the environment and
\* calls the body.
StartCall(w) ==
    /\ Pool!WorkerTake(w)
    /\ fpc' = [fpc EXCEPT ![Head(queue)] = "body"]
    /\ UNCHANGED <<next, fut>>

-----------------------------------------------------------------------------
(* await f(...) in a frame *)

\* The launcher: a new future, and the body submitted to the pool by whichever
\* thread the frame runs on.
Launch(f) ==
    /\ fpc[f] = "body"
    /\ next[f] < Len(Awaits[f])
    /\ \/ f \in Threads /\ Pool!Submit(f, Target(f))
       \/ \E w \in Workers : cur[w] = f /\ Pool!SubmitFromTask(w, Target(f))
    /\ fut' = [fut EXCEPT ![Target(f)] = "pending"]
    /\ fpc' = [fpc EXCEPT ![f] = "check"]
    /\ UNCHANGED next

\* duxrt_future_await: lock; not done: sleep on the future's condition.
AwaitSleep(f) ==
    /\ fpc[f] = "check"
    /\ fut[Target(f)] # "done"
    /\ fpc' = [fpc EXCEPT ![f] = "sleep"]
    /\ UNCHANGED <<poolVars, next, fut>>

AwaitSpurious(f) ==
    /\ fpc[f] = "sleep"
    /\ fpc' = [fpc EXCEPT ![f] = "check"]
    /\ UNCHANGED <<poolVars, next, fut>>

\* Lock; done: read the result.
AwaitDone(f) ==
    /\ fpc[f] = "check"
    /\ fut[Target(f)] = "done"
    /\ fpc' = [fpc EXCEPT ![f] = "resumed"]
    /\ UNCHANGED <<poolVars, next, fut>>

\* Mutant: the await frees the future before it has waited for it.
FreeFutureEarly(f) ==
    /\ fpc[f] \in {"check", "resumed"}
    /\ fut' = [fut EXCEPT ![Target(f)] = "freed"]
    /\ next' = [next EXCEPT ![f] = @ + 1]
    /\ fpc' = [fpc EXCEPT ![f] = "body"]
    /\ UNCHANGED poolVars

\* duxrt_future_free of the only reference, after the await.
FreeFuture(f) ==
    /\ fpc[f] = "resumed"
    /\ fut' = [fut EXCEPT ![Target(f)] = "freed"]
    /\ next' = [next EXCEPT ![f] = @ + 1]
    /\ fpc' = [fpc EXCEPT ![f] = "body"]
    /\ UNCHANGED poolVars

-----------------------------------------------------------------------------
(* The end of a call *)

\* pthread_cond_signal on the future: its one awaiter wakes if it sleeps.
WakeAwaiter(c) ==
    fpc' = [f \in Frames |->
        IF f = c THEN "cleanup"
        ELSE IF fpc[f] = "sleep" /\ Target(f) = c THEN "check"
        ELSE fpc[f]]

\* Mutant: the future is settled before the body has run.
SetFutureEarly(w) ==
    /\ wpc[w] = "run"
    /\ fpc[cur[w]] = "body"
    /\ fut' = [fut EXCEPT ![cur[w]] = "done"]
    /\ WakeAwaiter(cur[w])
    /\ UNCHANGED <<poolVars, next>>

\* return in an async body, or its end: duxrt_future_set comes before the
\* scope cleanups, so the awaiter may go on while they run.
SetFuture(w) ==
    /\ wpc[w] = "run"
    /\ fpc[cur[w]] = "body"
    /\ next[cur[w]] = Len(Awaits[cur[w]])
    /\ fut' = [fut EXCEPT ![cur[w]] = "done"]
    /\ WakeAwaiter(cur[w])
    /\ UNCHANGED <<poolVars, next>>

\* The cleanups are done, the thunk frees the environment and returns.
FinishCall(w) ==
    /\ Pool!WorkerRan(w)
    /\ fpc[cur[w]] = "cleanup"
    /\ fpc' = [fpc EXCEPT ![cur[w]] = "returned"]
    /\ UNCHANGED <<next, fut>>

-----------------------------------------------------------------------------
WorkerStep(w) ==
    \/ PoolIdle(w)
    \/ StartCall(w)
    \/ SetFuture(w)
    \/ FinishCall(w)

FrameStep(f) ==
    \/ Launch(f)
    \/ AwaitSleep(f)
    \/ AwaitDone(f)
    \/ FreeFuture(f)

Next ==
    \/ \E w \in Workers : WorkerStep(w) \/ PoolSpurious(w)
    \/ \E f \in Frames : FrameStep(f) \/ AwaitSpurious(f)

Spec == Init /\ [][Next]_vars

\* Every thread that can run is scheduled; code between awaits terminates.
Fairness ==
    /\ \A w \in Workers : WF_vars(WorkerStep(w))
    /\ \A f \in Frames : WF_vars(FrameStep(f))

FairSpec == Spec /\ Fairness

-----------------------------------------------------------------------------
(* Properties *)

TypeOK ==
    /\ Pool!TypeOK
    /\ fpc \in [Frames -> {"off", "body", "check", "sleep", "resumed", "cleanup", "returned"}]
    /\ next \in [Frames -> Nat]
    /\ fut \in [Calls -> {"none", "pending", "done", "freed"}]

Settled(c) == fpc[c] \in {"cleanup", "returned"}

\* The future outlives every use of it: while its call can still settle it, it is
\* pending, and it is freed only when the call has settled it and its awaiter
\* has gone on (gen_await, duxrt_future_free, duxrt_future_set).
FutureLifetime ==
    \A c \in Calls :
        /\ fut[c] = "pending" <=> c \in Pool!SeqSet(log) /\ ~Settled(c)
        /\ fut[c] = "none" <=> c \notin Pool!SeqSet(log)
        /\ fut[c] = "freed" => \A f \in Frames :
              fpc[f] \in {"check", "sleep", "resumed"} => Target(f) # c

\* Calls nest: when an await has returned, the call and every call awaited below
\* it have settled.  Nothing a finished await started is still computing.
Structured ==
    \A f \in Frames : \A i \in 1 .. next[f] :
        LET c == Awaits[f][i]
        IN  Settled(c) /\ next[c] = Len(Awaits[c])

\* The await of a call that does not finish at once still returns: "await blocks
\* until the result is available" (src/docs/spec.md:387).  It needs the pool to have
\* a worker left for the awaited call.
AwaitReturns == \A f \in Frames : (fpc[f] = "check") ~> (fpc[f] = "body")
=============================================================================
