----------------------------- MODULE ThreadPool -----------------------------
(***************************************************************************)
(* The fixed-size thread pool of src/src/runtime/thread_rt.c: the worker   *)
(* loop pool_worker, and duxrt_pool_submit, _wait, _shutdown and _free as  *)
(* the ThreadPool class of src/stdlib/thread/pool.dux calls them.  The     *)
(* same pool, never shut down, runs the async calls of future_rt.c.        *)
(*                                                                         *)
(* Every access to the shared fields happens with DuxPool.mu held, so one  *)
(* critical section, up to its unlock or its pthread_cond_wait, is one     *)
(* step.  A condition wait is two steps: the thread joins the wait set     *)
(* (pc "wait"), a signal, a broadcast or a spurious wakeup takes it out    *)
(* (pc "fetch" or "check"), and it re-evaluates the while condition.       *)
(***************************************************************************)
EXTENDS Integers, Sequences, FiniteSets

CONSTANTS
    Workers,    \* the threads duxrt_pool_new creates
    Clients,    \* the program threads that hold a reference to the pool
    Tasks,      \* the tasks of one behaviour; each is submitted at most once
    NoTask      \* what a worker runs when it runs nothing

ASSUME PoolAssumption ==
    /\ IsFiniteSet(Workers)
    /\ Workers # {}
    /\ NoTask \notin Tasks

VARIABLES
    queue,      \* the list head..tail of DuxPool
    pending,    \* DuxPool.pending: queued tasks and tasks being executed
    shutdown,   \* DuxPool.shutdown
    wpc,        \* where each worker is in pool_worker
    cur,        \* the task a worker has popped and not finished
    cpc,        \* where each client is in its call on the pool
    log,        \* history: the tasks in the order they were submitted
    done,       \* history: the tasks whose function returned
    snap        \* history: what had been submitted when a wait call began

vars == <<queue, pending, shutdown, wpc, cur, cpc, log, done, snap>>

-----------------------------------------------------------------------------
SeqSet(s) == {s[i] : i \in DOMAIN s}

Waiting  == {w \in Workers : wpc[w] = "wait"}
Fetching == {w \in Workers : wpc[w] = "fetch"}
Running  == {w \in Workers : wpc[w] = "run"}
Busy     == {w \in Workers : wpc[w] \in {"run", "report"}}

\* The object is alive until its owner enters the destructor (pool.dux:39).
Alive == \A c \in Clients : cpc[c] \in {"idle", "check", "waiting"}

\* Mutants: no signal at all; a signal only when the list was empty.
NoSignal == UNCHANGED wpc
SignalIfListWasEmpty ==
    IF queue = <<>> /\ Waiting # {}
    THEN \E w \in Waiting : wpc' = [wpc EXCEPT ![w] = "fetch"]
    ELSE UNCHANGED wpc

\* pthread_cond_signal on not_empty: one waiter wakes, if there is one.
SignalNotEmpty ==
    \/ Waiting = {} /\ UNCHANGED wpc
    \/ \E w \in Waiting : wpc' = [wpc EXCEPT ![w] = "fetch"]

\* Mutant: pthread_cond_signal in place of the broadcast.
SignalAllDone ==
    IF \E c \in Clients : cpc[c] = "waiting"
    THEN \E c \in Clients : cpc[c] = "waiting" /\ cpc' = [cpc EXCEPT ![c] = "check"]
    ELSE UNCHANGED cpc

\* pthread_cond_broadcast on all_done: every client in duxrt_pool_wait wakes.
BroadcastAllDone ==
    cpc' = [c \in Clients |-> IF cpc[c] = "waiting" THEN "check" ELSE cpc[c]]

\* Mutant: pending++ is forgotten.
EnqueueUncounted(t) ==
    /\ t \notin SeqSet(log)
    /\ queue' = Append(queue, t)
    /\ UNCHANGED pending
    /\ SignalNotEmpty
    /\ log' = Append(log, t)

\* The critical section of duxrt_pool_submit.
Enqueue(t) ==
    /\ t \notin SeqSet(log)
    /\ queue' = Append(queue, t)
    /\ pending' = pending + 1
    /\ SignalNotEmpty
    /\ log' = Append(log, t)

Init ==
    /\ queue = <<>>
    /\ pending = 0
    /\ shutdown = FALSE
    /\ wpc = [w \in Workers |-> "fetch"]
    /\ cur = [w \in Workers |-> NoTask]
    /\ cpc = [c \in Clients |-> "idle"]
    /\ log = <<>>
    /\ done = {}
    /\ snap = [c \in Clients |-> {}]

-----------------------------------------------------------------------------
(* pool_worker *)

\* Lock; the queue is empty and there is no shutdown: sleep on not_empty.
WorkerWait(w) ==
    /\ wpc[w] = "fetch"
    /\ queue = <<>>
    /\ ~shutdown
    /\ wpc' = [wpc EXCEPT ![w] = "wait"]
    /\ UNCHANGED <<queue, pending, shutdown, cur, cpc, log, done, snap>>

\* POSIX lets pthread_cond_wait return without a signal.
WorkerSpurious(w) ==
    /\ wpc[w] = "wait"
    /\ wpc' = [wpc EXCEPT ![w] = "fetch"]
    /\ UNCHANGED <<queue, pending, shutdown, cur, cpc, log, done, snap>>

\* Mutant: a worker leaves as soon as it sees the shutdown.
WorkerExitEarly(w) ==
    /\ wpc[w] = "fetch"
    /\ shutdown
    /\ wpc' = [wpc EXCEPT ![w] = "exited"]
    /\ UNCHANGED <<queue, pending, shutdown, cur, cpc, log, done, snap>>

\* Lock; shutdown and nothing left to run: leave the loop.
WorkerExit(w) ==
    /\ wpc[w] = "fetch"
    /\ queue = <<>>
    /\ shutdown
    /\ wpc' = [wpc EXCEPT ![w] = "exited"]
    /\ UNCHANGED <<queue, pending, shutdown, cur, cpc, log, done, snap>>

\* Lock; pop the head of the list; unlock.
WorkerTake(w) ==
    /\ wpc[w] = "fetch"
    /\ queue # <<>>
    /\ wpc' = [wpc EXCEPT ![w] = "run"]
    /\ cur' = [cur EXCEPT ![w] = Head(queue)]
    /\ queue' = Tail(queue)
    /\ UNCHANGED <<pending, shutdown, cpc, log, done, snap>>

\* The task's function returns and its node is freed.
WorkerRan(w) ==
    /\ wpc[w] = "run"
    /\ wpc' = [wpc EXCEPT ![w] = "report"]
    /\ cur' = [cur EXCEPT ![w] = NoTask]
    /\ done' = done \cup {cur[w]}
    /\ UNCHANGED <<queue, pending, shutdown, cpc, log, snap>>

\* Lock; count the task off; the last one wakes every waiting client.
WorkerReport(w) ==
    /\ wpc[w] = "report"
    /\ wpc' = [wpc EXCEPT ![w] = "fetch"]
    /\ pending' = pending - 1
    /\ IF pending' = 0 THEN BroadcastAllDone ELSE UNCHANGED cpc
    /\ UNCHANGED <<queue, shutdown, cur, log, done, snap>>

-----------------------------------------------------------------------------
(* The callers *)

\* duxrt_pool_submit from a program thread.
Submit(c, t) ==
    /\ cpc[c] = "idle"
    /\ Alive
    /\ Enqueue(t)
    /\ UNCHANGED <<shutdown, cur, cpc, done, snap>>

\* duxrt_pool_submit from a running task; it is legal during a shutdown too.
SubmitFromTask(w, t) ==
    /\ wpc[w] = "run"
    /\ Enqueue(t)
    /\ UNCHANGED <<shutdown, cur, cpc, done, snap>>

\* duxrt_pool_wait is called.
WaitCall(c) ==
    /\ cpc[c] = "idle"
    /\ Alive
    /\ cpc' = [cpc EXCEPT ![c] = "check"]
    /\ snap' = [snap EXCEPT ![c] = SeqSet(log)]
    /\ UNCHANGED <<queue, pending, shutdown, wpc, cur, log, done>>

\* Lock; tasks are pending: sleep on all_done.
WaitSleep(c) ==
    /\ cpc[c] = "check"
    /\ pending > 0
    /\ cpc' = [cpc EXCEPT ![c] = "waiting"]
    /\ UNCHANGED <<queue, pending, shutdown, wpc, cur, log, done, snap>>

\* Mutant: if in place of while around the wait.
WaitSpuriousReturns(c) ==
    /\ cpc[c] = "waiting"
    /\ cpc' = [cpc EXCEPT ![c] = "idle"]
    /\ UNCHANGED <<queue, pending, shutdown, wpc, cur, log, done, snap>>

WaitSpurious(c) ==
    /\ cpc[c] = "waiting"
    /\ cpc' = [cpc EXCEPT ![c] = "check"]
    /\ UNCHANGED <<queue, pending, shutdown, wpc, cur, log, done, snap>>

\* Lock; nothing is pending: duxrt_pool_wait returns.
WaitReturn(c) ==
    /\ cpc[c] = "check"
    /\ pending <= 0
    /\ cpc' = [cpc EXCEPT ![c] = "idle"]
    /\ UNCHANGED <<queue, pending, shutdown, wpc, cur, log, done, snap>>

\* The owner runs ~ThreadPool: duxrt_pool_shutdown sets the flag, wakes every
\* worker and starts joining.  No other thread is inside a call: the object's
\* lifetime ends here.
Shutdown(c) ==
    /\ \A d \in Clients : cpc[d] = "idle"
    /\ shutdown' = TRUE
    /\ wpc' = [w \in Workers |-> IF w \in Waiting THEN "fetch" ELSE wpc[w]]
    /\ cpc' = [cpc EXCEPT ![c] = "joining"]
    /\ UNCHANGED <<queue, pending, cur, log, done, snap>>

\* The last pthread_join of duxrt_pool_shutdown returns.
Joined(c) ==
    /\ cpc[c] = "joining"
    /\ \A w \in Workers : wpc[w] = "exited"
    /\ cpc' = [cpc EXCEPT ![c] = "joined"]
    /\ UNCHANGED <<queue, pending, shutdown, wpc, cur, log, done, snap>>

\* duxrt_pool_free drops the nodes still queued and the pool itself.
Free(c) ==
    /\ cpc[c] = "joined"
    /\ cpc' = [cpc EXCEPT ![c] = "freed"]
    /\ queue' = <<>>
    /\ UNCHANGED <<pending, shutdown, wpc, cur, log, done, snap>>

-----------------------------------------------------------------------------
WorkerStep(w) ==
    \/ WorkerWait(w)
    \/ WorkerExit(w)
    \/ WorkerTake(w)
    \/ WorkerRan(w)
    \/ WorkerReport(w)

ClientStep(c) ==
    \/ WaitSleep(c)
    \/ WaitReturn(c)
    \/ Joined(c)
    \/ Free(c)

Next ==
    \/ \E w \in Workers :
          \/ WorkerStep(w)
          \/ WorkerSpurious(w)
          \/ \E t \in Tasks : SubmitFromTask(w, t)
    \/ \E c \in Clients :
          \/ ClientStep(c)
          \/ WaitSpurious(c)
          \/ WaitCall(c)
          \/ Shutdown(c)
          \/ \E t \in Tasks : Submit(c, t)

Spec == Init /\ [][Next]_vars

\* The operating system schedules every thread that can run, and every task's
\* function returns.  Nothing is assumed of new calls or spurious wakeups.
Fairness ==
    /\ \A w \in Workers : WF_vars(WorkerStep(w))
    /\ \A c \in Clients : WF_vars(ClientStep(c))

FairSpec == Spec /\ Fairness

-----------------------------------------------------------------------------
(* Properties *)

TypeOK ==
    /\ queue \in Seq(Tasks)
    /\ pending \in Int
    /\ shutdown \in BOOLEAN
    /\ wpc \in [Workers -> {"fetch", "wait", "run", "report", "exited"}]
    /\ cur \in [Workers -> Tasks \cup {NoTask}]
    /\ cpc \in [Clients -> {"idle", "check", "waiting", "joining", "joined", "freed"}]
    /\ log \in Seq(Tasks)
    /\ done \in SUBSET Tasks
    /\ snap \in [Clients -> SUBSET Tasks]

\* pending counts the queued tasks and the tasks a worker holds or has not yet
\* counted off (pool_worker, duxrt_pool_submit): it never drifts, so
\* duxrt_pool_wait cannot return early nor block for ever.
PendingExact == pending = Len(queue) + Cardinality(Busy)

\* The list always holds the most recent submissions in their order, so tasks
\* start in submission order, none is skipped and none starts twice.
FifoStart ==
    /\ Len(queue) <= Len(log)
    /\ \A i \in 1 .. Len(queue) : queue[i] = log[Len(log) - Len(queue) + i]

\* Each started task is at one worker or has finished, and never both.
Started == {log[i] : i \in 1 .. (Len(log) - Len(queue))}
ExactlyOnce ==
    /\ Started = done \cup {cur[w] : w \in Running}
    /\ \A w \in Running : cur[w] \notin done
    /\ \A v, w \in Running : cur[v] = cur[w] => v = w

\* A worker sleeps on not_empty only while every queued task has an awake worker
\* on its way to the list: the one signal per submit loses no wakeup.
WorkConserving == Waiting # {} => Len(queue) <= Cardinality(Fetching)

\* When ~ThreadPool has joined the workers the list is empty and everything that
\* was submitted, by tasks during the shutdown too, has run: duxrt_pool_free
\* drops nothing and no thread touches the pool afterwards.
ShutdownDrains ==
    \A c \in Clients : cpc[c] \in {"joined", "freed"} =>
        /\ queue = <<>>
        /\ done = SeqSet(log)
        /\ \A w \in Workers : wpc[w] = "exited"

\* What the safety of the pool rests on, beside the invariants above: a task is
\* submitted once, a worker holds a task exactly while it runs one, and once the
\* destructor has begun nobody sleeps, nobody else calls, and the last worker
\* leaves an empty list behind.
Bookkeeping ==
    /\ \A i, j \in 1 .. Len(log) : log[i] = log[j] => i = j
    /\ \A w \in Workers : wpc[w] = "run" <=> cur[w] # NoTask
    /\ \A c \in Clients : snap[c] \subseteq SeqSet(log)
Closing(c) == cpc[c] \in {"joining", "joined", "freed"}
ShutdownPhase ==
    /\ shutdown <=> \E c \in Clients : Closing(c)
    /\ shutdown => Waiting = {}
    /\ \A c, d \in Clients : Closing(c) /\ c # d => cpc[d] = "idle"
    /\ \A w \in Workers : wpc[w] = "exited" => shutdown
    /\ (\A w \in Workers : wpc[w] = "exited") => queue = <<>>
    /\ \A c \in Clients : cpc[c] \in {"joined", "freed"} =>
          \A w \in Workers : wpc[w] = "exited"
PoolInv ==
    /\ TypeOK
    /\ Bookkeeping
    /\ FifoStart
    /\ ExactlyOnce
    /\ PendingExact
    /\ ShutdownPhase

\* duxrt_pool_wait returns only after every task submitted before the call has
\* run ("Block until all queued tasks have finished", pool.dux:28).
WaitBarrier ==
    [][\A c \in Clients :
          cpc[c] # "idle" /\ cpc'[c] = "idle" => snap[c] \subseteq done]_vars

\* Every submitted task runs: no task is lost by a missed signal, a shutdown or
\* a worker that leaves early.
EveryTaskRuns == \A t \in Tasks : (t \in SeqSet(log)) ~> (t \in done)

\* duxrt_pool_wait returns once submissions stop (a task submits finitely often),
\* to every waiting client, and the destructor returns.
CallsReturn ==
    \A c \in Clients :
        /\ (cpc[c] = "check") ~> (cpc[c] = "idle")
        /\ (cpc[c] = "joining") ~> (cpc[c] = "freed")
=============================================================================
