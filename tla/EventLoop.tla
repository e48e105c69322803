------------------------------ MODULE EventLoop ------------------------------
(***************************************************************************)
(* The event loop control of src/src/runtime/async_rt.c: duxrt_async_run,  *)
(* duxrt_async_stop and duxrt_async_is_running over two atomic flags.      *)
(* Every atomic load and store is a step of its own.                       *)
(***************************************************************************)
EXTENDS Integers

CONSTANTS
    Runners,     \* threads that call run()
    Stoppers,    \* threads that call stop()
    MaxRuns,     \* bound: calls of run() by each runner
    MaxStops     \* bound: calls of stop() by each stopper

\* What an instance assumes of the constants.
LoopAssumption ==
    /\ Runners \cap Stoppers = {}
    /\ MaxRuns \in Nat /\ MaxStops \in Nat

VARIABLES
    g_stop_requested, g_running,    \* the two atomics
    pc,                             \* pc[t]: where thread t is
    calls                           \* calls[t]: calls t has made

vars == <<g_stop_requested, g_running, pc, calls>>

LoopThreads == Runners \cup Stoppers

Init ==
    /\ g_stop_requested = FALSE
    /\ g_running = FALSE
    /\ pc = [t \in LoopThreads |-> "idle"]
    /\ calls = [t \in LoopThreads |-> 0]

Go(t, from, to) ==
    /\ pc[t] = from
    /\ pc' = [pc EXCEPT ![t] = to]

-----------------------------------------------------------------------------
(* duxrt_async_run.                                                        *)

RunCall(r) ==
    /\ Go(r, "idle", "enter")
    /\ calls[r] < MaxRuns
    /\ calls' = [calls EXCEPT ![r] = @ + 1]
    /\ UNCHANGED <<g_stop_requested, g_running>>

\* Mutant: run() discards a request made before it.
RunEnterFresh(r) ==
    /\ Go(r, "enter", "loop")
    /\ g_running' = TRUE
    /\ g_stop_requested' = FALSE
    /\ UNCHANGED calls

RunEnter(r) ==
    /\ Go(r, "enter", "loop")
    /\ g_running' = TRUE
    /\ UNCHANGED <<g_stop_requested, calls>>

\* The loop test fails.  While it holds the thread sleeps a tick and tests
\* again, which changes nothing.
LoopExit(r) ==
    /\ Go(r, "loop", "leave")
    /\ g_stop_requested
    /\ UNCHANGED <<g_stop_requested, g_running, calls>>

RunLeave(r) ==
    /\ Go(r, "leave", "reset")
    /\ g_running' = FALSE
    /\ UNCHANGED <<g_stop_requested, calls>>

\* The request is consumed: run() can be called again.
RunReset(r) ==
    /\ Go(r, "reset", "idle")
    /\ g_stop_requested' = FALSE
    /\ UNCHANGED <<g_running, calls>>

-----------------------------------------------------------------------------
(* duxrt_async_stop.                                                       *)

StopRequest(s) ==
    /\ Go(s, "idle", "clear")
    /\ calls[s] < MaxStops
    /\ calls' = [calls EXCEPT ![s] = @ + 1]
    /\ g_stop_requested' = TRUE
    /\ UNCHANGED g_running

StopClear(s) ==
    /\ Go(s, "clear", "idle")
    /\ g_running' = FALSE
    /\ UNCHANGED <<g_stop_requested, calls>>

RunStep(r) == RunEnter(r) \/ LoopExit(r) \/ RunLeave(r) \/ RunReset(r)

Next ==
    \/ \E r \in Runners : RunCall(r) \/ RunStep(r)
    \/ \E s \in Stoppers : StopRequest(s) \/ StopClear(s)

\* A thread inside a call is scheduled; nobody is obliged to make one.
Spec ==
    /\ Init /\ [][Next]_vars
    /\ \A r \in Runners : WF_vars(RunStep(r))
    /\ \A s \in Stoppers : WF_vars(StopClear(s))

-----------------------------------------------------------------------------
(* Properties.                                                             *)

\* Type correctness.
TypeOK ==
    /\ g_stop_requested \in BOOLEAN /\ g_running \in BOOLEAN
    /\ pc \in [LoopThreads -> {"idle", "enter", "loop", "leave", "reset", "clear"}]
    /\ calls \in [LoopThreads -> Nat]

\* stdlib/async/task.dux: a run() goes on until stop() is called, also when it was
\* called before run().  With two runners one may reset the request before the other
\* tests it.
StopEnds ==
    \A r \in Runners :
       g_stop_requested /\ pc[r] \in {"enter", "loop"} ~> pc[r] = "idle"

\* duxrt_async_run: no request goes astray.  It ends the run it meets, unless it has
\* ended that of another runner, who then takes it away.
StopTaken ==
    \A r \in Runners :
       g_stop_requested /\ pc[r] \in {"enter", "loop"}
          ~> \/ pc[r] = "idle"
             \/ \E q \in Runners \ {r} : pc[q] = "reset"

=============================================================================
