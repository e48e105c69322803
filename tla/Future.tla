------------------------------- MODULE Future -------------------------------
(***************************************************************************)
(* One DuxFuture of src/src/runtime/future_rt.c with several owners.  The  *)
(* launcher's reference is the first; every other owner received one of    *)
(* its own by duxrt_future_retain.  An owner may await, and then drops its *)
(* reference; the worker settles the future once.                          *)
(*                                                                         *)
(* future.mu covers done and result, so a critical section is one step;    *)
(* ref_count is an atomic and its fetch_sub a step of its own.             *)
(***************************************************************************)
EXTENDS Integers, FiniteSets

CONSTANTS
    Owners,     \* the threads that may hold a reference
    Creator,    \* the owner that called duxrt_future_new
    Awaiters,   \* the owners that call duxrt_future_await
    Result, NoResult

\* What an instance assumes of the constants.
FutureAssumption ==
    /\ IsFiniteSet(Owners)
    /\ Creator \in Owners
    /\ Awaiters \subseteq Owners
    /\ Result # NoResult

VARIABLES
    done,       \* DuxFuture.done
    result,     \* DuxFuture.result
    refs,       \* DuxFuture.ref_count
    freed,      \* the memory has been released
    worker,     \* the worker: "compute" until duxrt_future_set, then "gone"
    opc,        \* where each owner is
    got         \* what each owner's await returned

vars == <<done, result, refs, freed, worker, opc, got>>

Sleeping == {o \in Owners : opc[o] \in {"awaiting", "destroying"}}
Woken(o) == IF opc[o] = "awaiting" THEN "await" ELSE "destroy"

Init ==
    /\ done = FALSE
    /\ result = NoResult
    /\ refs = 1
    /\ freed = FALSE
    /\ worker = "compute"
    /\ opc = [o \in Owners |-> IF o = Creator THEN "hold" ELSE "none"]
    /\ got = [o \in Owners |-> NoResult]

-----------------------------------------------------------------------------
\* duxrt_future_retain: an owner makes a reference for another one.
Retain(o, p) ==
    /\ opc[o] = "hold"
    /\ opc[p] = "none"
    /\ refs' = refs + 1
    /\ opc' = [opc EXCEPT ![p] = "hold"]
    /\ UNCHANGED <<done, result, freed, worker, got>>

\* Mutant: nobody is signalled.
SetSilent ==
    /\ worker = "compute"
    /\ worker' = "gone"
    /\ result' = Result
    /\ done' = TRUE
    /\ UNCHANGED <<refs, freed, opc, got>>

\* duxrt_future_set: publish the result and signal one sleeper.
Set ==
    /\ worker = "compute"
    /\ worker' = "gone"
    /\ result' = Result
    /\ done' = TRUE
    /\ \/ Sleeping = {} /\ UNCHANGED opc
       \/ \E o \in Sleeping : opc' = [opc EXCEPT ![o] = Woken(o)]
    /\ UNCHANGED <<refs, freed, got>>

\* duxrt_future_await is called.
AwaitCall(o) ==
    /\ o \in Awaiters
    /\ opc[o] = "hold"
    /\ got[o] = NoResult
    /\ opc' = [opc EXCEPT ![o] = "await"]
    /\ UNCHANGED <<done, result, refs, freed, worker, got>>

\* Lock; not done: sleep.
AwaitSleep(o) ==
    /\ opc[o] = "await"
    /\ ~done
    /\ opc' = [opc EXCEPT ![o] = "awaiting"]
    /\ UNCHANGED <<done, result, refs, freed, worker, got>>

\* Lock; done: read the result and return.
AwaitReturn(o) ==
    /\ opc[o] = "await"
    /\ done
    /\ got' = [got EXCEPT ![o] = result]
    /\ opc' = [opc EXCEPT ![o] = "hold"]
    /\ UNCHANGED <<done, result, refs, freed, worker>>

\* duxrt_future_free: the atomic decrement; the last owner goes on to destroy.
Drop(o) ==
    /\ opc[o] = "hold"
    /\ refs' = refs - 1
    /\ opc' = [opc EXCEPT ![o] = IF refs = 1 THEN "destroy" ELSE "gone"]
    /\ UNCHANGED <<done, result, freed, worker, got>>

\* The last owner locks and sleeps until the worker has settled the future.
DestroySleep(o) ==
    /\ opc[o] = "destroy"
    /\ ~done
    /\ opc' = [opc EXCEPT ![o] = "destroying"]
    /\ UNCHANGED <<done, result, refs, freed, worker, got>>

\* Mutant: the wait for done in duxrt_future_free is missing.
DestroyAtOnce(o) ==
    /\ opc[o] = "destroy"
    /\ freed' = TRUE
    /\ opc' = [opc EXCEPT ![o] = "gone"]
    /\ UNCHANGED <<done, result, refs, worker, got>>

\* The future is settled: destroy the mutex and the condition, free the memory.
Destroy(o) ==
    /\ opc[o] = "destroy"
    /\ done
    /\ freed' = TRUE
    /\ opc' = [opc EXCEPT ![o] = "gone"]
    /\ UNCHANGED <<done, result, refs, worker, got>>

\* POSIX lets pthread_cond_wait return without a signal.
Spurious(o) ==
    /\ o \in Sleeping
    /\ opc' = [opc EXCEPT ![o] = Woken(o)]
    /\ UNCHANGED <<done, result, refs, freed, worker, got>>

OwnerStep(o) ==
    \/ AwaitSleep(o)
    \/ AwaitReturn(o)
    \/ Drop(o)
    \/ DestroySleep(o)
    \/ Destroy(o)

Next ==
    \/ Set
    \/ \E o \in Owners :
          \/ OwnerStep(o)
          \/ AwaitCall(o)
          \/ Spurious(o)
          \/ \E p \in Owners : Retain(o, p)

Spec == Init /\ [][Next]_vars

\* The worker's body terminates, and every owner runs and drops its reference
\* in the end: codegen pairs each await with a free.
FairSpec == Spec /\ WF_vars(Set) /\ \A o \in Owners : WF_vars(OwnerStep(o))

-----------------------------------------------------------------------------
(* Properties *)

TypeOK ==
    /\ done \in BOOLEAN /\ freed \in BOOLEAN
    /\ result \in {Result, NoResult}
    /\ refs \in Nat
    /\ worker \in {"compute", "gone"}
    /\ opc \in [Owners -> {"none", "hold", "await", "awaiting", "destroy", "destroying", "gone"}]
    /\ got \in [Owners -> {Result, NoResult}]

Holders == {o \in Owners : opc[o] \in {"hold", "await", "awaiting"}}

\* The count is the number of owners that may still use the future, and the memory
\* outlives every use: it is released once, after the last owner let go and after
\* the worker's last access (RT-6 in duxrt_future_free).
FreedLast ==
    /\ refs = Cardinality(Holders)
    /\ freed =>
        /\ Holders = {}
        /\ worker = "gone"
        /\ \A o \in Owners : opc[o] \notin {"destroy", "destroying"}

\* duxrt_future_await returns ("Block until the future is resolved", future_rt.c:81).
AwaitReturns == \A o \in Owners : (opc[o] = "await") ~> (opc[o] = "hold")
=============================================================================
