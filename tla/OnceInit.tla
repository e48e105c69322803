------------------------------ MODULE OnceInit ------------------------------
(***************************************************************************)
(* The two ways the program has to initialise something once: a DuxOnce    *)
(* handle (src/src/runtime/thread_rt.c, duxrt_once_call), a flag tested    *)
(* under a mutex, and a `static` local variable, for which                 *)
(* src/src/codegen/codegen.cpp emits a guard byte tested and set by plain  *)
(* loads and stores.                                                       *)
(*                                                                         *)
(* Threads call the function that holds the once.  Loads and stores are    *)
(* taken in program order; the races of the guard byte are interleavings.  *)
(***************************************************************************)
EXTENDS Integers

CONSTANTS
    Threads, None,    \* None is no thread
    Kinds,            \* the kinds of once considered, of those below
    MaxCalls          \* bound: calls by each thread

\* A DuxOnce; a static local of a plain type; a static local that holds a list,
\* a dict or a class instance.
AllKinds == {"once", "static", "static_counted"}

ASSUME OnceAssumption ==
    /\ None \notin Threads /\ MaxCalls \in Nat
    /\ Kinds \subseteq AllKinds

VARIABLES
    kind,     \* what the threads call
    mu,       \* DuxOnce.mu: the thread that holds it, or None
    done,     \* DuxOnce.done, or the guard byte
    value,    \* what the initialiser stores is there
    inits,    \* executions of the initialiser begun
    pc,       \* pc[t]: where thread t is
    calls     \* calls[t]: calls t has made

vars == <<kind, mu, done, value, inits, pc, calls>>

Init ==
    /\ kind \in Kinds
    /\ mu = None
    /\ done = FALSE
    /\ value = FALSE
    /\ inits = 0
    /\ pc = [t \in Threads |-> "idle"]
    /\ calls = [t \in Threads |-> 0]

Go(t, from, to) ==
    /\ pc[t] = from
    /\ pc' = [pc EXCEPT ![t] = to]

Call(t) ==
    /\ Go(t, "idle", IF kind = "once" THEN "lock" ELSE "test")
    /\ calls[t] < MaxCalls
    /\ calls' = [calls EXCEPT ![t] = @ + 1]
    /\ UNCHANGED <<kind, mu, done, value, inits>>

\* Mutant: the call goes on when the mutex is taken.
LockBarging(t) ==
    /\ Go(t, "lock", "test")
    /\ mu' = t
    /\ UNCHANGED <<kind, done, value, inits, calls>>

Lock(t) ==
    /\ Go(t, "lock", "test")
    /\ mu = None
    /\ mu' = t
    /\ UNCHANGED <<kind, done, value, inits, calls>>

Return(t) == IF kind = "once" THEN "unlock" ELSE "use"

\* The flag is set: nothing to do.
TestDone(t) ==
    /\ Go(t, "test", Return(t))
    /\ done
    /\ UNCHANGED <<kind, mu, done, value, inits, calls>>

\* Mutant: the flag is set before the initialiser runs.
TestClearEarly(t) ==
    /\ Go(t, "test", "init")
    /\ ~done
    /\ done' = TRUE
    /\ inits' = inits + 1
    /\ UNCHANGED <<kind, mu, value, calls>>

\* The flag is clear: the initialiser starts.
TestClear(t) ==
    /\ Go(t, "test", "init")
    /\ ~done
    /\ inits' = inits + 1
    /\ UNCHANGED <<kind, mu, done, value, calls>>

Initialise(t) ==
    /\ Go(t, "init", "set")
    /\ value' = TRUE
    /\ UNCHANGED <<kind, mu, done, inits, calls>>

SetDone(t) ==
    /\ Go(t, "set", Return(t))
    /\ done' = TRUE
    /\ UNCHANGED <<kind, mu, value, inits, calls>>

\* Mutant: the call returns with the mutex held.
UnlockForgotten(t) ==
    /\ Go(t, "unlock", "use")
    /\ UNCHANGED <<kind, mu, done, value, inits, calls>>

Unlock(t) ==
    /\ Go(t, "unlock", "use")
    /\ mu' = None
    /\ UNCHANGED <<kind, done, value, inits, calls>>

\* The caller goes on to what the once has initialised.  A static local is
\* registered with the scope like any local (env_define), so that the end of the
\* scope releases a counted value and stores null; the guard stays set.
Use(t) ==
    /\ Go(t, "use", "idle")
    /\ value' = (value /\ kind # "static_counted")
    /\ UNCHANGED <<kind, mu, done, inits, calls>>

Step(t) ==
    Lock(t) \/ TestDone(t) \/ TestClear(t) \/ Initialise(t) \/ SetDone(t) \/ Unlock(t) \/ Use(t)

Next == \E t \in Threads : Call(t) \/ Step(t)

\* Threads inside a call are scheduled, and the initialiser ends.
Spec ==
    /\ Init /\ [][Next]_vars
    /\ \A t \in Threads : WF_vars(Step(t))

-----------------------------------------------------------------------------
(* Properties.                                                             *)

\* Type correctness.
TypeOK ==
    /\ kind \in Kinds
    /\ mu \in Threads \cup {None}
    /\ done \in BOOLEAN /\ value \in BOOLEAN
    /\ inits \in Nat
    /\ pc \in [Threads -> {"idle", "lock", "test", "init", "set", "unlock", "use"}]
    /\ calls \in [Threads -> Nat]

\* Inside DuxOnce.mu.
Critical == {"test", "init", "set", "unlock"}

\* What makes duxrt_once_call safe: between lock and unlock there is only the thread
\* that holds the mutex, and the initialiser has begun exactly when the flag is
\* set or that thread is on its way to set it.  A set flag means a value, for a
\* static local of a plain type too.
OnceInv ==
    /\ TypeOK
    /\ kind = "once" =>
        /\ \A t \in Threads : pc[t] \in Critical => mu = t
        /\ mu \in Threads => pc[mu] \in Critical
        /\ inits = 0 => ~done /\ \A t \in Threads : pc[t] \notin {"init", "set"}
        /\ inits # 0 =>
              /\ inits = 1
              /\ done \/ \E t \in Threads : pc[t] \in {"init", "set"}
    /\ kind # "static_counted" =>
        /\ done => value
        /\ \A t \in Threads : pc[t] = "set" => value
        /\ \A t \in Threads : pc[t] \in {"unlock", "use"} => done

\* duxrt_once_call, and the guard of a static local: a caller that has passed
\* the once finds the initialisation complete, whoever performed it.  (Not so for
\* a static local of a counted type: see Use.)
UseInitialised == \A t \in Threads : pc[t] = "use" => value

\* duxrt_once_call: the function is executed at most once, by one of the threads
\* that call it.  (The guard of a static local does not give this: two threads
\* that find it clear both run the initialiser.)
InitOnce == kind = "once" => inits <= 1

\* duxrt_once_call returns to every caller.
CallReturns == \A t \in Threads : pc[t] # "idle" ~> pc[t] = "idle"

=============================================================================
