---------------------------- MODULE HandleProofs ----------------------------
(***************************************************************************)
(* What a program holds by a handle: a once, for any threads and any       *)
(* number of calls; a future, for any owners and awaiters; a process, for  *)
(* any capacity and output; a WebSocket connection; an HTTP exchange.  The *)
(* last section says that a part of MCHandles is the component itself.     *)
(***************************************************************************)
EXTENDS MCHandles, Sequences, FiniteSetTheorems, TLAPS

-----------------------------------------------------------------------------
(* One-time initialisation: the steps                                      *)

\* The steps of one thread, by name.
StepOf(t) == Call(t) \/ Step(t)

\* Every step is a step of some thread, or a stutter.
LEMMA StepSplit ==
    ASSUME [Next]_vars
    PROVE  (\E t \in Threads : StepOf(t)) \/ UNCHANGED vars
BY DEF Next, StepOf

-----------------------------------------------------------------------------
(* Type correctness *)

\* Every step keeps the types.
LEMMA OnceTypeStep == TypeOK /\ [Next]_vars => TypeOK'
<1>. SUFFICES ASSUME TypeOK, [Next]_vars PROVE TypeOK'
  OBVIOUS
<1>. USE OnceAssumption DEF TypeOK, Go
<1>1. ASSUME NEW t \in Threads, StepOf(t)
      PROVE  TypeOK'
  <2>1. CASE Call(t) BY <2>1 DEF Call
  <2>2. CASE Lock(t) BY <2>2 DEF Lock
  <2>3. CASE TestDone(t) BY <2>3 DEF TestDone, Return
  <2>4. CASE TestClear(t) BY <2>4 DEF TestClear
  <2>5. CASE Initialise(t) BY <2>5 DEF Initialise
  <2>6. CASE SetDone(t) BY <2>6 DEF SetDone, Return
  <2>7. CASE Unlock(t) BY <2>7 DEF Unlock
  <2>8. CASE Use(t) BY <2>8 DEF Use
  <2>. QED
    BY <1>1, <2>1, <2>2, <2>3, <2>4, <2>5, <2>6, <2>7, <2>8 DEF StepOf, Step
<1>2. CASE UNCHANGED vars
  BY <1>2 DEF vars
<1>. QED
  BY <1>1, <1>2, StepSplit

\* And they hold at the start.
LEMMA OnceInitType == Init => TypeOK
<1>. SUFFICES ASSUME Init PROVE TypeOK
  OBVIOUS
<1>. USE DEF Init
<1>1. done \in BOOLEAN
  OBVIOUS
<1>2. value \in BOOLEAN
  OBVIOUS
<1>3. kind \in Kinds /\ mu \in Threads \cup {None} /\ inits \in Nat
  OBVIOUS
<1>4. pc \in [Threads -> {"idle", "lock", "test", "init", "set", "unlock", "use"}]
  OBVIOUS
<1>5. calls \in [Threads -> Nat]
  OBVIOUS
<1>. QED
  BY <1>1, <1>2, <1>3, <1>4, <1>5 DEF TypeOK

\* Every value the once, its mutex and the program counters take has its type.
THEOREM OnceTypeCorrect == Spec => []TypeOK
BY OnceInitType, OnceTypeStep, PTL DEF Spec

-----------------------------------------------------------------------------
(* The invariant *)

\* The invariant of a once holds at the start.
LEMMA OnceInitInv == Init => OnceInv
BY OnceInitType, OnceAssumption DEF Init, OnceInv, Critical

\* Every step of a thread in duxrt_once_call keeps it.
LEMMA OnceStepInv == OnceInv /\ [Next]_vars => OnceInv'
<1>. SUFFICES ASSUME OnceInv, [Next]_vars PROVE OnceInv'
  OBVIOUS
<1>1. TypeOK /\ TypeOK'
  BY OnceTypeStep DEF OnceInv
<1>. USE OnceAssumption, <1>1 DEF OnceInv, TypeOK, Go, Critical
<1>2. ASSUME NEW t \in Threads, StepOf(t)
      PROVE  OnceInv'
  <2>1. CASE Call(t) BY <2>1 DEF Call
  <2>2. CASE Lock(t) BY <2>2 DEF Lock
  <2>3. CASE TestDone(t) BY <2>3 DEF TestDone, Return
  <2>4. CASE TestClear(t) BY <2>4 DEF TestClear
  <2>5. CASE Initialise(t) BY <2>5 DEF Initialise
  <2>6. CASE SetDone(t) BY <2>6 DEF SetDone, Return
  <2>7. CASE Unlock(t) BY <2>7 DEF Unlock
  <2>8. CASE Use(t) BY <2>8 DEF Use
  <2>. QED
    BY <1>2, <2>1, <2>2, <2>3, <2>4, <2>5, <2>6, <2>7, <2>8 DEF StepOf, Step
<1>3. CASE UNCHANGED vars
  BY <1>3 DEF vars
<1>. QED
  BY <1>2, <1>3, StepSplit

\* In every reachable state the mutex excludes, and the flag, the initialiser's
\* progress and the value agree.
THEOREM OnceConsistent == Spec => []OnceInv
BY OnceInitInv, OnceStepInv, PTL DEF Spec

\* The function given to duxrt_once_call runs at most once, whatever threads
\* call it and however often (thread_rt.c:199).
THEOREM InitialisedOnce == Spec => []InitOnce
<1>1. OnceInv => InitOnce
  BY DEF OnceInv, TypeOK, InitOnce
<1>. QED
  BY OnceConsistent, <1>1, PTL

\* Whoever has passed the once, or the guard of a static local of a plain type,
\* finds the initialisation complete (thread_rt.c:199, codegen.cpp:2081).
THEOREM UseSeesValue ==
    ASSUME "static_counted" \notin Kinds
    PROVE  Spec => []UseInitialised
<1>1. OnceInv => UseInitialised
  BY DEF OnceInv, TypeOK, UseInitialised
<1>. QED
  BY OnceConsistent, <1>1, PTL

-----------------------------------------------------------------------------
(* The future                                                              *)

Destroyers == {o \in Owners : fOpc[o] \in {"destroy", "destroying"}}

\* The count is exact; whoever is destroying the future is alone, and nobody holds
\* it any more; it is freed only after it was settled.
FutureInv ==
    /\ F!TypeOK
    /\ fRefs = Cardinality(F!Holders)
    /\ fDone <=> fWorker = "gone"
    /\ Destroyers # {} => F!Holders = {} /\ ~fFreed
    /\ \A o, p \in Destroyers : o = p
    /\ fFreed => F!Holders = {} /\ fDone

-----------------------------------------------------------------------------
\* A new future has one holder, its creator.
LEMMA FutureInit == ASSUME F!FutureAssumption, F!Init PROVE FutureInv
<1>1. F!Holders = {Creator}
  BY DEF F!FutureAssumption, F!Init, F!Holders
<1>2. Cardinality(F!Holders) = 1
  BY <1>1, FS_Singleton
<1>3. Destroyers = {}
  BY DEF F!Init, Destroyers
<1>. QED
  BY <1>1, <1>2, <1>3 DEF F!Init, F!TypeOK, FutureInv

\* The cardinality of module Future is the cardinality.
LEMMA SameCount == F!Cardinality(F!Holders) = Cardinality(F!Holders)
BY DEF F!Cardinality, Cardinality, F!IsFiniteSet, IsFiniteSet

\* The holders are finitely many, and none at all if the count is zero.
LEMMA HoldersFinite ==
    ASSUME F!FutureAssumption
    PROVE  /\ IsFiniteSet(F!Holders) /\ Cardinality(F!Holders) \in Nat
           /\ Cardinality(F!Holders) = 0 <=> F!Holders = {}
<1>1. IsFiniteSet(Owners)
  BY DEF F!FutureAssumption, F!IsFiniteSet, IsFiniteSet
<1>2. F!Holders \subseteq Owners
  BY DEF F!Holders
<1>. QED
  BY <1>1, <1>2, FS_Subset, FS_CardinalityType, FS_EmptySet

\* What keeps holders and destroyers keeps the invariant.
LEMMA SameOwners ==
    ASSUME FutureInv, F!TypeOK', UNCHANGED <<fRefs, fFreed>>, F!Holders' = F!Holders,
           Destroyers' = Destroyers, fDone' <=> fWorker' = "gone", fDone => fDone'
    PROVE  FutureInv'
BY DEF FutureInv

\* Every step of an owner and of the worker keeps the invariant.
LEMMA FutureStep ==
    ASSUME F!FutureAssumption, FutureInv, [F!Next]_(F!vars)
    PROVE  FutureInv'
<1>1. /\ F!TypeOK /\ fRefs = Cardinality(F!Holders) /\ (fDone <=> fWorker = "gone")
      /\ Destroyers # {} => F!Holders = {} /\ ~fFreed
      /\ \A o, p \in Destroyers : o = p
      /\ fFreed => F!Holders = {} /\ fDone
  BY DEF FutureInv
<1>2. IsFiniteSet(F!Holders) /\ Cardinality(F!Holders) \in Nat
  BY HoldersFinite
<1>3. ASSUME NEW o \in Owners, NEW p \in Owners, F!Retain(o, p) PROVE FutureInv'
  <2>1. o \in F!Holders /\ p \notin F!Holders /\ F!Holders' = F!Holders \cup {p}
    BY <1>1, <1>3 DEF F!Retain, F!Holders, F!TypeOK
  <2>2. Cardinality(F!Holders') = Cardinality(F!Holders) + 1
    BY <1>2, <2>1, FS_AddElement
  <2>3. Destroyers' = Destroyers /\ Destroyers = {}
    BY <1>1, <1>3, <2>1 DEF F!Retain, Destroyers, F!TypeOK
  <2>4. F!TypeOK'
    BY <1>1, <1>3 DEF F!Retain, F!TypeOK
  <2>. QED BY <1>1, <1>3, <2>1, <2>2, <2>3, <2>4 DEF F!Retain, FutureInv
<1>4. CASE F!Set
  <2>1. F!TypeOK'
    BY <1>1, <1>4 DEF F!Set, F!TypeOK, F!Sleeping, F!Woken
  <2>2. F!Holders' = F!Holders /\ Destroyers' = Destroyers
    BY <1>1, <1>4 DEF F!Set, F!TypeOK, F!Sleeping, F!Woken, F!Holders, Destroyers
  <2>. QED BY <1>4, <2>1, <2>2, SameOwners DEF F!Set
<1>5. ASSUME NEW o \in Owners,
             \/ F!AwaitCall(o) \/ F!AwaitSleep(o) \/ F!AwaitReturn(o)
             \/ F!DestroySleep(o) \/ F!Spurious(o)
      PROVE  FutureInv'
  <2>1. F!TypeOK'
    BY <1>1, <1>5 DEF F!AwaitCall, F!AwaitSleep, F!AwaitReturn, F!DestroySleep, F!Spurious,
                      F!Sleeping, F!Woken, F!TypeOK
  <2>2. F!Holders' = F!Holders /\ Destroyers' = Destroyers
    BY <1>1, <1>5 DEF F!AwaitCall, F!AwaitSleep, F!AwaitReturn, F!DestroySleep, F!Spurious,
                      F!Sleeping, F!Woken, F!TypeOK, F!Holders, Destroyers
  <2>3. UNCHANGED <<fRefs, fFreed, fDone, fWorker>>
    BY <1>5 DEF F!AwaitCall, F!AwaitSleep, F!AwaitReturn, F!DestroySleep, F!Spurious
  <2>. QED BY <1>1, <2>1, <2>2, <2>3, SameOwners
<1>6. ASSUME NEW o \in Owners, F!Drop(o) PROVE FutureInv'
  <2>1. o \in F!Holders /\ F!Holders' = F!Holders \ {o}
    BY <1>1, <1>6 DEF F!Drop, F!Holders, F!TypeOK
  <2>2. Cardinality(F!Holders') = Cardinality(F!Holders) - 1 /\ fRefs # 0
    BY <1>1, <1>2, <2>1, FS_RemoveElement, FS_EmptySet
  <2>3. F!TypeOK'
    BY <1>1, <1>6, <2>2 DEF F!Drop, F!TypeOK
  <2>4. Destroyers = {} /\ ~fFreed
    BY <1>1, <2>1
  <2>5. Destroyers' = IF fRefs = 1 THEN {o} ELSE {}
    BY <1>1, <1>6, <2>4 DEF F!Drop, Destroyers, F!TypeOK
  <2>6. fRefs = 1 => F!Holders' = {}
    <3>1. IsFiniteSet(F!Holders')
      BY <1>2, <2>1, FS_RemoveElement
    <3>. QED BY <1>1, <2>2, <3>1, FS_EmptySet
  <2>. QED BY <1>1, <1>6, <2>2, <2>3, <2>4, <2>5, <2>6 DEF F!Drop, FutureInv
<1>7. ASSUME NEW o \in Owners, F!Destroy(o) PROVE FutureInv'
  <2>1. F!TypeOK' /\ F!Holders' = F!Holders
    BY <1>1, <1>7 DEF F!Destroy, F!TypeOK, F!Holders
  <2>2. o \in Destroyers /\ F!Holders = {}
    BY <1>1, <1>7 DEF F!Destroy, Destroyers
  <2>3. Destroyers' = Destroyers \ {o}
    BY <1>1, <1>7 DEF F!Destroy, Destroyers, F!TypeOK
  <2>4. Destroyers' = {}
    BY <1>1, <2>2, <2>3
  <2>. QED BY <1>1, <1>7, <2>1, <2>2, <2>4 DEF F!Destroy, FutureInv
<1>8. CASE UNCHANGED F!vars
  BY <1>1, <1>8 DEF F!vars, F!TypeOK, FutureInv, F!Holders, Destroyers
<1>. QED
  BY <1>3, <1>4, <1>5, <1>6, <1>7, <1>8 DEF F!Next, F!OwnerStep

-----------------------------------------------------------------------------
\* The inductive invariant of a future, and with it the types of its variables.
THEOREM FutureConsistent == ASSUME F!FutureAssumption PROVE F!Spec => []FutureInv
<1>1. F!Init => FutureInv
  BY FutureInit
<1>2. FutureInv /\ [F!Next]_(F!vars) => FutureInv'
  BY FutureStep
<1>. QED
  BY <1>1, <1>2, PTL DEF F!Spec

\* duxrt_future_free: the count is the number of holders; the memory is released
\* after the last of them let go and after the worker's last access.
THEOREM FutureIsFreedLast == ASSUME F!FutureAssumption PROVE F!Spec => []F!FreedLast
<1>1. FutureInv => F!FreedLast
  BY SameCount DEF FutureInv, F!FreedLast, Destroyers
<1>. QED
  BY <1>1, FutureConsistent, PTL

\* It is released once, and nobody touches the future after that: no step of an
\* owner or of the worker, a second free included, happens once it is freed.
THEOREM FutureFreedOnce == ASSUME F!FutureAssumption PROVE F!Spec => [][~fFreed]_(F!vars)
<1>1. FutureInv /\ [F!Next]_(F!vars) => [~fFreed]_(F!vars)
  <2>. SUFFICES ASSUME FutureInv, fFreed, [F!Next]_(F!vars) PROVE UNCHANGED F!vars
    BY DEF F!vars
  <2>1. F!Holders = {} /\ fWorker = "gone" /\ Destroyers = {}
    BY DEF FutureInv
  <2>. QED BY <2>1 DEF F!Next, F!OwnerStep, F!Holders, Destroyers, F!Sleeping, F!Retain,
              F!Set, F!AwaitCall, F!AwaitSleep, F!AwaitReturn, F!Drop, F!DestroySleep,
              F!Destroy, F!Spurious, F!vars
<1>. QED
  BY <1>1, FutureConsistent, PTL DEF F!Spec

-----------------------------------------------------------------------------
(* A child process: what wait captures and what free leaves behind, for    *)
(* any capacity of the pipes, any output and any number of kills.          *)

Over == pChild \in {"zombie", "reaped"}
InWait == pPc \in {"read_out", "read_err", "waitpid"}

\* The read end of s is no longer needed: s was read to its end.
ReadUp(s) ==
    \/ pWaited \/ pPc = "waitpid"
    \/ s = "out" /\ pPc = "read_err"

\* Where the handle is and where the child is.
Phases ==
    /\ pPc \in {"unspawned", "null"} <=> pChild = "none"
    /\ pWaited \/ pPc = "freed" <=> pChild = "reaped"
    /\ pWaited => pPc \in {"idle", "freed"}
    /\ pPc \in {"unspawned", "null", "free_wait", "freed"} => pOpen = {}
    /\ pPc \in {"idle", "read_out", "read_err", "waitpid"} =>
          pOpen = {s \in Captured : ~ReadUp(s)}

\* Every block written is in its pipe or in its buffer; a stream that was read up
\* is empty for good; a child that nobody killed and no closed pipe cut short has
\* written everything when it is over.
Blocks ==
    /\ \A s \in Captured : pBuf[s] + pHeld[s] = pWrote[s]
    /\ \A s \in Captured : ReadUp(s) => pHeld[s] = 0 /\ Over
    /\ Over /\ pKills = 0 /\ (pWaited \/ pPc = "idle" \/ InWait) =>
          \A s \in P!Streams : pWrote[s] = MaxWrites[s]

PipeInv == P!TypeOK /\ Phases /\ Blocks

\* Nothing is spawned, written or open at first.
LEMMA PipeInit == ASSUME P!PipeAssumption, P!Init PROVE PipeInv
<1>1. P!TypeOK
  <2>1. 0 \in 0 .. Capacity /\ 0 \in 0 .. MaxKills /\ 0 \in Nat
    BY DEF P!PipeAssumption
  <2>2. /\ pWrote \in [P!Streams -> Nat] /\ pBuf \in [P!Streams -> Nat]
        /\ pHeld \in [P!Streams -> 0 .. Capacity] /\ pKills \in 0 .. MaxKills
    BY <2>1 DEF P!Init
  <2>. QED BY <2>2 DEF P!Init, P!TypeOK
<1>2. Phases
  <2>1. pPc = "unspawned" /\ pChild = "none" /\ pWaited = FALSE /\ pOpen = {}
    BY DEF P!Init
  <2>. QED BY <2>1 DEF Phases
<1>3. Blocks
  BY DEF P!PipeAssumption, P!Init, Blocks, ReadUp, Over, InWait, P!Streams
<1>. QED
  BY <1>1, <1>2, <1>3 DEF PipeInv

\* The types.
LEMMA PipeTypeStep == ASSUME P!PipeAssumption, PipeInv, [P!Next]_(P!vars) PROVE P!TypeOK'
<1>. USE DEF PipeInv, P!TypeOK
<1>1. ASSUME NEW s \in P!Streams, P!ChildWrite(s) PROVE P!TypeOK'
  BY <1>1 DEF P!ChildWrite, P!PipeAssumption
<1>2. CASE P!ChildExit \/ P!PidReused \/ P!Spawn \/ P!SpawnFails
  BY <1>2 DEF P!ChildExit, P!PidReused, P!Spawn, P!SpawnFails
<1>3. CASE P!WaitCall \/ P!WaitPid \/ P!FreeWaited \/ P!FreeUnwaited \/ P!FreeWaitPid
  BY <1>3 DEF P!WaitCall, P!WaitPid, P!FreeWaited, P!FreeUnwaited, P!FreeWaitPid, P!Reap
<1>4. CASE P!Kill
  BY <1>4 DEF P!Kill, P!PipeAssumption
<1>5. ASSUME NEW s \in P!Streams, P!Read(s) PROVE P!TypeOK'
  BY <1>5 DEF P!Read, P!PipeAssumption
<1>6. ASSUME NEW s \in P!Streams, NEW to \in {"read_err", "waitpid"}, P!ReadEnd(s, to)
      PROVE  P!TypeOK'
  BY <1>6 DEF P!ReadEnd
<1>7. CASE UNCHANGED P!vars
  BY <1>7 DEF P!vars
<1>. QED
  BY <1>1, <1>2, <1>3, <1>4, <1>5, <1>6, <1>7
  DEF P!Next, P!ChildProgress, P!Owner, P!ReadOut, P!ReadErr, P!Streams

\* The handle's phases.
LEMMA PhasesStep == ASSUME P!PipeAssumption, PipeInv, [P!Next]_(P!vars) PROVE Phases'
<1>. USE DEF Phases, ReadUp
<1>1. P!TypeOK /\ Phases /\ Blocks /\ P!TypeOK'
  BY PipeTypeStep DEF PipeInv
<1>2. ASSUME NEW s \in P!Streams, P!ChildWrite(s) \/ P!Read(s) PROVE Phases'
  BY <1>1, <1>2 DEF P!ChildWrite, P!Read
<1>3. CASE P!ChildExit \/ P!PidReused \/ P!Spawn \/ P!SpawnFails
  BY <1>1, <1>3 DEF P!ChildExit, P!PidReused, P!Spawn, P!SpawnFails, P!TypeOK
<1>4. CASE P!WaitCall \/ P!WaitPid \/ P!Kill
  BY <1>1, <1>4 DEF P!WaitCall, P!WaitPid, P!Reap, P!Kill, P!TypeOK
<1>5. CASE P!FreeWaited \/ P!FreeUnwaited \/ P!FreeWaitPid
  BY <1>1, <1>5 DEF P!FreeWaited, P!FreeUnwaited, P!FreeWaitPid, P!Reap, P!TypeOK
<1>6. CASE pPc = "read_out" /\ P!ReadEnd("out", "read_err")
  BY <1>1, <1>6 DEF P!ReadEnd, P!TypeOK
<1>7. CASE pPc = "read_err" /\ P!ReadEnd("err", "waitpid")
  BY <1>1, <1>7 DEF P!ReadEnd, P!TypeOK, P!PipeAssumption, P!Streams
<1>8. CASE UNCHANGED P!vars
  BY <1>1, <1>8 DEF P!vars
<1>. QED
  BY <1>2, <1>3, <1>4, <1>5, <1>6, <1>7, <1>8
  DEF P!Next, P!ChildProgress, P!Owner, P!ReadOut, P!ReadErr, P!Streams

\* The blocks, in the pipes and in the buffers.
LEMMA BlocksStep == ASSUME P!PipeAssumption, PipeInv, [P!Next]_(P!vars) PROVE Blocks'
<1>1. P!TypeOK /\ Phases /\ Blocks /\ P!TypeOK' /\ Phases'
  BY PipeTypeStep, PhasesStep DEF PipeInv
<1>2. /\ \A s \in Captured : s \in P!Streams /\ pBuf[s] \in Nat /\ pHeld[s] \in Nat
      /\ \A s \in P!Streams : pWrote[s] \in Nat /\ MaxWrites[s] \in Nat
  BY <1>1 DEF P!TypeOK, P!PipeAssumption
<1>3. ASSUME NEW s \in P!Streams, P!ChildWrite(s) PROVE Blocks'
  <2>1. ~Over /\ ~Over'
    BY <1>3 DEF P!ChildWrite, Over
  <2>2. \A r \in Captured : pBuf'[r] + pHeld'[r] = pWrote'[r]
    BY <1>1, <1>2, <1>3 DEF P!ChildWrite, Blocks, P!TypeOK
  <2>3. \A r \in Captured : ~ReadUp(r)'
    BY <1>1, <1>3, <2>1 DEF P!ChildWrite, Blocks, ReadUp
  <2>. QED BY <2>1, <2>2, <2>3 DEF Blocks
<1>4. CASE P!ChildExit
  <2>1. UNCHANGED <<pWrote, pHeld, pOpen, pBuf, pPc, pWaited, pKills>> /\ pChild = "running"
    BY <1>4 DEF P!ChildExit
  <2>2. \A s \in Captured : ~ReadUp(s)
    BY <1>1, <2>1 DEF Blocks, Over
  <2>3. pPc \in {"idle", "read_out", "read_err", "waitpid"} =>
           \A s \in P!Streams : pWrote[s] = MaxWrites[s]
    BY <1>1, <1>4, <2>2 DEF P!ChildExit, Phases
  <2>. QED BY <1>1, <2>1, <2>2, <2>3 DEF Blocks, ReadUp, InWait, Phases, Over
<1>5. CASE P!PidReused \/ P!SpawnFails \/ P!WaitCall
  BY <1>1, <1>5 DEF P!PidReused, P!SpawnFails, P!WaitCall, Blocks, Phases, ReadUp, Over, InWait
<1>6. CASE P!Spawn
  BY <1>1, <1>6 DEF P!Spawn, Blocks, Phases, ReadUp, Over, InWait
<1>7. ASSUME NEW s \in P!Streams, P!Read(s) PROVE Blocks'
  <2>1. \A r \in Captured : pBuf'[r] + pHeld'[r] = pWrote'[r]
    BY <1>1, <1>2, <1>7 DEF P!Read, Blocks, P!TypeOK
  <2>2. \A r \in Captured : ReadUp(r) => pHeld'[r] = 0 /\ Over
    BY <1>1, <1>2, <1>7 DEF P!Read, Blocks, P!TypeOK
  <2>. QED BY <1>1, <1>7, <2>1, <2>2 DEF P!Read, Blocks, ReadUp, Over, InWait
<1>8. CASE pPc = "read_out" /\ P!ReadEnd("out", "read_err")
  BY <1>1, <1>8 DEF P!ReadEnd, P!AtEof, Blocks, Phases, ReadUp, Over, InWait
<1>9. CASE pPc = "read_err" /\ P!ReadEnd("err", "waitpid")
  <2>1. \A s \in Captured : pHeld[s] = 0 /\ Over
    BY <1>1, <1>2, <1>9 DEF P!ReadEnd, P!AtEof, Blocks, ReadUp, Over, P!Streams
  <2>. QED BY <1>1, <1>9, <2>1 DEF P!ReadEnd, Blocks, Phases, ReadUp, Over, InWait
<1>10. CASE P!WaitPid
  BY <1>1, <1>10 DEF P!WaitPid, P!Reap, Blocks, Phases, ReadUp, Over, InWait
<1>11. CASE P!Kill
  <2>1. pKills' # 0
    BY <1>1, <1>11 DEF P!Kill, P!TypeOK
  <2>2. Over => Over'
    BY <1>11 DEF P!Kill, Over
  <2>. QED BY <1>1, <1>11, <2>1, <2>2 DEF P!Kill, Blocks, ReadUp
<1>12. CASE P!FreeWaited \/ P!FreeUnwaited
  BY <1>1, <1>12 DEF P!FreeWaited, P!FreeUnwaited, Blocks, Phases, ReadUp, Over, InWait
<1>13. CASE P!FreeWaitPid
  BY <1>1, <1>13 DEF P!FreeWaitPid, P!Reap, Blocks, Phases, ReadUp, Over, InWait
<1>14. CASE UNCHANGED P!vars
  BY <1>1, <1>14 DEF P!vars, Blocks, ReadUp, Over, InWait
<1>. QED
  BY <1>3, <1>4, <1>5, <1>6, <1>7, <1>8, <1>9, <1>10, <1>11, <1>12, <1>13, <1>14
  DEF P!Next, P!ChildProgress, P!Owner, P!ReadOut, P!ReadErr, P!Streams

\* The inductive invariant of a process handle, and with it the types.
THEOREM PipesConsistent == ASSUME P!PipeAssumption PROVE P!Spec => []PipeInv
<1>1. P!Init => PipeInv
  BY PipeInit
<1>2. PipeInv /\ [P!Next]_(P!vars) => PipeInv'
  BY PipeTypeStep, PhasesStep, BlocksStep DEF PipeInv
<1>. QED
  BY <1>1, <1>2, PTL DEF P!Spec

\* A handle that was waited for has all that the child wrote.
LEMMA WaitComplete == ASSUME P!PipeAssumption, PipeInv PROVE P!CaptureComplete
<1>. SUFFICES ASSUME pWaited, NEW s \in Captured
              PROVE  pBuf[s] = pWrote[s] /\ (pKills = 0 => pWrote[s] = MaxWrites[s])
  BY DEF P!CaptureComplete
<1>1. /\ s \in P!Streams /\ pBuf[s] \in Nat /\ pHeld[s] \in Nat /\ pWrote[s] \in Nat
  BY DEF PipeInv, P!TypeOK, P!PipeAssumption
<1>. QED BY <1>1 DEF PipeInv, Blocks, ReadUp

\* duxrt_proc_wait returns with all that the child wrote, however the writes, the
\* reads and a kill interleave.
THEOREM WaitIsComplete == ASSUME P!PipeAssumption PROVE P!Spec => []P!CaptureComplete
BY WaitComplete, PipesConsistent, PTL

\* duxrt_proc_free leaves no child behind, running or zombie, and no open pipe.
THEOREM FreeIsComplete == ASSUME P!PipeAssumption PROVE P!Spec => []P!NothingLeftBehind
<1>1. PipeInv => P!NothingLeftBehind
  BY DEF PipeInv, Phases, P!NothingLeftBehind
<1>. QED
  BY <1>1, PipesConsistent, PTL

-----------------------------------------------------------------------------
(* The connection: what is sent                                            *)

\* A thread between its lock and its unlock holds send_mu; a frame of which only
\* the header is out belongs to a thread about to send the payload.
SendInv ==
    /\ wSpc \in [Senders -> {"idle", "lock", "header", "payload", "unlock"}]
    /\ \A s \in Senders : wSpc[s] \in {"header", "payload", "unlock"} => wMu = s
    /\ wUp /\ wWire.piece = "header" => wWire.by \in Senders /\ wSpc[wWire.by] = "payload"

\* A step that touches neither the senders nor the wire, and does not raise the
\* peer, keeps the invariant.
LEMMA SendersAlone ==
    ASSUME SendInv, UNCHANGED <<wSpc, wMu, wWire>>, wUp' => wUp
    PROVE  SendInv'
BY DEF SendInv

\* Every step of the connection keeps the lock's invariant.
LEMMA SendInvStep ==
    ASSUME W!ConnectionAssumption, SendInv, [W!Next]_(W!vars)
    PROVE  SendInv'
<1>1. ASSUME NEW s \in Senders, W!SendCall(s) \/ W!Lock(s) \/ W!Unlock(s) PROVE SendInv'
  BY <1>1 DEF SendInv, W!ConnectionAssumption, W!SendCall, W!Lock, W!Unlock, W!Goto, W!peerVars
<1>2. ASSUME NEW s \in Senders, W!SendHeader(s) \/ W!SendPayload(s) PROVE SendInv'
  BY <1>2 DEF SendInv, W!SendHeader, W!SendPayload, W!Goto, W!peerVars
<1>3. ASSUME W!Close PROVE SendInv'
  BY <1>3 DEF SendInv, W!Close, W!peerVars, W!sendVars
<1>4. ASSUME \/ \E fin \in BOOLEAN : W!PeerData(fin, <<wFrames + 1>>) \/ W!PeerData(fin, <<>>)
             \/ \E op \in {"ping", "pong"} : W!PeerControl(op)
             \/ W!PeerClose \/ W!PeerDies
      PROVE  SendInv'
  BY <1>4, SendersAlone
  DEF W!PeerData, W!PeerControl, W!PeerClose, W!PeerDies, W!PeerFrame, W!sendVars
<1>5. ASSUME W!RecvCall \/ W!ReadData \/ W!ReadControl \/ W!Pong \/ W!ReadEnd PROVE SendInv'
  BY <1>5, SendersAlone
  DEF W!RecvCall, W!ReadData, W!ReadControl, W!Pong, W!ReadEnd, W!peerVars, W!sendVars
<1>6. ASSUME UNCHANGED W!vars PROVE SendInv'
  BY <1>6, SendersAlone DEF W!vars, W!peerVars, W!sendVars
<1>. QED
  BY <1>1, <1>2, <1>3, <1>4, <1>5, <1>6 DEF W!Next, W!SendStep

\* While the peer is up, what follows a header on the wire is its payload.
LEMMA PayloadFollows ==
    ASSUME SendInv, [W!Next]_(W!vars), wUp, wWire.piece = "header", wWire' # wWire
    PROVE  wWire' = [by |-> wWire.by, piece |-> "payload"]
<1>1. wWire.by \in Senders /\ wSpc[wWire.by] = "payload" /\ wMu = wWire.by
  BY DEF SendInv
<1>2. \A s \in Senders : wSpc[s] \in {"header", "payload"} => s = wWire.by
  BY <1>1 DEF SendInv
<1>3. ~W!Close
  BY <1>1 DEF W!Close
<1>4. \A s \in Senders : ~W!SendHeader(s)
  BY <1>1, <1>2 DEF W!SendHeader
<1>5. \E s \in Senders : W!SendPayload(s)
  BY <1>3, <1>4
  DEF W!Next, W!vars, W!SendStep, W!SendCall, W!Lock, W!Unlock, W!PeerData, W!PeerControl,
      W!PeerClose, W!PeerDies, W!PeerFrame, W!RecvCall, W!ReadData, W!ReadControl, W!Pong,
      W!ReadEnd
<1>. QED
  BY <1>2, <1>5 DEF W!SendPayload

-----------------------------------------------------------------------------
(* The connection: what is received                                        *)

Messages == Seq(Nat)
PeerFrames ==
    [op : {"text", "continuation", "ping", "pong", "close"}, fin : BOOLEAN, data : Messages]

\* What duxrt_ws_recv makes of a frame: h and a are the messages returned and what has
\* accumulated before it, h2 and a2 after it.
Reads(frame, h, a, h2, a2) ==
    IF frame.op \in {"text", "continuation"}
    THEN IF frame.fin
         THEN h2 = Append(h, W!Joined(a, frame.data)) /\ a2 = W!NoMessage
         ELSE h2 = h /\ a2 = W!Joined(a, frame.data)
    ELSE h2 = h /\ a2 = a

\* s is the start of t.
StartOf(s, t) == Len(s) <= Len(t) /\ \A i \in 1 .. Len(s) : s[i] = t[i]

\* Reading the n frames of a stream one after the other leads from h and a to said and
\* begun, by way of hs and ms; nothing but the start of said is returned on the way.
Leads(n, frames, hs, ms, h, a, said, begun) ==
    /\ hs[0] = h /\ ms[0] = a /\ hs[n] = said /\ ms[n] = begun
    /\ \A i \in 1 .. n : Reads(frames[i], hs[i - 1], ms[i - 1], hs[i], ms[i])
    /\ \A i \in 0 .. n : StartOf(hs[i], said)

\* What there is of S after each frame.
Along(S) == [Nat -> S]

Replays(frames, h, a, said, begun) ==
    \E hs \in Along(Seq(Messages)), ms \in Along(Messages) :
        Leads(Len(frames), frames, hs, ms, h, a, said, begun)

\* What is in the stream is what the reader lacks of what the peer said, until a close
\* or the end of the stream.
RecvInv ==
    /\ wStream \in Seq(PeerFrames) /\ wFrames \in Nat
    /\ wSaid \in Seq(Messages) /\ wBegun \in Messages
    /\ wHeard \in Seq(Messages) /\ wAcc \in Messages
    /\ StartOf(wHeard, wSaid)
    /\ wRpc = "idle" => wAcc = W!NoMessage
    /\ wRpc # "over" => Replays(wStream, wHeard, wAcc, wSaid, wBegun)

\* Joining messages gives a message.
LEMMA JoinedType == ASSUME NEW a \in Messages, NEW d \in Messages PROVE W!Joined(a, d) \in Messages
BY DEF W!Joined, Messages

\* The start of a sequence is the start of a longer one.
LEMMA StartOfMore ==
    ASSUME NEW s \in Seq(Messages), NEW t \in Seq(Messages), StartOf(s, t), NEW m \in Messages
    PROVE  StartOf(s, Append(t, m))
BY DEF StartOf

\* A function of the naturals changed after n, and one that starts at 1.
LEMMA Extended ==
    ASSUME NEW S, NEW f \in Along(S), NEW v \in S, NEW n \in Nat
    PROVE  \E g \in Along(S) : (\A i \in 0 .. n : g[i] = f[i]) /\ g[n + 1] = v
<1>. DEFINE g == [i \in Nat |-> IF i <= n THEN f[i] ELSE v]
<1>1. g \in Along(S) /\ (\A i \in 0 .. n : g[i] = f[i]) /\ g[n + 1] = v
  BY DEF Along
<1>. QED BY <1>1

\* What comes after each frame but the first.
LEMMA Shifted ==
    ASSUME NEW S, NEW f \in Along(S)
    PROVE  \E g \in Along(S) : \A i \in Nat : g[i] = f[i + 1]
<1>. DEFINE g == [i \in Nat |-> f[i + 1]]
<1>1. g \in Along(S) /\ \A i \in Nat : g[i] = f[i + 1]
  BY DEF Along
<1>. QED BY <1>1

\* One frame more, and one less.
OneMore(n, frames, more, hs, ms, hs2, ms2, h, a, said, begun, said2, begun2) ==
    /\ n \in Nat /\ Leads(n, frames, hs, ms, h, a, said, begun)
    /\ \A i \in 1 .. n : more[i] = frames[i]
    /\ Reads(more[n + 1], said, begun, said2, begun2)
    /\ \A i \in 0 .. n : hs2[i] = hs[i] /\ ms2[i] = ms[i]
    /\ hs2[n + 1] = said2 /\ ms2[n + 1] = begun2
    /\ (\A i \in 0 .. n : StartOf(hs[i], said2)) /\ StartOf(said2, said2)

OneLess(n, frames, rest, hs, ms, hs2, ms2, h, a, h2, a2, said, begun) ==
    /\ n \in Nat /\ Leads(n + 1, frames, hs, ms, h, a, said, begun)
    /\ \A i \in 1 .. n : rest[i] = frames[i + 1]
    /\ Reads(frames[1], h, a, h2, a2)
    /\ \A i \in Nat : hs2[i] = hs[i + 1] /\ ms2[i] = ms[i + 1]

\* One frame more leads further.
LEMMA LeadsMore ==
    ASSUME NEW n, NEW frames, NEW more, NEW hs, NEW ms, NEW hs2, NEW ms2,
           NEW h, NEW a, NEW said, NEW begun, NEW said2, NEW begun2,
           OneMore(n, frames, more, hs, ms, hs2, ms2, h, a, said, begun, said2, begun2)
    PROVE  Leads(n + 1, more, hs2, ms2, h, a, said2, begun2)
<1>. USE DEF OneMore
<1>1. hs2[0] = h /\ ms2[0] = a
  BY DEF Leads
<1>2. ASSUME NEW i \in 1 .. n + 1
      PROVE  Reads(more[i], hs2[i - 1], ms2[i - 1], hs2[i], ms2[i])
  <2>1. CASE i \in 1 .. n
    <3>1. hs2[i - 1] = hs[i - 1] /\ ms2[i - 1] = ms[i - 1] /\ hs2[i] = hs[i] /\ ms2[i] = ms[i]
      BY <2>1
    <3>2. Reads(frames[i], hs[i - 1], ms[i - 1], hs[i], ms[i])
      BY <2>1 DEF Leads
    <3>. QED BY <2>1, <3>1, <3>2
  <2>2. CASE i = n + 1
    <3>1. hs2[i - 1] = said /\ ms2[i - 1] = begun
      BY <2>2 DEF Leads
    <3>. QED BY <2>2, <3>1
  <2>. QED BY <2>1, <2>2
<1>3. ASSUME NEW i \in 0 .. n + 1 PROVE StartOf(hs2[i], said2)
  <2>1. i \in 0 .. n \/ i = n + 1
    OBVIOUS
  <2>. QED BY <2>1
<1>. QED
  BY <1>1, <1>2, <1>3 DEF Leads

\* Without the first frame, the rest leads on from where that one led.
LEMMA LeadsLess ==
    ASSUME NEW n, NEW frames, NEW rest, NEW hs, NEW ms, NEW hs2, NEW ms2,
           NEW h, NEW a, NEW h2, NEW a2, NEW said, NEW begun,
           OneLess(n, frames, rest, hs, ms, hs2, ms2, h, a, h2, a2, said, begun)
    PROVE  Leads(n, rest, hs2, ms2, h2, a2, said, begun) /\ StartOf(h2, said)
<1>. USE DEF OneLess
<1>1. 1 \in 1 .. n + 1 /\ 1 \in 0 .. n + 1 /\ 1 - 1 = 0
  OBVIOUS
<1>2. Reads(frames[1], hs[0], ms[0], hs[1], ms[1]) /\ hs[0] = h /\ ms[0] = a /\ StartOf(hs[1], said)
  BY <1>1 DEF Leads
<1>3. hs[1] = h2 /\ ms[1] = a2
  <2>1. Reads(frames[1], h, a, hs[1], ms[1])
    BY <1>2
  <2>. QED BY <2>1 DEF Reads
<1>4. hs2[0] = h2 /\ ms2[0] = a2
  <2>1. hs2[0] = hs[0 + 1] /\ ms2[0] = ms[0 + 1]
    OBVIOUS
  <2>. QED BY <1>3, <2>1
<1>5. hs2[n] = said /\ ms2[n] = begun
  BY DEF Leads
<1>6. ASSUME NEW i \in 1 .. n
      PROVE  Reads(rest[i], hs2[i - 1], ms2[i - 1], hs2[i], ms2[i])
  <2>1. hs2[i - 1] = hs[i] /\ ms2[i - 1] = ms[i] /\ hs2[i] = hs[i + 1] /\ ms2[i] = ms[i + 1]
    <3>1. hs2[i - 1] = hs[(i - 1) + 1] /\ ms2[i - 1] = ms[(i - 1) + 1] /\ (i - 1) + 1 = i
      OBVIOUS
    <3>. QED BY <3>1
  <2>2. Reads(frames[i + 1], hs[i], ms[i], hs[i + 1], ms[i + 1])
    <3>1. i + 1 \in 1 .. n + 1 /\ (i + 1) - 1 = i
      OBVIOUS
    <3>. QED BY <3>1 DEF Leads
  <2>. QED BY <2>1, <2>2
<1>7. ASSUME NEW i \in 0 .. n PROVE StartOf(hs2[i], said)
  <2>1. hs2[i] = hs[i + 1] /\ i + 1 \in 0 .. n + 1
    OBVIOUS
  <2>. QED BY <2>1 DEF Leads
<1>. QED
  BY <1>2, <1>3, <1>4, <1>5, <1>6, <1>7 DEF Leads

\* A frame that the peer appends leads on to what it has said with it.
LEMMA ReplaysMore ==
    ASSUME NEW frames \in Seq(PeerFrames), NEW frame \in PeerFrames,
           NEW h, NEW a, NEW said, NEW begun,
           NEW said2 \in Seq(Messages), NEW begun2 \in Messages,
           Replays(frames, h, a, said, begun),
           Reads(frame, said, begun, said2, begun2),
           \A s \in Seq(Messages) : StartOf(s, said) => StartOf(s, said2)
    PROVE  Replays(Append(frames, frame), h, a, said2, begun2)
<1>1. PICK hs \in Along(Seq(Messages)), ms \in Along(Messages) :
          Leads(Len(frames), frames, hs, ms, h, a, said, begun)
  BY DEF Replays
<1>2. Len(frames) \in Nat
  OBVIOUS
<1>3. PICK hs2 \in Along(Seq(Messages)) :
          (\A i \in 0 .. Len(frames) : hs2[i] = hs[i]) /\ hs2[Len(frames) + 1] = said2
  BY <1>2, Extended
<1>4. PICK ms2 \in Along(Messages) :
          (\A i \in 0 .. Len(frames) : ms2[i] = ms[i]) /\ ms2[Len(frames) + 1] = begun2
  BY <1>2, Extended
<1>5. PICK more : more = Append(frames, frame)
  OBVIOUS
<1>6. /\ Len(more) = Len(frames) + 1
      /\ \A i \in 1 .. Len(frames) : more[i] = frames[i]
      /\ more[Len(frames) + 1] = frame
  BY <1>5
<1>7. \A i \in 0 .. Len(frames) : StartOf(hs[i], said2)
  <2>. SUFFICES ASSUME NEW i \in 0 .. Len(frames) PROVE StartOf(hs[i], said2)
    OBVIOUS
  <2>1. hs[i] \in Seq(Messages)
    BY <1>2 DEF Along
  <2>2. StartOf(hs[i], said)
    BY <1>1 DEF Leads
  <2>. QED BY <2>1, <2>2
<1>8. StartOf(said2, said2)
  BY DEF StartOf
<1>n. \A i \in 0 .. Len(frames) : hs2[i] = hs[i] /\ ms2[i] = ms[i]
  BY <1>3, <1>4
<1>r. Reads(more[Len(frames) + 1], said, begun, said2, begun2)
  BY <1>6
<1>9. Leads(Len(frames) + 1, more, hs2, ms2, h, a, said2, begun2)
  <2>1. OneMore(Len(frames), frames, more, hs, ms, hs2, ms2, h, a, said, begun, said2, begun2)
    BY <1>1, <1>2, <1>3, <1>4, <1>6, <1>7, <1>8, <1>n, <1>r DEF OneMore
  <2>. QED BY <2>1, LeadsMore
<1>. QED
  BY <1>3, <1>4, <1>5, <1>6, <1>9 DEF Replays

\* Reading the first frame of a stream leaves the rest of it to read.
LEMMA ReplaysLess ==
    ASSUME NEW frames \in Seq(PeerFrames), frames # <<>>,
           NEW h, NEW a, NEW said, NEW begun, NEW h2, NEW a2,
           Replays(frames, h, a, said, begun),
           Reads(Head(frames), h, a, h2, a2)
    PROVE  Replays(Tail(frames), h2, a2, said, begun) /\ StartOf(h2, said)
<1>1. PICK hs \in Along(Seq(Messages)), ms \in Along(Messages) :
          Leads(Len(frames), frames, hs, ms, h, a, said, begun)
  BY DEF Replays
<1>2. PICK hs2 \in Along(Seq(Messages)) : \A i \in Nat : hs2[i] = hs[i + 1]
  BY Shifted
<1>3. PICK ms2 \in Along(Messages) : \A i \in Nat : ms2[i] = ms[i + 1]
  BY Shifted
<1>4. PICK rest : rest = Tail(frames)
  OBVIOUS
<1>5. /\ Len(rest) \in Nat /\ Len(rest) + 1 = Len(frames)
      /\ \A i \in 1 .. Len(rest) : rest[i] = frames[i + 1]
      /\ Head(frames) = frames[1]
  <2>1. Len(frames) \in Nat /\ Len(frames) > 0
    OBVIOUS
  <2>2. Len(rest) = Len(frames) - 1
    BY <1>4
  <2>3. \A i \in 1 .. Len(frames) - 1 : rest[i] = frames[i + 1]
    BY <1>4
  <2>. QED BY <2>1, <2>2, <2>3
<1>7. /\ Leads(Len(rest) + 1, frames, hs, ms, h, a, said, begun)
      /\ Reads(frames[1], h, a, h2, a2)
      /\ \A i \in Nat : hs2[i] = hs[i + 1] /\ ms2[i] = ms[i + 1]
  BY <1>1, <1>2, <1>3, <1>5
<1>6. Leads(Len(rest), rest, hs2, ms2, h2, a2, said, begun) /\ StartOf(h2, said)
  <2>1. OneLess(Len(rest), frames, rest, hs, ms, hs2, ms2, h, a, h2, a2, said, begun)
    BY <1>5, <1>7 DEF OneLess
  <2>. QED BY <2>1, LeadsLess
<1>. QED
  BY <1>2, <1>3, <1>4, <1>6 DEF Replays

\* What a frame that the peer appends does to the invariant.
LEMMA RecvFrame ==
    ASSUME RecvInv, NEW frame \in PeerFrames,
           wStream' = Append(wStream, frame), wFrames' = wFrames + 1,
           wSaid' \in Seq(Messages), wBegun' \in Messages,
           Reads(frame, wSaid, wBegun, wSaid', wBegun'),
           UNCHANGED <<wRpc, wAcc, wHeard>>
    PROVE  RecvInv'
<1>1. \A s \in Seq(Messages) : StartOf(s, wSaid) => StartOf(s, wSaid')
  <2>1. wSaid' = wSaid \/ \E m \in Messages : wSaid' = Append(wSaid, m)
    BY JoinedType DEF RecvInv, Reads, PeerFrames
  <2>. QED BY <2>1, StartOfMore DEF RecvInv
<1>2. wRpc # "over" => Replays(wStream', wHeard, wAcc, wSaid', wBegun')
  BY <1>1, ReplaysMore DEF RecvInv
<1>3. wStream' \in Seq(PeerFrames) /\ wFrames' \in Nat
  BY DEF RecvInv
<1>4. StartOf(wHeard, wSaid')
  BY <1>1 DEF RecvInv
<1>. QED
  BY <1>2, <1>3, <1>4 DEF RecvInv

\* Every step of the connection keeps the reader's invariant.
LEMMA RecvInvStep ==
    ASSUME RecvInv, [W!Next]_(W!vars)
    PROVE  RecvInv'
<1>0. W!NoMessage \in Messages
  BY DEF W!NoMessage, Messages
<1>1. ASSUME NEW fin \in BOOLEAN, NEW data \in Messages, W!PeerData(fin, data) PROVE RecvInv'
  <2>1. PICK frame : frame = [op |-> IF wBegun = W!NoMessage THEN "text" ELSE "continuation",
                              fin |-> fin, data |-> data]
    OBVIOUS
  <2>2. frame \in PeerFrames
    BY <2>1 DEF PeerFrames
  <2>3. wStream' = Append(wStream, frame) /\ wFrames' = wFrames + 1
        /\ UNCHANGED <<wRpc, wAcc, wHeard>>
    BY <1>1, <2>1 DEF W!PeerData, W!PeerFrame, W!readVars
  <2>4. W!Joined(wBegun, data) \in Messages
    BY JoinedType DEF RecvInv
  <2>5. wSaid' \in Seq(Messages) /\ wBegun' \in Messages
    <3>1. PICK message \in Messages : message = W!Joined(wBegun, data)
      BY <2>4
    <3>2. \/ wSaid' = Append(wSaid, message) /\ wBegun' = W!NoMessage
          \/ wSaid' = wSaid /\ wBegun' = message
      BY <1>1, <3>1 DEF W!PeerData
    <3>3. wSaid \in Seq(Messages)
      BY DEF RecvInv
    <3>4. Append(wSaid, message) \in Seq(Messages)
      BY ONLY <3>1, <3>3
    <3>. QED BY <1>0, <3>1, <3>2, <3>3, <3>4
  <2>6. Reads(frame, wSaid, wBegun, wSaid', wBegun')
    BY <1>1, <2>1 DEF W!PeerData, Reads
  <2>. QED BY <2>2, <2>3, <2>5, <2>6, RecvFrame
<1>2. ASSUME NEW op \in {"ping", "pong", "close"}, wSaid' = wSaid, wBegun' = wBegun,
             W!PeerFrame([op |-> op, fin |-> TRUE, data |-> <<>>])
      PROVE  RecvInv'
  <2>1. PICK frame : frame = [op |-> op, fin |-> TRUE, data |-> <<>>]
    OBVIOUS
  <2>2. frame \in PeerFrames
    BY <2>1 DEF PeerFrames, Messages
  <2>3. wStream' = Append(wStream, frame) /\ wFrames' = wFrames + 1
        /\ UNCHANGED <<wRpc, wAcc, wHeard>>
    BY <1>2, <2>1 DEF W!PeerFrame, W!readVars
  <2>4. Reads(frame, wSaid, wBegun, wSaid', wBegun')
    BY <1>2, <2>1 DEF Reads
  <2>5. wSaid' \in Seq(Messages) /\ wBegun' \in Messages
    BY <1>2 DEF RecvInv
  <2>. QED BY <2>2, <2>3, <2>4, <2>5, RecvFrame
<1>3. ASSUME NEW ops, W!Frame(ops), NEW h2, NEW a2, Reads(Head(wStream), wHeard, wAcc, h2, a2)
      PROVE  /\ Replays(Tail(wStream), h2, a2, wSaid, wBegun) /\ StartOf(h2, wSaid)
             /\ Tail(wStream) \in Seq(PeerFrames) /\ Head(wStream) \in PeerFrames
  BY <1>3, ReplaysLess DEF W!Frame, RecvInv
<1>4. CASE W!ReadData
  <2>1. W!Frame({"text", "continuation"}) /\ wStream' = Tail(wStream)
    BY <1>4 DEF W!ReadData, W!Frame
  <2>2. Reads(Head(wStream), wHeard, wAcc, wHeard', wAcc')
    BY <1>4, <2>1 DEF W!ReadData, W!Frame, Reads
  <2>3. /\ Replays(wStream', wHeard', wAcc', wSaid, wBegun) /\ StartOf(wHeard', wSaid)
        /\ wStream' \in Seq(PeerFrames) /\ Head(wStream) \in PeerFrames
    BY <1>3, <2>1, <2>2
  <2>4. W!Joined(wAcc, Head(wStream).data) \in Messages
    BY <2>3, JoinedType DEF RecvInv, PeerFrames
  <2>5. wHeard' \in Seq(Messages) /\ wAcc' \in Messages
    <3>1. PICK message \in Messages : message = W!Joined(wAcc, Head(wStream).data)
      BY <2>4
    <3>2. \/ wHeard' = Append(wHeard, message) /\ wAcc' = W!NoMessage
          \/ wHeard' = wHeard /\ wAcc' = message
      BY <1>4, <3>1 DEF W!ReadData
    <3>3. wHeard \in Seq(Messages)
      BY DEF RecvInv
    <3>4. Append(wHeard, message) \in Seq(Messages)
      BY ONLY <3>1, <3>3
    <3>. QED BY <1>0, <3>1, <3>2, <3>3, <3>4
  <2>6. wRpc = "read" /\ (wRpc' = "idle" => wAcc' = W!NoMessage)
    BY <1>4, <2>1 DEF W!ReadData, W!Frame
  <2>7. UNCHANGED <<wFrames, wSaid, wBegun>>
    BY <1>4 DEF W!ReadData, W!peerVars
  <2>. QED BY <2>3, <2>5, <2>6, <2>7 DEF RecvInv
<1>5. CASE W!ReadControl
  <2>1. W!Frame({"ping", "pong"}) /\ wStream' = Tail(wStream)
    BY <1>5 DEF W!ReadControl, W!Frame
  <2>2. Reads(Head(wStream), wHeard, wAcc, wHeard, wAcc)
    BY <2>1 DEF W!Frame, Reads
  <2>3. Replays(wStream', wHeard, wAcc, wSaid, wBegun) /\ wStream' \in Seq(PeerFrames)
    BY <1>3, <2>1, <2>2
  <2>4. wRpc' # "idle" /\ UNCHANGED <<wFrames, wSaid, wBegun, wHeard, wAcc>>
    BY <1>5 DEF W!ReadControl, W!peerVars
  <2>. QED BY <2>3, <2>4 DEF RecvInv
<1>6. CASE W!ReadEnd
  <2>1. wRpc' = "over" /\ wAcc' = W!NoMessage /\ UNCHANGED <<wFrames, wSaid, wBegun, wHeard>>
    BY <1>6 DEF W!ReadEnd, W!peerVars
  <2>2. wStream' \in Seq(PeerFrames)
    <3>1. W!Frame({"close"}) \/ wStream' = wStream
      BY <1>6 DEF W!ReadEnd
    <3>2. W!Frame({"close"}) => wStream' = Tail(wStream) /\ wStream # <<>>
      BY DEF W!Frame
    <3>. QED BY <3>1, <3>2 DEF RecvInv
  <2>. QED BY <1>0, <2>1, <2>2 DEF RecvInv
<1>7. CASE W!RecvCall \/ W!Pong
  BY <1>7 DEF W!RecvCall, W!Pong, W!peerVars, RecvInv
<1>8. CASE W!PeerDies \/ W!Close \/ UNCHANGED W!vars
           \/ \E s \in Senders : W!SendCall(s) \/ W!SendStep(s)
  <2>1. UNCHANGED <<wStream, wFrames, wSaid, wBegun, wRpc, wAcc, wHeard>>
    BY <1>8 DEF W!PeerDies, W!Close, W!SendCall, W!SendStep, W!Lock, W!SendHeader, W!SendPayload,
                W!Unlock, W!vars, W!peerVars, W!readVars
  <2>. QED BY <2>1 DEF RecvInv
<1>9. CASE \/ \E fin \in BOOLEAN : W!PeerData(fin, <<wFrames + 1>>)
           \/ \E fin \in BOOLEAN : wBegun # W!NoMessage /\ W!PeerData(fin, <<>>)
  <2>1. <<wFrames + 1>> \in Messages /\ <<>> \in Messages
    BY DEF RecvInv, Messages
  <2>. QED BY <1>1, <1>9, <2>1
<1>10. CASE (\E op \in {"ping", "pong"} : W!PeerControl(op)) \/ W!PeerClose
  BY <1>2, <1>10 DEF W!PeerControl, W!PeerClose
<1>. QED
  BY <1>4, <1>5, <1>6, <1>7, <1>8, <1>9, <1>10 DEF W!Next

-----------------------------------------------------------------------------
(* The exchange: messages and their parts                                  *)

\* The i-th unit of a message with this first line and units like this in its body, and
\* what it is for a sequence of units to be in the message after k others.
UnitOf(first, unit, i) == IF i = 1 THEN first ELSE IF i = 2 THEN "blank" ELSE unit
Carries(s, k, first, unit) == \A i \in 1 .. Len(s) : s[i] = UnitOf(first, unit, k + i)

\* The n first units of a sequence, and the others.
LEMMA CutSeq ==
    ASSUME NEW T, NEW s \in Seq(T), NEW n \in 0 .. Len(s)
    PROVE  /\ X!Cut(s, n) \in Seq(T) /\ Len(X!Cut(s, n)) = n
           /\ \A i \in 1 .. n : X!Cut(s, n)[i] = s[i]
BY DEF X!Cut

\* The rest of a sequence after its first n.
LEMMA RestSeq ==
    ASSUME NEW T, NEW s \in Seq(T), NEW n \in 0 .. Len(s)
    PROVE  /\ SubSeq(s, n + 1, Len(s)) \in Seq(T) /\ Len(SubSeq(s, n + 1, Len(s))) = Len(s) - n
           /\ \A i \in 1 .. Len(s) - n : SubSeq(s, n + 1, Len(s))[i] = s[n + i]
OBVIOUS

\* A part of what is carried is carried.
LEMMA CutCarries ==
    ASSUME NEW T, NEW s \in Seq(T), NEW n \in 0 .. Len(s), NEW first, NEW unit, NEW k \in Nat,
           Carries(s, k, first, unit)
    PROVE  Carries(X!Cut(s, n), k, first, unit)
<1>1. \A i \in 1 .. n : X!Cut(s, n)[i] = s[i] /\ i \in 1 .. Len(s)
  BY CutSeq
<1>. QED
  BY <1>1, CutSeq DEF Carries

\* The rest of what is carried is carried, further on in the message.
LEMMA RestCarries ==
    ASSUME NEW T, NEW s \in Seq(T), NEW n \in 0 .. Len(s), NEW first, NEW unit, NEW k \in Nat,
           Carries(s, k, first, unit)
    PROVE  Carries(SubSeq(s, n + 1, Len(s)), k + n, first, unit)
<1>. DEFINE r == SubSeq(s, n + 1, Len(s))
<1>1. Len(r) = Len(s) - n /\ \A i \in 1 .. Len(s) - n : r[i] = s[n + i]
  BY RestSeq
<1>. HIDE DEF r
<1>. SUFFICES ASSUME NEW i \in 1 .. Len(r) PROVE r[i] = UnitOf(first, unit, (k + n) + i)
  BY DEF Carries, r
<1>2. PICK l \in Nat : l = Len(s)
  OBVIOUS
<1>3. n \in 0 .. l /\ i \in 1 .. l - n
  BY <1>1, <1>2
<1>4. n + i \in 1 .. l /\ k + (n + i) = (k + n) + i
  BY ONLY <1>2, <1>3, k \in Nat
<1>5. r[i] = s[n + i] /\ n + i \in 1 .. Len(s) /\ k + (n + i) = (k + n) + i
  BY <1>1, <1>2, <1>3, <1>4
<1>. QED
  BY <1>5 DEF Carries

\* What is read is what was in flight, in its place.
LEMMA ReadCarries ==
    ASSUME NEW T, NEW s \in Seq(T), NEW r \in Seq(T), NEW first, NEW unit,
           Carries(s, 0, first, unit), Carries(r, Len(s), first, unit)
    PROVE  /\ s \o r \in Seq(T) /\ Len(s \o r) = Len(s) + Len(r)
           /\ Carries(s \o r, 0, first, unit)
<1>1. s \o r \in Seq(T) /\ Len(s \o r) = Len(s) + Len(r)
  OBVIOUS
<1>2. ASSUME NEW i \in 1 .. Len(s) + Len(r) PROVE (s \o r)[i] = UnitOf(first, unit, 0 + i)
  <2>1. CASE i <= Len(s)
    <3>1. (s \o r)[i] = s[i]
      BY <2>1
    <3>. QED BY <2>1, <3>1 DEF Carries
  <2>2. CASE i > Len(s)
    <3>1. (s \o r)[i] = r[i - Len(s)] /\ i - Len(s) \in 1 .. Len(r) /\ Len(s) + (i - Len(s)) = i
      BY <2>2
    <3>. QED BY <3>1 DEF Carries
  <2>. QED BY <2>1, <2>2
<1>. QED
  BY <1>1, <1>2 DEF Carries

\* A message of a first line and at most n units: all n when they fit the buffer.
Formed(T, m, first, unit, n) ==
    /\ m \in Seq(T) /\ Carries(m, 0, first, unit)
    /\ Len(m) \in 2 .. 2 + n
    /\ n <= Fits => Len(m) = 2 + n

\* duxrt_http_format_response and what the client formats.
LEMMA FormattedCarries ==
    ASSUME NEW T, NEW first \in T, NEW unit \in T, "blank" \in T, NEW n \in Nat
    PROVE  Formed(T, X!Formatted(first, unit, n), first, unit, n)
<1>1. X!Units(unit, n) \in Seq(T) /\ Len(X!Units(unit, n)) = n
      /\ \A i \in 1 .. n : X!Units(unit, n)[i] = unit
  BY DEF X!Units
<1>2. PICK body \in Seq(T) : /\ body = IF n <= Fits THEN X!Units(unit, n) ELSE <<>>
                             /\ \A i \in 1 .. Len(body) : body[i] = unit
                             /\ Len(body) \in 0 .. n /\ (n <= Fits => Len(body) = n)
  <2>1. CASE n <= Fits
    BY <1>1, <2>1
  <2>2. CASE ~(n <= Fits)
    <3>0. <<>> \in Seq(T) /\ Len(<<>>) = 0
      OBVIOUS
    <3>1. PICK none \in Seq(T) : none = <<>> /\ Len(none) = 0
      BY <3>0
    <3>2. none = IF n <= Fits THEN X!Units(unit, n) ELSE <<>>
      BY <2>2, <3>1
    <3>3. (\A i \in 1 .. Len(none) : none[i] = unit) /\ Len(none) \in 0 .. n
      BY <3>1
    <3>. QED BY <2>2, <3>2, <3>3
  <2>. QED BY <2>1, <2>2
<1>3. PICK head \in Seq(T) : head = <<first, "blank">> /\ Len(head) = 2 /\ head[1] = first /\ head[2] = "blank"
  <2>1. <<first, "blank">> \in Seq(T) /\ Len(<<first, "blank">>) = 2
    OBVIOUS
  <2>2. <<first, "blank">>[1] = first /\ <<first, "blank">>[2] = "blank"
    OBVIOUS
  <2>. QED BY <2>1, <2>2
<1>4. X!Formatted(first, unit, n) = head \o body
  BY <1>2, <1>3 DEF X!Formatted
<1>5. Carries(head, 0, first, unit) /\ Carries(body, Len(head), first, unit)
  BY <1>2, <1>3 DEF Carries, UnitOf
<1>6. /\ head \o body \in Seq(T) /\ Len(head \o body) = 2 + Len(body)
      /\ Carries(head \o body, 0, first, unit)
  BY <1>3, <1>5, ReadCarries
<1>. QED
  BY <1>2, <1>4, <1>6 DEF Formed

\* s is the start of a message with m units in its body, or none of them.
PartOf(T, s, first, unit, m) ==
    /\ s \in Seq(T) /\ m \in Nat
    /\ Carries(s, 0, first, unit) /\ Len(s) <= 2 + m

\* What comes of parsing it.
ParsedAs(T, p, s, first, unit, m) ==
    /\ p = [first |-> p.first, body |-> p.body]
    /\ p.first \in {X!Nothing, first} /\ (s # <<>> => p.first = first)
    /\ p.body \in Seq(T) /\ \A u \in X!Range(p.body) : u = unit
    /\ X!IsPrefix(p.body, X!Units(unit, m))
    /\ Len(s) = 2 + m => p = [first |-> first, body |-> X!Units(unit, m)]

\* parse_response and duxrt_http_parse_request, of a part of a message.
LEMMA ParsedPart ==
    ASSUME NEW T, NEW s, NEW first, NEW unit, NEW m, PartOf(T, s, first, unit, m)
    PROVE  ParsedAs(T, X!Parsed(s), s, first, unit, m)
<1>. USE DEF PartOf
<1>1. PICK body : body = SubSeq(s, 3, Len(s))
  OBVIOUS
<1>2. /\ body \in Seq(T) /\ Len(body) = IF Len(s) < 2 THEN 0 ELSE Len(s) - 2
      /\ \A i \in 1 .. Len(body) : body[i] = s[i + 2] /\ i + 2 \in 1 .. Len(s)
  BY <1>1
<1>3. \A i \in 1 .. Len(body) : body[i] = unit
  BY <1>2 DEF Carries, UnitOf
<1>4. \A u \in X!Range(body) : u = unit
  BY <1>2, <1>3 DEF X!Range
<1>5. Len(body) \in 0 .. m
  BY <1>2
<1>6. X!IsPrefix(body, X!Units(unit, m))
  BY <1>2, <1>3, <1>5 DEF X!IsPrefix, X!Units
<1>7. ASSUME Len(s) = 2 + m PROVE body = X!Units(unit, m)
  <2>1. Len(body) = m
    BY <1>2, <1>7
  <2>. QED BY <1>2, <1>3, <2>1 DEF X!Units
<1>8. s # <<>> => Head(s) = first /\ Len(s) > 0
  BY DEF Carries, UnitOf
<1>9. X!Parsed(s).body = body /\ X!Parsed(s) = [first |-> X!Parsed(s).first, body |-> body]
  BY <1>1 DEF X!Parsed
<1>10. X!Parsed(s).first = IF s = <<>> THEN X!Nothing ELSE Head(s)
  BY DEF X!Parsed
<1>11. Len(s) = 2 + m => s # <<>>
  OBVIOUS
<1>12. X!Parsed(s).first \in {X!Nothing, first} /\ (s # <<>> => X!Parsed(s).first = first)
  BY <1>8, <1>10
<1>13. Len(s) = 2 + m => X!Parsed(s) = [first |-> first, body |-> X!Units(unit, m)]
  BY <1>7, <1>9, <1>11, <1>12
<1>. QED
  BY <1>2, <1>4, <1>6, <1>9, <1>12, <1>13 DEF ParsedAs

-----------------------------------------------------------------------------
(* The exchange: the invariant                                             *)

UpUnits == Clients \cup {"blank"}
Requests == [first : UpUnits \cup {X!Nothing}, body : Seq(UpUnits)]
DownUnits == {"200", "blank"} \cup Requests
Responses == [first : {X!Nothing, "200"}, body : Seq(DownUnits)]

ExchangeTypes ==
    /\ xClient \in [Clients -> {"idle", "connected", "reading", "done"}]
    /\ xGot \in [Clients -> Seq(DownUnits)] /\ xDown \in [Clients -> Seq(DownUnits)]
    /\ xUp \in [Clients -> Seq(UpUnits)] /\ xResponse \in [Clients -> Seq(Responses)]
    /\ xBacklog \in Seq(Clients) /\ xEnd \in [Clients -> {"open", "closed", "reset"}]
    /\ xServer \in {"idle", "accepted", "handling"}
    /\ xCurrent \in Clients \cup {X!Nothing} /\ xRequest \in Seq(Requests)
    /\ xWhole \in [Clients -> BOOLEAN]

\* The server has not accepted c; it has read nothing of c.
In(q, c) == \E i \in 1 .. Len(q) : q[i] = c
Distinct(q) == \A i, j \in 1 .. Len(q) : i # j => q[i] # q[j]
Unaccepted(c) == In(xBacklog, c)
Unread(c) == Unaccepted(c) \/ (xServer = "accepted" /\ xCurrent = c)

\* A connection is accepted once, and open until it is answered or given up.
Queued ==
    /\ Distinct(xBacklog)
    /\ xCurrent = X!Nothing => xServer = "idle"

Placed(c) ==
    /\ Unaccepted(c) => c # xCurrent
    /\ Unaccepted(c) \/ xCurrent = c => xEnd[c] = "open" /\ xClient[c] # "idle"
    /\ xClient[c] = "idle" => xEnd[c] = "open"
    /\ xClient[c] \in {"idle", "connected"} => xUp[c] = <<>>
    /\ xClient[c] = "connected" => Unread(c)

\* The request of c is on its way, whole if nothing was cut; the server has some of it.
Asking(c) ==
    Unread(c) =>
        /\ Carries(xUp[c], 0, c, c) /\ Len(xUp[c]) <= 2 + Size[c]
        /\ xWhole[c] /\ xClient[c] # "connected" => Len(xUp[c]) = 2 + Size[c]

Handled(c) ==
    xServer = "handling" /\ xCurrent = c =>
        /\ xRequest # <<>> /\ X!AnswersTo(Head(xRequest), c)
        /\ xWhole[c] => Head(xRequest) = X!Complete(c)

\* What c has and what is on its way to it belong to one answer, which is the complete
\* one if nothing was cut.
Answers(c, req) ==
    /\ X!AnswersTo(req, c)
    /\ Carries(xGot[c], 0, "200", req) /\ Carries(xDown[c], Len(xGot[c]), "200", req)
    /\ Len(xGot[c]) + Len(xDown[c]) <= 2 + AnswerSize
    /\ xWhole[c] /\ xEnd[c] # "open" =>
           req = X!Complete(c) /\ Len(xGot[c]) + Len(xDown[c]) = 2 + AnswerSize

Answering(c) ==
    /\ xEnd[c] = "open" => xGot[c] = <<>> /\ xDown[c] = <<>>
    /\ \E req \in Requests : Answers(c, req)

Returned(c) ==
    \A r \in X!Range(xResponse[c]) :
        /\ r.first \in {X!Nothing, "200"}
        /\ \A unit \in X!Range(r.body) : X!AnswersTo(unit, c)
        /\ xWhole[c] => r = [first |-> "200", body |-> X!Units(X!Complete(c), AnswerSize)]

ExchangeOf(c) == Placed(c) /\ Asking(c) /\ Handled(c) /\ Answering(c) /\ Returned(c)

ExchangeInv == ExchangeTypes /\ Queued /\ \A c \in Clients : ExchangeOf(c)

\* A client another one's step does not touch stays as it is.
LEMMA ExchangeKept ==
    ASSUME NEW c \in Clients, ExchangeOf(c),
           UNCHANGED <<xClient[c], xGot[c], xResponse[c], xUp[c], xDown[c], xEnd[c]>>,
           xWhole'[c] => xWhole[c],
           Unaccepted(c)' => Unaccepted(c), Unread(c)' => Unread(c),
           xClient[c] = "connected" => Unread(c)',
           xCurrent' = c => Unaccepted(c) \/ xCurrent = c,
           Unaccepted(c)' => c # xCurrent',
           xServer' = "handling" /\ xCurrent' = c =>
               xServer = "handling" /\ xCurrent = c /\ xRequest' = xRequest
    PROVE  ExchangeOf(c)'
<1>1. Placed(c)'
  BY DEF ExchangeOf, Placed
<1>2. Asking(c)'
  BY DEF ExchangeOf, Asking
<1>3. Handled(c)'
  BY DEF ExchangeOf, Handled
<1>4. Answering(c)'
  BY DEF ExchangeOf, Answering, Answers
<1>5. Returned(c)'
  BY DEF ExchangeOf, Returned
<1>. QED
  BY <1>1, <1>2, <1>3, <1>4, <1>5 DEF ExchangeOf

\* What a queue holds after one is put at its end, and after the first is taken.
LEMMA QueuePut ==
    ASSUME NEW q \in Seq(Clients), NEW d \in Clients, ~In(q, d), Distinct(q)
    PROVE  (\A c : In(Append(q, d), c) <=> In(q, c) \/ c = d) /\ Distinct(Append(q, d))
<1>. USE DEF In, Distinct
<1>1. PICK p : p = Append(q, d)
  OBVIOUS
<1>2. /\ Len(p) = Len(q) + 1 /\ p[Len(q) + 1] = d
      /\ \A i \in 1 .. Len(q) : p[i] = q[i]
  BY <1>1
<1>3. ASSUME NEW c PROVE (\E i \in 1 .. Len(p) : p[i] = c) <=> (\E i \in 1 .. Len(q) : q[i] = c) \/ c = d
  <2>1. ASSUME NEW i \in 1 .. Len(q), q[i] = c PROVE \E k \in 1 .. Len(p) : p[k] = c
    <3>1. i \in 1 .. Len(p) /\ p[i] = c
      BY <1>2, <2>1
    <3>. QED BY <3>1
  <2>2. ASSUME NEW i \in 1 .. Len(p), p[i] = c PROVE (\E k \in 1 .. Len(q) : q[k] = c) \/ c = d
    <3>1. i \in 1 .. Len(q) \/ i = Len(q) + 1
      BY <1>2
    <3>. QED BY <1>2, <2>2, <3>1
  <2>3. c = d => \E k \in 1 .. Len(p) : p[k] = c
    <3>1. Len(q) + 1 \in 1 .. Len(p)
      BY <1>2
    <3>. QED BY <1>2, <3>1
  <2>. QED BY <2>1, <2>2, <2>3
<1>4. ASSUME NEW i \in 1 .. Len(p), NEW j \in 1 .. Len(p), i # j PROVE p[i] # p[j]
  <2>1. i \in 1 .. Len(q) \/ i = Len(q) + 1
    BY <1>2
  <2>2. j \in 1 .. Len(q) \/ j = Len(q) + 1
    BY <1>2
  <2>. QED BY <1>2, <1>4, <2>1, <2>2
<1>. QED
  BY <1>1, <1>3, <1>4

\* The first is taken: accept.
LEMMA QueueTake ==
    ASSUME NEW q \in Seq(Clients), q # <<>>, Distinct(q)
    PROVE  /\ Tail(q) \in Seq(Clients) /\ Head(q) \in Clients /\ In(q, Head(q))
           /\ (\A c : In(Tail(q), c) <=> In(q, c) /\ c # Head(q)) /\ Distinct(Tail(q))
<1>. USE DEF In, Distinct
<1>1. PICK p : p = Tail(q)
  OBVIOUS
<1>2. PICK n \in Nat : n = Len(q) - 1
  <2>1. Len(q) \in Nat /\ Len(q) > 0
    OBVIOUS
  <2>. QED BY <2>1
<1>3. /\ p \in Seq(Clients) /\ Head(q) \in Clients /\ Head(q) = q[1]
      /\ Len(p) = n /\ Len(q) = n + 1
      /\ \A i \in 1 .. n : p[i] = q[i + 1]
  BY <1>1, <1>2
<1>4. ASSUME NEW c PROVE (\E i \in 1 .. n : p[i] = c) <=> (\E i \in 1 .. n + 1 : q[i] = c) /\ c # q[1]
  <2>1. ASSUME NEW i \in 1 .. n, p[i] = c PROVE (\E k \in 1 .. n + 1 : q[k] = c) /\ c # q[1]
    <3>1. i + 1 \in 1 .. n + 1 /\ 1 \in 1 .. n + 1 /\ i + 1 # 1
      BY <1>2
    <3>. QED BY <1>3, <2>1, <3>1
  <2>2. ASSUME NEW i \in 1 .. n + 1, q[i] = c, c # q[1] PROVE \E k \in 1 .. n : p[k] = c
    <3>1. i # 1
      BY <2>2
    <3>2. i - 1 \in 1 .. n /\ (i - 1) + 1 = i
      BY <1>2, <3>1
    <3>. QED BY <1>3, <2>2, <3>2
  <2>. QED BY <2>1, <2>2
<1>5. ASSUME NEW i \in 1 .. n, NEW j \in 1 .. n, i # j PROVE p[i] # p[j]
  <2>1. i + 1 \in 1 .. n + 1 /\ j + 1 \in 1 .. n + 1 /\ i + 1 # j + 1
    BY <1>2, <1>5
  <2>. QED BY <1>3, <2>1
<1>6. 1 \in 1 .. Len(q)
  BY <1>2, <1>3
<1>. QED
  <2>1. In(q, Head(q))
    BY <1>3, <1>6
  <2>2. (\A c : In(p, c) <=> In(q, c) /\ c # Head(q)) /\ Distinct(p)
    BY <1>3, <1>4, <1>5
  <2>. HIDE DEF In, Distinct
  <2>. QED BY <1>1, <1>3, <2>1, <2>2

\* An exchange starts with it.
LEMMA ExchangeInit == ASSUME X!Init PROVE ExchangeInv
<1>. USE DEF X!Init
<1>1. ExchangeTypes
  BY DEF ExchangeTypes
<1>2. Queued
  BY DEF Queued, Distinct
<1>3. ASSUME NEW c \in Clients PROVE ExchangeOf(c)
  <2>1. ~Unaccepted(c) /\ ~Unread(c)
    BY DEF Unaccepted, Unread, In
  <2>2. Placed(c)
    <3>1. xEnd[c] = "open" /\ xClient[c] = "idle"
      OBVIOUS
    <3>2. xCurrent # c
      BY HandlesAssumption DEF X!HttpAssumption
    <3>. QED BY <2>1, <3>1, <3>2 DEF Placed
  <2>3. Asking(c) /\ Handled(c)
    BY <2>1 DEF Asking, Handled
  <2>4. Answering(c)
    <3>1. PICK req : req = [first |-> X!Nothing, body |-> <<>>]
      OBVIOUS
    <3>2. req \in Requests
      BY <3>1 DEF Requests
    <3>3. X!AnswersTo(req, c)
      <4>1. Size[c] \in Nat
        BY HandlesAssumption DEF X!HttpAssumption
      <4>. QED BY <3>1, <4>1 DEF X!AnswersTo, X!IsPrefix, X!Units
    <3>4. xGot[c] = <<>> /\ xDown[c] = <<>> /\ xEnd[c] = "open"
      OBVIOUS
    <3>5. Len(xGot[c]) = 0 /\ Len(xDown[c]) = 0
      BY <3>4
    <3>6. AnswerSize \in Nat
      BY HandlesAssumption DEF X!HttpAssumption
    <3>7. Answers(c, req)
      BY <3>3, <3>4, <3>5, <3>6 DEF Answers, Carries
    <3>. QED BY <3>2, <3>4, <3>7 DEF Answering
  <2>5. Returned(c)
    <3>1. xResponse[c] = <<>>
      OBVIOUS
    <3>. QED BY <3>1 DEF Returned, X!Range
  <2>. QED BY <2>2, <2>3, <2>4, <2>5 DEF ExchangeOf
<1>. QED
  BY <1>1, <1>2, <1>3 DEF ExchangeInv

\* Each action keeps it: duxrt_http_request connects, or fails to,
LEMMA ConnectKeeps == ASSUME ExchangeInv, NEW d \in Clients, X!Connect(d) PROVE ExchangeInv'
<1>1. /\ xClient[d] = "idle" /\ xClient' = [xClient EXCEPT ![d] = "connected"]
      /\ xBacklog' = Append(xBacklog, d)
      /\ UNCHANGED <<xGot, xResponse, xUp, xDown, xEnd, xServer, xCurrent, xRequest, xWhole>>
  BY DEF X!Connect
<1>2. ~In(xBacklog, d)
  BY <1>1 DEF ExchangeInv, ExchangeOf, Placed, Unaccepted
<1>3. (\A c : Unaccepted(c)' <=> Unaccepted(c) \/ c = d) /\ Queued'
  <2>1. xBacklog \in Seq(Clients) /\ Distinct(xBacklog) /\ (xCurrent = X!Nothing => xServer = "idle")
    BY DEF ExchangeInv, ExchangeTypes, Queued
  <2>2. (\A c : In(xBacklog', c) <=> In(xBacklog, c) \/ c = d) /\ Distinct(xBacklog')
    BY <1>1, <1>2, <2>1, QueuePut
  <2>. QED BY <1>1, <2>1, <2>2 DEF Queued, Unaccepted
<1>4. \A c : Unread(c)' <=> Unread(c) \/ c = d
  BY <1>1, <1>3 DEF Unread
<1>5. ExchangeTypes'
  BY <1>1 DEF ExchangeInv, ExchangeTypes
<1>6. ExchangeOf(d)'
  <2>1. xClient'[d] = "connected" /\ xEnd[d] = "open" /\ xCurrent # d /\ xUp[d] = <<>>
    BY <1>1 DEF ExchangeInv, ExchangeTypes, ExchangeOf, Placed
  <2>2. Placed(d)'
    BY <1>1, <1>3, <1>4, <2>1 DEF Placed
  <2>3. Asking(d)'
    <3>1. Len(xUp[d]) = 0 /\ Size[d] \in Nat
      BY <2>1, HandlesAssumption DEF X!HttpAssumption
    <3>. QED BY <1>1, <2>1, <3>1 DEF Asking, Carries
  <2>. QED
    BY <1>1, <2>1, <2>2, <2>3 DEF ExchangeInv, ExchangeOf, Handled, Answering, Answers, Returned
<1>7. ASSUME NEW c \in Clients, c # d PROVE ExchangeOf(c)'
  <2>1. xClient'[c] = xClient[c]
    BY <1>1, <1>7 DEF ExchangeInv, ExchangeTypes
  <2>2. ExchangeOf(c)
    BY DEF ExchangeInv
  <2>. QED
    BY <1>1, <1>3, <1>4, <1>7, <2>1, <2>2, ExchangeKept DEF ExchangeOf, Placed
<1>. QED
  BY <1>3, <1>5, <1>6, <1>7 DEF ExchangeInv

\* or does not get a connection;
LEMMA FailKeeps == ASSUME ExchangeInv, NEW d \in Clients, X!Fail(d) PROVE ExchangeInv'
<1>1. /\ xClient[d] = "idle" /\ xClient' = [xClient EXCEPT ![d] = "done"]
      /\ UNCHANGED <<xGot, xResponse, xBacklog, xUp, xDown, xEnd, xServer, xCurrent, xRequest, xWhole>>
  BY DEF X!Fail
<1>2. \A c : (Unaccepted(c)' <=> Unaccepted(c)) /\ (Unread(c)' <=> Unread(c))
  BY <1>1 DEF Unaccepted, Unread
<1>3. ExchangeTypes' /\ Queued'
  BY <1>1 DEF ExchangeInv, ExchangeTypes, Queued
<1>4. ExchangeOf(d)'
  <2>1. xClient'[d] = "done" /\ ~Unaccepted(d) /\ xCurrent # d
    BY <1>1 DEF ExchangeInv, ExchangeTypes, ExchangeOf, Placed
  <2>2. ~Unread(d)'
    BY <1>2, <2>1 DEF Unread
  <2>. QED
    BY <1>1, <1>2, <2>1, <2>2
    DEF ExchangeInv, ExchangeOf, Placed, Asking, Handled, Answering, Answers, Returned
<1>5. ASSUME NEW c \in Clients, c # d PROVE ExchangeOf(c)'
  <2>1. xClient'[c] = xClient[c]
    BY <1>1, <1>5 DEF ExchangeInv, ExchangeTypes
  <2>2. ExchangeOf(c)
    BY DEF ExchangeInv
  <2>. QED
    BY <1>1, <1>2, <2>1, <2>2, ExchangeKept DEF ExchangeOf, Placed
<1>. QED
  BY <1>3, <1>4, <1>5 DEF ExchangeInv

\* sends its request in one send,
LEMMA SendKeeps == ASSUME ExchangeInv, NEW d \in Clients, X!Send(d) PROVE ExchangeInv'
<1>0. d \in UpUnits /\ "blank" \in UpUnits
  BY DEF UpUnits
<1>1. PICK message : message = X!Formatted(d, d, Size[d])
  OBVIOUS
<1>2. Size[d] \in Nat
  BY HandlesAssumption DEF X!HttpAssumption
<1>3. /\ message \in Seq(UpUnits) /\ Carries(message, 0, d, d)
      /\ Len(message) \in 2 .. 2 + Size[d]
      /\ Size[d] <= Fits => Len(message) = 2 + Size[d]
  <2>1. Formed(UpUnits, message, d, d, Size[d])
    BY <1>0, <1>1, <1>2, FormattedCarries
  <2>. QED BY <2>1 DEF Formed
<1>5. PICK n \in 1 .. Len(message) :
          /\ xUp' = [xUp EXCEPT ![d] = X!Cut(message, n)]
          /\ xWhole' = [xWhole EXCEPT ![d] = xWhole[d] /\ n = Len(message) /\ Size[d] <= Fits]
  BY <1>1 DEF X!Send
<1>6. /\ xClient[d] = "connected" /\ xClient' = [xClient EXCEPT ![d] = "reading"]
      /\ UNCHANGED <<xGot, xResponse, xBacklog, xDown, xEnd, xServer, xCurrent, xRequest>>
  BY DEF X!Send
<1>7. \A c : (Unaccepted(c)' <=> Unaccepted(c)) /\ (Unread(c)' <=> Unread(c))
  BY <1>6 DEF Unaccepted, Unread
<1>8. n \in 0 .. Len(message)
  BY <1>3
<1>9. X!Cut(message, n) \in Seq(UpUnits) /\ Len(X!Cut(message, n)) = n /\ Carries(X!Cut(message, n), 0, d, d)
  BY <1>3, <1>8, CutSeq, CutCarries
<1>10. ExchangeTypes' /\ Queued'
  BY <1>5, <1>6, <1>9 DEF ExchangeInv, ExchangeTypes, Queued
<1>11. ExchangeOf(d)'
  <2>1. /\ xClient'[d] = "reading" /\ xUp'[d] = X!Cut(message, n)
        /\ xWhole'[d] => xWhole[d] /\ n = Len(message) /\ Size[d] <= Fits
    BY <1>5, <1>6 DEF ExchangeInv, ExchangeTypes
  <2>2. Asking(d)'
    BY <1>2, <1>3, <1>9, <2>1 DEF Asking
  <2>3. Unread(d) /\ (xServer = "handling" => xCurrent # d) /\ xEnd[d] = "open"
    BY <1>6 DEF ExchangeInv, ExchangeOf, Placed, Unread
  <2>4. Placed(d)' /\ Handled(d)'
    BY <1>6, <1>7, <2>1, <2>3 DEF ExchangeInv, ExchangeOf, Placed, Handled
  <2>. QED
    BY <1>6, <2>1, <2>2, <2>3, <2>4 DEF ExchangeInv, ExchangeOf, Answering, Answers, Returned
<1>12. ASSUME NEW c \in Clients, c # d PROVE ExchangeOf(c)'
  <2>1. xClient'[c] = xClient[c] /\ xUp'[c] = xUp[c] /\ xWhole'[c] = xWhole[c]
    BY <1>5, <1>6, <1>12 DEF ExchangeInv, ExchangeTypes
  <2>2. ExchangeOf(c)
    BY DEF ExchangeInv
  <2>. QED
    BY <1>6, <1>7, <2>1, <2>2, ExchangeKept DEF ExchangeOf, Placed
<1>. QED
  BY <1>10, <1>11, <1>12 DEF ExchangeInv

\* reads what has come,
LEMMA ReadKeeps == ASSUME ExchangeInv, NEW d \in Clients, X!Read(d) PROVE ExchangeInv'
<1>1. PICK n \in 1 .. Len(xDown[d]) :
          /\ xGot' = [xGot EXCEPT ![d] = xGot[d] \o X!Cut(xDown[d], n)]
          /\ xDown' = [xDown EXCEPT ![d] = SubSeq(xDown[d], n + 1, Len(xDown[d]))]
  BY DEF X!Read
<1>2. /\ xClient[d] = "reading"
      /\ UNCHANGED <<xClient, xResponse, xBacklog, xUp, xEnd, xServer, xCurrent, xRequest, xWhole>>
  BY DEF X!Read
<1>3. \A c : (Unaccepted(c)' <=> Unaccepted(c)) /\ (Unread(c)' <=> Unread(c))
  BY <1>2 DEF Unaccepted, Unread
<1>4. PICK s \in Seq(DownUnits), r \in Seq(DownUnits) : s = xGot[d] /\ r = xDown[d]
  BY DEF ExchangeInv, ExchangeTypes
<1>5. PICK req \in Requests : Answers(d, req)
  BY DEF ExchangeInv, ExchangeOf, Answering
<1>6. n \in 0 .. Len(r) /\ n \in 1 .. Len(r) /\ Len(s) \in Nat /\ Len(r) \in Nat
  BY <1>1, <1>4
<1>7. PICK gotn \in Seq(DownUnits) : /\ gotn = s \o X!Cut(r, n) /\ Len(gotn) = Len(s) + n
                                   /\ Carries(gotn, 0, "200", req)
  <2>1. PICK some \in Seq(DownUnits) : /\ some = X!Cut(r, n) /\ Len(some) = n
                                       /\ Carries(some, Len(s), "200", req)
    BY <1>4, <1>5, <1>6, CutSeq, CutCarries DEF Answers
  <2>2. Carries(s, 0, "200", req)
    BY <1>4, <1>5 DEF Answers
  <2>. QED BY <2>1, <2>2, ReadCarries
<1>8. PICK r2 \in Seq(DownUnits) : /\ r2 = SubSeq(r, n + 1, Len(r)) /\ Len(r2) = Len(r) - n
                                   /\ Carries(r2, Len(s) + n, "200", req)
  <2>1. Carries(r, Len(s), "200", req)
    BY <1>4, <1>5 DEF Answers
  <2>. QED BY <1>6, <2>1, RestSeq, RestCarries
<1>9. xGot' = [xGot EXCEPT ![d] = gotn] /\ xDown' = [xDown EXCEPT ![d] = r2]
  BY <1>1, <1>4, <1>7, <1>8
<1>10. ExchangeTypes' /\ Queued'
  BY <1>2, <1>9 DEF ExchangeInv, ExchangeTypes, Queued
<1>11. ExchangeOf(d)'
  <2>1. xGot'[d] = gotn /\ xDown'[d] = r2
    BY <1>9 DEF ExchangeInv, ExchangeTypes
  <2>2. Len(gotn) + Len(r2) = Len(s) + Len(r)
    <3>1. PICK ls \in Nat, lr \in Nat : ls = Len(s) /\ lr = Len(r)
      BY <1>6
    <3>2. n \in 1 .. lr /\ Len(gotn) = ls + n /\ Len(r2) = lr - n
      BY <1>6, <1>7, <1>8, <3>1
    <3>3. (ls + n) + (lr - n) = ls + lr
      BY <3>1, <3>2
    <3>. QED BY <3>1, <3>2, <3>3
  <2>3. Answers(d, req)'
    BY <1>2, <1>4, <1>5, <1>7, <1>8, <2>1, <2>2 DEF Answers
  <2>4. xEnd[d] # "open"
    <3>1. xDown[d] # <<>>
      BY <1>4, <1>6
    <3>. QED BY <3>1 DEF ExchangeInv, ExchangeOf, Answering
  <2>5. Answering(d)'
    BY <1>2, <1>5, <2>3, <2>4 DEF Answering
  <2>. QED
    BY <1>2, <1>3, <2>5 DEF ExchangeInv, ExchangeOf, Placed, Asking, Handled, Returned
<1>12. ASSUME NEW c \in Clients, c # d PROVE ExchangeOf(c)'
  <2>1. xGot'[c] = xGot[c] /\ xDown'[c] = xDown[c]
    BY <1>9, <1>12 DEF ExchangeInv, ExchangeTypes
  <2>2. ExchangeOf(c)
    BY DEF ExchangeInv
  <2>. QED
    BY <1>2, <1>3, <2>1, <2>2, ExchangeKept DEF ExchangeOf, Placed
<1>. QED
  BY <1>10, <1>11, <1>12 DEF ExchangeInv

\* and parses what it has read when the connection ends.
LEMMA FinishKeeps == ASSUME ExchangeInv, NEW d \in Clients, X!Finish(d) PROVE ExchangeInv'
<1>1. /\ xDown[d] = <<>> /\ xEnd[d] # "open" /\ xWhole' = xWhole
      \/ xWhole' = [xWhole EXCEPT ![d] = FALSE]
  BY DEF X!Finish
<1>2. /\ xClient[d] = "reading" /\ xClient' = [xClient EXCEPT ![d] = "done"]
      /\ xResponse' = [xResponse EXCEPT ![d] = <<X!Parsed(xGot[d])>>]
      /\ UNCHANGED <<xGot, xBacklog, xUp, xDown, xEnd, xServer, xCurrent, xRequest>>
  BY DEF X!Finish
<1>3. \A c : (Unaccepted(c)' <=> Unaccepted(c)) /\ (Unread(c)' <=> Unread(c))
  BY <1>2 DEF Unaccepted, Unread
<1>4. PICK req \in Requests : Answers(d, req)
  BY DEF ExchangeInv, ExchangeOf, Answering
<1>5. PICK s \in Seq(DownUnits) : s = xGot[d] /\ Len(s) \in Nat
  BY DEF ExchangeInv, ExchangeTypes
<1>6. PICK r : r = X!Parsed(s)
  OBVIOUS
<1>7. PICK m \in Nat : m = AnswerSize
  BY HandlesAssumption DEF X!HttpAssumption
<1>8. Carries(s, 0, "200", req) /\ Len(s) <= 2 + m
  <2>1. Len(xDown[d]) \in Nat
    BY DEF ExchangeInv, ExchangeTypes
  <2>2. Len(s) + Len(xDown[d]) <= 2 + AnswerSize /\ Carries(s, 0, "200", req)
    BY <1>4, <1>5 DEF Answers
  <2>3. PICK ls \in Nat, ld \in Nat : ls = Len(s) /\ ld = Len(xDown[d])
    BY <1>5, <2>1
  <2>4. ls + ld <= 2 + m
    BY <1>7, <2>2, <2>3
  <2>5. ls <= 2 + m
    BY <2>3, <2>4
  <2>. QED BY <2>2, <2>3, <2>5
<1>9. /\ r.first \in {X!Nothing, "200"} /\ r.body \in Seq(DownUnits)
      /\ \A u \in X!Range(r.body) : u = req
      /\ Len(s) = 2 + AnswerSize => r = [first |-> "200", body |-> X!Units(req, AnswerSize)]
  <2>1. PartOf(DownUnits, s, "200", req, m)
    BY <1>8 DEF PartOf
  <2>2. ParsedAs(DownUnits, r, s, "200", req, m)
    BY <1>6, <2>1, ParsedPart
  <2>. QED BY <1>7, <2>2 DEF ParsedAs
<1>10. r \in Responses
  <2>1. r = [first |-> r.first, body |-> r.body]
    BY <1>6 DEF X!Parsed
  <2>. QED BY <1>9, <2>1 DEF Responses
<1>11. \A c \in Clients : xWhole'[c] => xWhole[c]
  BY <1>1 DEF ExchangeInv, ExchangeTypes
<1>12. xWhole' \in [Clients -> BOOLEAN]
  BY <1>1 DEF ExchangeInv, ExchangeTypes
<1>13. xResponse' = [xResponse EXCEPT ![d] = <<r>>] /\ <<r>> \in Seq(Responses)
  BY <1>2, <1>5, <1>6, <1>10
<1>14. ExchangeTypes' /\ Queued'
  BY <1>2, <1>12, <1>13 DEF ExchangeInv, ExchangeTypes, Queued
<1>15. ExchangeOf(d)'
  <2>1. xClient'[d] = "done" /\ xResponse'[d] = <<r>>
    BY <1>2, <1>13 DEF ExchangeInv, ExchangeTypes
  <2>2. xWhole'[d] => xWhole[d] /\ xDown[d] = <<>> /\ xEnd[d] # "open"
    BY <1>1 DEF ExchangeInv, ExchangeTypes
  <2>3. xWhole'[d] => r = [first |-> "200", body |-> X!Units(X!Complete(d), AnswerSize)]
    <3>. SUFFICES ASSUME xWhole'[d] PROVE r = [first |-> "200", body |-> X!Units(X!Complete(d), AnswerSize)]
      OBVIOUS
    <3>1. req = X!Complete(d) /\ Len(s) + Len(xDown[d]) = 2 + AnswerSize
      BY <1>4, <1>5, <2>2 DEF Answers
    <3>2. Len(xDown[d]) = 0
      BY <2>2
    <3>3. Len(s) = 2 + AnswerSize
      BY <1>5, <3>1, <3>2
    <3>. QED BY <1>9, <3>1, <3>3
  <2>4. X!AnswersTo(req, d)
    BY <1>4 DEF Answers
  <2>5. \A x \in X!Range(<<r>>) : x = r
    BY DEF X!Range
  <2>6. \A u \in X!Range(r.body) : X!AnswersTo(u, d)
    BY <1>9, <2>4
  <2>7. Returned(d)'
    BY <1>9, <2>1, <2>3, <2>5, <2>6 DEF Returned
  <2>8. Answering(d)'
    BY <1>2, <1>4, <1>11 DEF ExchangeInv, ExchangeOf, Answering, Answers
  <2>9. Placed(d)' /\ Asking(d)' /\ Handled(d)'
    BY <1>2, <1>3, <1>11, <2>1 DEF ExchangeInv, ExchangeOf, Placed, Asking, Handled
  <2>. QED BY <2>7, <2>8, <2>9 DEF ExchangeOf
<1>16. ASSUME NEW c \in Clients, c # d PROVE ExchangeOf(c)'
  <2>1. xClient'[c] = xClient[c] /\ xResponse'[c] = xResponse[c]
    BY <1>2, <1>16 DEF ExchangeInv, ExchangeTypes
  <2>2. ExchangeOf(c)
    BY DEF ExchangeInv
  <2>. QED
    BY <1>2, <1>3, <1>11, <2>1, <2>2, ExchangeKept DEF ExchangeOf, Placed
<1>. QED
  BY <1>14, <1>15, <1>16 DEF ExchangeInv

\* What closing a connection leaves on its way to the client is the start of what was there.
LEMMA ClosedCuts ==
    ASSUME NEW c \in Clients, NEW f \in [Clients -> Seq(DownUnits)], X!Closed(c, f, xEnd),
           xEnd \in [Clients -> {"open", "closed", "reset"}]
    PROVE  \E s \in Seq(DownUnits) :
              /\ xDown' = [f EXCEPT ![c] = s] /\ Len(s) <= Len(f[c])
              /\ \A k \in Nat : \A first, unit : Carries(f[c], k, first, unit) => Carries(s, k, first, unit)
              /\ xEnd' \in [Clients -> {"open", "closed", "reset"}] /\ xEnd'[c] # "open"
              /\ \A o \in Clients : o # c => xEnd'[o] = xEnd[o]
              /\ xEnd'[c] = "closed" => s = f[c]
<1>1. CASE xDown' = f /\ xEnd' = [xEnd EXCEPT ![c] = "closed"]
  <2>1. xDown' = [f EXCEPT ![c] = f[c]] /\ f[c] \in Seq(DownUnits)
    BY <1>1
  <2>2. Len(f[c]) <= Len(f[c])
    BY <2>1
  <2>. QED BY <1>1, <2>1, <2>2
<1>2. ASSUME NEW n \in 0 .. Len(f[c]), xDown' = [f EXCEPT ![c] = X!Cut(f[c], n)],
             xEnd' = [xEnd EXCEPT ![c] = "reset"]
      PROVE  \E s \in Seq(DownUnits) :
              /\ xDown' = [f EXCEPT ![c] = s] /\ Len(s) <= Len(f[c])
              /\ \A k \in Nat : \A first, unit : Carries(f[c], k, first, unit) => Carries(s, k, first, unit)
              /\ xEnd' \in [Clients -> {"open", "closed", "reset"}] /\ xEnd'[c] # "open"
              /\ \A o \in Clients : o # c => xEnd'[o] = xEnd[o]
              /\ xEnd'[c] = "closed" => s = f[c]
  <2>1. PICK t \in Seq(DownUnits) : t = f[c]
    OBVIOUS
  <2>2. n \in 0 .. Len(t)
    BY <1>2, <2>1
  <2>3. PICK s \in Seq(DownUnits) : s = X!Cut(t, n) /\ Len(s) = n
    BY <2>2, CutSeq
  <2>4. Len(s) <= Len(t)
    BY <2>2, <2>3
  <2>5. \A k \in Nat : \A first, unit : Carries(t, k, first, unit) => Carries(s, k, first, unit)
    BY <2>2, <2>3, CutCarries
  <2>6. xDown' = [f EXCEPT ![c] = s]
    BY <1>2, <2>1, <2>3
  <2>7. /\ xEnd' \in [Clients -> {"open", "closed", "reset"}] /\ xEnd'[c] = "reset"
        /\ \A o \in Clients : o # c => xEnd'[o] = xEnd[o]
    BY <1>2
  <2>. QED BY <2>1, <2>4, <2>5, <2>6, <2>7
<1>. QED
  BY <1>1, <1>2 DEF X!Closed

\* The server goes on without an answer,
LEMMA IgnoreKeeps == ASSUME ExchangeInv, X!Ignore PROVE ExchangeInv'
<1>1. /\ xServer = "handling" /\ xServer' = "idle"
      /\ UNCHANGED <<xClient, xGot, xResponse, xBacklog, xUp, xDown, xEnd, xCurrent, xRequest, xWhole>>
  BY DEF X!Ignore
<1>2. \A c : (Unaccepted(c)' <=> Unaccepted(c)) /\ (Unread(c)' <=> Unread(c))
  BY <1>1 DEF Unaccepted, Unread
<1>3. ExchangeTypes' /\ Queued'
  BY <1>1 DEF ExchangeInv, ExchangeTypes, Queued
<1>4. ASSUME NEW c \in Clients PROVE ExchangeOf(c)'
  <2>1. ExchangeOf(c)
    BY DEF ExchangeInv
  <2>. QED
    BY <1>1, <1>2, <2>1, ExchangeKept DEF ExchangeOf, Placed
<1>. QED
  BY <1>3, <1>4 DEF ExchangeInv

\* reads a request once,
LEMMA ReceiveKeeps == ASSUME ExchangeInv, X!Receive PROVE ExchangeInv'
<1>1. xServer = "accepted" /\ xServer' = "handling"
      /\ UNCHANGED <<xClient, xGot, xResponse, xBacklog, xDown, xEnd, xCurrent>>
  BY DEF X!Receive
<1>2. PICK d \in Clients : d = xCurrent
  BY <1>1 DEF ExchangeInv, ExchangeTypes, Queued
<1>3. PICK n \in 1 .. Len(xUp[d]) :
          /\ xRequest' = <<X!Parsed(X!Cut(xUp[d], n))>>
          /\ xUp' = [xUp EXCEPT ![d] = SubSeq(xUp[d], n + 1, Len(xUp[d]))]
          /\ xWhole' = [xWhole EXCEPT ![d] = xWhole[d] /\ n = Len(xUp[d])]
  BY <1>2 DEF X!Receive
<1>4. PICK m \in Nat : m = Size[d]
  BY HandlesAssumption DEF X!HttpAssumption
<1>5. PICK s \in Seq(UpUnits) : s = xUp[d] /\ n \in 1 .. Len(s) /\ n \in 0 .. Len(s) /\ Len(s) \in Nat
  BY <1>3 DEF ExchangeInv, ExchangeTypes
<1>6. ~Unaccepted(d) /\ Unread(d) /\ xEnd[d] = "open" /\ xClient[d] # "idle" /\ xClient[d] # "connected"
  <2>1. xClient[d] = "connected" => xUp[d] = <<>>
    BY DEF ExchangeInv, ExchangeOf, Placed
  <2>2. xUp[d] # <<>>
    BY <1>2 DEF X!Receive
  <2>. QED BY <1>1, <1>2, <2>1, <2>2 DEF ExchangeInv, ExchangeOf, Placed, Unread
<1>7. /\ Carries(s, 0, d, d) /\ Len(s) <= 2 + m
      /\ xWhole[d] => Len(s) = 2 + m
  BY <1>4, <1>5, <1>6 DEF ExchangeInv, ExchangeOf, Asking
<1>8. PICK t \in Seq(UpUnits) : /\ t = X!Cut(s, n) /\ Len(t) = n
                                /\ Carries(t, 0, d, d)
  BY <1>5, <1>7, CutSeq, CutCarries
<1>9. PICK r : r = X!Parsed(t)
  OBVIOUS
<1>10. ParsedAs(UpUnits, r, t, d, d, m)
  <2>1. PICK l \in Nat : l = Len(s)
    BY <1>5
  <2>2. n <= 2 + m
    BY <1>5, <1>7, <2>1
  <2>3. PartOf(UpUnits, t, d, d, m)
    BY <1>8, <2>2 DEF PartOf
  <2>. QED BY <1>9, <2>3, ParsedPart
<1>11. r \in Requests /\ X!AnswersTo(r, d)
  BY <1>4, <1>10 DEF ParsedAs, Requests, UpUnits, X!AnswersTo
<1>12. PICK u \in Seq(UpUnits) : u = SubSeq(s, n + 1, Len(s))
  BY <1>5, RestSeq
<1>13. /\ xRequest' = <<r>> /\ <<r>> \in Seq(Requests) /\ <<r>> # <<>> /\ Head(<<r>>) = r
       /\ xUp' = [xUp EXCEPT ![d] = u]
  BY <1>3, <1>5, <1>8, <1>9, <1>11, <1>12
<1>14. xWhole' \in [Clients -> BOOLEAN] /\ \A c \in Clients : xWhole'[c] => xWhole[c]
  BY <1>3 DEF ExchangeInv, ExchangeTypes
<1>15. \A c : (Unaccepted(c)' <=> Unaccepted(c)) /\ (Unread(c)' <=> Unread(c) /\ c # d)
  <2>1. \A c : Unaccepted(c)' <=> Unaccepted(c)
    BY <1>1 DEF Unaccepted
  <2>. QED BY <1>1, <1>2, <1>6, <2>1 DEF Unread
<1>16. ExchangeTypes' /\ Queued'
  <2>1. xCurrent # X!Nothing
    BY <1>1 DEF ExchangeInv, Queued
  <2>. QED BY <1>1, <1>13, <1>14, <2>1 DEF ExchangeInv, ExchangeTypes, Queued
<1>17. ExchangeOf(d)'
  <2>1. ~Unread(d)' /\ ~Unaccepted(d)'
    BY <1>6, <1>15
  <2>2. Placed(d)'
    BY <1>1, <1>6, <2>1 DEF Placed
  <2>3. xWhole'[d] => r = X!Complete(d)
    <3>. SUFFICES ASSUME xWhole'[d] PROVE r = X!Complete(d)
      OBVIOUS
    <3>1. xWhole[d] /\ n = Len(s)
      BY <1>3, <1>5 DEF ExchangeInv, ExchangeTypes
    <3>2. Len(t) = 2 + m
      BY <1>7, <1>8, <3>1
    <3>. QED BY <1>4, <1>10, <3>2 DEF ParsedAs, X!Complete
  <2>4. Handled(d)'
    BY <1>11, <1>13, <2>3 DEF Handled
  <2>5. Asking(d)'
    BY <2>1 DEF Asking
  <2>6. Answering(d)'
    BY <1>1, <1>6, <1>14 DEF ExchangeInv, ExchangeOf, Answering, Answers
  <2>7. Returned(d)'
    BY <1>1, <1>14 DEF ExchangeInv, ExchangeOf, Returned
  <2>. QED BY <2>2, <2>4, <2>5, <2>6, <2>7 DEF ExchangeOf
<1>18. ASSUME NEW c \in Clients, c # d PROVE ExchangeOf(c)'
  <2>1. xUp'[c] = xUp[c] /\ xCurrent' # c
    BY <1>1, <1>2, <1>13, <1>18 DEF ExchangeInv, ExchangeTypes
  <2>2. ExchangeOf(c)
    BY DEF ExchangeInv
  <2>. QED
    BY <1>1, <1>14, <1>15, <1>18, <2>1, <2>2, ExchangeKept DEF ExchangeOf, Placed
<1>. QED
  BY <1>16, <1>17, <1>18 DEF ExchangeInv

\* accepts the next connection and gives up the last one,
LEMMA AcceptKeeps == ASSUME ExchangeInv, X!Accept PROVE ExchangeInv'
<1>1. /\ xServer = "idle" /\ xServer' = "accepted" /\ xBacklog # <<>>
      /\ xCurrent' = Head(xBacklog) /\ xBacklog' = Tail(xBacklog)
      /\ UNCHANGED <<xClient, xGot, xResponse, xUp, xRequest>>
  BY DEF X!Accept
<1>2. PICK h : h = Head(xBacklog)
  OBVIOUS
<1>3. /\ Tail(xBacklog) \in Seq(Clients) /\ h \in Clients /\ Unaccepted(h)
      /\ (\A c : Unaccepted(c)' <=> Unaccepted(c) /\ c # h) /\ Distinct(Tail(xBacklog))
  BY <1>1, <1>2, QueueTake DEF ExchangeInv, ExchangeTypes, Queued, Unaccepted
<1>4. \A c : (Unread(c) <=> Unaccepted(c)) /\ (Unread(c)' <=> Unaccepted(c))
  BY <1>1, <1>2, <1>3 DEF Unread
<1>5. h # X!Nothing
  BY <1>3, HandlesAssumption DEF X!HttpAssumption
<1>6. CASE xCurrent = X!Nothing
  <2>1. UNCHANGED <<xDown, xEnd, xWhole>>
    BY <1>6 DEF X!Accept
  <2>2. ExchangeTypes' /\ Queued'
    BY <1>1, <1>2, <1>3, <1>5, <2>1 DEF ExchangeInv, ExchangeTypes, Queued
  <2>3. ASSUME NEW c \in Clients PROVE ExchangeOf(c)'
    <3>1. ExchangeOf(c)
      BY DEF ExchangeInv
    <3>. QED
      BY <1>1, <1>2, <1>3, <1>4, <2>1, <3>1, ExchangeKept DEF ExchangeOf, Placed
  <2>. QED BY <2>2, <2>3 DEF ExchangeInv
<1>7. CASE xCurrent # X!Nothing
  <2>1. PICK d \in Clients : d = xCurrent
    BY <1>7 DEF ExchangeInv, ExchangeTypes
  <2>2. X!Closed(d, xDown, xEnd) /\ xWhole' = [xWhole EXCEPT ![d] = FALSE]
    BY <1>7, <2>1 DEF X!Accept
  <2>3. PICK s \in Seq(DownUnits) :
           /\ xDown' = [xDown EXCEPT ![d] = s] /\ Len(s) <= Len(xDown[d])
           /\ \A k \in Nat : \A first, unit : Carries(xDown[d], k, first, unit) => Carries(s, k, first, unit)
           /\ xEnd' \in [Clients -> {"open", "closed", "reset"}] /\ xEnd'[d] # "open"
           /\ \A o \in Clients : o # d => xEnd'[o] = xEnd[o]
    BY <2>2, ClosedCuts DEF ExchangeInv, ExchangeTypes
  <2>4. d # h /\ ~Unaccepted(d) /\ xEnd[d] = "open" /\ xClient[d] # "idle" /\ xClient[d] # "connected"
    BY <1>3, <1>4, <2>1 DEF ExchangeInv, ExchangeOf, Placed
  <2>5. xWhole' \in [Clients -> BOOLEAN] /\ ~xWhole'[d] /\ \A c \in Clients : c # d => xWhole'[c] = xWhole[c]
    BY <2>2 DEF ExchangeInv, ExchangeTypes
  <2>6. ExchangeTypes' /\ Queued'
    BY <1>1, <1>2, <1>3, <1>5, <2>3, <2>5 DEF ExchangeInv, ExchangeTypes, Queued
  <2>7. ExchangeOf(d)'
    <3>1. ~Unaccepted(d)' /\ ~Unread(d)' /\ xCurrent' # d
      BY <1>1, <1>2, <1>3, <1>4, <2>4
    <3>2. Placed(d)' /\ Asking(d)' /\ Handled(d)'
      BY <1>1, <2>4, <3>1 DEF Placed, Asking, Handled
    <3>3. xGot[d] = <<>> /\ xDown[d] = <<>>
      BY <2>4 DEF ExchangeInv, ExchangeOf, Answering
    <3>4. PICK req \in Requests : Answers(d, req)
      BY DEF ExchangeInv, ExchangeOf, Answering
    <3>5. Len(xGot[d]) = 0 /\ Len(xDown[d]) = 0 /\ Len(s) = 0 /\ xDown'[d] = s /\ xGot'[d] = xGot[d]
      BY <1>1, <2>3, <3>3 DEF ExchangeInv, ExchangeTypes
    <3>6. Carries(s, 0, "200", req)
      BY <3>5 DEF Carries
    <3>7. Answers(d, req)'
      BY <1>1, <2>5, <3>4, <3>5, <3>6 DEF Answers
    <3>8. Answering(d)'
      BY <2>3, <3>4, <3>7 DEF Answering
    <3>9. Returned(d)'
      BY <1>1, <2>5 DEF ExchangeInv, ExchangeOf, Returned
    <3>. QED BY <3>2, <3>8, <3>9 DEF ExchangeOf
  <2>8. ASSUME NEW c \in Clients, c # d PROVE ExchangeOf(c)'
    <3>1. xDown'[c] = xDown[c] /\ xEnd'[c] = xEnd[c] /\ xWhole'[c] = xWhole[c]
      BY <2>3, <2>5, <2>8 DEF ExchangeInv, ExchangeTypes
    <3>2. ExchangeOf(c)
      BY DEF ExchangeInv
    <3>. QED
      BY <1>1, <1>2, <1>3, <1>4, <2>8, <3>1, <3>2, ExchangeKept DEF ExchangeOf, Placed
  <2>. QED BY <2>6, <2>7, <2>8 DEF ExchangeInv
<1>. QED
  BY <1>6, <1>7

\* and answers: send_response.
LEMMA RespondKeeps == ASSUME ExchangeInv, X!Respond PROVE ExchangeInv'
<1>1. /\ xServer = "handling" /\ xServer' = "idle" /\ xCurrent' = X!Nothing
      /\ UNCHANGED <<xClient, xGot, xResponse, xBacklog, xUp, xRequest>>
  BY DEF X!Respond
<1>2. PICK d \in Clients : d = xCurrent /\ d # X!Nothing
  BY <1>1, HandlesAssumption DEF ExchangeInv, ExchangeTypes, Queued, X!HttpAssumption
<1>3. PICK req : req = Head(xRequest)
  OBVIOUS
<1>4. req \in Requests /\ X!AnswersTo(req, d) /\ (xWhole[d] => req = X!Complete(d))
  BY <1>1, <1>2, <1>3 DEF ExchangeInv, ExchangeTypes, ExchangeOf, Handled
<1>5. PICK m \in Nat : m = AnswerSize
  BY HandlesAssumption DEF X!HttpAssumption
<1>6. PICK message : message = X!Formatted("200", req, m)
  OBVIOUS
<1>7. PICK n \in 1 .. Len(message) :
          /\ X!Closed(d, [xDown EXCEPT ![d] = X!Cut(message, n)], xEnd)
          /\ xWhole' = [xWhole EXCEPT ![d] =
                            xWhole[d] /\ n = Len(message) /\ AnswerSize <= Fits /\ xEnd'[d] = "closed"]
  BY <1>2, <1>3, <1>5, <1>6 DEF X!Respond
<1>8. "200" \in DownUnits /\ req \in DownUnits /\ "blank" \in DownUnits
  BY <1>4 DEF DownUnits
<1>9. /\ message \in Seq(DownUnits) /\ Carries(message, 0, "200", req)
      /\ Len(message) \in 2 .. 2 + m /\ (m <= Fits => Len(message) = 2 + m)
  <2>1. Formed(DownUnits, message, "200", req, m)
    BY <1>6, <1>8, FormattedCarries
  <2>. QED BY <2>1 DEF Formed
<1>10. PICK t \in Seq(DownUnits) : /\ t = X!Cut(message, n) /\ Len(t) = n
                                   /\ Carries(t, 0, "200", req)
  <2>1. n \in 0 .. Len(message)
    BY <1>9
  <2>. QED BY <1>9, <2>1, CutSeq, CutCarries
<1>11. PICK f \in [Clients -> Seq(DownUnits)] : f = [xDown EXCEPT ![d] = t] /\ f[d] = t
  <2>1. xDown \in [Clients -> Seq(DownUnits)]
    BY DEF ExchangeInv, ExchangeTypes
  <2>2. [xDown EXCEPT ![d] = t] \in [Clients -> Seq(DownUnits)] /\ [xDown EXCEPT ![d] = t][d] = t
    BY <2>1
  <2>. QED BY <2>2
<1>12. X!Closed(d, f, xEnd)
  BY <1>7, <1>10, <1>11
<1>13. PICK s \in Seq(DownUnits) :
           /\ xDown' = [f EXCEPT ![d] = s] /\ Len(s) <= Len(f[d])
           /\ \A k \in Nat : \A first, unit : Carries(f[d], k, first, unit) => Carries(s, k, first, unit)
           /\ xEnd' \in [Clients -> {"open", "closed", "reset"}] /\ xEnd'[d] # "open"
           /\ \A o \in Clients : o # d => xEnd'[o] = xEnd[o]
           /\ xEnd'[d] = "closed" => s = f[d]
  BY <1>12, ClosedCuts DEF ExchangeInv, ExchangeTypes
<1>14. xDown' \in [Clients -> Seq(DownUnits)] /\ xDown'[d] = s
       /\ \A c \in Clients : c # d => xDown'[c] = xDown[c]
  BY <1>11, <1>13 DEF ExchangeInv, ExchangeTypes
<1>15. /\ xWhole' \in [Clients -> BOOLEAN] /\ \A c \in Clients : c # d => xWhole'[c] = xWhole[c]
       /\ xWhole'[d] => xWhole[d] /\ n = Len(message) /\ AnswerSize <= Fits /\ xEnd'[d] = "closed"
  BY <1>7 DEF ExchangeInv, ExchangeTypes
<1>16. \A c : (Unaccepted(c)' <=> Unaccepted(c)) /\ (Unread(c)' <=> Unread(c))
  BY <1>1 DEF Unaccepted, Unread
<1>17. ExchangeTypes' /\ Queued'
  BY <1>1, <1>13, <1>14, <1>15 DEF ExchangeInv, ExchangeTypes, Queued
<1>18. ExchangeOf(d)'
  <2>1. ~Unaccepted(d) /\ ~Unread(d) /\ xEnd[d] = "open" /\ xClient[d] \notin {"idle", "connected"}
    BY <1>1, <1>2 DEF ExchangeInv, ExchangeOf, Placed, Unread
  <2>2. Placed(d)' /\ Asking(d)' /\ Handled(d)'
    BY <1>1, <1>2, <1>16, <2>1 DEF Placed, Asking, Handled
  <2>3. xGot[d] = <<>> /\ Len(xGot[d]) = 0
    BY <2>1 DEF ExchangeInv, ExchangeOf, Answering
  <2>4. Carries(s, 0, "200", req)
    BY <1>10, <1>11, <1>13
  <2>5. Len(s) <= 2 + m
    <3>1. PICK l \in Nat : l = Len(s)
      OBVIOUS
    <3>2. Len(s) <= n /\ n <= 2 + m
      <4>1. PICK k \in Nat : k = Len(message)
        BY <1>9
      <4>2. n <= 2 + m
        BY <1>9, <4>1
      <4>. QED BY <1>10, <1>11, <1>13, <4>2
    <3>3. n \in Nat
      BY <1>9
    <3>. QED BY <3>1, <3>2, <3>3
  <2>6. xWhole'[d] => req = X!Complete(d) /\ Len(s) = 2 + m
    BY <1>4, <1>5, <1>9, <1>10, <1>11, <1>13, <1>15
  <2>7. Carries(xGot[d], 0, "200", req)
    BY <2>3 DEF Carries
  <2>8. Len(xGot'[d]) + Len(xDown'[d]) = Len(s)
    BY <1>1, <1>14, <2>3
  <2>9. Answers(d, req)'
    BY <1>1, <1>4, <1>5, <1>14, <2>3, <2>4, <2>5, <2>6, <2>7, <2>8 DEF Answers
  <2>10. Answering(d)'
    BY <1>4, <1>13, <2>9 DEF Answering
  <2>11. Returned(d)'
    BY <1>1, <1>15 DEF ExchangeInv, ExchangeOf, Returned
  <2>. QED BY <2>2, <2>10, <2>11 DEF ExchangeOf
<1>19. ASSUME NEW c \in Clients, c # d PROVE ExchangeOf(c)'
  <2>1. xDown'[c] = xDown[c] /\ xEnd'[c] = xEnd[c] /\ xWhole'[c] = xWhole[c] /\ xCurrent' # c
    <3>1. c # X!Nothing
      BY HandlesAssumption DEF X!HttpAssumption
    <3>. QED BY <1>1, <1>13, <1>14, <1>15, <1>19, <3>1
  <2>2. ExchangeOf(c)
    BY DEF ExchangeInv
  <2>. QED
    BY <1>1, <1>16, <2>1, <2>2, ExchangeKept DEF ExchangeOf, Placed
<1>. QED
  BY <1>17, <1>18, <1>19 DEF ExchangeInv

\* Every step of an exchange keeps its invariant.
LEMMA ExchangeStep == ASSUME ExchangeInv, [X!Next]_(X!vars) PROVE ExchangeInv'
<1>1. ASSUME NEW c \in Clients, X!Step(c) PROVE ExchangeInv'
  BY <1>1, ConnectKeeps, FailKeeps, SendKeeps, ReadKeeps, FinishKeeps DEF X!Step
<1>2. CASE UNCHANGED X!vars
  <2>1. UNCHANGED <<xClient, xGot, xResponse, xBacklog, xUp, xDown, xEnd, xServer, xCurrent, xRequest, xWhole>>
    BY <1>2 DEF X!vars
  <2>2. \A c : (Unaccepted(c)' <=> Unaccepted(c)) /\ (Unread(c)' <=> Unread(c))
    BY <2>1 DEF Unaccepted, Unread
  <2>. QED
    BY <2>1, <2>2
    DEF ExchangeInv, ExchangeTypes, Queued, ExchangeOf, Placed, Asking, Handled, Answering, Answers, Returned
<1>. QED
  BY <1>1, <1>2, AcceptKeeps, ReceiveKeeps, IgnoreKeeps, RespondKeeps DEF X!Next

-----------------------------------------------------------------------------
(* The parts side by side                                                  *)

\* A behaviour of the handles starts the future as the component does, and each of
\* its steps is a step of the future or leaves the future alone.
LEMMA FuturePart ==
    /\ HandlesInit => F!Init
    /\ [HandlesNext]_allVars => [F!Next]_(F!vars)
<1>1. HandlesInit => F!Init
  BY DEF HandlesInit
<1>2. [HandlesNext]_allVars => F!Next \/ UNCHANGED fVars
  BY DEF HandlesNext, Once, Fut, Loop, Proc, Sock, Shake, Exchange, allVars
<1>. QED
  BY <1>1, <1>2 DEF fVars, F!vars

\* duxrt_future_free, of a future among the other handles of a program.
THEOREM FutureFreedLast == HandlesSpec => []FreedLast
<1>1. HandlesInit => FutureInv
  BY FuturePart, FutureInit, HandlesAssumption
<1>2. FutureInv /\ [HandlesNext]_allVars => FutureInv'
  BY FuturePart, FutureStep, HandlesAssumption
<1>3. FutureInv => FreedLast
  BY SameCount DEF FutureInv, FreedLast, F!FreedLast, Destroyers
<1>. QED
  BY <1>1, <1>2, <1>3, PTL DEF HandlesSpec

\* The same of the process handle.
LEMMA ProcessPart ==
    /\ HandlesInit => P!Init
    /\ [HandlesNext]_allVars => [P!Next]_(P!vars)
<1>1. HandlesInit => P!Init
  BY DEF HandlesInit
<1>2. [HandlesNext]_allVars => P!Next \/ UNCHANGED pVars
  BY DEF HandlesNext, Once, Fut, Loop, Proc, Sock, Shake, Exchange, allVars
<1>. QED
  BY <1>1, <1>2 DEF pVars, P!vars

\* The invariant of a process handle.
LEMMA ProcessInvariant == HandlesSpec => []PipeInv
<1>1. P!PipeAssumption
  BY HandlesAssumption
<1>2. HandlesInit => PipeInv
  BY <1>1, ProcessPart, PipeInit
<1>3. PipeInv /\ [HandlesNext]_allVars => PipeInv'
  BY <1>1, ProcessPart, PipeTypeStep, PhasesStep, BlocksStep DEF PipeInv
<1>. QED
  BY <1>2, <1>3, PTL DEF HandlesSpec

\* duxrt_proc_wait, of a process among the other handles of a program, returns
\* with all that the child wrote.
THEOREM WaitCapturesAll == HandlesSpec => []CaptureComplete
<1>1. PipeInv => CaptureComplete
  BY HandlesAssumption, WaitComplete DEF CaptureComplete
<1>. QED
  BY <1>1, ProcessInvariant, PTL

\* duxrt_proc_free, of a process among the other handles, leaves no child behind,
\* running or zombie, and no open pipe.
THEOREM FreeLeavesNothing == HandlesSpec => []NothingLeftBehind
<1>1. PipeInv => NothingLeftBehind
  BY DEF PipeInv, Phases, NothingLeftBehind, P!NothingLeftBehind
<1>. QED
  BY <1>1, ProcessInvariant, PTL

\* And of the connection.
LEMMA ConnectionPart ==
    /\ HandlesInit => W!Init
    /\ [HandlesNext]_allVars => [W!Next]_(W!vars)
<1>1. HandlesInit => W!Init
  BY DEF HandlesInit
<1>2. [HandlesNext]_allVars => W!Next \/ UNCHANGED wVars
  BY DEF HandlesNext, Once, Fut, Loop, Proc, Sock, Shake, Exchange, allVars
<1>. QED
  BY <1>1, <1>2 DEF wVars, W!vars, W!peerVars, W!readVars, W!sendVars

\* send_mu, of a connection among the other handles: no thread's frame is cut by
\* another one's or by the close.
THEOREM FramesStayWhole == HandlesSpec => FramesWhole
<1>1. HandlesInit => SendInv
  BY ConnectionPart DEF W!Init, SendInv
<1>2. SendInv /\ [HandlesNext]_allVars => SendInv'
  BY ConnectionPart, SendInvStep, HandlesAssumption
<1>3. SendInv /\ [HandlesNext]_allVars
         => [wUp /\ wWire.piece = "header" /\ wWire' # wWire
                => wWire' = [by |-> wWire.by, piece |-> "payload"]]_(W!vars)
  BY ConnectionPart, PayloadFollows
<1>. QED
  BY <1>1, <1>2, <1>3, PTL DEF HandlesSpec, FramesWhole, W!FramesWhole

\* duxrt_ws_recv, of a connection among the other handles: what it has returned is the
\* start of what the peer said, message by message.
THEOREM MessagesStayWhole == HandlesSpec => []MessagesWhole
<1>1. HandlesInit => RecvInv
  <2>. SUFFICES ASSUME HandlesInit PROVE RecvInv
    OBVIOUS
  <2>1. W!Init
    BY ConnectionPart
  <2>2. W!NoMessage \in Messages
    BY DEF W!NoMessage, Messages
  <2>3. StartOf(<<>>, <<>>) /\ <<>> \in Seq(Messages) /\ <<>> \in Seq(PeerFrames)
    BY DEF StartOf
  <2>4. Replays(<<>>, <<>>, W!NoMessage, <<>>, W!NoMessage)
    <3>1. PICK hs \in Along(Seq(Messages)) : \A i \in Nat : hs[i] = <<>>
      <4>1. [i \in Nat |-> <<>>] \in Along(Seq(Messages))
        BY <2>3 DEF Along
      <4>. QED BY <4>1
    <3>2. PICK ms \in Along(Messages) : \A i \in Nat : ms[i] = W!NoMessage
      <4>1. [i \in Nat |-> W!NoMessage] \in Along(Messages)
        BY <2>2 DEF Along
      <4>. QED BY <4>1
    <3>3. Leads(0, <<>>, hs, ms, <<>>, W!NoMessage, <<>>, W!NoMessage)
      BY <2>3, <3>1, <3>2 DEF Leads
    <3>. QED BY <3>3 DEF Replays
  <2>. QED BY <2>1, <2>2, <2>3, <2>4 DEF W!Init, RecvInv
<1>2. RecvInv /\ [HandlesNext]_allVars => RecvInv'
  BY ConnectionPart, RecvInvStep
<1>3. RecvInv => MessagesWhole
  BY DEF RecvInv, StartOf, MessagesWhole, W!MessagesWhole, W!IsPrefix
<1>. QED
  BY <1>1, <1>2, <1>3, PTL DEF HandlesSpec

\* And of the exchange.
LEMMA ExchangePart ==
    /\ HandlesInit => X!Init
    /\ [HandlesNext]_allVars => [X!Next]_(X!vars)
<1>1. HandlesInit => X!Init
  BY DEF HandlesInit
<1>2. [HandlesNext]_allVars => X!Next \/ UNCHANGED xVars
  BY DEF HandlesNext, Once, Fut, Loop, Proc, Sock, Shake, Exchange, allVars
<1>. QED
  BY <1>1, <1>2 DEF xVars, X!vars

\* duxrt_http_request and send_response, among the other handles: every unit a client
\* gets is of the answer to its own request, and if nothing was cut on the way it gets
\* the answer to its complete request, complete.
THEOREM ClientsAreAnswered == HandlesSpec => []Answered
<1>1. HandlesInit => ExchangeInv
  BY ExchangePart, ExchangeInit
<1>2. ExchangeInv /\ [HandlesNext]_allVars => ExchangeInv'
  BY ExchangePart, ExchangeStep
<1>3. ExchangeInv => Answered
  BY DEF ExchangeInv, ExchangeOf, Returned, Answered, X!Answered
<1>. QED
  BY <1>1, <1>2, <1>3, PTL DEF HandlesSpec
=============================================================================
