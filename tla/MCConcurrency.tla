--------------------------- MODULE MCConcurrency ----------------------------
(***************************************************************************)
(* What threads of a program pass to each other: async calls over the      *)
(* global pool, values over the blocking channel (a list) or the ring.     *)
(* `part' says which one a behaviour is about; the others stay where they  *)
(* start.  The async part ends, so deadlock is not checked.                *)
(***************************************************************************)
EXTENDS AsyncRuntime

CONSTANTS
    Parts,      \* the parts of the run, of "async", "list", "ring"
    OutPointer, \* try_recv passes an out pointer
    ChanThreads, ChanValues, Capacity, NoVal,   \* of both channels
    w1, w2, main, other, fa, fb, fc, fd

TwoWorkers == {w1, w2}
TwoThreads == {main, other}
OneThread == {main}
FourCalls == {fa, fb, fc, fd}
ThreeCalls == {fa, fb, fc}

\* main awaits fa, which awaits fb, then main awaits fc; other awaits fd.
\* One call at a time blocks a worker, so two workers are enough.
ShallowAwaits ==
    [f \in Frames |->
        CASE f = main -> <<fa, fc>>
          [] f = fa -> <<fb>>
          [] f = other -> <<fd>>
          [] OTHER -> <<>>]

\* main awaits fa, which awaits fb, which awaits fc: two calls block a worker
\* each while the third needs one.
NestedAwaits ==
    [f \in Frames |->
        CASE f = main -> <<fa>>
          [] f = fa -> <<fb>>
          [] f = fb -> <<fc>>
          [] OTHER -> <<>>]

VARIABLES
    part,
    lItems, lClosed, lPc, lArg, lAccepted, lReceived,
    rBuf, rHead, rTail, rLen, rClosed, rPc, rArg, rAccepted, rReceived

L == INSTANCE Chan WITH
        Threads <- ChanThreads, Values <- ChanValues, Cap <- Capacity, HasOut <- OutPointer,
        items <- lItems, closed <- lClosed, pc <- lPc, arg <- lArg,
        accepted <- lAccepted, received <- lReceived
R == INSTANCE AsyncChan WITH
        Threads <- ChanThreads, Values <- ChanValues, RequestedCap <- Capacity,
        buf <- rBuf, head <- rHead, tail <- rTail, len <- rLen, closed <- rClosed,
        pc <- rPc, arg <- rArg, accepted <- rAccepted, received <- rReceived

ASSUME ConcurrencyAssumption == L!ChanAssumption /\ R!AsyncChanAssumption

lVars == <<lItems, lClosed, lPc, lArg, lAccepted, lReceived>>
rVars == <<rBuf, rHead, rTail, rLen, rClosed, rPc, rArg, rAccepted, rReceived>>
allVars == <<part, vars, lVars, rVars>>

ConcurrencyInit == part \in Parts /\ Init /\ L!Init /\ R!Init

Async == part = "async" /\ Next /\ UNCHANGED <<part, lVars, rVars>>
ListChan == part = "list" /\ L!Next /\ UNCHANGED <<part, vars, rVars>>
RingChan == part = "ring" /\ R!Next /\ UNCHANGED <<part, vars, lVars>>

ConcurrencyNext == Async \/ ListChan \/ RingChan

\* The fairness of each part, for the behaviours that are about it.
ConcurrencySpec ==
    /\ ConcurrencyInit /\ [][ConcurrencyNext]_allVars
    /\ \A w \in Workers : WF_vars(part = "async" /\ WorkerStep(w))
    /\ \A f \in Frames : WF_vars(part = "async" /\ FrameStep(f))
    /\ \A t \in ChanThreads : WF_lVars(part = "list" /\ L!InCall(t))

-----------------------------------------------------------------------------
(* The properties of the parts; those of AsyncRuntime come with EXTENDS.   *)

\* Chan, AsyncChan: nobody sleeps on an open channel without reason.
NobodyStranded == L!NobodyStranded /\ R!NobodyStranded
\* Chan, AsyncChan: the list and the ring are bounded FIFOs.
Implements == L!Implements /\ R!Implements
\* Chan: a close releases everyone.
CloseReleases == L!CloseReleases
\* Chan: every accepted value is handed out.
NothingLost == L!NothingLost
=============================================================================
