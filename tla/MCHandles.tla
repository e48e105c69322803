----------------------------- MODULE MCHandles ------------------------------
(***************************************************************************)
(* The objects a program holds a handle to, one at a time: a once (or a    *)
(* static local), a future, the event loop, a child process, a WebSocket   *)
(* connection in use or being made, an HTTP exchange.  `part' says which   *)
(* one a behaviour is about; the others stay where they start, so a        *)
(* property of a part is about the behaviours of that part.  Threads stop  *)
(* after their last call, so deadlock is not checked.                      *)
(***************************************************************************)
EXTENDS OnceInit

CONSTANTS
    Parts,                                       \* the parts of the run
    Owners, Creator, Awaiters, Result, NoResult, \* of Future
    Capacity, Captured, MaxWrites, MaxKills,     \* of ProcessPipes
    Senders, Nobody, MaxFrames, MaxSends,        \* of WebSocket
    Clients, Size, AnswerSize, Fits,             \* of Http
    Runners, Stoppers                            \* of EventLoop

\* What the child writes to either stream is more than its pipe holds.
BothOverflow == [s \in {"out", "err"} |-> IF s = "out" THEN 4 ELSE 3]
\* One body fits its buffer, the other does not.
OneFits == [c \in {"c1", "c2"} |-> IF c = "c1" THEN 2 ELSE 3]

VARIABLES
    part,
    fDone, fResult, fRefs, fFreed, fWorker, fOpc, fGot,
    eStop, eRunning, ePc, eCalls,
    pChild, pPid, pWrote, pHeld, pOpen, pBuf, pPc, pWaited, pKills, pHit,
    wUp, wStream, wFrames, wSaid, wBegun, wRpc, wAcc, wHeard, wSpc, wSends, wMu, wWire, wOpen,
    hListening, hCpc, hSpc, hCfd, hSfd, hCbuf, hSbuf, hUp, hDown, hSent, hReceived,
    xClient, xGot, xResponse, xBacklog, xUp, xDown, xEnd, xServer, xCurrent, xRequest, xWhole

F == INSTANCE Future WITH
        done <- fDone, result <- fResult, refs <- fRefs, freed <- fFreed,
        worker <- fWorker, opc <- fOpc, got <- fGot
E == INSTANCE EventLoop WITH
        MaxRuns <- 2, MaxStops <- 2,
        g_stop_requested <- eStop, g_running <- eRunning, pc <- ePc, calls <- eCalls
P == INSTANCE ProcessPipes WITH
        child <- pChild, pid <- pPid, wrote <- pWrote, held <- pHeld, open <- pOpen,
        buf <- pBuf, pc <- pPc, waited <- pWaited, kills <- pKills, hit <- pHit
W == INSTANCE WebSocket WITH
        peerUp <- wUp, stream <- wStream, frames <- wFrames, said <- wSaid, begun <- wBegun,
        rpc <- wRpc, accumulated <- wAcc, heard <- wHeard,
        spc <- wSpc, sends <- wSends, send_mu <- wMu, wire <- wWire, open <- wOpen
H == INSTANCE WsHandshake WITH
        MaxFrames <- 2, listening <- hListening, cpc <- hCpc, spc <- hSpc,
        cfd <- hCfd, sfd <- hSfd, cbuf <- hCbuf, sbuf <- hSbuf,
        up <- hUp, down <- hDown, sent <- hSent, received <- hReceived
X == INSTANCE Http WITH
        client <- xClient, got <- xGot, response <- xResponse, backlog <- xBacklog, up <- xUp,
        down <- xDown, end <- xEnd, server <- xServer, current <- xCurrent, request <- xRequest,
        whole <- xWhole

ASSUME HandlesAssumption ==
    /\ F!FutureAssumption /\ E!LoopAssumption /\ P!PipeAssumption
    /\ W!ConnectionAssumption /\ X!HttpAssumption

fVars == <<fDone, fResult, fRefs, fFreed, fWorker, fOpc, fGot>>
eVars == <<eStop, eRunning, ePc, eCalls>>
pVars == <<pChild, pPid, pWrote, pHeld, pOpen, pBuf, pPc, pWaited, pKills, pHit>>
wVars == <<wUp, wStream, wFrames, wSaid, wBegun, wRpc, wAcc, wHeard, wSpc, wSends, wMu, wWire, wOpen>>
hVars == <<hListening, hCpc, hSpc, hCfd, hSfd, hCbuf, hSbuf, hUp, hDown, hSent, hReceived>>
xVars == <<xClient, xGot, xResponse, xBacklog, xUp, xDown, xEnd, xServer, xCurrent, xRequest, xWhole>>
allVars == <<part, vars, fVars, eVars, pVars, wVars, hVars, xVars>>

HandlesInit ==
    /\ part \in Parts
    /\ Init /\ (part # "once" => kind = "once")
    /\ F!Init /\ E!Init /\ P!Init /\ W!Init /\ H!Init /\ X!Init

Once == part = "once" /\ Next /\ UNCHANGED <<part, fVars, eVars, pVars, wVars, hVars, xVars>>
Fut == part = "future" /\ F!Next /\ UNCHANGED <<part, vars, eVars, pVars, wVars, hVars, xVars>>
Loop == part = "loop" /\ E!Next /\ UNCHANGED <<part, vars, fVars, pVars, wVars, hVars, xVars>>
Proc == part = "process" /\ P!Next /\ UNCHANGED <<part, vars, fVars, eVars, wVars, hVars, xVars>>
Sock == part = "websocket" /\ W!Next /\ UNCHANGED <<part, vars, fVars, eVars, pVars, hVars, xVars>>
Shake == part = "handshake" /\ H!Next /\ UNCHANGED <<part, vars, fVars, eVars, pVars, wVars, xVars>>
Exchange == part = "http" /\ X!Next /\ UNCHANGED <<part, vars, fVars, eVars, pVars, wVars, hVars>>

HandlesNext == Once \/ Fut \/ Loop \/ Proc \/ Sock \/ Shake \/ Exchange

\* The fairness of each part, for the behaviours that are about it.
HandlesSpec ==
    /\ HandlesInit /\ [][HandlesNext]_allVars
    /\ \A t \in Threads : WF_vars(part = "once" /\ Step(t))
    /\ WF_fVars(part = "future" /\ F!Set)
    /\ \A o \in Owners : WF_fVars(part = "future" /\ F!OwnerStep(o))
    /\ \A r \in Runners : WF_eVars(part = "loop" /\ E!RunStep(r))
    /\ \A s \in Stoppers : WF_eVars(part = "loop" /\ E!StopClear(s))
    /\ WF_pVars(part = "process" /\ P!ChildProgress)
    /\ WF_pVars(part = "process" /\ P!Owner)
    /\ \A s \in Senders : WF_wVars(part = "websocket" /\ W!LockStep(s))
    /\ WF_hVars(part = "handshake" /\ H!ClientStep)
    /\ WF_hVars(part = "handshake" /\ H!ServerStep)

-----------------------------------------------------------------------------
(* The properties of the parts; those of OnceInit come with EXTENDS.       *)

\* Future: the memory outlives every use and is released once.
FreedLast == F!FreedLast
\* EventLoop: a stop request ends the run it meets, or another one; the run it meets.
StopTaken == E!StopTaken
StopEnds == E!StopEnds
\* ProcessPipes: wait captures everything.
CaptureComplete == P!CaptureComplete
\* ProcessPipes: free leaves no child and no open pipe.
NothingLeftBehind == P!NothingLeftBehind
\* WebSocket: recv returns whole messages.
MessagesWhole == W!MessagesWhole
\* WebSocket: a frame is not cut by another sender.
FramesWhole == W!FramesWhole
\* WebSocket: nothing cuts a frame.
SendPathProtected == W!SendPathProtected
\* Http: a client gets the answer to its request.
Answered == X!Answered
\* ProcessPipes: wait and free return.
WaitReturns == P!WaitReturns
\* A call that blocks comes back: a once, an await, wait and free of a process unless
\* stderr is full, the lock of a connection, the two ends of a handshake.
CallsComeBack ==
    CallReturns /\ F!AwaitReturns /\ P!WaitEnds /\ W!LockHandedOn /\ H!HandshakeEnds

=============================================================================
