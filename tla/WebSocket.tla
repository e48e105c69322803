----------------------------- MODULE WebSocket ------------------------------
(***************************************************************************)
(* One WebSocket connection of src/src/runtime/ws_rt.c in use: threads     *)
(* that send, one that receives, and a peer that keeps to the protocol.    *)
(* The peer cuts its messages into fragments and puts control frames       *)
(* anywhere between them; a frame of ours goes out in two sends.           *)
(*                                                                         *)
(* A message is a sequence of the numbers of the frames that carried some  *)
(* of it; a continuation may carry nothing.                                *)
(***************************************************************************)
EXTENDS Integers, Sequences, SequencesExt

CONSTANTS
    Senders,      \* the threads that send
    Nobody,
    MaxFrames,    \* bound: frames the peer sends
    MaxSends      \* bound: messages a thread sends

\* What an instance assumes of the constants.
ConnectionAssumption == Nobody \notin Senders

NoMessage == <<0>>     \* frames are numbered from 1
Owner == "owner"

VARIABLES
    peerUp,     \* the peer has neither closed nor died
    stream,     \* its frames that have not been read
    frames,     \* how many it has sent
    said,       \* the messages it has finished
    begun,      \* what it has sent of the one it is sending, or NoMessage
    rpc,        \* the reader: "idle", "read", "pong", "over"
    accumulated,
    heard,      \* what recv has returned
    spc,        \* where each sender is
    sends,      \* how many sends each one has begun
    send_mu,    \* its holder, or Nobody
    wire,       \* the last piece of a frame that a sender has put on the wire
    open        \* the connection is not closed by its owner

peerVars == <<peerUp, frames, said, begun>>
readVars == <<rpc, accumulated, heard>>
sendVars == <<spc, sends, send_mu>>
vars == <<peerVars, stream, readVars, sendVars, wire, open>>

Init ==
    /\ peerUp = TRUE /\ stream = <<>> /\ frames = 0 /\ said = <<>> /\ begun = NoMessage
    /\ rpc = "idle" /\ accumulated = NoMessage /\ heard = <<>>
    /\ spc = [s \in Senders |-> "idle"] /\ sends = [s \in Senders |-> 0] /\ send_mu = Nobody
    /\ wire = [by |-> Nobody, piece |-> "frame"] /\ open = TRUE

Joined(message, data) == IF message = NoMessage THEN data ELSE message \o data

-----------------------------------------------------------------------------
(* The peer.                                                               *)

PeerFrame(frame) ==
    /\ peerUp /\ frames < MaxFrames
    /\ stream' = Append(stream, frame)
    /\ frames' = frames + 1
    /\ UNCHANGED <<readVars, sendVars, wire, open>>

PeerData(fin, data) ==
    /\ PeerFrame([op |-> IF begun = NoMessage THEN "text" ELSE "continuation", fin |-> fin, data |-> data])
    /\ IF fin
       THEN said' = Append(said, Joined(begun, data)) /\ begun' = NoMessage
       ELSE begun' = Joined(begun, data) /\ UNCHANGED said
    /\ UNCHANGED peerUp

PeerControl(op) ==
    /\ PeerFrame([op |-> op, fin |-> TRUE, data |-> <<>>])
    /\ UNCHANGED <<peerUp, said, begun>>

PeerClose ==
    /\ PeerFrame([op |-> "close", fin |-> TRUE, data |-> <<>>])
    /\ peerUp' = FALSE
    /\ UNCHANGED <<said, begun>>

PeerDies ==
    /\ peerUp' = FALSE
    /\ UNCHANGED <<stream, frames, said, begun, readVars, sendVars, wire, open>>

-----------------------------------------------------------------------------
(* duxrt_ws_recv and ws_recv_frame *)

RecvCall ==
    /\ rpc = "idle" /\ open
    /\ rpc' = "read" /\ accumulated' = NoMessage
    /\ UNCHANGED <<peerVars, stream, heard, sendVars, wire, open>>

\* recv_all gets the next frame whole.
Frame(ops) == rpc = "read" /\ stream # <<>> /\ Head(stream).op \in ops /\ stream' = Tail(stream)

\* The payload is appended to what has accumulated, or begins it; the last fragment
\* ends the call.
ReadData ==
    /\ Frame({"text", "continuation"})
    /\ LET message == Joined(accumulated, Head(stream).data)
       IN  IF Head(stream).fin
           THEN heard' = Append(heard, message) /\ rpc' = "idle" /\ accumulated' = NoMessage
           ELSE accumulated' = message /\ UNCHANGED <<heard, rpc>>
    /\ UNCHANGED <<peerVars, sendVars, wire, open>>

\* Mutant: a control frame in the middle of a message makes it start again.
ReadControlForgetting ==
    /\ Frame({"ping", "pong"})
    /\ rpc' = IF Head(stream).op = "ping" THEN "pong" ELSE "read"
    /\ accumulated' = NoMessage
    /\ UNCHANGED <<peerVars, heard, sendVars, wire, open>>

\* A ping is answered before the next frame is read, a pong is skipped.
ReadControl ==
    /\ Frame({"ping", "pong"})
    /\ rpc' = IF Head(stream).op = "ping" THEN "pong" ELSE "read"
    /\ UNCHANGED <<peerVars, accumulated, heard, sendVars, wire, open>>

\* ws_send_frame for the answer, without send_mu; its failure is not looked at.  The
\* call is one step: where the answer lands between the pieces of the senders is not
\* followed.
Pong ==
    /\ rpc = "pong"
    /\ rpc' = "read"
    /\ UNCHANGED <<peerVars, stream, accumulated, heard, sendVars, wire, open>>

\* A close frame, or the end of the stream: what has accumulated is dropped, and recv
\* returns the empty string.
ReadEnd ==
    /\ \/ Frame({"close"})
       \/ rpc = "read" /\ stream = <<>> /\ ~peerUp /\ UNCHANGED stream
    /\ rpc' = "over" /\ accumulated' = NoMessage
    /\ UNCHANGED <<peerVars, heard, sendVars, wire, open>>

-----------------------------------------------------------------------------
(* duxrt_ws_send_text and duxrt_ws_send_binary *)

Goto(s, place) == spc' = [spc EXCEPT ![s] = place]

SendCall(s) ==
    /\ spc[s] = "idle" /\ open /\ sends[s] < MaxSends
    /\ Goto(s, "lock") /\ sends' = [sends EXCEPT ![s] = @ + 1]
    /\ UNCHANGED <<peerVars, stream, readVars, send_mu, wire, open>>

\* Mutant: the lock is not waited for.
LockBarging(s) ==
    /\ spc[s] = "lock"
    /\ send_mu' = s /\ Goto(s, "header")
    /\ UNCHANGED <<peerVars, stream, readVars, sends, wire, open>>

Lock(s) ==
    /\ spc[s] = "lock" /\ send_mu = Nobody
    /\ send_mu' = s /\ Goto(s, "header")
    /\ UNCHANGED <<peerVars, stream, readVars, sends, wire, open>>

\* The header, and then the payload unless there is none.  A send fails only when
\* the peer is gone.
SendHeader(s) ==
    /\ spc[s] = "header"
    /\ \/ \E payload \in BOOLEAN :
            /\ wire' = [by |-> s, piece |-> IF payload THEN "header" ELSE "frame"]
            /\ Goto(s, IF payload THEN "payload" ELSE "unlock")
       \/ ~peerUp /\ Goto(s, "unlock") /\ UNCHANGED wire
    /\ UNCHANGED <<peerVars, stream, readVars, sends, send_mu, open>>

SendPayload(s) ==
    /\ spc[s] = "payload"
    /\ \/ wire' = [by |-> s, piece |-> "payload"]
       \/ ~peerUp /\ UNCHANGED wire
    /\ Goto(s, "unlock")
    /\ UNCHANGED <<peerVars, stream, readVars, sends, send_mu, open>>

\* Mutant: a call that failed does not unlock.
UnlockOnSuccess(s) ==
    /\ spc[s] = "unlock"
    /\ send_mu' = IF peerUp THEN Nobody ELSE send_mu
    /\ Goto(s, "idle")
    /\ UNCHANGED <<peerVars, stream, readVars, sends, wire, open>>

Unlock(s) ==
    /\ spc[s] = "unlock"
    /\ send_mu' = Nobody /\ Goto(s, "idle")
    /\ UNCHANGED <<peerVars, stream, readVars, sends, wire, open>>

-----------------------------------------------------------------------------
(* duxrt_ws_close, with nobody in a call *)

Close ==
    /\ open /\ rpc \in {"idle", "over"} /\ \A s \in Senders : spc[s] = "idle"
    /\ open' = FALSE
    /\ wire' = [by |-> Owner, piece |-> "frame"]
    /\ UNCHANGED <<peerVars, stream, readVars, sendVars>>

SendStep(s) == Lock(s) \/ SendHeader(s) \/ SendPayload(s) \/ Unlock(s)

Next ==
    \/ \E fin \in BOOLEAN : PeerData(fin, <<frames + 1>>)
    \/ \E fin \in BOOLEAN : begun # NoMessage /\ PeerData(fin, <<>>)
    \/ \E op \in {"ping", "pong"} : PeerControl(op)
    \/ PeerClose \/ PeerDies
    \/ RecvCall \/ ReadData \/ ReadControl \/ Pong \/ ReadEnd
    \/ \E s \in Senders : SendCall(s) \/ SendStep(s)
    \/ Close

Spec == Init /\ [][Next]_vars

\* A thread runs when it can have the lock, and goes on to unlock; send(2) may block
\* for as long as the peer does not read.
LockStep(s) == Lock(s) \/ Unlock(s)

FairSpec == Spec /\ \A s \in Senders : WF_vars(LockStep(s))

-----------------------------------------------------------------------------
(* Properties.                                                             *)

\* ws_recv_frame: recv returns the messages of the peer, whole and in order, however
\* they were cut and whatever control frames came between the fragments; one that
\* was not finished is never returned.
MessagesWhole == IsPrefix(heard, said)

\* send_mu: a frame that one thread sends is not cut by what another one sends, nor
\* by the close.  (The answers to pings are sent without the lock, and may cut it.)
FramesWhole ==
    [][peerUp /\ wire.piece = "header" /\ wire' # wire
          => wire' = [by |-> wire.by, piece |-> "payload"]]_vars

\* "Per-connection mutex protecting the send path" (ws_rt.c:11): nothing goes out
\* between the two pieces of a frame.  The answer to a ping does.
SendPathProtected ==
    [][peerUp /\ rpc = "pong" /\ rpc' = "read" => wire.piece # "header"]_vars

\* duxrt_ws_send_*: the lock is left behind by nobody, whether the peer is gone or
\* not: whoever waits for it gets it, or someone is inside send(2).
LockHandedOn ==
    \A s \in Senders :
       spc[s] = "lock"
          ~> spc[s] = "idle" \/ \E o \in Senders : spc[o] \in {"header", "payload"}

=============================================================================
