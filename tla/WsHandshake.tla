---------------------------- MODULE WsHandshake -----------------------------
(***************************************************************************)
(* The opening handshake of src/src/runtime/ws_rt.c: duxrt_ws_connect at   *)
(* one end of a TCP connection and duxrt_ws_accept at the other, and the   *)
(* first frames after it.  What one end sends arrives in pieces cut        *)
(* anywhere; each end reads into a buffer until it has the end of the      *)
(* other's headers.                                                        *)
(***************************************************************************)
EXTENDS Integers, Sequences, SequencesExt

CONSTANT MaxFrames    \* bound: frames the server sends after the handshake

Request == <<"get", "key", "end">>
KeylessRequest == <<"get", "end">>         \* of a client that is not this runtime's
Response == <<"101", "accept", "end">>
IsHead(token) == token \in {"get", "key", "101", "accept", "end"}

VARIABLES
    listening,
    cpc, spc,       \* where duxrt_ws_connect and duxrt_ws_accept are
    cfd, sfd,       \* "none", "open", "closed": the socket of each end
    cbuf, sbuf,     \* what each has read of the other's headers
    up, down,       \* the tokens on their way to the server and to the client
    sent,           \* the frames the server has sent
    received        \* the frames the client's recv has returned

client == <<cpc, cfd, cbuf, received>>
server == <<spc, sfd, sbuf, sent>>
vars == <<listening, client, server, up, down>>

Init ==
    /\ listening = TRUE
    /\ cpc = "connect" /\ cfd = "none" /\ cbuf = <<>> /\ received = <<>>
    /\ spc = "accept" /\ sfd = "none" /\ sbuf = <<>> /\ sent = <<>>
    /\ up = <<>> /\ down = <<>>

ConnectFails == cpc' = "null" /\ cfd' = (IF cfd = "none" THEN "none" ELSE "closed")
AcceptFails  == spc' = "null" /\ sfd' = "closed"

-----------------------------------------------------------------------------
(* duxrt_ws_connect *)

\* tcp_connect: the connection waits in the backlog of the listener.
Connect ==
    /\ cpc = "connect"
    /\ \/ listening /\ cpc' = "send" /\ cfd' = "open"
       \/ ConnectFails
    /\ UNCHANGED <<listening, cbuf, received, server, up, down>>

\* send_http_upgrade: it fails for a path that does not fit, or when the server is
\* gone.
SendUpgrade ==
    /\ cpc = "send"
    /\ \/ \E request \in {Request, KeylessRequest} : up' = request /\ cpc' = "read" /\ UNCHANGED cfd
       \/ ConnectFails /\ UNCHANGED up
    /\ UNCHANGED <<listening, cbuf, received, server, down>>

\* read_upgrade_response: one recv takes any part of what is there, the frames after
\* the headers too; the end of the stream fails the call.
ReadResponse ==
    /\ cpc = "read" /\ ~Contains(cbuf, "end")
    /\ \/ \E n \in 1 .. Len(down) :
            cbuf' = cbuf \o SubSeq(down, 1, n) /\ down' = SubSeq(down, n + 1, Len(down))
            /\ UNCHANGED <<cpc, cfd>>
       \/ down = <<>> /\ sfd = "closed" /\ ConnectFails /\ UNCHANGED <<cbuf, down>>
    /\ UNCHANGED <<listening, received, server, up>>

\* The 101 and the accept value are looked for, the handle is allocated; the buffer
\* is a local of the call.
FinishConnect ==
    /\ cpc = "read" /\ Contains(cbuf, "end")
    /\ \/ Contains(cbuf, "101") /\ Contains(cbuf, "accept") /\ cpc' = "conn" /\ UNCHANGED cfd
       \/ ConnectFails
    /\ cbuf' = <<>>
    /\ UNCHANGED <<listening, received, server, up, down>>

-----------------------------------------------------------------------------
(* duxrt_ws_listen, duxrt_ws_accept, duxrt_ws_server_close *)

Accept ==
    /\ spc = "accept"
    /\ \/ listening /\ cfd # "none" /\ spc' = "read" /\ sfd' = "open"
       \/ spc' = "null" /\ UNCHANGED sfd
    /\ UNCHANGED <<listening, client, sbuf, sent, up, down>>

ReadRequest ==
    /\ spc = "read" /\ ~Contains(sbuf, "end")
    /\ \/ \E n \in 1 .. Len(up) :
            sbuf' = sbuf \o SubSeq(up, 1, n) /\ up' = SubSeq(up, n + 1, Len(up))
            /\ UNCHANGED <<spc, sfd>>
       \/ up = <<>> /\ cfd = "closed" /\ AcceptFails /\ UNCHANGED <<sbuf, up>>
    /\ UNCHANGED <<listening, client, sent, down>>

\* Mutant: the request that has no key is refused without closing the socket.
AnswerNotClosing ==
    /\ spc = "read" /\ Contains(sbuf, "end")
    /\ \/ ~Contains(sbuf, "key") /\ spc' = "null" /\ UNCHANGED <<sfd, down>>
       \/ Contains(sbuf, "key") /\ down' = down \o Response /\ spc' = "made" /\ UNCHANGED sfd
    /\ UNCHANGED <<listening, client, sbuf, sent, up>>

\* A request without the key is refused by closing; a send that fails ends the call
\* too.
Answer ==
    /\ spc = "read" /\ Contains(sbuf, "end")
    /\ \/ ~Contains(sbuf, "key") /\ AcceptFails /\ UNCHANGED down
       \/ Contains(sbuf, "key") /\ cfd = "closed" /\ AcceptFails /\ UNCHANGED down
       \/ Contains(sbuf, "key") /\ down' = down \o Response /\ spc' = "made" /\ UNCHANGED sfd
    /\ UNCHANGED <<listening, client, sbuf, sent, up>>

\* The handle is allocated.
FinishAccept ==
    /\ spc = "made"
    /\ \/ spc' = "conn" /\ UNCHANGED sfd
       \/ AcceptFails
    /\ UNCHANGED <<listening, client, sbuf, sent, up, down>>

\* duxrt_ws_server_close, once the accept is over: an accept that is under way is not
\* woken by it.  The connections in the backlog are reset.
ServerClose ==
    /\ listening /\ spc # "accept"
    /\ listening' = FALSE
    /\ sfd' = IF sfd = "none" THEN "closed" ELSE sfd
    /\ UNCHANGED <<client, spc, sbuf, sent, up, down>>

-----------------------------------------------------------------------------
(* The first frames, from the server to the client. *)

SendFrame ==
    /\ spc = "conn" /\ Len(sent) < MaxFrames
    /\ sent' = Append(sent, "frame") /\ down' = Append(down, "frame")
    /\ UNCHANGED <<listening, client, spc, sfd, sbuf, up>>

RecvFrame ==
    /\ cpc = "conn" /\ down # <<>>
    /\ received' = Append(received, Head(down)) /\ down' = Tail(down)
    /\ UNCHANGED <<listening, cpc, cfd, cbuf, server, up>>

Next ==
    \/ Connect \/ SendUpgrade \/ ReadResponse \/ FinishConnect
    \/ Accept \/ ReadRequest \/ Answer \/ FinishAccept \/ ServerClose
    \/ SendFrame \/ RecvFrame

ClientStep == Connect \/ SendUpgrade \/ ReadResponse \/ FinishConnect
ServerStep == (cfd # "none" /\ Accept) \/ ReadRequest \/ Answer \/ FinishAccept \/ ServerClose

\* The two calls proceed while they are not blocked, accept once there is a client;
\* the server that accepts no more closes its listener.
FairSpec == Init /\ [][Next]_vars /\ WF_vars(ClientStep) /\ WF_vars(ServerStep)

-----------------------------------------------------------------------------
(* Property.                                                               *)

Ended(pc) == pc \in {"conn", "null"}

\* duxrt_ws_connect and duxrt_ws_accept: whatever fails at either end, and wherever
\* the other's bytes are cut, both calls come back: an end that gives up closes its
\* socket, which ends the other's wait.
HandshakeEnds == (cpc = "send" ~> Ended(cpc)) /\ (spc = "read" ~> Ended(spc))

=============================================================================
