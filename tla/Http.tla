-------------------------------- MODULE Http --------------------------------
(***************************************************************************)
(* HTTP clients and the blocking server of the standard library:           *)
(* duxrt_http_request, duxrt_http_parse_request and                        *)
(* duxrt_http_format_response of src/src/runtime/net_http.c, driven by     *)
(* HttpServer of src/stdlib/net/server.dux, over TCP connections.          *)
(*                                                                         *)
(* A message is a sequence of units: its first line, the blank line after  *)
(* the headers, and the units of its body; what arrives is a prefix.  Both *)
(* sides send once and do not look at how much went out; the client reads  *)
(* until the connection ends, the server reads once.  The answer of the    *)
(* server is any function of the request: here, who asked and for what.    *)
(***************************************************************************)
EXTENDS Integers, Sequences, SequencesExt

CONSTANTS
    Clients,
    Size,       \* Size[c]: the units in the body of c's request
    AnswerSize, \* and in the body of an answer
    Fits        \* how many body units go into HTTP_BUF_SIZE with the head; more are left out

Nothing == "none"

\* What an instance assumes of the constants.
HttpAssumption == Nothing \notin Clients /\ Size \in [Clients -> Nat] /\ AnswerSize \in Nat

VARIABLES
    client,     \* client[c]: "idle", "connected", "reading", "done"
    got,        \* what c has read
    response,   \* what duxrt_http_request returned: a status and a body, or nothing
    backlog,    \* connections nobody has accepted yet
    up, down,   \* what is in flight to the server and to the client, by client
    end,        \* end[c]: the server's side: "open", "closed", "reset"
    server,     \* "idle", "accepted", "handling"
    current,    \* _client
    request,    \* the parsed request
    whole       \* whole[c]: nothing of the exchange has been cut or lost yet (history)

vars == <<client, got, response, backlog, up, down, end, server, current, request, whole>>

Init ==
    /\ client = [c \in Clients |-> "idle"] /\ got = [c \in Clients |-> <<>>]
    /\ response = [c \in Clients |-> <<>>] /\ backlog = <<>>
    /\ up = [c \in Clients |-> <<>>] /\ down = [c \in Clients |-> <<>>]
    /\ end = [c \in Clients |-> "open"]
    /\ server = "idle" /\ current = Nothing /\ request = <<>>
    /\ whole = [c \in Clients |-> TRUE]

Cut(s, n) == SubSeq(s, 1, n)
Units(unit, n) == [i \in 1..n |-> unit]

\* The request line and headers, and the body if it fits; Content-Length tells its size all the same.
Formatted(first, unit, n) == <<first, "blank">> \o (IF n <= Fits THEN Units(unit, n) ELSE <<>>)

\* What parse_response and duxrt_http_parse_request make of a prefix of it.
Parsed(s) == [first |-> IF s = <<>> THEN Nothing ELSE Head(s), body |-> SubSeq(s, 3, Len(s))]

-----------------------------------------------------------------------------
(* The client: duxrt_http_request                                          *)

Connect(c) ==
    /\ client[c] = "idle"
    /\ client' = [client EXCEPT ![c] = "connected"] /\ backlog' = Append(backlog, c)
    /\ UNCHANGED <<got, response, up, down, end, server, current, request, whole>>

\* A bad url, a failed lookup, a refused connection: NULL.
Fail(c) ==
    /\ client[c] = "idle"
    /\ client' = [client EXCEPT ![c] = "done"]
    /\ UNCHANGED <<got, response, backlog, up, down, end, server, current, request, whole>>

\* One send, of which the kernel may take a part.
Send(c) ==
    /\ client[c] = "connected"
    /\ LET message == Formatted(c, c, Size[c])
       IN  \E n \in 1..Len(message) :
            /\ up' = [up EXCEPT ![c] = Cut(message, n)]
            /\ whole' = [whole EXCEPT ![c] = @ /\ n = Len(message) /\ Size[c] <= Fits]
    /\ client' = [client EXCEPT ![c] = "reading"]
    /\ UNCHANGED <<got, response, backlog, down, end, server, current, request>>

\* Mutant: one recv is all.
ReadOnce(c) ==
    /\ client[c] = "reading"
    /\ \E n \in 1..Len(down[c]) :
        /\ got' = [got EXCEPT ![c] = Cut(down[c], n)]
        /\ response' = [response EXCEPT ![c] = <<Parsed(Cut(down[c], n))>>]
        /\ down' = [down EXCEPT ![c] = SubSeq(@, n + 1, Len(@))]
    /\ client' = [client EXCEPT ![c] = "done"]
    /\ UNCHANGED <<backlog, up, end, server, current, request, whole>>

\* http_read_all: a recv that brings something, and the next one.
Read(c) ==
    /\ client[c] = "reading"
    /\ \E n \in 1..Len(down[c]) :
        /\ got' = [got EXCEPT ![c] = @ \o Cut(down[c], n)]
        /\ down' = [down EXCEPT ![c] = SubSeq(@, n + 1, Len(@))]
    /\ UNCHANGED <<client, response, backlog, up, end, server, current, request, whole>>

\* ... or ends: the connection was closed or reset, or the timeout came; what was read
\* is parsed all the same.
Finish(c) ==
    /\ client[c] = "reading"
    /\ \/ down[c] = <<>> /\ end[c] # "open" /\ UNCHANGED whole
       \/ whole' = [whole EXCEPT ![c] = FALSE]
    /\ response' = [response EXCEPT ![c] = <<Parsed(got[c])>>]
    /\ client' = [client EXCEPT ![c] = "done"]
    /\ UNCHANGED <<got, backlog, up, down, end, server, current, request>>

-----------------------------------------------------------------------------
(* The server: accept_request, send_response                               *)

\* Closing a connection with unread input resets it, and may take what is on its way.
Closed(c, d, e) ==
    \/ up[c] = <<>> /\ down' = d /\ end' = [e EXCEPT ![c] = "closed"]
    \/ /\ up[c] # <<>> \/ client[c] = "connected"
       /\ \E n \in 0..Len(d[c]) : down' = [d EXCEPT ![c] = Cut(@, n)]
       /\ end' = [e EXCEPT ![c] = "reset"]

\* A connection that was not answered is closed; then the next one is taken.
Accept ==
    /\ server = "idle" /\ backlog # <<>>
    /\ IF current = Nothing THEN UNCHANGED <<down, end, whole>>
       ELSE Closed(current, down, end) /\ whole' = [whole EXCEPT ![current] = FALSE]
    /\ current' = Head(backlog) /\ backlog' = Tail(backlog) /\ server' = "accepted"
    /\ UNCHANGED <<client, got, response, up, request>>

\* One recv: some of what has arrived.
Receive ==
    /\ server = "accepted" /\ up[current] # <<>>
    /\ \E n \in 1..Len(up[current]) :
        /\ request' = <<Parsed(Cut(up[current], n))>>
        /\ up' = [up EXCEPT ![current] = SubSeq(@, n + 1, Len(@))]
        /\ whole' = [whole EXCEPT ![current] = @ /\ n = Len(up[current])]
    /\ server' = "handling"
    /\ UNCHANGED <<client, got, response, backlog, down, end, current>>

\* The handler may also go on to the next request without an answer.
Ignore ==
    /\ server = "handling"
    /\ server' = "idle"
    /\ UNCHANGED <<client, got, response, backlog, up, down, end, current, request, whole>>

\* send_response: one send, shutdown, close.
Respond ==
    /\ server = "handling"
    /\ LET message == Formatted("200", Head(request), AnswerSize)
       IN  \E n \in 1..Len(message) :
            /\ Closed(current, [down EXCEPT ![current] = Cut(message, n)], end)
            /\ whole' = [whole EXCEPT ![current] =
                             @ /\ n = Len(message) /\ AnswerSize <= Fits /\ end'[current] = "closed"]
    /\ server' = "idle" /\ current' = Nothing
    /\ UNCHANGED <<client, got, response, backlog, up, request>>

Step(c) == Connect(c) \/ Fail(c) \/ Send(c) \/ Read(c) \/ Finish(c)

Next == (\E c \in Clients : Step(c)) \/ Accept \/ Receive \/ Ignore \/ Respond

Spec == Init /\ [][Next]_vars

-----------------------------------------------------------------------------
(* Property.                                                               *)

\* The answer to the request of c: to all of it, or to a part of it.
AnswersTo(r, c) == r.first \in {Nothing, c} /\ IsPrefix(r.body, Units(c, Size[c]))
Complete(c) == [first |-> c, body |-> Units(c, Size[c])]

\* duxrt_http_request, send_response: every unit a client gets is of the answer to its
\* own request, and if no send was short, no recv partial, no message too large, no
\* timeout came and the server answered, it gets the answer to its complete request,
\* complete.  Otherwise it may get the start of an answer, to the start of its request,
\* as a response like any other.
Answered ==
    \A c \in Clients : \A r \in Range(response[c]) :
        /\ r.first \in {Nothing, "200"}
        /\ \A unit \in Range(r.body) : AnswersTo(unit, c)
        /\ whole[c] => r = [first |-> "200", body |-> Units(Complete(c), AnswerSize)]

=============================================================================
