----------------------------- MODULE HttpServer -----------------------------
(***************************************************************************)
(* The HTTP adapter of src/http/http_server.cpp.  One I/O thread, the      *)
(* caller io of the Backend, runs a coroutine for every connection.  A     *)
(* coroutine gives the thread up only where it waits for its socket; a     *)
(* Backend call keeps the thread.                                          *)
(*                                                                         *)
(* A request is what the adapter makes of its header, and its body bytes.  *)
(* head is what ReadHeader sees in the header once all of it has arrived,  *)
(* early what ParseHeader or the Beast parser objects to.  A response is   *)
(* known by the place it comes from; its status and its text are left out. *)
(***************************************************************************)
EXTENDS Backend, ChunkedBody

CONSTANTS
    io,           \* the I/O thread, one of Callers
    Connections,
    body_room,    \* what the combined request limit leaves behind the header
    Workloads     \* sequence of [connections, requests, direct, threads]: who does what

VARIABLES
    stopping,     \* io_context::stop has been called, or the server is not running
    conn,         \* the coroutine of each connection
    workload      \* which of the Workloads this behaviour has

http_vars == <<stopping, conn, workload>>

Closed == [pc |-> "closed", request |-> None, prebody |-> 0, pos |-> 0,
           body |-> NewBody]

Present(r) == r.chunked \/ r.length > 0
Creates(r) == r.route = "jobs" /\ r.method = "POST"

MethodAllowed(r) ==
    r.method \in CASE r.route = "jobs" -> {"GET", "POST"}
                   [] r.route = "cancel" -> {"POST"}
                   [] OTHER -> {"GET"}

\* What is answered before any of the body is read.
RefusedByHeader(r) ==
    \/ r.head \in {"too_large", "malformed"}
    \/ r.early \in {"malformed", "target_too_long", "not_implemented", "parser_limit"}
    \/ r.route = "none" \/ ~MethodAllowed(r)
    \/ Present(r) /\ ~r.media
    \/ r.length > body_limit \/ r.length > body_room

\* What DispatchRequest answers without the Backend: a body that is missing, no JSON, not allowed
\* or of another shape, the health, an identifier that is not canonical, an unknown application.
AnsweredByDispatch(r) ==
    \/ (Creates(r) \/ Present(r)) /\ ~(Present(r) /\ r.json)
    \/ r.route = "health"
    \/ Creates(r) /\ ~(r.shape /\ r.registered)
    \/ ~Creates(r) /\ Present(r) /\ (r.route # "cancel" \/ ~r.shape)
    \/ r.route \in {"job", "cancel"} /\ ~r.canonical

\* The Backend operation of a request that passes.
Operation(r) ==
    CASE Creates(r) -> "create"
      [] r.route = "cancel" -> "cancel"
      [] r.route = "job" -> "get"
      [] r.route = "ready" -> "ready"
      [] OTHER -> "list"

-----------------------------------------------------------------------------
(* Steps of the I/O thread.                                                *)

\* No handler is inside the Backend, and the thread still takes handlers.
IoTakes == ~stopping /\ call[io].pc = "idle"

Answer(c) == conn' = [conn EXCEPT ![c].pc = "write"] /\ UNCHANGED call

End(c) == conn' = [conn EXCEPT ![c] = [Closed EXCEPT !.pc = "ended"]] /\ UNCHANGED call

\* Dispatch: the request is answered, or its Backend call begins in the same handler.
Dispatch(c, now) ==
    LET r == now.request
    IN  IF AnsweredByDispatch(r)
        THEN conn' = [conn EXCEPT ![c] = [now EXCEPT !.pc = "write"]] /\ UNCHANGED call
        ELSE /\ conn' = [conn EXCEPT ![c] = [now EXCEPT !.pc = "call"]]
             /\ call' = [call EXCEPT ![io] = [Idle EXCEPT !.op = Operation(r), !.pc = Operation(r),
                                                          !.job = r.job]]

\* The read of count more bytes of the body; behind a body of a known length nothing is charged.
Received(c, count) ==
    LET r == conn[c].request
        pos == conn[c].pos
        fed == conn[c].body.bytes_fed + count
    IN  IF r.chunked THEN FeedBody(conn[c].body, SubSeq(r.bytes, pos + 1, pos + count), body_room)
        ELSE [conn[c].body EXCEPT !.bytes_fed = fed,
                                  !.verdict = IF fed = r.length THEN "complete" ELSE "reading"]

BodyBytes(r) == IF r.chunked THEN Len(r.bytes) ELSE r.length

\* The handler goes on with what it has: another read, an error, or the dispatch.
Proceed(c, now) ==
    LET verdict == IF Present(now.request) THEN now.body.verdict ELSE "complete"
    IN  IF verdict = "complete" THEN Dispatch(c, now)
        ELSE /\ conn' = [conn EXCEPT ![c] =
                   [now EXCEPT !.pc = IF verdict = "reading" THEN "body" ELSE "write"]]
             /\ UNCHANGED call

\* count more bytes of the body have arrived.
GoOn(c, count) ==
    Proceed(c, [conn[c] EXCEPT !.body = IF count = 0 THEN @ ELSE Received(c, count),
                               !.prebody = 0, !.pos = @ + count])

\* A client connects; the connection waits in the backlog of the acceptor.
Connect(c) ==
    /\ ~stopping /\ c \in Workloads[workload].connections /\ conn[c].pc = "closed"
    /\ \E r \in Workloads[workload].requests :
           conn' = [conn EXCEPT ![c] = [Closed EXCEPT !.pc = "backlog", !.request = r]]
    /\ UNCHANGED call

AcceptLoop(c) ==
    /\ IoTakes /\ conn[c].pc = "backlog"
    /\ conn' = [conn EXCEPT ![c].pc = "header"]
    /\ UNCHANGED call

\* The header is complete or refused; count bytes of the body came with it.
ReadHeader(c) ==
    LET r == conn[c].request
    IN  /\ IoTakes /\ conn[c].pc = "header"
        /\ IF RefusedByHeader(r) THEN Answer(c)
           ELSE \E count \in 0..(IF Present(r) THEN BodyBytes(r) ELSE 0) :
                  IF r.expect /\ Present(r)
                  THEN /\ conn' = [conn EXCEPT ![c].pc = "continue", ![c].prebody = count]
                       /\ UNCHANGED call
                  ELSE GoOn(c, count)

\* 100 Continue is written before the body bytes that came with the header are looked at.
WriteContinue(c) ==
    /\ IoTakes /\ conn[c].pc = "continue"
    /\ End(c) \/ GoOn(c, conn[c].prebody)

ReadBody(c) ==
    /\ IoTakes /\ conn[c].pc = "body"
    /\ \E count \in 1..(BodyBytes(conn[c].request) - conn[c].pos) : GoOn(c, count)

\* Mutant: only the header is read with a deadline.
HasDeadlineHeader(c) == conn[c].pc = "header"

\* Reads with a deadline; a response is written without one.
HasDeadline(c) == conn[c].pc \in {"header", "body"}

ReadTimeout(c) == IoTakes /\ HasDeadline(c) /\ Answer(c)

\* The client closes its side: an incomplete header gets no answer, an incomplete body does.
ReadEof(c) ==
    /\ IoTakes
    /\ \/ conn[c].pc = "header" /\ End(c)
       \/ conn[c].pc = "body" /\ Answer(c)

\* The Backend has returned; the response is handed to the socket.
CallReturns(c) ==
    /\ conn[c].pc = "call" /\ call[io].pc = "returned"
    /\ conn' = [conn EXCEPT ![c].pc = "write"]
    /\ call' = [call EXCEPT ![io] = Idle]

\* The response is written, or the write fails; either way the connection is closed.
WriteResponse(c) == IoTakes /\ conn[c].pc = "write" /\ End(c)

ConnectionStep(c) ==
    \/ AcceptLoop(c) \/ ReadHeader(c) \/ WriteContinue(c) \/ ReadBody(c) \/ ReadTimeout(c)
    \/ ReadEof(c) \/ CallReturns(c) \/ WriteResponse(c)

=============================================================================
