------------------------------ MODULE HttpServer ------------------------------
(***************************************************************************)
(* HTTP requests of a rockets::Server, from their headers to the end of    *)
(* their response: callback_http() of server.cpp, http/connectionHandler.- *)
(* cpp, http/connection.cpp and the writing half of http/channel.cpp.      *)
(*                                                                         *)
(* libwebsockets calls back with the headers, the body and its end, and    *)
(* whenever a socket it was asked about can be written to; the application *)
(* answers with a future, which is polled.  An exception that leaves a     *)
(* callback ends the process, for the caller is C code: one of the errors  *)
(* that the server itself throws, or one of the application's.  The        *)
(* callbacks are those of one thread, the server's or its only service     *)
(* thread.                                                                 *)
(***************************************************************************)
EXTENDS Naturals

CONSTANTS
  Wsis,        \* libwebsockets' connections; an address is used again and again
  MaxChunks,   \* bound: the pieces in which the body of a request arrives
  Outcomes,    \* what becomes of the promises of the application: "value",
               \* "empty" for a response without a body, "broken", "exception"
  None         \* no entry

\* What decides how a request is handled: a method that may have a body, the
\* one of a preflight, any other, or one that readMethod() does not know, which
\* is Method::ALL; a positive Content-Length; the headers of a CORS preflight.
Request ==
  [method : {"GET", "POST", "OPTIONS", "ALL"}, length : BOOLEAN, cors : BOOLEAN]

\* http::Connection.  The application's end of the future is part of it.
Connection ==
  [request : Request,
   future : {"none", "pending", "value", "empty", "broken", "exception"},
   set : BOOLEAN, finalized : BOOLEAN, hasBody : BOOLEAN,
   headersSent : BOOLEAN, bodySent : BOOLEAN]

ASSUME HttpAssumption ==
  /\ MaxChunks \in Nat \ {0}
  /\ Outcomes \subseteq {"value", "empty", "broken", "exception"}
  /\ None \notin Connection

VARIABLES
  connections, \* the map of server.cpp, None where there is no entry
  phase,       \* what libwebsockets does with a connection
  left,        \* the pieces of the body that are still to come
  wants,       \* a writable callback has been requested
  calls,       \* how often the application was called for the current request
  headers,     \* how often headers of a response to it were written
  bodies,      \* and how often a body
  thrown,      \* an error of the server's own has left a callback
  ended        \* the process was ended by an exception of the application, or
               \* by what lies behind the array of Registry

vars ==
  <<connections, phase, left, wants, calls, headers, bodies, thrown, ended>>

Phases == {"closed", "idle", "body", "reply", "closing"}

CanHaveHttpBody(r) == r.method = "POST" /\ r.length
IsCorsPreflight(r) == r.method = "OPTIONS" /\ r.cors
IsResponseSet(c) == c.set \/ c.finalized
IsResponseReady(c) == c.finalized \/ c.future # "pending"

Init ==
  /\ connections = [w \in Wsis |-> None]
  /\ phase = [w \in Wsis |-> "closed"]
  /\ left = [w \in Wsis |-> 0]
  /\ wants = [w \in Wsis |-> FALSE]
  /\ calls = [w \in Wsis |-> 0]
  /\ headers = [w \in Wsis |-> 0]
  /\ bodies = [w \in Wsis |-> 0]
  /\ thrown = FALSE
  /\ ended = FALSE

Set(w, c) == connections' = [connections EXCEPT ![w] = c]
Goto(w, label) == phase' = [phase EXCEPT ![w] = label]
RequestWriteCallback(w) == wants' = [wants EXCEPT ![w] = TRUE]

-----------------------------------------------------------------------------
(***************************************************************************)
(* Headers and body of a request.                                          *)
(***************************************************************************)
New(r) ==
  [request |-> r, future |-> "none", set |-> FALSE, finalized |-> FALSE,
   hasBody |-> FALSE, headersSent |-> FALSE, bodySent |-> FALSE]

\* _generateResponse(): the filter, the registry and the errors are ready, the
\* application is called and may be.
Generated(n, f) ==
  \/ n = 0 /\ f \in {"value", "empty"}
  \/ n = 1 /\ f \in Outcomes \cup {"pending"}

\* The response is generated before setResponse() looks whether there is one.
SetResponse(w, c, before) ==
  \E n \in {0, 1}, f \in Outcomes \cup {"pending", "value", "empty"} :
    /\ Generated(n, f)
    /\ calls' = [calls EXCEPT ![w] = before + n]
    /\ IF IsResponseSet(c)
         THEN thrown' = TRUE /\ UNCHANGED <<connections, wants>>
         ELSE /\ Set(w, [c EXCEPT !.future = f, !.set = TRUE])
              /\ RequestWriteCallback(w)
              /\ UNCHANGED thrown

\* Variant: without the test for libwebsockets 3.1.
PrepareResponseAlways(w, c, before) == SetResponse(w, c, before)

\* prepareResponse() of connection c, after `before' calls of the application.
PrepareResponse(w, c, before) ==
  IF ~CanHaveHttpBody(c.request) /\ IsResponseSet(c)
    THEN UNCHANGED <<connections, wants, calls, thrown>>
    ELSE SetResponse(w, c, before)

\* _prepareCorsPreflightResponse()
PrepareCorsPreflightResponse(w, c) ==
  /\ Set(w, [c EXCEPT !.finalized = TRUE])
  /\ RequestWriteCallback(w)
  /\ calls' = [calls EXCEPT ![w] = 0]
  /\ UNCHANGED thrown

\* Variant: the response is prepared before the body has arrived.
HandleNewRequestAtOnce(w, c) ==
  IF IsCorsPreflight(c.request)
    THEN PrepareCorsPreflightResponse(w, c)
    ELSE PrepareResponse(w, c, 0)

HandleNewRequest(w, c) ==
  IF IsCorsPreflight(c.request)
    THEN PrepareCorsPreflightResponse(w, c)
    ELSE IF CanHaveHttpBody(c.request)
      THEN /\ Set(w, c)
           /\ calls' = [calls EXCEPT ![w] = 0]
           /\ UNCHANGED <<wants, thrown>>
      ELSE PrepareResponse(w, c, 0)

\* LWS_CALLBACK_HTTP.  libwebsockets announces a body, be it an empty one, for
\* every request with a length and for every POST.
Http(w, r, chunks) ==
  /\ phase[w] = "idle"
  /\ connections[w] = None
  /\ chunks > 0 <=> r.length
  /\ HandleNewRequest(w, New(r))
  /\ Goto(w, IF r.length \/ r.method = "POST" THEN "body" ELSE "reply")
  /\ left' = [left EXCEPT ![w] = chunks]
  /\ headers' = [headers EXCEPT ![w] = 0]
  /\ bodies' = [bodies EXCEPT ![w] = 0]
  /\ UNCHANGED ended

\* The entry of the request before is still there: emplace() fails, and -1
\* tells libwebsockets to close.
HttpAgain(w) ==
  /\ phase[w] = "idle"
  /\ connections[w] # None
  /\ Goto(w, "closing")
  /\ UNCHANGED <<connections, left, wants, calls, headers, bodies, thrown, ended>>

\* LWS_CALLBACK_HTTP_BODY.  Map::at() throws without an entry.
Body(w) ==
  /\ phase[w] = "body"
  /\ left[w] > 0
  /\ left' = [left EXCEPT ![w] = @ - 1]
  /\ thrown' = (connections[w] = None)
  /\ UNCHANGED <<connections, phase, wants, calls, headers, bodies, ended>>

\* LWS_CALLBACK_HTTP_BODY_COMPLETION
BodyCompletion(w) ==
  /\ phase[w] = "body"
  /\ left[w] = 0
  /\ Goto(w, "reply")
  /\ IF connections[w] = None
       THEN thrown' = TRUE /\ UNCHANGED <<connections, wants, calls>>
       ELSE PrepareResponse(w, connections[w], calls[w])
  /\ UNCHANGED <<left, headers, bodies, ended>>

\* In either callback the filter or the function of the endpoint throws, or the
\* search for Method::ALL runs into something that is no map.
GenerationEnds(w) ==
  /\ \/ phase[w] = "idle" /\ connections[w] = None
     \/ /\ phase[w] = "body" /\ left[w] = 0
        /\ connections[w] # None
        /\ CanHaveHttpBody(connections[w].request)
  /\ ended' = TRUE
  /\ UNCHANGED <<connections, phase, left, wants, calls, headers, bodies, thrown>>

-----------------------------------------------------------------------------
(***************************************************************************)
(* LWS_CALLBACK_HTTP_WRITEABLE                                             *)
(***************************************************************************)

\* The last part of the response has been written from connection c, and
\* lws_http_transaction_completed() returns: the socket is closed, or kept for
\* the next request, in which case libwebsockets drops the protocol at once
\* (LWS_CALLBACK_HTTP_DROP_PROTOCOL) or, before 2.1, never.
Completed(w, c) ==
  /\ wants' = [wants EXCEPT ![w] = FALSE]
  /\ \/ Goto(w, "closing") /\ Set(w, c)
     \/ Goto(w, "idle") /\ Set(w, None)
     \/ Goto(w, "idle") /\ Set(w, c)

\* lws_write() or the composition of headers fails.
WriteFails(w, c) ==
  /\ Goto(w, "closing")
  /\ Set(w, c)
  /\ wants' = [wants EXCEPT ![w] = FALSE]

Throw ==
  /\ thrown' = TRUE
  /\ UNCHANGED <<connections, phase, wants, headers, bodies, ended>>

\* What the application put into the future leaves the callback.
FutureThrows ==
  /\ ended' = TRUE
  /\ UNCHANGED <<connections, phase, wants, headers, bodies, thrown>>

\* Variant: the callback that polls does not ask for the next one.
KeepPollingNever(w) ==
  /\ wants' = [wants EXCEPT ![w] = FALSE]
  /\ UNCHANGED <<connections, phase, headers, bodies, thrown, ended>>

KeepPolling(w) ==
  /\ RequestWriteCallback(w)
  /\ UNCHANGED <<connections, phase, headers, bodies, thrown, ended>>

\* _finalizeResponse(): get() on the future, unless the response is final. What
\* a broken promise throws is caught, and nothing else.
Finalization(c) == IF c.finalized THEN "final" ELSE c.future

\* The headers are written from connection c, finalized before.
HeadersWritten(w, c) ==
  /\ UNCHANGED <<bodies, thrown, ended>>
  /\ \/ WriteFails(w, c) /\ UNCHANGED headers
     \/ /\ headers' = [headers EXCEPT ![w] = @ + 1]
        /\ IF c.hasBody
             THEN Set(w, c) /\ RequestWriteCallback(w) /\ UNCHANGED phase
             ELSE Completed(w, c)

\* Variant: it is not noted that the headers were sent.
WriteResponseHeadersUnnoted(w, c) ==
  IF c.headersSent \/ c.bodySent THEN Throw
  ELSE IF Finalization(c) = "exception" THEN FutureThrows
  ELSE HeadersWritten(w, [c EXCEPT !.finalized = TRUE,
                                   !.hasBody = (Finalization(c) = "value")])

\* writeResponseHeaders()
WriteResponseHeaders(w, c) ==
  IF c.headersSent \/ c.bodySent THEN Throw
  ELSE IF Finalization(c) = "exception" THEN FutureThrows
  ELSE HeadersWritten(w, [c EXCEPT !.headersSent = TRUE, !.finalized = TRUE,
                                   !.hasBody = (Finalization(c) = "value")])

WriteResponseBody(w, c) ==
  IF c.bodySent \/ ~c.hasBody THEN Throw
  ELSE LET sent == [c EXCEPT !.bodySent = TRUE]
       IN /\ UNCHANGED <<headers, thrown, ended>>
          /\ \/ WriteFails(w, sent) /\ UNCHANGED bodies
             \/ bodies' = [bodies EXCEPT ![w] = @ + 1] /\ Completed(w, sent)

\* ConnectionHandler::writeResponse()
WriteResponse(w, c) ==
  IF ~IsResponseSet(c) THEN Throw
  ELSE IF ~IsResponseReady(c) THEN KeepPolling(w)
  ELSE IF ~c.headersSent THEN WriteResponseHeaders(w, c)
  ELSE WriteResponseBody(w, c)

Writeable(w) ==
  /\ phase[w] \in {"body", "reply"}
  /\ wants[w]
  /\ connections[w] # None
  /\ WriteResponse(w, connections[w])
  /\ UNCHANGED <<left, calls>>

\* "A writable callback may exceptionally occur without a connection".
WriteableUnknown(w) ==
  /\ phase[w] # "closed"
  /\ connections[w] = None
  /\ wants' = [wants EXCEPT ![w] = FALSE]
  /\ UNCHANGED <<connections, phase, left, calls, headers, bodies, thrown, ended>>

-----------------------------------------------------------------------------
(***************************************************************************)
(* libwebsockets' connections, and the application.                        *)
(***************************************************************************)
Open(w) ==
  /\ phase[w] = "closed"
  /\ Goto(w, "idle")
  /\ UNCHANGED <<connections, left, wants, calls, headers, bodies, thrown, ended>>

\* LWS_CALLBACK_CLOSED_HTTP, whenever the client goes away.
Closed(w) ==
  /\ phase[w] # "closed"
  /\ Goto(w, "closed")
  /\ Set(w, None)
  /\ wants' = [wants EXCEPT ![w] = FALSE]
  /\ UNCHANGED <<left, calls, headers, bodies, thrown, ended>>

\* A promise is fulfilled or broken; without its connection nobody notices.
Fulfil(w) ==
  /\ connections[w] # None
  /\ connections[w].future = "pending"
  /\ \E o \in Outcomes : Set(w, [connections[w] EXCEPT !.future = o])
  /\ UNCHANGED <<phase, left, wants, calls, headers, bodies, thrown, ended>>

Running == ~thrown /\ ~ended

Next ==
  /\ Running
  /\ \E w \in Wsis :
       \/ \E r \in Request, n \in 0 .. MaxChunks : Http(w, r, n)
       \/ HttpAgain(w) \/ Body(w) \/ BodyCompletion(w) \/ GenerationEnds(w)
       \/ Writeable(w) \/ WriteableUnknown(w)
       \/ Open(w) \/ Closed(w) \/ Fulfil(w)

Spec == Init /\ [][Next]_vars

\* libwebsockets calls back who asked for it and closes what it was told to
\* close; the application keeps or breaks its promises.  Nothing is assumed of
\* clients.
Fairness ==
  \A w \in Wsis : /\ WF_vars(Running /\ Writeable(w))
                  /\ WF_vars(Running /\ Fulfil(w))
                  /\ WF_vars(Running /\ phase[w] = "closing" /\ Closed(w))

FairSpec == Spec /\ Fairness

-----------------------------------------------------------------------------
(***************************************************************************)
(* Properties.                                                             *)
(***************************************************************************)

\* Every variable has its type.
TypeOK ==
  /\ connections \in [Wsis -> Connection \cup {None}]
  /\ phase \in [Wsis -> Phases]
  /\ left \in [Wsis -> Nat]
  /\ wants \in [Wsis -> BOOLEAN]
  /\ calls \in [Wsis -> Nat]
  /\ headers \in [Wsis -> Nat]
  /\ bodies \in [Wsis -> Nat]
  /\ thrown \in BOOLEAN
  /\ ended \in BOOLEAN

\* connection.cpp:27-34, connectionHandler.cpp:90: in whatever order
\* libwebsockets calls back and promises are kept, no response is set or
\* written twice, none is written before it is set, and none of these errors
\* is thrown, nor is a connection missing: what ends the process is not the
\* server's.
NothingThrown == ~thrown

\* connectionHandler.cpp:99: a request is answered once, headers first.
AnsweredOnce ==
  \A w \in Wsis : headers[w] <= 1 /\ bodies[w] <= headers[w]

\* connectionHandler.cpp:64, :80: the application is called once for a request,
\* and with the whole of its body.
CalledWithWholeBody ==
  \A w \in Wsis :
    /\ calls[w] <= 1
    /\ connections[w] # None /\ CanHaveHttpBody(connections[w].request)
         /\ calls[w] > 0 => left[w] = 0

\* connectionHandler.cpp:95: a request that has arrived is answered, or its
\* connection is closed, however late the future is ready, unless an exception
\* of the application ends the process.
Answered == \A w \in Wsis : phase[w] = "reply" ~> phase[w] # "reply" \/ ended
=============================================================================
