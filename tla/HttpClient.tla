------------------------------ MODULE HttpClient ------------------------------
(***************************************************************************)
(* The requests of a rockets::http::Client: http/client.cpp with           *)
(* http/requestHandler.cpp and the client's half of http/channel.cpp.      *)
(*                                                                         *)
(* libwebsockets calls back for its connections, the socket of each        *)
(* request; a callback of the application may start further requests.      *)
(* Between connecting and the entry of the map nothing but the failure of  *)
(* the connection is reported: connect() does not block and a handshake    *)
(* waits for the next service call.                                        *)
(***************************************************************************)
EXTENDS Naturals, Sequences, FiniteSetsExt

CONSTANTS
  Requests,      \* the requests the application makes
  Sockets,       \* bound: the number of connections at a time
  MaxPieces,     \* bound: the pieces in which the body of an answer arrives
  LateRequests,  \* callbacks may start requests while the Client is destroyed
  None           \* no request

ASSUME HttpClientAssumption ==
  /\ Sockets \in Nat \ {0}
  /\ MaxPieces \in Nat
  /\ LateRequests \in BOOLEAN
  /\ None \notin Requests \cup Nat

\* The addresses of lws structures; the map is ordered by them.
Wsis == 1 .. Sockets
Open == 0
Destroyed == Sockets + 1

VARIABLES
  requests,  \* the map, None where there is no entry
  phase,     \* what libwebsockets does with a connection
  left,      \* the pieces of its body that are still to come
  size,      \* how many pieces the server sends as answer to a request
  body,      \* how many of them are in response.body
  unread,    \* the requests whose answer has a body the client does not wait
             \* for: no Content-Length, or a code that is not recognized
  asked,     \* the requests startRequest() has been called for
  called,    \* the callbacks that have been called for a request
  running,   \* the connection whose request's callback is running, or None
  at         \* the entry the destructor has come to

vars == <<requests, phase, left, size, body, unread, asked, called, running, at>>

Phases == {"free", "connecting", "posting", "waiting", "body", "over"}

Init ==
  /\ requests = [w \in Wsis |-> None]
  /\ phase = [w \in Wsis |-> "free"]
  /\ left = [w \in Wsis |-> 0]
  /\ size = [r \in Requests |-> 0]
  /\ body = [r \in Requests |-> 0]
  /\ unread = {}
  /\ asked = {}
  /\ called = [r \in Requests |-> <<>>]
  /\ running = None
  /\ at = Open

Goto(w, label) == phase' = [phase EXCEPT ![w] = label]
Call(r, callback) == called' = [called EXCEPT ![r] = Append(@, callback)]

\* The entries of the map from address w on.
EntriesFrom(w) == {v \in Wsis : v >= w /\ requests[v] # None}

-----------------------------------------------------------------------------
(***************************************************************************)
(* startRequest(), by the application or by a callback of it.  For a URI   *)
(* that is not one, or is too long, it throws before anything is changed.  *)
(***************************************************************************)
MayRequest(r) ==
  /\ r \notin asked
  /\ at = Open \/ (LateRequests /\ running # None)
  /\ asked' = asked \cup {r}

\* emplace() leaves an entry alone that is there.
Emplace(w, r) ==
  requests' = [requests EXCEPT ![w] = IF @ = None THEN r ELSE @]

\* libwebsockets frees a connection when its last callback has returned.
StartRequest(r, w) ==
  /\ MayRequest(r)
  /\ phase[w] = "free"
  /\ running # w
  /\ Emplace(w, r)
  /\ Goto(w, "connecting")
  /\ UNCHANGED <<left, size, body, unread, called, running, at>>

\* libwebsockets reports the error for an address without an entry and returns
\* null; the error callback may start requests as any other code.
StartRequestFails(r) ==
  /\ MayRequest(r)
  /\ Call(r, "error")
  /\ UNCHANGED <<requests, phase, left, size, body, unread, running, at>>

-----------------------------------------------------------------------------
(***************************************************************************)
(* The callbacks of libwebsockets.                                         *)
(***************************************************************************)
Service(w, phases) ==
  /\ at = Open
  /\ running = None
  /\ phase[w] \in phases

\* finishRequest() and abortRequest(): the callback, if there is an entry; the
\* entry is erased when the callback has returned.
EndRequest(w, callback) ==
  IF requests[w] = None
    THEN UNCHANGED <<called, running>>
    ELSE Call(requests[w], callback) /\ running' = w

\* LWS_CALLBACK_CLIENT_APPEND_HANDSHAKE_HEADER: a request with a body is
\* announced as such and books a callback for writing it.
AppendHandshakeHeader(w) ==
  /\ Service(w, {"connecting"})
  /\ \E label \in {"posting", "waiting"} : Goto(w, label)
  /\ UNCHANGED <<requests, left, size, body, unread, asked, called, running, at>>

\* LWS_CALLBACK_CLIENT_HTTP_WRITEABLE; -1 makes libwebsockets close.
WriteBody(w) ==
  /\ Service(w, {"posting"})
  /\ \E label \in {"waiting", "over"} : Goto(w, label)
  /\ UNCHANGED <<requests, left, size, body, unread, asked, called, running, at>>

\* readResponseHeaders(), if there is an entry: the answer has so many pieces,
\* with or without a Content-Length and a code that libwebsockets recognizes.
ReadResponseHeaders(w, pieces, length, recognized) ==
  IF requests[w] = None
    THEN UNCHANGED <<size, unread>>
    ELSE /\ size' = [size EXCEPT ![requests[w]] = pieces]
         /\ unread' = IF length /\ recognized THEN unread ELSE unread \cup {requests[w]}

\* hasResponseBody(): the Content-Length, 0 if there is none.
HasResponseBody(pieces, length) == length /\ pieces > 0

\* LWS_CALLBACK_ESTABLISHED_CLIENT_HTTP
Established(w, pieces, length) ==
  /\ Service(w, {"waiting"})
  /\ ReadResponseHeaders(w, pieces, length, TRUE)
  /\ left' = [left EXCEPT ![w] = pieces]
  /\ IF HasResponseBody(pieces, length)
       THEN Goto(w, "body") /\ UNCHANGED <<called, running>>
       ELSE Goto(w, "over") /\ EndRequest(w, "callback")
  /\ UNCHANGED <<requests, body, asked, at>>

\* LWS_CALLBACK_RECEIVE_CLIENT_HTTP_READ
ReceiveRead(w) ==
  /\ Service(w, {"body"})
  /\ left[w] > 0
  /\ left' = [left EXCEPT ![w] = @ - 1]
  /\ body' = [body EXCEPT ![requests[w]] = @ + 1]
  /\ UNCHANGED <<requests, phase, size, unread, asked, called, running, at>>

\* LWS_CALLBACK_COMPLETED_CLIENT_HTTP
Completed(w) ==
  /\ Service(w, {"body"})
  /\ left[w] = 0
  /\ Goto(w, "over")
  /\ EndRequest(w, "callback")
  /\ UNCHANGED <<requests, left, size, body, unread, asked, at>>

\* Variant: the answer is finished as far as it has come.
ClosedFinishes(w) ==
  /\ Service(w, Phases \ {"free", "connecting"})
  /\ EndRequest(w, "callback")
  /\ Goto(w, "free")
  /\ UNCHANGED <<requests, left, size, body, unread, asked, at>>

\* LWS_CALLBACK_CLOSED_CLIENT_HTTP, in the middle of the answer or when the
\* request is long forgotten.
Closed(w) ==
  /\ Service(w, Phases \ {"free", "connecting"})
  /\ EndRequest(w, "error")
  /\ Goto(w, "free")
  /\ UNCHANGED <<requests, left, size, body, unread, asked, at>>

\* LWS_CALLBACK_CLIENT_CONNECTION_ERROR fails the request;
\* LWS_CALLBACK_CLOSED_CLIENT_HTTP may follow.
ConnectionError(w, label) ==
  /\ Service(w, {"connecting", "posting", "waiting"})
  /\ Goto(w, label)
  /\ EndRequest(w, "error")
  /\ UNCHANGED <<requests, left, size, body, unread, asked, at>>

\* The same, for an answer whose code libwebsockets does not recognize: it is an
\* answer all the same, of which the body is not read.
UnrecognizedCode(w, pieces, length, label) ==
  /\ Service(w, {"waiting"})
  /\ ReadResponseHeaders(w, pieces, length, FALSE)
  /\ Goto(w, label)
  /\ EndRequest(w, "callback")
  /\ UNCHANGED <<requests, left, body, asked, at>>

\* Variant: the entry stays until there is another request at this address.
EraseNever == UNCHANGED requests

\* Variant: the map is cleared.
EraseAll == requests' = [w \in Wsis |-> None]

\* requests.erase(), when the callback has returned.
Erase == requests' = [requests EXCEPT ![running] = None]

Return ==
  /\ running # None
  /\ at = Open
  /\ Erase
  /\ running' = None
  /\ UNCHANGED <<phase, left, size, body, unread, asked, called, at>>

-----------------------------------------------------------------------------
(***************************************************************************)
(* ~Impl(), called from outside of the callbacks.                          *)
(***************************************************************************)

\* Variant: the requests are cleared as they are.
AbortPendingRequestsNot(from) ==
  /\ requests' = [w \in Wsis |-> None]
  /\ at' = Destroyed
  /\ running' = None
  /\ UNCHANGED called

\* abortPendingRequests() from an entry on: the error callback of the next
\* request or, when there is none, the end; the context is destroyed with all
\* connections, for which no request is found any more.
AbortPendingRequests(from) ==
  IF EntriesFrom(from) # {}
    THEN LET w == Min(EntriesFrom(from)) IN
         /\ Call(requests[w], "error")
         /\ running' = w
         /\ at' = w
         /\ UNCHANGED requests
    ELSE /\ requests' = [w \in Wsis |-> None]
         /\ at' = Destroyed
         /\ running' = None
         /\ UNCHANGED called

Destroy ==
  /\ running = None
  /\ at = Open
  /\ AbortPendingRequests(1)
  /\ UNCHANGED <<phase, left, size, body, unread, asked>>

ReturnToDestructor ==
  /\ running # None
  /\ at # Open
  /\ AbortPendingRequests(at + 1)
  /\ UNCHANGED <<phase, left, size, body, unread, asked>>

-----------------------------------------------------------------------------
(***************************************************************************)
(* libwebsockets ends every connection: a server answers, closes or runs   *)
(* into one of its timeouts.                                               *)
(***************************************************************************)
Ends(w) == Closed(w) \/ \E label \in {"over", "free"} : ConnectionError(w, label)

Lws(w) ==
  \/ AppendHandshakeHeader(w) \/ WriteBody(w) \/ ReceiveRead(w) \/ Completed(w) \/ Closed(w)
  \/ \E label \in {"over", "free"} : ConnectionError(w, label)
  \/ \E pieces \in 0 .. MaxPieces, length \in BOOLEAN :
       \/ Established(w, pieces, length)
       \/ \E label \in {"over", "free"} : UnrecognizedCode(w, pieces, length, label)

Next ==
  \/ \E r \in Requests : StartRequestFails(r) \/ \E w \in Wsis : StartRequest(r, w)
  \/ \E w \in Wsis : Lws(w)
  \/ Return \/ Destroy \/ ReturnToDestructor

Fairness ==
  /\ WF_vars(Return)
  /\ WF_vars(ReturnToDestructor)
  /\ \A w \in Wsis : WF_vars(Ends(w))

Spec == Init /\ [][Next]_vars /\ Fairness

-----------------------------------------------------------------------------
(***************************************************************************)
(* Properties.                                                             *)
(***************************************************************************)

\* Every variable has its type.
TypeOK ==
  /\ requests \in [Wsis -> Requests \cup {None}]
  /\ phase \in [Wsis -> Phases]
  /\ left \in [Wsis -> 0 .. MaxPieces]
  /\ size \in [Requests -> 0 .. MaxPieces]
  /\ body \in [Requests -> 0 .. MaxPieces]
  /\ asked \subseteq Requests /\ unread \subseteq Requests
  /\ called \in [Requests -> Seq({"callback", "error"})]
  /\ running \in Wsis \cup {None}
  /\ at \in Open .. Destroyed

\* client.cpp:72-116: of the two callbacks of a request one is called, once,
\* whatever libwebsockets reports in which order; a request of which none has
\* been called is still in the map.  The promise of the other request() would
\* throw from a second call and leave a future waiting without one.
OneCallback ==
  \A r \in Requests :
    /\ Len(called[r]) <= 1
    /\ r \in asked /\ called[r] = <<>> => \E w \in Wsis : requests[w] = r

\* client.cpp:181-249: the callbacks that use the request without looking
\* whether there is one are for connections that have one.
CallbackHasRequest ==
  \A w \in Wsis :
    /\ at = Open
    /\ running # w
    /\ phase[w] \in {"connecting", "posting", "body"}
    => requests[w] # None

\* requestHandler.cpp:56, tests/http.cpp: the response that the callback is given
\* has all of the body the server has sent or, when the answer has no
\* Content-Length or a code that libwebsockets does not recognize, none of it;
\* never a part, wherever the connection breaks.
WholeBody ==
  \A r \in Requests :
    called[r] = <<"callback">> => body[r] = IF r \in unread THEN 0 ELSE size[r]

\* A request is answered or fails in the end.
Called == \A r \in Requests : r \in asked ~> called[r] # <<>>
=============================================================================
