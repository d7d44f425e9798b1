------------------------- MODULE ClientLibrariesProofs -------------------------
(***************************************************************************)
(* Proofs about the clients in Python and in JavaScript, PyClient and      *)
(* JsClient, for every number of calls and of connections: what a call is  *)
(* given is what was answered to it; what a call waits for is read from    *)
(* the websocket that it comes on, and an answer that has come is not lost *)
(* when the connection closes, unless connections were made at the wrong   *)
(* moment, which the properties say.                                       *)
(*                                                                         *)
(* What the two models have in common is ClientCalls; no theorem is about  *)
(* both, and the proofs about one cite the assumption about its constants  *)
(* and CallsAssumption alone.                                              *)
(***************************************************************************)
EXTENDS PyClient, JsClient, TLAPS, WellFoundedInduction

-----------------------------------------------------------------------------
(***************************************************************************)
(* The Python client.                                                      *)
(***************************************************************************)
LEMMA PyTypeInit == Init => TypeOK
BY CallsAssumption, PyClientAssumption DEF Init, TypeOK, Sockets

LEMMA PyToResponseType ==
  ASSUME NEW c \in Calls, NEW a \in Answers \cup {"none"}
  PROVE  ToResponse(c, a) \in Answers \cup {"none", "error"}
BY DEF ToResponse

LEMMA PyFilterType ==
  ASSUME TypeOK, NEW c \in Calls, SetupResponseFilter(c)
  PROVE  /\ stream' \in {"cold", "scheduled", "connecting", "reading", "completed", "failed"}
         /\ future' \in [Calls -> Answers \cup
              {"pending", "closed", "cancelled", "none", "error"}]
         /\ filters' \subseteq Calls
BY DEF TypeOK, SetupResponseFilter

LEMMA PyMakeType ==
  ASSUME TypeOK, NEW k \in Sockets, NEW sockets, Make(k, sockets)
  PROVE  astray' \subseteq Sockets
BY DEF TypeOK, Make

LEMMA PyCallType ==
  ASSUME TypeOK, NEW c \in Calls,
         Request(c) \/ Connects(c) \/ Wake(c) \/ Cancel(c)
  PROVE  TypeOK'
<1> USE CallsAssumption, PyClientAssumption DEF TypeOK, Sockets, Goto, Connect, Send,
            SetupResponseFilter
<1>1. CASE Request(c)
      <2>1. CASE Connected
            <3>1. SetupResponseFilter(c) /\ Send(c, ws) /\ ws \in Sockets
                  BY <1>1, <2>1 DEF Request, Connected
            <3>2. UNCHANGED <<socket, ws, reads, inbox, astray, answered>>
                  BY <1>1, <2>1 DEF Request
            <3>3. server' \in [Sockets -> SUBSET Calls]
                  BY <3>1
            <3>4. on' \in [Calls -> 0 .. MaxSockets]
                  BY <3>1
            <3>5. pc' \in [Calls ->
                    {"new", "connect", "notify", "wait", "done", "raised", "cancelled"}]
                  BY <3>1
            <3> QED
                BY <3>1, <3>2, <3>3, <3>4, <3>5, PyFilterType
      <2>2. CASE ~Connected
            <3>1. PICK k \in Sockets : Connect(k, socket) /\ on' = [on EXCEPT ![c] = k]
                  BY <1>1, <2>2, Zenon DEF Request
            <3>2. Goto(c, "connect")
                  BY <1>1, <2>2 DEF Request
            <3>3. UNCHANGED <<ws, stream, reads, future, filters, server, inbox, answered>>
                  BY <1>1, <2>2 DEF Request
            <3>4. astray' \subseteq Sockets
                  BY <3>1, PyMakeType
            <3> QED
                BY <3>1, <3>2, <3>3, <3>4
      <2> QED
          BY <2>1, <2>2
<1>2. CASE RequestConnected(c)
      BY <1>2 DEF RequestConnected
<1>3. CASE NotifyConnected(c)
      BY <1>3 DEF NotifyConnected
<1>4. CASE ConnectFails(c)
      BY <1>4 DEF ConnectFails
<1>5. CASE Wake(c)
      BY <1>5 DEF Wake
<1>6. CASE Cancel(c)
      <2> DEFINE sockets == IF pc[c] = "connect"
                              THEN [socket EXCEPT ![on[c]] = "closed"] ELSE socket
      <2>1. sockets \in [Sockets -> {"unused", "connecting", "open", "closed"}]
            OBVIOUS
      <2>2. socket' \in [Sockets -> {"unused", "connecting", "open", "closed"}]
            <3>1. CASE Connected
                  BY <1>6, <2>1, <3>1 DEF Cancel
            <3>2. CASE ~Connected
                  <4>1. PICK k \in Sockets : socket' = [sockets EXCEPT ![k] = "connecting"]
                        BY <1>6, <3>2, Zenon DEF Cancel
                  <4> HIDE DEF sockets
                  <4> QED
                      BY <2>1, <4>1
            <3> QED
                BY <3>1, <3>2
      <2>3. on' \in [Calls -> 0 .. MaxSockets]
            <3>1. CASE Connected
                  BY <1>6, <3>1 DEF Cancel
            <3>2. CASE ~Connected
                  <4>1. \E k \in Sockets : on' = [on EXCEPT ![c] = k]
                        BY <1>6, <3>2 DEF Cancel
                  <4> QED
                      BY <4>1
            <3> QED
                BY <3>1, <3>2
      <2>4. future' \in [Calls -> Answers \cup
              {"pending", "closed", "cancelled", "none", "error"}]
            BY <1>6 DEF Cancel
      <2>5. pc' \in [Calls ->
              {"new", "connect", "notify", "wait", "done", "raised", "cancelled"}]
            <3>1. \E label \in {"cancelled", "notify"} : pc' = [pc EXCEPT ![c] = label]
                  BY <1>6 DEF Cancel
            <3> QED
                BY <3>1
      <2>6. astray' \subseteq Sockets
            <3>1. CASE Connected
                  BY <1>6, <3>1 DEF Cancel
            <3>2. CASE ~Connected
                  <4>1. PICK k \in Sockets : Make(k, sockets)
                        BY <1>6, <3>2, Zenon DEF Cancel
                  <4> QED
                      BY <4>1, PyMakeType
            <3> QED
                BY <3>1, <3>2
      <2> QED
          BY <1>6, <2>2, <2>3, <2>4, <2>5, <2>6 DEF Cancel
<1> QED
    BY <1>1, <1>2, <1>3, <1>4, <1>5, <1>6 DEF Connects

LEMMA PyLoopType ==
  ASSUME TypeOK, Subscribe \/ Loop \/ ConnectAlone
  PROVE  TypeOK'
<1> USE CallsAssumption, PyClientAssumption DEF TypeOK, Sockets, Unused
<1>1. CASE Subscribe
      BY <1>1 DEF Subscribe
<1>2. CASE WsLoop
      <2>1. CASE Connected
            BY <1>2, <2>1 DEF WsLoop, Connected
      <2>2. CASE ~Connected
            <3>1. PICK k \in Sockets : /\ Make(k, socket)
                                       /\ socket' = [socket EXCEPT ![k] = "connecting"]
                                       /\ reads' = k
                  BY <1>2, <2>2, Zenon DEF WsLoop
            <3>2. astray' \subseteq Sockets
                  BY <3>1, PyMakeType
            <3>3. /\ stream' = "connecting"
                  /\ UNCHANGED <<ws, pc, on, future, filters, server, inbox, answered>>
                  BY <1>2, <2>2 DEF WsLoop
            <3> QED
                BY <3>1, <3>2, <3>3
      <2> QED
          BY <2>1, <2>2
<1>3. CASE WsLoopConnects
      BY <1>3 DEF WsLoopConnects
<1>4. CASE OnNext
      <2> DEFINE c == Head(inbox[reads])
      <2>1. ASSUME NEW d \in Calls
            PROVE  future'[d] \in Answers \cup
                     {"pending", "closed", "cancelled", "none", "error"}
            <3>1. CASE c = d
                  <4>1. ToResponse(d, answered[d]) \in Answers \cup {"none", "error"}
                        BY PyToResponseType
                  <4> QED
                      BY <1>4, <3>1, <4>1 DEF OnNext
            <3>2. CASE c # d
                  BY <1>4, <3>2 DEF OnNext
            <3> QED
                BY <3>1, <3>2
      <2>2. future' \in [Calls -> Answers \cup
              {"pending", "closed", "cancelled", "none", "error"}]
            BY <1>4, <2>1 DEF OnNext
      <2>3. inbox' \in [Sockets -> Seq(Calls)]
            <3>1. inbox' = [inbox EXCEPT ![reads] = Tail(inbox[reads])]
                  BY <1>4 DEF OnNext
            <3>2. reads \in Sockets => Tail(inbox[reads]) \in Seq(Calls)
                  BY <1>4 DEF OnNext
            <3> QED
                BY <3>1, <3>2
      <2> QED
          BY <1>4, <2>2, <2>3 DEF OnNext
<1>5. CASE OnCompleted
      BY <1>5 DEF OnCompleted
<1>6. CASE ConnectAlone
      <2>1. PICK k \in Sockets : /\ Make(k, socket)
                                 /\ socket' = [socket EXCEPT ![k] = "open"]
                                 /\ ws' = k
            BY <1>6, Zenon DEF ConnectAlone
      <2>2. astray' \subseteq Sockets
            BY <2>1, PyMakeType
      <2>3. UNCHANGED <<stream, reads, pc, on, future, filters, server, inbox, answered>>
            BY <1>6 DEF ConnectAlone
      <2> QED
          BY <2>1, <2>2, <2>3
<1> QED
    BY <1>1, <1>2, <1>3, <1>4, <1>5, <1>6 DEF Loop

LEMMA PyServerType ==
  ASSUME TypeOK, NEW k \in Sockets,
         Close(k) \/ \E c \in Calls : Answer(k, c)
  PROVE  TypeOK'
<1> USE CallsAssumption, PyClientAssumption DEF TypeOK, Sockets
<1>1. CASE Close(k)
      BY <1>1 DEF Close
<1>2. ASSUME NEW c \in Calls, Answer(k, c) PROVE TypeOK'
      BY <1>2 DEF Answer
<1> QED
    BY <1>1, <1>2

LEMMA PyTypeNext ==
  ASSUME TypeOK, [Next]_vars
  PROVE  TypeOK'
<1>1. CASE UNCHANGED vars
      BY <1>1 DEF vars, TypeOK
<1>2. CASE Next
      BY <1>2, PyCallType, PyLoopType, PyServerType DEF Next
<1> QED
    BY <1>1, <1>2

\* _ws_loop() has a websocket to make or to read from.
PyReadsOK == stream \in {"connecting", "reading"} => reads \in Sockets

LEMMA PyReadsNext ==
  ASSUME TypeOK, PyReadsOK, [Next]_vars
  PROVE  PyReadsOK'
<1>1. UNCHANGED <<stream, reads>> => PyReadsOK'
      BY DEF PyReadsOK, Sockets
<1>2. stream = "cold" /\ stream' = "scheduled" => PyReadsOK'
      BY DEF PyReadsOK
<1>3. ASSUME NEW c \in Calls, SetupResponseFilter(c), UNCHANGED reads PROVE PyReadsOK'
      BY <1>1, <1>2, <1>3 DEF SetupResponseFilter
<1>4. CASE Loop
      BY <1>4 DEF PyReadsOK, TypeOK, Loop, WsLoop, WsLoopConnects, OnNext,
                  OnCompleted, Connected, Unused, Sockets
<1>5. ASSUME NEW c \in Calls, Request(c) \/ Connects(c) \/ Wake(c) \/ Cancel(c)
      PROVE  PyReadsOK'
      BY <1>1, <1>3, <1>5 DEF Request, Connects, RequestConnected,
         NotifyConnected, ConnectFails, Wake, Cancel
<1>6. CASE Subscribe \/ ConnectAlone
      BY <1>1, <1>2, <1>6 DEF Subscribe, ConnectAlone
<1>7. ASSUME NEW k \in Sockets, Close(k) \/ \E c \in Calls : Answer(k, c)
      PROVE  PyReadsOK'
      BY <1>1, <1>7 DEF Close, Answer
<1> QED
    BY <1>1, <1>4, <1>5, <1>6, <1>7 DEF Next, vars

(***************************************************************************)
(* A call is given its own answer.                                         *)
(***************************************************************************)

\* The message of a call is sent once, to one server, which answers it once.
PySentOnce ==
  \A c \in Calls :
    /\ pc[c] \in {"new", "connect"} =>
         answered[c] = "none" /\ \A k \in Sockets : c \notin server[k]
    /\ \A k \in Sockets : c \in server[k] =>
         answered[c] = "none" /\ \A j \in Sockets : c \in server[j] => j = k

PyArrivedOK ==
  \A k \in Sockets : \A i \in 1 .. Len(inbox[k]) : answered[inbox[k][i]] # "none"

PyGivenOK ==
  \A c \in Calls : future[c] \notin {"pending", "closed", "cancelled"} =>
    /\ answered[c] # "none"
    /\ \/ future[c] = answered[c]
       \/ c \notin Batches /\ answered[c] = "falsy" /\ future[c] = "none"
       \/ c \notin Batches /\ answered[c] = "code" /\ future[c] = "error"

PyAnswersOK == PySentOnce /\ PyArrivedOK /\ PyGivenOK

LEMMA PyAnswersCall ==
  ASSUME TypeOK, PyAnswersOK, NEW c \in Calls,
         Request(c) \/ Connects(c) \/ Wake(c) \/ Cancel(c)
  PROVE  PyAnswersOK'
<1> USE DEF TypeOK, Goto
<1>1. PyArrivedOK'
      BY DEF PyAnswersOK, PyArrivedOK, Request, Connects, RequestConnected,
             NotifyConnected, ConnectFails, Wake, Cancel
<1>2. UNCHANGED answered
      BY DEF Request, Connects, RequestConnected, NotifyConnected,
             ConnectFails, Wake, Cancel
<1>3. \A d \in Calls : future'[d] \in {future[d], "closed", "cancelled"}
      BY DEF Request, Connects, RequestConnected, NotifyConnected,
             ConnectFails, Wake, Cancel, SetupResponseFilter
<1>4. PyGivenOK'
      BY <1>2, <1>3 DEF PyAnswersOK, PyGivenOK
<1>5. CASE UNCHANGED server
      <2>1. \A d \in Calls : pc'[d] \in {"new", "connect"} => pc[d] \in {"new", "connect"}
            BY DEF Request, Connects, RequestConnected, NotifyConnected,
                   ConnectFails, Wake, Cancel, Send
      <2>2. PySentOnce'
            BY <1>2, <1>5, <2>1 DEF PyAnswersOK, PySentOnce
      <2> QED
          BY <1>1, <1>4, <2>2 DEF PyAnswersOK
<1>6. CASE pc[c] \in {"new", "connect"} /\ \E k : Send(c, k)
      BY <1>1, <1>2, <1>4, <1>6 DEF PyAnswersOK, PySentOnce, Send
<1> QED
    BY <1>5, <1>6
    DEF Request, Connects, RequestConnected, NotifyConnected,
        ConnectFails, Wake, Cancel

LEMMA PyAnswersLoop ==
  ASSUME TypeOK, PyReadsOK, PyAnswersOK,
         Subscribe \/ Loop \/ ConnectAlone
  PROVE  PyAnswersOK'
<1> USE DEF TypeOK
<1>1. CASE OnNext
      <2> DEFINE c == Head(inbox[reads])
      <2>1. inbox' = [inbox EXCEPT ![reads] = Tail(inbox[reads])] /\ inbox[reads] # <<>>
            BY <1>1 DEF OnNext
      <2>2. UNCHANGED <<pc, server, answered>>
            BY <1>1 DEF OnNext
      <2>6. reads \in Sockets /\ inbox[reads] \in Seq(Calls)
            BY <1>1 DEF PyReadsOK, OnNext
      <2>3. PySentOnce'
            BY <2>2 DEF PyAnswersOK, PySentOnce
      <2>4. PyArrivedOK'
            <3>1. SUFFICES ASSUME NEW k \in Sockets, NEW i \in 1 .. Len(inbox'[k])
                           PROVE  answered[inbox'[k][i]] # "none"
                  BY <2>2 DEF PyArrivedOK
            <3>2. CASE k = reads
                  <4>1. inbox[k] \in Seq(Calls) /\ inbox'[k] = Tail(inbox[k])
                        BY <2>1, <3>2
                  <4>2. i + 1 \in 1 .. Len(inbox[k]) /\ inbox'[k][i] = inbox[k][i + 1]
                        BY <2>1, <3>2, <4>1
                  <4> QED
                      BY <4>2 DEF PyAnswersOK, PyArrivedOK
            <3>3. CASE k # reads
                  BY <2>1, <3>3 DEF PyAnswersOK, PyArrivedOK
            <3> QED
                BY <3>2, <3>3
      <2>5. PyGivenOK'
            <3>1. SUFFICES ASSUME NEW d \in Calls,
                                  future'[d] \notin {"pending", "closed", "cancelled"}
                           PROVE  /\ answered[d] # "none"
                                  /\ \/ future'[d] = answered[d]
                                     \/ /\ d \notin Batches /\ answered[d] = "falsy"
                                        /\ future'[d] = "none"
                                     \/ /\ d \notin Batches /\ answered[d] = "code"
                                        /\ future'[d] = "error"
                  BY <2>2 DEF PyGivenOK
            <3>2. CASE future'[d] = future[d]
                  BY <3>1, <3>2 DEF PyAnswersOK, PyGivenOK
            <3>3. CASE c = d /\ future'[d] = ToResponse(d, answered[d])
                  <4>1. c = inbox[reads][1] /\ 1 \in 1 .. Len(inbox[reads])
                        BY <2>1, <2>6
                  <4>2. answered[d] \in Answers
                        BY <2>6, <3>3, <4>1 DEF PyAnswersOK, PyArrivedOK
                  <4> QED
                      BY <3>3, <4>2, CallsAssumption, PyClientAssumption DEF ToResponse
            <3> QED
                BY <1>1, <3>2, <3>3 DEF OnNext
      <2> QED
          BY <2>3, <2>4, <2>5 DEF PyAnswersOK
<1>2. CASE OnCompleted
      BY <1>2 DEF PyAnswersOK, PySentOnce, PyArrivedOK, PyGivenOK, OnCompleted
<1>3. CASE UNCHANGED <<pc, future, server, inbox, answered>>
      BY <1>3 DEF PyAnswersOK, PySentOnce, PyArrivedOK, PyGivenOK
<1> QED
    BY <1>1, <1>2, <1>3
    DEF Subscribe, Loop, WsLoop, WsLoopConnects, ConnectAlone

LEMMA PyAnswersServer ==
  ASSUME TypeOK, PyAnswersOK, NEW k \in Sockets,
         Close(k) \/ \E c \in Calls : Answer(k, c)
  PROVE  PyAnswersOK'
<1> USE DEF TypeOK
<1>1. CASE Close(k)
      BY <1>1 DEF PyAnswersOK, PySentOnce, PyArrivedOK, PyGivenOK, Close
<1>2. ASSUME NEW c \in Calls, Answer(k, c) PROVE PyAnswersOK'
      <2>1. PICK answer \in Answers : answered' = [answered EXCEPT ![c] = answer]
            BY <1>2 DEF Answer
      <2>2. answer # "none" /\ answered[c] = "none"
            BY <1>2, CallsAssumption, PyClientAssumption DEF PyAnswersOK, PySentOnce, Answer
      <2>3. PySentOnce'
            BY <1>2, <2>1, <2>2 DEF PyAnswersOK, PySentOnce, Answer
      <2>4. PyGivenOK'
            BY <1>2, <2>1, <2>2 DEF PyAnswersOK, PyGivenOK, Answer
      <2>5. PyArrivedOK'
            <3>1. inbox' = [inbox EXCEPT ![k] = Append(inbox[k], c)]
                  BY <1>2 DEF Answer
            <3> QED
                BY <2>1, <2>2, <3>1 DEF PyAnswersOK, PyArrivedOK
      <2> QED
          BY <2>3, <2>4, <2>5 DEF PyAnswersOK
<1> QED
    BY <1>1, <1>2

\* async_client.py:112-150, request() and batch() behind the filters of
\* _setup_response_filter(): whatever connections are made and closed meanwhile,
\* by any number of coroutines, what a call returns is what was answered to it,
\* but for what _to_response() and _on_next() take for something else.
THEOREM PyAnswersOwn == Spec => []OwnAnswer
<1> DEFINE I == TypeOK /\ PyReadsOK /\ PyAnswersOK
<1>1. Init => I
      <2>1. SUFFICES ASSUME Init PROVE PyReadsOK /\ PyAnswersOK
            BY PyTypeInit
      <2> QED
          BY <2>1 DEF Init, PyReadsOK, PyAnswersOK, PySentOnce, PyArrivedOK, PyGivenOK
<1>2. I /\ [Next]_vars => I'
      <2>1. SUFFICES ASSUME I, [Next]_vars PROVE PyAnswersOK'
            BY PyTypeNext, PyReadsNext
      <2>2. CASE UNCHANGED vars
            BY <2>1, <2>2 DEF vars, PyAnswersOK, PySentOnce, PyArrivedOK, PyGivenOK
      <2>3. CASE Next
            BY <2>1, <2>3, PyAnswersCall, PyAnswersLoop, PyAnswersServer DEF Next
      <2> QED
          BY <2>1, <2>2, <2>3
<1>3. I => OwnAnswer
      BY DEF PyAnswersOK, PyGivenOK, OwnAnswer
<1> QED
    BY <1>1, <1>2, <1>3, PTL DEF Spec

(***************************************************************************)
(* A call is heard.                                                        *)
(***************************************************************************)

\* The websockets that are being made are each made by one coroutine, and what
\* was assigned, sent on or read from has been made.
PySocketsOK ==
  /\ ws # 0 => socket[ws] \in {"open", "closed"}
  /\ stream = "connecting" => socket[reads] = "connecting"
  /\ stream = "reading" => socket[reads] \in {"open", "closed"}
  /\ \A c \in Connecting : /\ on[c] \in Sockets /\ socket[on[c]] = "connecting"
                           /\ stream = "connecting" => on[c] # reads
  /\ \A c, d \in Connecting : on[c] = on[d] => c = d
  /\ \A c \in Calls : pc[c] = "wait" => on[c] \in Sockets /\ socket[on[c]] \in {"open", "closed"}

\* A websocket that has not gone astray is made when there is no other, and is
\* the one of the client as long as it is open.
PyStrayOK ==
  \A k \in Sockets \ astray :
    /\ socket[k] = "connecting" =>
         ~Connected /\ \A j \in Sockets : socket[j] = "connecting" => j = k
    /\ socket[k] = "open" =>
         ws = k /\ \A j \in Sockets : socket[j] # "connecting"

\* What a call is heard by, from its message to its answer.
PyHeardOK ==
  \A c \in Calls : pc[c] = "wait" /\ future[c] = "pending" =>
    /\ c \in filters
    /\ stream \notin {"cold", "completed"}
    /\ on[c] \notin astray =>
         /\ stream = "scheduled" => socket[on[c]] = "open"
         /\ stream = "connecting" => reads \in astray
         /\ stream = "reading" =>
              reads = on[c] \/ socket[reads] = "closed" \/ reads \in astray

PyConnectionsOK == TypeOK /\ PyReadsOK /\ PySocketsOK /\ PyStrayOK /\ PyHeardOK

\* A websocket that begins to be made, for a coroutine or for _ws_loop().
LEMMA PyMakes ==
  ASSUME TypeOK, PySocketsOK, PyStrayOK, ~Connected, UNCHANGED ws,
         NEW sockets \in [Sockets -> {"unused", "connecting", "open", "closed"}],
         \A j \in Sockets : sockets[j] = socket[j]
                              \/ (socket[j] = "connecting" /\ sockets[j] = "closed"),
         NEW k, Make(k, sockets), socket' = [sockets EXCEPT ![k] = "connecting"]
  PROVE  /\ PyStrayOK'
         /\ k \in Sockets /\ socket[k] = "unused" /\ socket'[k] = "connecting"
         /\ astray \subseteq astray'
         /\ \A j \in Sockets : socket[j] \in {"open", "closed"} => socket'[j] = socket[j]
         /\ \A j \in Sockets \ {k} : socket'[j] = sockets[j]
<1>1. /\ k \in Sockets /\ socket[k] = "unused" /\ sockets[k] = "unused"
      /\ socket'[k] = "connecting"
      /\ \A j \in Sockets \ {k} : socket'[j] = sockets[j]
      BY DEF Make, Unused
<1>2. astray' = IF {j \in Sockets : sockets[j] = "connecting"} = {}
                  THEN astray
                  ELSE astray \cup {j \in Sockets : sockets[j] = "connecting"} \cup {k}
      BY DEF Make
<1>3. astray \subseteq astray'
      BY <1>2
<1>4. \A j \in Sockets : socket[j] \in {"open", "closed"} => socket'[j] = socket[j]
      BY <1>1
<1>5. ~Connected'
      BY <1>1, <1>4 DEF Connected, PySocketsOK, TypeOK, Sockets
<1>6. ASSUME NEW i \in Sockets \ astray'
      PROVE  /\ socket'[i] = "connecting" =>
                  \A j \in Sockets : socket'[j] = "connecting" => j = i
             /\ socket'[i] # "open"
      <2>1. CASE i = k
            <3>1. \A j \in Sockets : sockets[j] # "connecting"
                  BY <1>2, <1>6, <2>1
            <3> QED
                BY <1>1, <2>1, <3>1
      <2>2. CASE i # k
            <3>1. sockets[i] # "connecting" /\ socket'[i] = sockets[i]
                  BY <1>1, <1>2, <1>6, <2>2
            <3>2. socket'[i] = "open" => socket[i] = "open" /\ i \notin astray
                  BY <1>3, <1>6, <3>1
            <3>3. socket[i] = "open" /\ i \notin astray => Connected
                  BY DEF PyStrayOK, Connected, Sockets
            <3> QED
                BY <3>1, <3>2, <3>3
      <2> QED
          BY <2>1, <2>2
<1> QED
    BY <1>1, <1>3, <1>4, <1>5, <1>6 DEF PyStrayOK

\* A websocket that was being made is open, and the one of the client.
LEMMA PyOpens ==
  ASSUME TypeOK, PySocketsOK, PyStrayOK, UNCHANGED astray,
         NEW k \in Sockets, socket[k] = "connecting",
         socket' = [socket EXCEPT ![k] = "open"], ws' = k
  PROVE  PyStrayOK'
<1>1. \A j \in Sockets : socket'[j] = IF j = k THEN "open" ELSE socket[j]
      BY DEF TypeOK
<1> QED
    BY <1>1 DEF PyStrayOK, Connected

\* A websocket closes, or could not be made.
LEMMA PyCloses ==
  ASSUME TypeOK, PySocketsOK, PyStrayOK, UNCHANGED ws,
         NEW k \in Sockets, socket' = [socket EXCEPT ![k] = "closed"],
         astray \subseteq astray'
  PROVE  PyStrayOK'
<1>1. \A j \in Sockets : socket'[j] = IF j = k THEN "closed" ELSE socket[j]
      BY DEF TypeOK
<1>2. Connected' => Connected
      BY <1>1 DEF Connected, TypeOK, Sockets
<1> QED
    BY <1>1, <1>2 DEF PyStrayOK

\* A coroutine begins to connect; what it connected before is closed.
LEMMA PyConnectKeeps ==
  ASSUME PyConnectionsOK, ~Connected, UNCHANGED <<ws, stream, reads, filters>>,
         NEW c \in Calls, pc[c] \in {"new", "connect", "wait"},
         NEW sockets,
         sockets = IF pc[c] = "connect"
                     THEN [socket EXCEPT ![on[c]] = "closed"] ELSE socket,
         NEW k \in Sockets, Connect(k, sockets), on' = [on EXCEPT ![c] = k],
         NEW label \in {"connect", "notify"}, pc' = [pc EXCEPT ![c] = label],
         \A d \in Calls \ {c} : future'[d] = future[d]
  PROVE  PySocketsOK' /\ PyStrayOK' /\ PyHeardOK'
<1>0. TypeOK /\ PySocketsOK /\ PyStrayOK
      BY DEF PyConnectionsOK
<1>1. /\ sockets \in [Sockets -> {"unused", "connecting", "open", "closed"}]
      /\ \A j \in Sockets : sockets[j] = socket[j]
                              \/ (socket[j] = "connecting" /\ sockets[j] = "closed")
      /\ \A j \in Sockets : pc[c] # "connect" \/ j # on[c] => sockets[j] = socket[j]
      /\ pc[c] = "connect" => /\ on[c] \in Sockets /\ socket[on[c]] = "connecting"
                              /\ sockets[on[c]] = "closed"
      BY <1>0 DEF TypeOK, PySocketsOK, Connecting
<1>2. Make(k, sockets) /\ socket' = [sockets EXCEPT ![k] = "connecting"]
      BY DEF Connect
<1>3. /\ PyStrayOK'
      /\ socket[k] = "unused" /\ socket'[k] = "connecting"
      /\ astray \subseteq astray'
      /\ \A j \in Sockets : socket[j] \in {"open", "closed"} => socket'[j] = socket[j]
      /\ \A j \in Sockets \ {k} : socket'[j] = sockets[j]
      <2>1. /\ \A j \in Sockets : sockets[j] = socket[j]
                                   \/ (socket[j] = "connecting" /\ sockets[j] = "closed")
            /\ UNCHANGED ws
            BY <1>1
      <2> QED
          BY ONLY <1>0, <1>1, <1>2, <2>1, ~Connected, PyMakes
<1> USE CallsAssumption, PyClientAssumption DEF PyConnectionsOK
<1>4. /\ pc'[c] = label /\ on'[c] = k
      /\ \A d \in Calls \ {c} : pc'[d] = pc[d] /\ on'[d] = on[d]
      BY DEF TypeOK
<1>5. ASSUME NEW d \in Calls \ {c}, pc[d] \in {"connect", "notify"}
      PROVE  /\ on[d] \in Sockets /\ on[d] # k /\ socket'[on[d]] = "connecting"
             /\ stream = "connecting" => on[d] # reads
      <2>1. /\ on[d] \in Sockets /\ socket[on[d]] = "connecting"
            /\ pc[c] = "connect" => on[d] # on[c]
            /\ stream = "connecting" => on[d] # reads
            BY <1>5 DEF PySocketsOK, Connecting
      <2> QED
          BY <1>1, <1>3, <2>1
<1>6. stream = "connecting" => reads \in Sockets /\ reads # k /\ socket'[reads] = "connecting"
      <2>1. SUFFICES ASSUME stream = "connecting"
                     PROVE  reads \in Sockets /\ reads # k /\ socket'[reads] = "connecting"
            OBVIOUS
      <2>2. /\ reads \in Sockets /\ socket[reads] = "connecting"
            /\ pc[c] = "connect" => on[c] # reads
            BY <2>1 DEF PyReadsOK, PySocketsOK, Connecting
      <2> QED
          BY <1>1, <1>3, <2>2
<1>7. PySocketsOK'
      <2>1. ws # 0 => ws \in Sockets
            BY DEF TypeOK, Sockets
      <2>2. /\ ws' # 0 => socket'[ws'] \in {"open", "closed"}
            /\ stream' = "connecting" => socket'[reads'] = "connecting"
            /\ stream' = "reading" => socket'[reads'] \in {"open", "closed"}
            BY <1>3, <1>6, <2>1 DEF PySocketsOK, PyReadsOK
      <2>3. ASSUME NEW d \in Calls, pc'[d] \in {"connect", "notify"}
            PROVE  /\ on'[d] \in Sockets /\ socket'[on'[d]] = "connecting"
                   /\ stream' = "connecting" => on'[d] # reads'
            BY <1>3, <1>4, <1>5, <1>6, <2>3
      <2>4. ASSUME NEW d \in Calls, NEW e \in Calls, pc'[d] \in {"connect", "notify"},
                   pc'[e] \in {"connect", "notify"}, on'[d] = on'[e]
            PROVE  d = e
            BY <1>4, <1>5, <2>4 DEF PySocketsOK, Connecting
      <2>5. ASSUME NEW d \in Calls, pc'[d] = "wait"
            PROVE  on'[d] \in Sockets /\ socket'[on'[d]] \in {"open", "closed"}
            BY <1>3, <1>4, <2>5 DEF PySocketsOK
      <2> QED
          BY <2>2, <2>3, <2>4, <2>5 DEF PySocketsOK, Connecting
<1>8. PyHeardOK'
      <2>1. SUFFICES ASSUME NEW d \in Calls, pc'[d] = "wait", future'[d] = "pending"
                     PROVE  /\ d \in filters
                            /\ stream \notin {"cold", "completed"}
                            /\ on'[d] \notin astray' =>
                                 /\ stream = "scheduled" => socket'[on'[d]] = "open"
                                 /\ stream = "connecting" => reads \in astray'
                                 /\ stream = "reading" =>
                                      \/ reads = on'[d] \/ socket'[reads] = "closed"
                                      \/ reads \in astray'
            BY DEF PyHeardOK
      <2>2. d # c /\ pc[d] = "wait" /\ future[d] = "pending" /\ on'[d] = on[d]
            BY <1>4, <2>1
      <2>3. on[d] \in Sockets
            BY <2>2 DEF PySocketsOK
      <2> QED
          BY <1>3, <2>2, <2>3 DEF PyHeardOK, PyReadsOK
<1> QED
    BY <1>3, <1>7, <1>8

LEMMA PyHeardRequest ==
  ASSUME PyConnectionsOK, NEW c \in Calls, Request(c)
  PROVE  PySocketsOK' /\ PyStrayOK' /\ PyHeardOK'
<1> USE CallsAssumption, PyClientAssumption DEF PyConnectionsOK, Goto
<1>1. CASE Connected
      <2>1. SetupResponseFilter(c) /\ Send(c, ws) /\ pc[c] = "new"
            BY <1>1 DEF Request
      <2>2. UNCHANGED <<socket, ws, reads, astray>>
            BY <1>1 DEF Request
      <2>3. /\ ws \in Sockets /\ socket[ws] = "open"
            /\ on' = [on EXCEPT ![c] = ws] /\ pc' = [pc EXCEPT ![c] = "wait"]
            /\ stream' = stream \/ (stream = "cold" /\ stream' = "scheduled")
            BY <1>1, <2>1 DEF Connected, TypeOK, Sockets, Send, SetupResponseFilter
      <2>4. PySocketsOK'
            BY <2>2, <2>3 DEF PySocketsOK, TypeOK, Connecting
      <2>5. PyStrayOK'
            BY <2>2 DEF PyStrayOK, Connected
      <2>6. PyHeardOK'
            <3>1. SUFFICES ASSUME NEW d \in Calls, pc'[d] = "wait", future'[d] = "pending"
                           PROVE  /\ d \in filters'
                                  /\ stream' \notin {"cold", "completed"}
                                  /\ on'[d] \notin astray' =>
                                       /\ stream' = "scheduled" => socket'[on'[d]] = "open"
                                       /\ stream' = "connecting" => reads' \in astray'
                                       /\ stream' = "reading" =>
                                            \/ reads' = on'[d] \/ socket'[reads'] = "closed"
                                            \/ reads' \in astray'
                  BY DEF PyHeardOK
            <3>2. CASE d # c
                  <4>1. pc[d] = "wait" /\ future[d] = "pending" /\ on'[d] = on[d]
                        BY <2>1, <2>3, <3>1, <3>2 DEF TypeOK, SetupResponseFilter
                  <4>2. filters \subseteq filters'
                        BY <2>1 DEF SetupResponseFilter
                  <4> QED
                      BY <2>2, <2>3, <4>1, <4>2 DEF PyHeardOK
            <3>3. CASE d = c
                  <4>1. /\ c \in filters' /\ on'[c] = ws
                        /\ stream \notin {"completed"} /\ stream' # "cold"
                        BY <2>1, <2>3, <3>1, <3>3 DEF TypeOK, SetupResponseFilter
                  <4>2. stream = "reading" =>
                          reads = ws \/ socket[reads] = "closed" \/ reads \in astray
                        BY DEF PyReadsOK, PySocketsOK, PyStrayOK
                  <4>3. stream = "connecting" => reads \in astray
                        BY <1>1 DEF PyReadsOK, PySocketsOK, PyStrayOK
                  <4> QED
                      BY <2>2, <2>3, <3>3, <4>1, <4>2, <4>3
            <3> QED
                BY <3>2, <3>3
      <2> QED
          BY <2>4, <2>5, <2>6
<1>2. CASE ~Connected
      <2>1. PICK k \in Sockets : Connect(k, socket) /\ on' = [on EXCEPT ![c] = k]
            BY <1>2, Zenon DEF Request
      <2>2. pc[c] = "new" /\ pc' = [pc EXCEPT ![c] = "connect"]
            BY <1>2 DEF Request
      <2>3. UNCHANGED <<ws, stream, reads, future, filters>>
            BY <1>2 DEF Request
      <2> QED
          BY <1>2, <2>1, <2>2, <2>3, PyConnectKeeps
<1> QED
    BY <1>1, <1>2

\* What else keeps what is known of the calls and their websockets: none is made,
\* and no call begins to wait.
LEMMA PyRestKeeps ==
  ASSUME PyConnectionsOK, UNCHANGED <<ws, stream, reads, on>>,
         filters' \subseteq filters, astray \subseteq astray',
         \A c \in Calls : pc'[c] = pc[c] \/ pc'[c] \notin {"connect", "notify", "wait"},
         \A c \in Calls : future'[c] = "pending" =>
           future[c] = "pending" /\ (c \in filters => c \in filters'),
         UNCHANGED <<socket, astray>>
  PROVE  PySocketsOK' /\ PyStrayOK' /\ PyHeardOK'
<1>1. PySocketsOK'
      BY DEF PyConnectionsOK, PySocketsOK, Connecting
<1>2. PyStrayOK'
      BY DEF PyConnectionsOK, PyStrayOK, Connected
<1>3. PyHeardOK'
      BY DEF PyConnectionsOK, PyHeardOK
<1> QED
    BY <1>1, <1>2, <1>3

\* Websocket k closes, or could not be made.
LEMMA PyEndKeeps ==
  ASSUME PyConnectionsOK, UNCHANGED <<ws, reads, on, future, filters>>,
         NEW k \in Sockets, socket' = [socket EXCEPT ![k] = "closed"],
         astray' = astray \/ (stream = "scheduled" /\ astray' = astray \cup {k}),
         stream = "scheduled" => astray' = astray \cup {k} \/ socket[k] # "open",
         stream' = stream \/ stream' = "failed",
         stream = "connecting" /\ k = reads => stream' = "failed",
         \A c \in Calls : pc'[c] = pc[c] \/ pc'[c] \notin {"connect", "notify", "wait"},
         \A c \in Connecting : on[c] = k => pc'[c] # pc[c]
  PROVE  PySocketsOK' /\ PyStrayOK' /\ PyHeardOK'
<1> USE DEF PyConnectionsOK
<1>1. \A j \in Sockets : socket'[j] = IF j = k THEN "closed" ELSE socket[j]
      BY DEF TypeOK
<1>2. PyStrayOK'
      BY PyCloses
<1>3. PySocketsOK'
      <2>1. ws # 0 => ws \in Sockets
            BY DEF TypeOK, Sockets
      <2>2. /\ ws' # 0 => socket'[ws'] \in {"open", "closed"}
            /\ stream' = "connecting" => socket'[reads'] = "connecting"
            /\ stream' = "reading" => socket'[reads'] \in {"open", "closed"}
            BY <1>1, <2>1 DEF PySocketsOK, PyReadsOK
      <2>3. \A c \in Connecting' : c \in Connecting /\ on[c] # k
            BY DEF Connecting
      <2>4. \A c \in Connecting' : /\ on'[c] \in Sockets /\ socket'[on'[c]] = "connecting"
                                   /\ stream' = "connecting" => on'[c] # reads'
            BY <1>1, <2>3 DEF PySocketsOK
      <2>5. \A c, d \in Connecting' : on'[c] = on'[d] => c = d
            BY <2>3 DEF PySocketsOK
      <2>6. \A c \in Calls : pc'[c] = "wait" =>
              on'[c] \in Sockets /\ socket'[on'[c]] \in {"open", "closed"}
            BY <1>1 DEF PySocketsOK
      <2> QED
          BY <2>2, <2>4, <2>5, <2>6 DEF PySocketsOK
<1>4. PyHeardOK'
      <2>1. SUFFICES ASSUME NEW c \in Calls, pc'[c] = "wait", future'[c] = "pending"
                     PROVE  /\ c \in filters
                            /\ stream' \notin {"cold", "completed"}
                            /\ on[c] \notin astray' =>
                                 /\ stream' = "scheduled" => socket'[on[c]] = "open"
                                 /\ stream' = "connecting" => reads \in astray'
                                 /\ stream' = "reading" =>
                                      \/ reads = on[c] \/ socket'[reads] = "closed"
                                      \/ reads \in astray'
            BY DEF PyHeardOK
      <2>2. pc[c] = "wait" /\ future[c] = "pending" /\ on[c] \in Sockets
            BY <2>1 DEF PySocketsOK
      <2> QED
          BY <1>1, <2>2 DEF PyHeardOK, PyReadsOK
<1> QED
    BY <1>2, <1>3, <1>4

\* Websocket k that was being made is open: for a coroutine, or for _ws_loop().
LEMMA PyOpenKeeps ==
  ASSUME PyConnectionsOK, UNCHANGED <<reads, on, astray>>,
         NEW k \in Sockets, socket[k] = "connecting",
         socket' = [socket EXCEPT ![k] = "open"], ws' = k,
         \A c \in Calls : pc'[c] = pc[c] \/ (c \in Connecting /\ on[c] = k),
         \A c \in Calls : pc'[c] \in {"connect", "notify"} => on[c] # k,
         \A c \in Calls : future'[c] = "pending" => future[c] = "pending",
         \/ UNCHANGED stream
         \/ stream = "cold" /\ stream' = "scheduled"
         \/ stream = "connecting" /\ reads = k /\ stream' = "reading",
         stream = "connecting" /\ reads = k => stream' = "reading",
         filters \subseteq filters',
         \A c \in Calls : pc'[c] = "wait" /\ pc[c] # "wait" /\ future'[c] = "pending" =>
           /\ c \in filters' /\ stream' \notin {"cold", "completed"}
           /\ stream' = IF stream = "cold" THEN "scheduled" ELSE stream
  PROVE  PySocketsOK' /\ PyStrayOK' /\ PyHeardOK'
<1> USE DEF PyConnectionsOK
<1>1. \A j \in Sockets : socket'[j] = IF j = k THEN "open" ELSE socket[j]
      BY DEF TypeOK
<1>2. PyStrayOK'
      BY PyOpens
<1>3. PySocketsOK'
      <2>1. /\ ws' # 0 => socket'[ws'] \in {"open", "closed"}
            /\ stream' = "connecting" => socket'[reads'] = "connecting"
            /\ stream' = "reading" => socket'[reads'] \in {"open", "closed"}
            BY <1>1 DEF PySocketsOK, PyReadsOK
      <2>2. \A c \in Connecting' : c \in Connecting /\ on[c] # k
            BY DEF Connecting
      <2>3. \A c \in Connecting' : /\ on'[c] \in Sockets /\ socket'[on'[c]] = "connecting"
                                   /\ stream' = "connecting" => on'[c] # reads'
            BY <1>1, <2>2 DEF PySocketsOK
      <2>4. \A c, d \in Connecting' : on'[c] = on'[d] => c = d
            BY <2>2 DEF PySocketsOK
      <2>5. \A c \in Calls : pc'[c] = "wait" =>
              on'[c] \in Sockets /\ socket'[on'[c]] \in {"open", "closed"}
            BY <1>1 DEF PySocketsOK
      <2> QED
          BY <2>1, <2>3, <2>4, <2>5 DEF PySocketsOK
<1>4. PyHeardOK'
      <2>1. SUFFICES ASSUME NEW c \in Calls, pc'[c] = "wait", future'[c] = "pending"
                     PROVE  /\ c \in filters'
                            /\ stream' \notin {"cold", "completed"}
                            /\ on[c] \notin astray =>
                                 /\ stream' = "scheduled" => socket'[on[c]] = "open"
                                 /\ stream' = "connecting" => reads \in astray
                                 /\ stream' = "reading" =>
                                      \/ reads = on[c] \/ socket'[reads] = "closed"
                                      \/ reads \in astray
            BY DEF PyHeardOK
      <2>2. on[c] \in Sockets /\ future[c] = "pending"
            BY <2>1 DEF PySocketsOK
      <2>3. CASE pc[c] = "wait"
            BY <1>1, <2>1, <2>2, <2>3 DEF PyHeardOK, PyReadsOK
      <2>4. CASE pc[c] # "wait"
            <3>1. /\ c \in filters' /\ stream' \notin {"cold", "completed"}
                  /\ stream' = IF stream = "cold" THEN "scheduled" ELSE stream
                  /\ c \in Connecting /\ on[c] = k /\ socket'[k] = "open"
                  BY <1>1, <2>1, <2>4
            <3>2. stream = "connecting" => reads \in astray
                  BY <3>1 DEF PySocketsOK, PyReadsOK, PyStrayOK
            <3>3. stream = "reading" => socket[reads] = "closed" \/ reads \in astray
                  BY <3>1 DEF PySocketsOK, PyReadsOK, PyStrayOK
            <3>4. stream = "reading" => reads \in Sockets /\ reads # k
                  BY DEF PySocketsOK, PyReadsOK
            <3> QED
                BY <1>1, <3>1, <3>2, <3>3, <3>4
      <2> QED
          BY <2>3, <2>4
<1> QED
    BY <1>2, <1>3, <1>4

LEMMA PyHeardConnected ==
  ASSUME PyConnectionsOK, NEW c \in Calls, Connects(c)
  PROVE  PySocketsOK' /\ PyStrayOK' /\ PyHeardOK'
<1>1. c \in Connecting => on[c] \in Sockets /\ socket[on[c]] = "connecting"
      BY DEF PyConnectionsOK, PySocketsOK
<1>2. \A d \in Connecting : c \in Connecting /\ on[d] = on[c] => d = c
      BY DEF PyConnectionsOK, PySocketsOK
<1>3. stream = "connecting" /\ c \in Connecting => on[c] # reads
      BY DEF PyConnectionsOK, PySocketsOK
<1>4. CASE RequestConnected(c)
      <2>1. /\ c \in Connecting /\ UNCHANGED <<reads, astray>>
            /\ socket' = [socket EXCEPT ![on[c]] = "open"] /\ ws' = on[c]
            /\ SetupResponseFilter(c) /\ Send(c, on[c])
            BY <1>4 DEF RequestConnected, Connecting
      <2>2. /\ on' = on /\ pc'[c] = "wait"
            /\ \A d \in Calls \ {c} : pc'[d] = pc[d]
            BY <2>1 DEF Send, Goto, PyConnectionsOK, TypeOK
      <2>3. /\ \A d \in Calls : future'[d] = "pending" => future[d] = "pending"
            /\ filters \subseteq filters'
            /\ UNCHANGED stream \/ (stream = "cold" /\ stream' = "scheduled")
            /\ stream' = IF stream = "cold" THEN "scheduled" ELSE stream
            /\ future'[c] = "pending" => c \in filters' /\ stream # "completed"
            BY <2>1 DEF SetupResponseFilter, PyConnectionsOK, TypeOK
      <2>4. \A d \in Calls : pc'[d] \in {"connect", "notify"} => on[d] # on[c]
            BY <1>2, <2>1, <2>2 DEF Connecting
      <2>5. PICK k \in Sockets : k = on[c] /\ socket[k] = "connecting"
            BY <1>1, <2>1
      <2>6. \A d \in Calls : pc'[d] = pc[d] \/ (d \in Connecting /\ on[d] = k)
            BY <2>1, <2>2, <2>5
      <2>7. \A d \in Calls : pc'[d] = "wait" /\ pc[d] # "wait" /\ future'[d] = "pending" =>
              /\ d \in filters' /\ stream' \notin {"cold", "completed"}
              /\ stream' = IF stream = "cold" THEN "scheduled" ELSE stream
            BY <2>2, <2>3
      <2>8. stream = "connecting" /\ reads = k => stream' = "reading"
            BY <1>3, <2>1, <2>5
      <2>9. /\ UNCHANGED <<reads, on, astray>>
            /\ socket' = [socket EXCEPT ![k] = "open"] /\ ws' = k
            /\ \A d \in Calls : pc'[d] \in {"connect", "notify"} => on[d] # k
            BY <2>1, <2>2, <2>4, <2>5
      <2>10. \/ UNCHANGED stream
             \/ stream = "cold" /\ stream' = "scheduled"
             \/ stream = "connecting" /\ reads = k /\ stream' = "reading"
             BY <2>3
      <2>11. /\ filters \subseteq filters'
             /\ \A d \in Calls : future'[d] = "pending" => future[d] = "pending"
             BY <2>3
      <2> QED
          BY <2>5, <2>6, <2>7, <2>8, <2>9, <2>10, <2>11, PyOpenKeeps
<1>5. CASE NotifyConnected(c)
      <2>1. /\ c \in Connecting /\ UNCHANGED <<reads, on, astray, stream, future, filters>>
            /\ socket' = [socket EXCEPT ![on[c]] = "open"] /\ ws' = on[c]
            /\ pc'[c] = "cancelled" /\ \A d \in Calls \ {c} : pc'[d] = pc[d]
            BY <1>5 DEF NotifyConnected, Connecting, Goto, PyConnectionsOK, TypeOK
      <2>2. \A d \in Calls : pc'[d] \in {"connect", "notify"} => on[d] # on[c]
            BY <1>2, <2>1 DEF Connecting
      <2> QED
          BY <1>1, <1>3, <2>1, <2>2, PyOpenKeeps
<1>6. CASE ConnectFails(c)
      <2>1. /\ c \in Connecting
            /\ UNCHANGED <<ws, stream, reads, on, future, filters, astray>>
            /\ socket' = [socket EXCEPT ![on[c]] = "closed"]
            /\ pc'[c] = "raised" /\ \A d \in Calls \ {c} : pc'[d] = pc[d]
            BY <1>6 DEF ConnectFails, Goto, PyConnectionsOK, TypeOK
      <2>2. pc[c] # "raised"
            BY <2>1 DEF Connecting
      <2> QED
          BY <1>1, <1>2, <1>3, <2>1, <2>2, PyEndKeeps
<1> QED
    BY <1>4, <1>5, <1>6 DEF Connects

LEMMA PyHeardCancel ==
  ASSUME PyConnectionsOK, NEW c \in Calls, Wake(c) \/ Cancel(c)
  PROVE  PySocketsOK' /\ PyStrayOK' /\ PyHeardOK'
<1>1. CASE Wake(c)
      <2>1. \A d \in Calls : pc'[d] = pc[d] \/ pc'[d] = "done"
            BY <1>1 DEF Wake, Goto, PyConnectionsOK, TypeOK
      <2>2. UNCHANGED <<socket, ws, stream, reads, on, future, filters, astray>>
            BY <1>1 DEF Wake
      <2> QED
          BY <2>1, <2>2, PyRestKeeps
<1>2. CASE Cancel(c)
      <2> DEFINE sockets == IF pc[c] = "connect"
                              THEN [socket EXCEPT ![on[c]] = "closed"] ELSE socket
      <2>1. pc[c] \in {"connect", "wait"} /\ UNCHANGED <<ws, stream, reads, filters>>
            BY <1>2 DEF Cancel
      <2>2. \A d \in Calls : future'[d] = future[d] \/ (d = c /\ future'[d] = "cancelled")
            BY <1>2 DEF Cancel, PyConnectionsOK, TypeOK
      <2>3. CASE Connected
            <3>1. /\ socket' = sockets /\ UNCHANGED <<on, astray>>
                  /\ pc'[c] = "cancelled" /\ \A d \in Calls \ {c} : pc'[d] = pc[d]
                  BY <1>2, <2>3 DEF Cancel, Goto, PyConnectionsOK, TypeOK
            <3>2. CASE pc[c] = "wait"
                  BY <2>1, <2>2, <3>1, <3>2, PyRestKeeps
            <3>3. CASE pc[c] = "connect"
                  <4>1. /\ c \in Connecting /\ on[c] \in Sockets
                        /\ socket[on[c]] = "connecting"
                        /\ \A d \in Connecting : on[d] = on[c] => d = c
                        /\ stream = "connecting" => on[c] # reads
                        BY <3>3 DEF Connecting, PyConnectionsOK, PySocketsOK
                  <4>2. future' = future
                        BY <1>2, <3>3 DEF Cancel, PyConnectionsOK, TypeOK
                  <4> QED
                      BY <2>1, <3>1, <3>3, <4>1, <4>2, PyEndKeeps
            <3> QED
                BY <2>1, <3>2, <3>3
      <2>4. CASE ~Connected
            <3>1. PICK k \in Sockets : Connect(k, sockets) /\ on' = [on EXCEPT ![c] = k]
                  BY <1>2, <2>4, Zenon DEF Cancel
            <3>2. pc' = [pc EXCEPT ![c] = "notify"]
                  BY <1>2, <2>4 DEF Cancel, Goto
            <3> QED
                BY <2>1, <2>2, <2>4, <3>1, <3>2, PyConnectKeeps
      <2> QED
          BY <2>3, <2>4
<1> QED
    BY <1>1, <1>2

\* _ws_loop() begins.
LEMMA PyHeardBegins ==
  ASSUME PyConnectionsOK, WsLoop
  PROVE  PySocketsOK' /\ PyStrayOK' /\ PyHeardOK'
<1> USE CallsAssumption, PyClientAssumption DEF PyConnectionsOK
<1>1. stream = "scheduled" /\ UNCHANGED <<ws, pc, on, future, filters>>
      BY DEF WsLoop
<1>2. CASE Connected
      <2>1. stream' = "reading" /\ reads' = ws /\ UNCHANGED <<socket, astray>>
            BY <1>2 DEF WsLoop
      <2>2. PySocketsOK'
            BY <1>1, <1>2, <2>1 DEF PySocketsOK, Connecting, Connected
      <2>3. PyStrayOK'
            BY <1>1, <2>1 DEF PyStrayOK, Connected
      <2>4. ASSUME NEW c \in Calls, pc[c] = "wait", future[c] = "pending", on[c] \notin astray
            PROVE  ws = on[c]
            BY <1>1, <2>4 DEF PyHeardOK, PySocketsOK, PyStrayOK
      <2>5. PyHeardOK'
            BY <1>1, <2>1, <2>4 DEF PyHeardOK
      <2> QED
          BY <2>2, <2>3, <2>5
<1>3. CASE ~Connected
      <2>1. PICK k \in Sockets : /\ Make(k, socket)
                                 /\ socket' = [socket EXCEPT ![k] = "connecting"]
                                 /\ reads' = k
            BY <1>3, Zenon DEF WsLoop
      <2>2. stream' = "connecting"
            BY <1>3 DEF WsLoop
      <2>3. /\ PyStrayOK'
            /\ socket[k] = "unused" /\ socket'[k] = "connecting"
            /\ astray \subseteq astray'
            /\ \A j \in Sockets : socket[j] \in {"open", "closed"} => socket'[j] = socket[j]
            /\ \A j \in Sockets \ {k} : socket'[j] = socket[j]
            BY <1>1, <1>3, <2>1, PyMakes DEF TypeOK
      <2>4. PySocketsOK'
            <3>1. ws # 0 => ws \in Sockets
                  BY DEF TypeOK, Sockets
            <3>2. /\ ws' # 0 => socket'[ws'] \in {"open", "closed"}
                  /\ \A c \in Calls : pc'[c] = "wait" =>
                       on'[c] \in Sockets /\ socket'[on'[c]] \in {"open", "closed"}
                  BY <1>1, <2>3, <3>1 DEF PySocketsOK
            <3>3. \A c \in Connecting' : /\ on'[c] \in Sockets
                                         /\ socket'[on'[c]] = "connecting"
                                         /\ on'[c] # reads'
                  BY <1>1, <2>1, <2>3 DEF PySocketsOK, Connecting
            <3>4. \A c, d \in Connecting' : on'[c] = on'[d] => c = d
                  BY <1>1 DEF PySocketsOK, Connecting
            <3> QED
                BY <2>1, <2>2, <2>3, <3>2, <3>3, <3>4 DEF PySocketsOK
      <2>5. ASSUME NEW c \in Calls, pc[c] = "wait", future[c] = "pending"
            PROVE  on[c] \in astray
            <3>1. on[c] \in Sockets /\ (on[c] \notin astray => socket[on[c]] = "open")
                  BY <1>1, <2>5 DEF PyHeardOK, PySocketsOK
            <3>2. socket[on[c]] = "open" /\ on[c] \notin astray => Connected
                  BY <3>1 DEF PyStrayOK, Connected, Sockets
            <3> QED
                BY <1>3, <3>1, <3>2
      <2>6. PyHeardOK'
            BY <1>1, <2>2, <2>3, <2>5 DEF PyHeardOK
      <2> QED
          BY <2>3, <2>4, <2>6
<1> QED
    BY <1>2, <1>3

\* The application connects; no call is concerned.
LEMMA PyAloneKeeps ==
  ASSUME PyConnectionsOK, ConnectAlone
  PROVE  PySocketsOK' /\ PyStrayOK' /\ PyHeardOK'
<1> USE DEF PyConnectionsOK
<1>1. PICK k \in Sockets : /\ Make(k, socket)
                           /\ socket' = [socket EXCEPT ![k] = "open"]
                           /\ ws' = k
      BY Zenon DEF ConnectAlone
<1>2. ~Connected /\ UNCHANGED <<stream, reads, pc, on, future, filters>>
      BY DEF ConnectAlone
<1>3. /\ socket[k] = "unused"
      /\ \A j \in Sockets : socket'[j] = IF j = k THEN "open" ELSE socket[j]
      BY <1>1 DEF Make, Unused, TypeOK
<1>4. astray' = IF {j \in Sockets : socket[j] = "connecting"} = {}
                  THEN astray
                  ELSE astray \cup {j \in Sockets : socket[j] = "connecting"} \cup {k}
      BY <1>1 DEF Make
<1>5. astray \subseteq astray'
      BY <1>4
<1>6. PyStrayOK'
      <2>1. ASSUME NEW i \in Sockets \ astray'
            PROVE  /\ socket'[i] # "connecting"
                   /\ socket'[i] = "open" =>
                        i = k /\ \A j \in Sockets : socket'[j] # "connecting"
            <3>1. CASE i = k
                  <4>1. \A j \in Sockets : socket[j] # "connecting"
                        BY <1>4, <2>1, <3>1
                  <4> QED
                      BY <1>3, <3>1, <4>1
            <3>2. CASE i # k
                  <4>1. socket[i] # "connecting" /\ i \notin astray
                        BY <1>4, <2>1
                  <4>2. socket[i] # "open"
                        BY <1>2, <4>1 DEF PyStrayOK, Connected, Sockets
                  <4> QED
                      BY <1>3, <3>2, <4>1, <4>2
            <3> QED
                BY <3>1, <3>2
      <2> QED
          BY <1>1, <2>1 DEF PyStrayOK
<1>7. PySocketsOK'
      <2>1. /\ stream = "connecting" => socket'[reads] = "connecting"
            /\ stream = "reading" => socket'[reads] \in {"open", "closed"}
            BY <1>3 DEF PySocketsOK, PyReadsOK
      <2>2. \A c \in Connecting : on[c] \in Sockets /\ socket'[on[c]] = "connecting"
            BY <1>3 DEF PySocketsOK
      <2>3. \A c \in Calls : pc[c] = "wait" =>
              on[c] \in Sockets /\ socket'[on[c]] \in {"open", "closed"}
            BY <1>3 DEF PySocketsOK
      <2>4. Connecting' = Connecting
            BY <1>2 DEF Connecting
      <2> QED
          BY <1>1, <1>2, <1>3, <2>1, <2>2, <2>3, <2>4 DEF PySocketsOK
<1>8. PyHeardOK'
      <2>1. \A c \in Calls : pc[c] = "wait" => on[c] \in Sockets /\ on[c] # k
            BY <1>3 DEF PySocketsOK
      <2>2. stream = "reading" => reads \in Sockets /\ reads # k
            BY <1>3 DEF PySocketsOK, PyReadsOK
      <2> QED
          BY <1>2, <1>3, <1>5, <2>1, <2>2 DEF PyHeardOK
<1> QED
    BY <1>6, <1>7, <1>8

LEMMA PyHeardLoop ==
  ASSUME PyConnectionsOK,
         Subscribe \/ Loop \/ ConnectAlone \/ \E k \in Sockets : Close(k)
  PROVE  PySocketsOK' /\ PyStrayOK' /\ PyHeardOK'
<1> USE CallsAssumption, PyClientAssumption
<1>1. CASE Subscribe
      <2>1. /\ stream = "cold" /\ stream' = "scheduled"
            /\ UNCHANGED <<socket, ws, reads, pc, on, future, filters, astray>>
            BY <1>1 DEF Subscribe
      <2>2. PySocketsOK' /\ PyStrayOK'
            BY <2>1 DEF PyConnectionsOK, PySocketsOK, PyStrayOK, Connecting, Connected
      <2> QED
          BY <2>1, <2>2 DEF PyConnectionsOK, PyHeardOK
<1>2. CASE WsLoop
      BY <1>2, PyHeardBegins
<1>3. CASE WsLoopConnects
      <2>1. PICK reached \in LoopReaches :
              /\ socket' = [socket EXCEPT ![reads] = IF reached THEN "open" ELSE "closed"]
              /\ ws' = IF reached THEN reads ELSE ws
              /\ stream' = IF reached THEN "reading" ELSE "failed"
            BY <1>3, Zenon DEF WsLoopConnects
      <2>2. /\ stream = "connecting" /\ UNCHANGED <<reads, pc, on, future, filters, astray>>
            /\ reads \in Sockets /\ socket[reads] = "connecting"
            /\ \A c \in Connecting : on[c] # reads
            BY <1>3 DEF WsLoopConnects, PyConnectionsOK, PyReadsOK, PySocketsOK
      <2>3. CASE reached
            <3>1. /\ socket' = [socket EXCEPT ![reads] = "open"]
                  /\ ws' = reads /\ stream' = "reading"
                  BY <2>1, <2>3, Zenon
            <3>2. \A c \in Calls : pc'[c] \in {"connect", "notify"} => on[c] # reads
                  BY <2>2 DEF Connecting
            <3> QED
                BY <2>2, <3>1, <3>2, PyOpenKeeps
      <2>4. CASE ~reached
            <3>1. /\ socket' = [socket EXCEPT ![reads] = "closed"]
                  /\ ws' = ws /\ stream' = "failed"
                  BY <2>1, <2>4, Zenon
            <3> QED
                BY <2>2, <3>1, PyEndKeeps
      <2> QED
          BY <2>3, <2>4
<1>4. CASE OnNext
      <2> DEFINE c == Head(inbox[reads])
      <2>1. c \in Calls
            BY <1>4 DEF OnNext, PyConnectionsOK, TypeOK, PyReadsOK
      <2>2. ToResponse(c, answered[c]) # "pending"
            BY <2>1, PyToResponseType DEF PyConnectionsOK, TypeOK
      <2>3. \A d \in Calls : future'[d] = "pending" =>
              future[d] = "pending" /\ (d \in filters => d \in filters')
            BY <1>4, <2>2 DEF OnNext, PyConnectionsOK, TypeOK
      <2>4. /\ UNCHANGED <<socket, ws, stream, reads, pc, on, astray>>
            /\ filters' \subseteq filters
            BY <1>4 DEF OnNext
      <2> QED
          BY <2>3, <2>4, PyRestKeeps
<1>5. CASE OnCompleted
      <2>1. /\ stream' = "completed" /\ UNCHANGED <<socket, ws, reads, pc, on, astray>>
            /\ stream = "reading"
            BY <1>5 DEF OnCompleted
      <2>2. \A c \in Calls : future'[c] = "pending" => future[c] = "pending" /\ c \notin filters
            BY <1>5, Zenon DEF OnCompleted
      <2>3. PySocketsOK' /\ PyStrayOK'
            BY <2>1 DEF PyConnectionsOK, PySocketsOK, PyStrayOK, Connecting, Connected
      <2> QED
          BY <2>1, <2>2, <2>3 DEF PyConnectionsOK, PyHeardOK
<1>6. CASE ConnectAlone
      BY <1>6, PyAloneKeeps
<1>7. ASSUME NEW k \in Sockets, Close(k)
      PROVE  PySocketsOK' /\ PyStrayOK' /\ PyHeardOK'
      <2>1. /\ socket[k] = "open" /\ socket' = [socket EXCEPT ![k] = "closed"]
            /\ astray' = IF stream = "scheduled" THEN astray \cup {k} ELSE astray
            /\ UNCHANGED <<ws, stream, reads, pc, on, future, filters>>
            BY <1>7 DEF Close
      <2>2. /\ stream = "connecting" => k # reads
            /\ \A c \in Connecting : on[c] # k
            BY <2>1 DEF PyConnectionsOK, PySocketsOK
      <2> QED
          BY <2>1, <2>2, PyEndKeeps
<1> QED
    BY <1>1, <1>2, <1>3, <1>4, <1>5, <1>6, <1>7 DEF Loop

\* async_client.py:112, 249, connect() and _ws_loop(): whatever coroutines connect
\* at a time, and whether or not _ws_loop() reaches the server, the answer to a
\* waiting call comes on the websocket that messages are read from, or the call is
\* about to be told that this one is closed; unless one of the two has gone astray
\* or _ws_loop() could not connect.
THEOREM PyCallsHeard == Spec => []Heard
<1>1. Init => PyConnectionsOK
      BY PyTypeInit
      DEF Init, PyConnectionsOK, PyReadsOK, PySocketsOK, PyStrayOK, PyHeardOK,
          Connecting
<1>2. PyConnectionsOK /\ [Next]_vars => PyConnectionsOK'
      <2>1. SUFFICES ASSUME PyConnectionsOK, [Next]_vars
                     PROVE  PySocketsOK' /\ PyStrayOK' /\ PyHeardOK'
            BY PyTypeNext, PyReadsNext DEF PyConnectionsOK
      <2>2. CASE UNCHANGED <<socket, ws, stream, reads, pc, on, future, filters, astray>>
            BY <2>1, <2>2, PyRestKeeps
      <2>3. CASE UNCHANGED vars
            BY <2>2, <2>3 DEF vars
      <2>4. ASSUME NEW k \in Sockets, NEW c \in Calls, Answer(k, c)
            PROVE  PySocketsOK' /\ PyStrayOK' /\ PyHeardOK'
            BY <2>2, <2>4 DEF Answer
      <2>5. CASE Next
            BY <2>1, <2>4, <2>5, PyHeardRequest, PyHeardConnected, PyHeardCancel,
               PyHeardLoop
            DEF Next
      <2> QED
          BY <2>1, <2>3, <2>5
<1>3. PyConnectionsOK => Heard
      BY DEF PyConnectionsOK, PyHeardOK, Heard, Stranded
<1> QED
    BY <1>1, <1>2, <1>3, PTL DEF Spec

-----------------------------------------------------------------------------
(***************************************************************************)
(* The JavaScript client.                                                  *)
(***************************************************************************)

\* The first websocket that has not been used.
LEMMA JsUnused ==
  ASSUME Unused # {}
  PROVE  (CHOOSE k \in Unused : \A j \in Unused : k <= j) \in Unused
<1> DEFINE R == OpToRel(<, Nat)
<1>1. Unused \subseteq Nat
      BY DEF Unused, Sockets
<1>2. \A j, k \in Nat : j < k => <<j, k>> \in R
      BY DEF OpToRel
<1>3. IsWellFoundedOn(R, Nat)
      BY NatLessThanWellFounded
<1> HIDE DEF R
<1>4. PICK k \in Unused : \A j \in Unused : ~(<<j, k>> \in R)
      BY <1>1, <1>3, WFMin
<1>5. ASSUME NEW j \in Unused PROVE k <= j
      <2>1. k \in Nat /\ j \in Nat /\ (j < k => <<j, k>> \in R) /\ <<j, k>> \notin R
            BY <1>1, <1>2, <1>4
      <2> QED
          BY <2>1
<1> QED
    BY <1>5

LEMMA JsTarget ==
  ASSUME JsTypeOK, current # 0 \/ Unused # {}
  PROVE  /\ Target \in Sockets
         /\ IF current # 0 THEN Target = current ELSE socket[Target] = "unused"
BY JsUnused DEF Target, JsTypeOK, Unused

\* What is being deserialised has been answered: the types depend on it.
JsParsingOK == \A c \in parsing \ Silent : answered[c] # "none"

LEMMA JsTypeInit == JsInit => JsTypeOK /\ JsParsingOK
BY CallsAssumption, JsClientAssumption DEF JsInit, JsTypeOK, Sockets, JsParsingOK

LEMMA JsSendType ==
  ASSUME JsTypeOK, NEW c \in Calls, JsSend(c),
         UNCHANGED <<sub, parsing, response, broken, answered>>, canceling' \subseteq Calls
  PROVE  JsTypeOK'
<1>1. PICK k \in Sockets : k = Target
      BY JsTarget DEF JsSend
<1> QED
    BY <1>1 DEF JsTypeOK, JsSend

\* The subject is left alone, or it is without a websocket.
LEMMA JsCloseStep ==
  ASSUME JsTypeOK, NEW r, NEW p, CloseUnsubscribed(r, p)
  PROVE  \/ UNCHANGED subject
         \/ /\ current' = 0 /\ sends' = 0 /\ queue' = {}
            /\ current # 0 => \A c \in r : hears[c] # current
            /\ socket' \in [Sockets -> {"unused", "connecting", "open", "closing",
                                        "failed", "closed"}]
            /\ \A k \in Sockets : \/ socket'[k] = socket[k]
                                  \/ k = current /\ socket[k] = "open" /\ socket'[k] = "closing"
BY DEF JsTypeOK, CloseUnsubscribed, Reset

LEMMA JsTypeNext ==
  ASSUME JsTypeOK, JsParsingOK, [JsNext]_jsVars
  PROVE  JsTypeOK' /\ JsParsingOK'
<1> USE CallsAssumption, JsClientAssumption DEF JsTypeOK, JsParsingOK
<1>1. ASSUME NEW c \in Calls, JsRequest(c) PROVE JsTypeOK' /\ JsParsingOK'
      BY <1>1, JsSendType DEF JsRequest
<1>2. ASSUME NEW c \in Calls, JsCancel(c) PROVE JsTypeOK' /\ JsParsingOK'
      <2>1. CASE c \in Batches
            <3>1. PICK s \in Silent : JsSend(s)
                  BY <1>2, <2>1, Zenon DEF JsCancel
            <3> QED
                BY <1>2, <3>1, JsSendType DEF JsCancel
      <2>2. CASE c \notin Batches
            BY <1>2, <2>2 DEF JsCancel, subject
      <2> QED
          BY <2>1, <2>2
<1>3. ASSUME NEW k \in Sockets, NEW c \in Calls, Message(k, c)
      PROVE  JsTypeOK' /\ JsParsingOK'
      BY <1>3 DEF Message, Passes, subject
<1>4. ASSUME NEW c \in Calls, Resolve(c) PROVE JsTypeOK' /\ JsParsingOK'
      <2>1. Json(c, IF c \in Silent THEN "value" ELSE answered[c]) \in
              Answers \cup {"pending", "closed", "value", "error"}
            BY <1>4 DEF Json, Resolve
      <2>2. response' \in [Calls -> Answers \cup {"pending", "closed", "value", "error"}]
            BY <1>4, <2>1 DEF Resolve
      <2>3. {current', sends'} \subseteq Sockets \cup {0} /\ queue' \subseteq Calls /\
            socket' \in [Sockets -> {"unused", "connecting", "open", "closing",
                                     "failed", "closed"}]
            BY <1>4, JsCloseStep DEF Resolve, subject
      <2> QED
          BY <1>4, <2>2, <2>3 DEF Resolve
<1>5. ASSUME NEW c \in Calls, Progress(c) PROVE JsTypeOK' /\ JsParsingOK'
      BY <1>5, JsCloseStep DEF Progress, subject
<1>6. ASSUME NEW k \in Sockets, Open(k) PROVE JsTypeOK' /\ JsParsingOK'
      BY <1>6 DEF Open
<1>7. ASSUME NEW k \in Sockets, NEW clean \in BOOLEAN, End(k, clean),
             socket' \in [Sockets -> {"unused", "connecting", "open", "closing",
                                      "failed", "closed"}]
      PROVE  JsTypeOK' /\ JsParsingOK'
      BY <1>7 DEF End, Reset
<1>8. ASSUME NEW k \in Sockets, Ended(k) PROVE JsTypeOK' /\ JsParsingOK'
      <2>1. CASE Broken(k)
            BY <1>7, <2>1 DEF Broken
      <2>2. ASSUME NEW clean \in BOOLEAN, Closed(k, clean) PROVE JsTypeOK' /\ JsParsingOK'
            BY <1>7, <2>2 DEF Closed
      <2> QED
          BY <1>8, <2>1, <2>2 DEF Ended
<1>9. CASE Disconnect
      BY <1>9 DEF Disconnect, Reset
<1>10. CASE UNCHANGED jsVars
      BY <1>10 DEF jsVars, subject
<1> QED
    BY <1>1, <1>2, <1>3, <1>4, <1>5, <1>6, <1>8, <1>9, <1>10 DEF JsNext

(***************************************************************************)
(* A call is given its own answer.                                         *)
(***************************************************************************)

JsGivenOK ==
  \A c \in Calls \ Silent : response[c] \notin {"pending", "closed"} =>
    /\ answered[c] # "none"
    /\ \/ response[c] = answered[c]
       \/ c \in Batches /\ answered[c] = "falsy" /\ response[c] = "error"

LEMMA JsGivenNext ==
  ASSUME JsTypeOK, JsParsingOK, JsGivenOK, [JsNext]_jsVars
  PROVE  JsGivenOK'
<1>1. CASE UNCHANGED <<response, answered>>
      BY <1>1 DEF JsGivenOK
<1>2. ASSUME NEW k \in Sockets, NEW c \in Calls, Message(k, c) PROVE JsGivenOK'
      BY <1>2 DEF JsTypeOK, JsGivenOK, Message
<1>3. ASSUME NEW c \in Calls, Resolve(c) PROVE JsGivenOK'
      <2>1. UNCHANGED answered
            BY <1>3 DEF Resolve
      <2>2. \A d \in Calls \ Silent :
              response'[d] = IF d = c THEN Json(c, answered[c]) ELSE response[d]
            BY <1>3 DEF JsTypeOK, Resolve
      <2>3. answered[c] # "none" \/ c \in Silent
            BY <1>3 DEF JsParsingOK, Resolve
      <2> QED
          BY <2>1, <2>2, <2>3 DEF JsGivenOK, Json
<1>4. ASSUME NEW k \in Sockets, NEW clean \in BOOLEAN, End(k, clean) PROVE JsGivenOK'
      BY <1>4 DEF JsGivenOK, End
<1>5. ASSUME NEW k \in Sockets, Ended(k) PROVE JsGivenOK'
      BY <1>4, <1>5 DEF Ended, Broken, Closed
<1> QED
    BY <1>1, <1>2, <1>3, <1>5
    DEF JsNext, jsVars, JsRequest, JsCancel, Progress, Open, Disconnect

\* client.ts:410, 421, createResponseFilter() and createBatchResponseFilter() on
\* the stream that all calls share: for any number of calls that are sent,
\* cancelled and answered in any order, over any number of connections, what the
\* promise of a call gives is what was answered to it, but for a result of a
\* batch that is false in JavaScript, which is thrown for an error.
THEOREM JsAnswersOwn == JsSpec => []JsOwnAnswer
<1> DEFINE I == JsTypeOK /\ JsParsingOK /\ JsGivenOK
<1>1. JsInit => I
      BY JsTypeInit DEF JsInit, JsGivenOK
<1>2. I /\ [JsNext]_jsVars => I'
      BY JsTypeNext, JsGivenNext
<1>3. I => JsOwnAnswer
      BY DEF JsGivenOK, JsOwnAnswer
<1> QED
    BY <1>1, <1>2, <1>3, PTL DEF JsSpec

(***************************************************************************)
(* An answer that has come is kept.                                        *)
(***************************************************************************)

\* Of the current websocket, if it was not made too early, the subject knows
\* whether it is open; and what is kept was requested while it was current.
JsSocketsOK ==
  /\ current # 0 => socket[current] \in {"connecting", "open"}
  /\ current \notin early \cup {0} =>
       /\ \A j \in Sockets \ {current} : socket[j] \in {"unused", "closed"}
       /\ sends = IF socket[current] = "open" THEN current ELSE 0
  /\ sends # 0 => socket[sends] = "open"
  /\ \A c \in queue : sends = 0 /\ current # 0 /\ hears[c] = current /\ at[c] = 0

JsMadeOK ==
  \A c \in Calls :
    /\ ~Made(c) => /\ response[c] = "pending" /\ answered[c] = "none" /\ at[c] = 0
                   /\ c \notin listening \cup queue \cup parsing
    /\ answered[c] # "none" => at[c] # 0

\* A call listens where its message was or will be sent, and an answer that it
\* listens for is being deserialised.
JsHeardOK ==
  \A c \in listening :
    /\ hears[c] \notin early => at[c] = hears[c] \/ c \in queue
    /\ at[c] = hears[c] /\ answered[c] \notin {"none", "null"} => c \in parsing

\* No answer comes to a call that was told of the end of its connection.
JsToldOK ==
  \A c \in Calls : response[c] = "closed" /\ hears[c] \notin early /\ c \notin broken =>
    /\ answered[c] \in {"none", "null"}
    /\ c \notin queue
    /\ at[c] # 0 => socket[at[c]] \in {"failed", "closed"}

JsCallsOK == JsMadeOK /\ JsHeardOK /\ JsToldOK

LEMMA JsKeptSend ==
  ASSUME JsTypeOK, JsSocketsOK, JsCallsOK, NEW c \in Calls,
         ~Made(c), JsSend(c), UNCHANGED <<parsing, response, broken, answered>>
  PROVE  JsSocketsOK' /\ JsCallsOK'
<1>1. PICK k \in Sockets : k = Target
      BY JsTarget DEF JsSend
<1>2. IF current # 0 THEN k = current ELSE socket[k] = "unused"
      BY <1>1, JsTarget DEF JsSend
<1>3. /\ current' = k
      /\ socket' = [socket EXCEPT ![k] = IF @ = "unused" THEN "connecting" ELSE @]
      /\ early' = IF current = 0 /\ \E j \in Sockets : socket[j] \notin {"unused", "closed"}
                     THEN early \cup {k} ELSE early
      /\ hears' = [hears EXCEPT ![c] = k]
      /\ listening' = listening \cup {c}
      /\ UNCHANGED sends
      BY <1>1 DEF JsSend
<1>4. IF sends # 0 THEN at' = [at EXCEPT ![c] = sends] /\ queue' = queue
                   ELSE at' = at /\ queue' = queue \cup {c}
      BY DEF JsSend
<1>5. /\ at[c] = 0 /\ response[c] = "pending" /\ answered[c] = "none"
      /\ c \notin queue \cup listening
      BY DEF Made, JsCallsOK, JsMadeOK
<1>6. k # 0 /\ early \subseteq early' /\ sends \in Sockets \cup {0}
      BY <1>3 DEF JsTypeOK, Sockets
<1> USE DEF JsTypeOK
<1>7. current = 0 /\ k \notin early' => \A j \in Sockets : socket[j] \in {"unused", "closed"}
      BY <1>3
<1>8. k \notin early' => sends = IF socket[k] = "open" THEN k ELSE 0
      BY <1>2, <1>3, <1>6, <1>7 DEF JsSocketsOK
<1>9. socket'[k] \in {"connecting", "open"} /\ (socket'[k] = "open" <=> socket[k] = "open")
      BY <1>2, <1>3, <1>6 DEF JsSocketsOK
<1>10. JsSocketsOK'
      <2>1. k \notin early' => \A j \in Sockets \ {k} : socket'[j] \in {"unused", "closed"}
            BY <1>2, <1>3, <1>6, <1>7 DEF JsSocketsOK
      <2>2. sends # 0 => socket'[sends] = "open"
            BY <1>3, <1>6, <1>9 DEF JsSocketsOK
      <2>3. \A d \in queue' : sends' = 0 /\ hears'[d] = k /\ at'[d] = 0
            BY <1>2, <1>3, <1>4, <1>5 DEF JsSocketsOK
      <2> QED
          BY <1>3, <1>6, <1>8, <1>9, <2>1, <2>2, <2>3 DEF JsSocketsOK
<1>11. JsMadeOK'
      BY <1>3, <1>4, <1>5, <1>6 DEF Made, JsCallsOK, JsMadeOK
<1>12. JsHeardOK'
      <2>1. SUFFICES ASSUME NEW d \in listening'
                     PROVE  /\ hears'[d] \notin early' => at'[d] = hears'[d] \/ d \in queue'
                            /\ at'[d] = hears'[d] /\ answered'[d] \notin {"none", "null"} =>
                                 d \in parsing'
            BY DEF JsHeardOK
      <2>2. CASE d = c
            BY <1>3, <1>4, <1>5, <1>8, <2>2
      <2>3. CASE d # c
            BY <1>3, <1>4, <1>6, <2>1, <2>3 DEF JsCallsOK, JsHeardOK
      <2> QED
          BY <2>2, <2>3
<1>13. JsToldOK'
      BY <1>2, <1>3, <1>4, <1>5, <1>6 DEF JsCallsOK, JsToldOK
<1> QED
    BY <1>10, <1>11, <1>12, <1>13 DEF JsCallsOK

\* Steps by which subscriptions end.
LEMMA JsKeptClose ==
  ASSUME JsTypeOK, JsSocketsOK, JsCallsOK,
         NEW r, NEW p, r = listening', CloseUnsubscribed(r, p) \/ UNCHANGED subject,
         UNCHANGED <<hears, at, early, broken, answered>>,
         listening' \subseteq listening, parsing' \subseteq parsing,
         parsing \cap listening' \subseteq parsing',
         \A c \in Calls : response'[c] # response[c] => Made(c) /\ response'[c] # "closed"
  PROVE  JsSocketsOK' /\ JsCallsOK'
<1> USE DEF JsTypeOK
<1>1. CASE UNCHANGED subject
      <2>1. UNCHANGED <<socket, current, sends, queue>>
            BY <1>1 DEF subject
      <2>2. JsSocketsOK'
            BY <2>1 DEF JsSocketsOK
      <2>3. JsMadeOK'
            BY <2>1 DEF Made, JsCallsOK, JsMadeOK
      <2>4. JsHeardOK' /\ JsToldOK'
            BY <2>1 DEF JsCallsOK, JsHeardOK, JsToldOK
      <2> QED
          BY <2>2, <2>3, <2>4 DEF JsCallsOK
<1>2. CASE ~UNCHANGED subject
      <2>1. /\ current' = 0 /\ sends' = 0 /\ queue' = {}
            /\ current # 0 => \A c \in listening' : hears[c] # current
            /\ \A k \in Sockets : \/ socket'[k] = socket[k]
                                  \/ k = current /\ socket[k] = "open" /\ socket'[k] = "closing"
            BY <1>2, JsCloseStep
      <2>2. JsSocketsOK'
            BY <2>1 DEF JsSocketsOK
      <2>3. JsMadeOK'
            BY <2>1 DEF Made, JsCallsOK, JsMadeOK
      <2>4. JsHeardOK'
            BY <2>1 DEF JsSocketsOK, JsCallsOK, JsHeardOK
      <2>5. JsToldOK'
            BY <2>1 DEF JsCallsOK, JsToldOK
      <2> QED
          BY <2>2, <2>3, <2>4, <2>5 DEF JsCallsOK
<1> QED
    BY <1>1, <1>2

LEMMA JsKeptEnd ==
  ASSUME JsTypeOK, JsSocketsOK, JsCallsOK, NEW k \in Sockets, NEW clean \in BOOLEAN,
         End(k, clean), socket[k] \notin {"unused", "closed"},
         clean => socket[k] # "connecting",
         NEW s \in {"failed", "closed"}, socket' = [socket EXCEPT ![k] = s]
  PROVE  JsSocketsOK' /\ JsCallsOK'
<1> DEFINE rejected == Rejected(k, clean)
<1>1. /\ current' = 0 /\ sends' = 0 /\ queue' = {}
      /\ listening' = listening \ rejected
      /\ parsing' = parsing \ rejected
      /\ broken' = broken \cup (IF clean THEN {} ELSE parsing \cap rejected)
      /\ \A c \in Calls : response'[c] = IF c \in rejected THEN "closed" ELSE response[c]
      /\ UNCHANGED <<hears, at, early, answered>>
      BY DEF End, Reset
<1>2. \A c \in Calls : c \in rejected <=> c \in listening /\ hears[c] = k /\ (clean => c \notin parsing)
      BY DEF Rejected, JsTypeOK
<1> HIDE DEF rejected
<1> USE DEF JsTypeOK
<1>3. k # 0
      BY DEF Sockets
<1>4. JsSocketsOK'
      BY <1>1 DEF JsSocketsOK
<1>5. JsMadeOK'
      BY <1>1, <1>2, <1>3 DEF Made, JsCallsOK, JsMadeOK
<1>6. \A c \in queue : hears[c] \notin early => hears[c] = k /\ socket[k] = "connecting"
      <2>1. SUFFICES ASSUME NEW c \in queue, hears[c] \notin early
                     PROVE  hears[c] = k /\ socket[k] = "connecting"
            OBVIOUS
      <2>2. current # 0 /\ hears[c] = current /\ sends = 0
            BY DEF JsSocketsOK
      <2> QED
          BY <2>1, <2>2 DEF JsSocketsOK
<1>7. JsHeardOK'
      <2>1. \A c \in listening' : c \in listening /\ c \notin rejected
            BY <1>1
      <2>2. \A c \in listening' : c \in queue => hears[c] \in early
            BY <1>2, <1>6, <2>1
      <2> QED
          BY <1>1, <2>1, <2>2 DEF JsCallsOK, JsHeardOK
<1>8. JsToldOK'
      <2>1. SUFFICES ASSUME NEW c \in Calls, response'[c] = "closed", hears[c] \notin early,
                            c \notin broken'
                     PROVE  /\ answered[c] \in {"none", "null"}
                            /\ at[c] # 0 => socket'[at[c]] \in {"failed", "closed"}
            BY <1>1 DEF JsToldOK
      <2>2. CASE c \in rejected
            <3>1. c \in listening /\ hears[c] = k
                  BY <1>2, <2>2
            <3>2. at[c] = k \/ at[c] = 0
                  BY <2>1, <3>1 DEF JsCallsOK, JsHeardOK, JsSocketsOK
            <3>3. answered[c] # "none" => at[c] = k
                  BY <3>2 DEF JsCallsOK, JsMadeOK
            <3>4. c \notin parsing
                  BY <1>1, <1>2, <2>1, <2>2
            <3> QED
                BY <3>1, <3>2, <3>3, <3>4 DEF JsCallsOK, JsHeardOK
      <2>3. CASE c \notin rejected
            BY <1>1, <2>1, <2>3 DEF JsCallsOK, JsToldOK
      <2> QED
          BY <2>2, <2>3
<1> QED
    BY <1>4, <1>5, <1>7, <1>8 DEF JsCallsOK

LEMMA JsKeptMessage ==
  ASSUME JsTypeOK, JsSocketsOK, JsCallsOK, NEW k \in Sockets, NEW c \in Calls, Message(k, c)
  PROVE  JsSocketsOK' /\ JsCallsOK'
<1>1. PICK answer \in Answers :
        /\ answered' = [answered EXCEPT ![c] = answer]
        /\ parsing' = parsing \cup (IF answer = "null" THEN {}
                                     ELSE {d \in Passes(c) \cap listening : hears[d] = k})
      BY Zenon DEF Message
<1>2. /\ socket[k] = "open" /\ at[c] = k /\ answered[c] = "none"
      /\ UNCHANGED <<socket, current, sends, queue, hears, listening, response, at, early, broken>>
      BY DEF Message, subject
<1>3. parsing \subseteq parsing'
      /\ (answer # "null" /\ c \in listening /\ hears[c] = k => c \in parsing')
      BY <1>1 DEF Passes
<1>4. k # 0
      BY DEF Sockets
<1>5. \A d \in Calls : d # c => answered'[d] = answered[d]
      BY <1>1 DEF JsTypeOK
<1>6. answered'[c] = answer
      BY <1>1 DEF JsTypeOK
<1> USE DEF JsTypeOK
<1>7. JsSocketsOK'
      BY <1>2 DEF JsSocketsOK
<1>8. JsMadeOK'
      BY <1>1, <1>2, <1>4, <1>5 DEF Made, JsCallsOK, JsMadeOK
<1>9. JsHeardOK'
      BY <1>2, <1>3, <1>5, <1>6 DEF JsCallsOK, JsHeardOK
<1>10. JsToldOK'
      BY <1>2, <1>4, <1>5 DEF JsCallsOK, JsToldOK
<1> QED
    BY <1>7, <1>8, <1>9, <1>10 DEF JsCallsOK

LEMMA JsKeptOpen ==
  ASSUME JsTypeOK, JsSocketsOK, JsCallsOK, NEW k \in Sockets, Open(k)
  PROVE  JsSocketsOK' /\ JsCallsOK'
<1>1. /\ socket[k] = "connecting" /\ socket' = [socket EXCEPT ![k] = "open"]
      /\ sends' = k /\ queue' = {}
      /\ \A c \in Calls : at'[c] = IF c \in queue THEN k ELSE at[c]
      /\ UNCHANGED <<current, hears, listening, parsing, response, early, broken, answered>>
      BY DEF Open
<1>2. k # 0
      BY DEF Sockets
<1>3. current \notin early \cup {0} => k = current
      BY <1>1 DEF JsTypeOK, JsSocketsOK
<1> USE DEF JsTypeOK
<1>4. JsSocketsOK'
      BY <1>1, <1>2, <1>3 DEF JsSocketsOK
<1>5. JsMadeOK'
      BY <1>1, <1>2 DEF Made, JsCallsOK, JsMadeOK
<1>6. JsHeardOK'
      <2>1. \A c \in queue : answered[c] = "none" /\ (hears[c] \notin early => hears[c] = k)
            BY <1>3 DEF JsSocketsOK, JsCallsOK, JsMadeOK
      <2> QED
          BY <1>1, <2>1 DEF JsCallsOK, JsHeardOK
<1>7. JsToldOK'
      BY <1>1 DEF JsCallsOK, JsToldOK
<1> QED
    BY <1>4, <1>5, <1>6, <1>7 DEF JsCallsOK

LEMMA JsKeptNext ==
  ASSUME JsTypeOK, JsParsingOK, JsSocketsOK, JsCallsOK, [JsNext]_jsVars
  PROVE  JsSocketsOK' /\ JsCallsOK'
<1>1. ASSUME NEW c \in Calls, JsRequest(c) PROVE JsSocketsOK' /\ JsCallsOK'
      BY <1>1, JsKeptSend DEF JsRequest
<1>2. CASE UNCHANGED <<subject, hears, listening, parsing, response, at, early, broken, answered>>
      <2>1. UNCHANGED <<socket, current, sends, queue>>
            BY <1>2 DEF subject
      <2>2. JsSocketsOK'
            BY <1>2, <2>1 DEF JsSocketsOK
      <2>3. JsCallsOK'
            BY <1>2, <2>1 DEF Made, JsCallsOK, JsMadeOK, JsHeardOK, JsToldOK
      <2> QED
          BY <2>2, <2>3
<1>3. ASSUME NEW c \in Calls, JsCancel(c) PROVE JsSocketsOK' /\ JsCallsOK'
      <2>1. CASE c \in Batches
            <3>1. PICK s \in Silent : ~Made(s) /\ JsSend(s)
                  BY <1>3, <2>1, Zenon DEF JsCancel
            <3> QED
                BY <1>3, <3>1, JsKeptSend, CallsAssumption DEF JsCancel
      <2>2. CASE c \notin Batches
            BY <1>2, <1>3, <2>2 DEF JsCancel
      <2> QED
          BY <2>1, <2>2
<1>4. ASSUME NEW c \in Calls, Resolve(c) PROVE JsSocketsOK' /\ JsCallsOK'
      <2>1. \A d \in Calls : response'[d] = IF d = c
              THEN Json(c, IF c \in Silent THEN "value" ELSE answered[c]) ELSE response[d]
            BY <1>4 DEF JsTypeOK, Resolve
      <2>2. Json(c, IF c \in Silent THEN "value" ELSE answered[c]) # "closed"
            BY JsClientAssumption, <1>4 DEF Json, Resolve, JsTypeOK, JsParsingOK
      <2>3. Made(c)
            BY <1>4 DEF JsCallsOK, JsMadeOK, Resolve
      <2> QED
          BY <1>4, <2>1, <2>2, <2>3, JsKeptClose DEF Resolve
<1>5. ASSUME NEW c \in Calls, Progress(c) PROVE JsSocketsOK' /\ JsCallsOK'
      BY <1>5, JsKeptClose DEF Progress
<1>6. ASSUME NEW k \in Sockets, Ended(k) PROVE JsSocketsOK' /\ JsCallsOK'
      BY <1>6, JsKeptEnd DEF Ended, Broken, Closed
<1>7. CASE Disconnect
      <2>1. /\ sends # 0 /\ socket' = [socket EXCEPT ![sends] = "closing"]
            /\ current' = 0 /\ sends' = 0 /\ queue' = {}
            /\ UNCHANGED <<hears, listening, parsing, response, at, early, broken, answered>>
            BY <1>7 DEF Disconnect, Reset
      <2>2. queue = {} /\ socket[sends] = "open"
            BY <2>1 DEF JsSocketsOK
      <2> USE DEF JsTypeOK
      <2>3. JsSocketsOK' /\ JsMadeOK' /\ JsHeardOK'
            BY <2>1, <2>2 DEF JsSocketsOK, Made, JsCallsOK, JsMadeOK, JsHeardOK
      <2>4. JsToldOK'
            BY <2>1, <2>2 DEF JsCallsOK, JsToldOK
      <2> QED
          BY <2>3, <2>4 DEF JsCallsOK
<1> QED
    BY <1>1, <1>2, <1>3, <1>4, <1>5, <1>6, <1>7, JsKeptMessage, JsKeptOpen DEF JsNext, jsVars

\* client.ts:184, "Socket connection closed", README.md:134 of js: however many
\* calls share the connections, a call whose answer has come, in order or not, is
\* not told that its connection closed, and the message of one that waits is kept
\* or was sent where it listens, for as long as the websocket that it listens on
\* was made after the others had ended; but for an error without its id, and a
\* connection that breaks while the answer is deserialised.
THEOREM JsAnswersKept == JsSpec => []KeptAnswer
<1> DEFINE I == JsTypeOK /\ JsParsingOK /\ JsSocketsOK /\ JsCallsOK
<1>1. JsInit => I
      BY JsTypeInit, CallsAssumption, JsClientAssumption
      DEF JsInit, Sockets, JsSocketsOK, Made, JsCallsOK, JsMadeOK, JsHeardOK, JsToldOK
<1>2. I /\ [JsNext]_jsVars => I'
      BY JsTypeNext, JsKeptNext
<1>3. I => KeptAnswer
      BY DEF JsTypeOK, JsCallsOK, JsHeardOK, JsToldOK, KeptAnswer, Unheard
<1> QED
    BY <1>1, <1>2, <1>3, PTL DEF JsSpec
=============================================================================
