------------------------------- MODULE PyClient -------------------------------
(***************************************************************************)
(* rockets.AsyncClient, python/rockets/async_client.py: requests, batches, *)
(* their cancellation and the stream of messages, as coroutines of one     *)
(* event loop.  What is done between two awaits is one step, and so is a   *)
(* connection that is made and the coroutine that was waiting for it.      *)
(*                                                                         *)
(* The first subscription to the stream starts the task that reads the     *)
(* messages, _ws_loop(); much may happen before its first step.            *)
(***************************************************************************)
EXTENDS ClientCalls, Sequences, FiniteSets

CONSTANTS
  LoopReaches  \* whether the connection that _ws_loop() makes may succeed, and
               \* may fail: a set of BOOLEANs

\* An answer "code" is an object with a member of that name.
ASSUME PyClientAssumption ==
  /\ Answers \subseteq {"value", "falsy", "error", "code"}
  /\ LoopReaches \subseteq BOOLEAN

VARIABLES
  ws,       \* _ws: the websocket that was assigned last, 0 for None
  stream,   \* ws_observable: "cold", "scheduled", "connecting", "reading",
            \* "completed", or "failed" when _ws_loop() could not connect
  reads,    \* the websocket that _ws_loop() makes or reads from
  pc,       \* where a call is; "notify" when it is cancelled and connects
  on,       \* the websocket it makes or has sent its message on
  future,   \* its response_future: "pending", an answer, "closed", "cancelled"
  filters,  \* the calls whose response filter is subscribed
  server,   \* the messages a server has not answered yet, per websocket
  inbox,    \* the calls whose answers are on their way back, per websocket
  astray    \* the websockets that were made while another was being made, or were
            \* closed before _ws_loop() had begun

vars == <<socket, ws, stream, reads, pc, on, future, filters, server, inbox, astray, answered>>

Init ==
  /\ socket = [k \in Sockets |-> "unused"]
  /\ ws = 0
  /\ stream = "cold"
  /\ reads = 0
  /\ pc = [c \in Calls |-> "new"]
  /\ on = [c \in Calls |-> 0]
  /\ future = [c \in Calls |-> "pending"]
  /\ filters = {}
  /\ server = [k \in Sockets |-> {}]
  /\ inbox = [k \in Sockets |-> <<>>]
  /\ astray = {}
  /\ answered = [c \in Calls |-> "none"]

Connected == ws # 0 /\ socket[ws] = "open"

Connecting == {c \in Calls : pc[c] \in {"connect", "notify"}}

Goto(c, label) == pc' = [pc EXCEPT ![c] = label]

\* websockets.connect() makes websocket k; sockets is what has become of the
\* others.
Make(k, sockets) ==
  LET making == {j \in Sockets : sockets[j] = "connecting"}
  IN  /\ k \in Unused
      /\ \A j \in Unused : k <= j
      /\ astray' = IF making = {} THEN astray ELSE astray \cup making \cup {k}

\* connect() of a coroutine, up to the await.  The bound leaves a websocket to
\* _ws_loop().
Connect(k, sockets) ==
  /\ Make(k, sockets)
  /\ stream \in {"cold", "scheduled"} => k < MaxSockets
  /\ socket' = [sockets EXCEPT ![k] = "connecting"]

-----------------------------------------------------------------------------
(***************************************************************************)
(* request() and batch().                                                  *)
(***************************************************************************)

\* Variant: a stream that is completed is subscribed to like any other.
SetupResponseFilterAnyway(c) ==
  /\ filters' = filters \cup {c}
  /\ stream' = IF stream = "cold" THEN "scheduled" ELSE stream
  /\ UNCHANGED future

\* _setup_response_filter(): the first subscriber starts _ws_loop(); a stream
\* that is completed says so at once.
SetupResponseFilter(c) ==
  IF stream = "completed"
    THEN /\ future' = [future EXCEPT ![c] = "closed"]
         /\ UNCHANGED <<filters, stream>>
    ELSE /\ filters' = filters \cup {c}
         /\ stream' = IF stream = "cold" THEN "scheduled" ELSE stream
         /\ UNCHANGED future

\* send() on the open websocket k.
Send(c, k) ==
  /\ server' = [server EXCEPT ![k] = IF c \in Silent THEN @ ELSE @ \cup {c}]
  /\ on' = [on EXCEPT ![c] = k]
  /\ Goto(c, "wait")

\* Connected or not, the filters are set up and the message is sent without an
\* await in between.
Request(c) ==
  /\ pc[c] = "new"
  /\ IF Connected
       THEN /\ SetupResponseFilter(c)
            /\ Send(c, ws)
            /\ UNCHANGED <<socket, astray>>
       ELSE /\ \E k \in Sockets : Connect(k, socket) /\ on' = [on EXCEPT ![c] = k]
            /\ Goto(c, "connect")
            /\ UNCHANGED <<stream, future, filters, server>>
  /\ UNCHANGED <<ws, reads, inbox, answered>>

RequestConnected(c) ==
  /\ pc[c] = "connect"
  /\ socket' = [socket EXCEPT ![on[c]] = "open"]
  /\ ws' = on[c]
  /\ SetupResponseFilter(c)
  /\ Send(c, on[c])
  /\ UNCHANGED <<reads, inbox, astray, answered>>

\* The exception of websockets.connect() leaves the coroutine.
ConnectFails(c) ==
  /\ c \in Connecting
  /\ socket' = [socket EXCEPT ![on[c]] = "closed"]
  /\ Goto(c, "raised")
  /\ UNCHANGED <<ws, stream, reads, on, future, filters, server, inbox, astray, answered>>

\* response_future is done.
Wake(c) ==
  /\ pc[c] = "wait"
  /\ future[c] # "pending"
  /\ Goto(c, "done")
  /\ UNCHANGED <<socket, ws, stream, reads, on, future, filters, server, inbox, astray, answered>>

\* task.cancel(): what the coroutine awaits is cancelled, and notify("cancel")
\* connects when it has to.  An answer that has come and was not seen is lost.
Cancel(c) ==
  /\ pc[c] \in {"connect", "wait"}
  /\ LET sockets == IF pc[c] = "connect"
                      THEN [socket EXCEPT ![on[c]] = "closed"] ELSE socket
     IN  IF Connected
           THEN /\ socket' = sockets
                /\ Goto(c, "cancelled")
                /\ UNCHANGED <<on, astray>>
           ELSE /\ \E k \in Sockets : /\ Connect(k, sockets)
                                      /\ on' = [on EXCEPT ![c] = k]
                /\ Goto(c, "notify")
  /\ future' = [future EXCEPT ![c] =
                  IF pc[c] = "wait" /\ @ = "pending" THEN "cancelled" ELSE @]
  /\ UNCHANGED <<ws, stream, reads, filters, server, inbox, answered>>

NotifyConnected(c) ==
  /\ pc[c] = "notify"
  /\ socket' = [socket EXCEPT ![on[c]] = "open"]
  /\ ws' = on[c]
  /\ Goto(c, "cancelled")
  /\ UNCHANGED <<stream, reads, on, future, filters, server, inbox, astray, answered>>

-----------------------------------------------------------------------------
(***************************************************************************)
(* The stream of messages.                                                 *)
(***************************************************************************)

\* The application subscribes to the notifications of the server.
Subscribe ==
  /\ stream = "cold"
  /\ stream' = "scheduled"
  /\ UNCHANGED <<socket, ws, reads, pc, on, future, filters, server, inbox, astray, answered>>

\* _ws_loop(): what _ws is when connect() returns is read, then and for ever.
WsLoop ==
  /\ stream = "scheduled"
  /\ IF Connected
       THEN /\ stream' = "reading"
            /\ reads' = ws
            /\ UNCHANGED <<socket, astray>>
       ELSE /\ stream' = "connecting"
            /\ \E k \in Sockets : /\ Make(k, socket)
                                  /\ socket' = [socket EXCEPT ![k] = "connecting"]
                                  /\ reads' = k
  /\ UNCHANGED <<ws, pc, on, future, filters, server, inbox, answered>>

\* An exception of connect() is awaited by nobody: the stream neither goes on
\* nor ends.
WsLoopConnects ==
  /\ stream = "connecting"
  /\ \E reached \in LoopReaches :
       /\ socket' = [socket EXCEPT ![reads] = IF reached THEN "open" ELSE "closed"]
       /\ ws' = IF reached THEN reads ELSE ws
       /\ stream' = IF reached THEN "reading" ELSE "failed"
  /\ UNCHANGED <<reads, pc, on, future, filters, server, inbox, astray, answered>>

\* _to_response() and _on_next(): the members of a batch are kept as they are,
\* a result that is false in Python is not found, and an object with a code is
\* taken for an error.
ToResponse(c, answer) ==
  IF c \in Batches THEN answer
  ELSE CASE answer = "falsy" -> "none"
         [] answer = "code" -> "error"
         [] OTHER -> answer

\* Variant: the first response is taken for the one that is waited for.
OnNextFirst ==
  LET c == Head(inbox[reads]) IN
  /\ stream = "reading"
  /\ inbox[reads] # <<>>
  /\ inbox' = [inbox EXCEPT ![reads] = Tail(@)]
  /\ filters' = {}
  /\ future' = [d \in Calls |-> IF d \in filters /\ future[d] = "pending"
                                  THEN ToResponse(c, answered[c]) ELSE future[d]]
  /\ UNCHANGED <<socket, ws, stream, reads, pc, on, server, astray, answered>>

\* on_next() of an answer, for the filter with its id, if it is still there.
OnNext ==
  LET c == Head(inbox[reads]) IN
  /\ stream = "reading"
  /\ inbox[reads] # <<>>
  /\ inbox' = [inbox EXCEPT ![reads] = Tail(@)]
  /\ filters' = filters \ {c}
  /\ future' = [future EXCEPT ![c] = IF c \in filters /\ @ = "pending"
                                       THEN ToResponse(c, answered[c]) ELSE @]
  /\ UNCHANGED <<socket, ws, stream, reads, pc, on, server, astray, answered>>

\* Variant: the loop ends without a word.
OnCompletedNever ==
  /\ stream = "reading"
  /\ socket[reads] = "closed"
  /\ inbox[reads] = <<>>
  /\ stream' = "completed"
  /\ UNCHANGED <<socket, ws, reads, pc, on, future, filters, server, inbox, astray, answered>>

\* on_completed(), after the messages that had arrived.
OnCompleted ==
  /\ stream = "reading"
  /\ socket[reads] = "closed"
  /\ inbox[reads] = <<>>
  /\ stream' = "completed"
  /\ future' = [c \in Calls |-> IF c \in filters /\ future[c] = "pending"
                                  THEN "closed" ELSE future[c]]
  /\ filters' = {}
  /\ UNCHANGED <<socket, ws, reads, pc, on, server, inbox, astray, answered>>

-----------------------------------------------------------------------------
(***************************************************************************)
(* The application on its own, and the servers.                            *)
(***************************************************************************)

\* connect() by the application.
ConnectAlone ==
  /\ ~Connected
  /\ \E k \in Sockets : /\ Make(k, socket)
                        /\ stream \in {"cold", "scheduled"} => k < MaxSockets
                        /\ socket' = [socket EXCEPT ![k] = "open"]
                        /\ ws' = k
  /\ UNCHANGED <<stream, reads, pc, on, future, filters, server, inbox, answered>>

Answer(k, c) ==
  /\ socket[k] = "open"
  /\ c \in server[k]
  /\ server' = [server EXCEPT ![k] = @ \ {c}]
  /\ inbox' = [inbox EXCEPT ![k] = Append(@, c)]
  /\ \E answer \in Answers : answered' = [answered EXCEPT ![c] = answer]
  /\ UNCHANGED <<socket, ws, stream, reads, pc, on, future, filters, astray>>

\* By a server, or by disconnect().
Close(k) ==
  /\ socket[k] = "open"
  /\ socket' = [socket EXCEPT ![k] = "closed"]
  /\ astray' = IF stream = "scheduled" THEN astray \cup {k} ELSE astray
  /\ UNCHANGED <<ws, stream, reads, pc, on, future, filters, server, inbox, answered>>

Connects(c) == RequestConnected(c) \/ NotifyConnected(c) \/ ConnectFails(c)
Loop == WsLoop \/ WsLoopConnects \/ OnNext \/ OnCompleted

Next ==
  \/ \E c \in Calls : Request(c) \/ Connects(c) \/ Wake(c) \/ Cancel(c)
  \/ Subscribe \/ Loop \/ ConnectAlone
  \/ \E k \in Sockets : Close(k) \/ \E c \in Calls : Answer(k, c)

\* The event loop runs what is ready, a connection succeeds or fails, and a
\* server answers or closes.
Fairness ==
  /\ WF_vars(Loop)
  /\ \A c \in Calls : WF_vars(Connects(c)) /\ WF_vars(Wake(c))
  /\ \A c \in Calls, k \in Sockets : WF_vars(Answer(k, c) \/ (c \in server[k] /\ Close(k)))

Spec == Init /\ [][Next]_vars /\ Fairness

-----------------------------------------------------------------------------
(***************************************************************************)
(* Properties.                                                             *)
(***************************************************************************)

\* Every variable has its type.
TypeOK ==
  /\ socket \in [Sockets -> {"unused", "connecting", "open", "closed"}]
  /\ ws \in 0 .. MaxSockets
  /\ stream \in {"cold", "scheduled", "connecting", "reading", "completed", "failed"}
  /\ reads \in 0 .. MaxSockets
  /\ pc \in [Calls -> {"new", "connect", "notify", "wait", "done", "raised", "cancelled"}]
  /\ on \in [Calls -> 0 .. MaxSockets]
  /\ future \in [Calls -> Answers \cup {"pending", "closed", "cancelled", "none", "error"}]
  /\ filters \subseteq Calls
  /\ server \in [Sockets -> SUBSET Calls]
  /\ inbox \in [Sockets -> Seq(Calls)]
  /\ astray \subseteq Sockets
  /\ answered \in [Calls -> Answers \cup {"none"}]

\* The call waits for what nobody reads.
Stranded(c) ==
  /\ pc[c] = "wait"
  /\ future[c] = "pending"
  /\ \/ stream = "failed"
     \/ stream = "reading" /\ reads # on[c] /\ socket[reads] # "closed"

\* async_client.py:112, 249: a call that waits is in the filters, and its message
\* was sent on the websocket that messages are read from, or will be; unless
\* _ws_loop() could not connect, or one of the two websockets was made while
\* another was being made, or closed before _ws_loop() had begun.
Heard ==
  \A c \in Calls :
    /\ pc[c] = "wait" /\ future[c] = "pending" =>
         c \in filters /\ stream \notin {"cold", "completed"}
    /\ Stranded(c) => stream = "failed" \/ on[c] \in astray \/ reads \in astray

\* async_client.py:152, "Invoke an RPC on the Rockets server and returns its
\* response": what a call returns or raises is what the server has answered to
\* it, among all that share the stream; but a single result that is false in
\* Python is found missing, and one with a member "code" is raised.
OwnAnswer ==
  \A c \in Calls : future[c] \notin {"pending", "closed", "cancelled"} =>
    \/ future[c] = answered[c]
    \/ c \notin Batches /\ answered[c] = "falsy" /\ future[c] = "none"
    \/ c \notin Batches /\ answered[c] = "code" /\ future[c] = "error"

\* request_error.py:35, "Socket connection closed": the error of that name is
\* for calls whose connection has been closed.
ClosedOnlyIfClosed ==
  \A c \in Calls : future[c] = "closed" => socket[on[c]] = "closed"

\* Every call that has an answer returns or raises in the end, or is stranded
\* for ever.
Settles ==
  \A c \in Calls \ Silent :
    \/ pc[c] # "new" ~> pc[c] \in {"done", "raised", "cancelled"}
    \/ <>[]Stranded(c)
=============================================================================
