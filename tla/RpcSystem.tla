------------------------------- MODULE RpcSystem -------------------------------
(***************************************************************************)
(* Clients and a server of JSON-RPC over WebSocket, together: the          *)
(* Requester of a jsonrpc::Client, the connections, and a jsonrpc::Server  *)
(* whose methods answer from threads of their own.                         *)
(*                                                                         *)
(* A step is a message that is sent, handled or received.  The threads     *)
(* inside of the receiver are in CancellableReceiver, calls inside of      *)
(* callbacks in Requester, queues and flags of the server in WsServer.     *)
(* The field `call' of a message is the call that it is about; the program *)
(* has only its id.                                                        *)
(***************************************************************************)
EXTENDS Naturals, Sequences, FiniteSets

CONSTANTS
  Clients,      \* jsonrpc::Clients, each with a ws::Client
  Calls,        \* the calls of request() they make
  ClientOf,     \* who makes a call
  Cancellable,  \* the calls of methods that were bound as cancellable
  Cancelling,   \* the calls that the application may cancel
  Leaving,      \* the clients that may be destroyed or lose their connection
  Addresses,    \* where the server may have a ws::Connection
  None          \* no id, call or address

ASSUME RpcAssumption ==
  /\ ClientOf \in [Calls -> Clients]
  /\ Cancellable \subseteq Calls
  /\ Cancelling \subseteq Calls
  /\ Leaving \subseteq Clients
  /\ IsFiniteSet(Calls)
  /\ None \notin Calls \cup Nat \cup Addresses

VARIABLES
  alive,      \* the clients whose Requester has not been destroyed
  link,       \* a client's end of its connection: "none", "open", "closed"
  conn,       \* the server's end
  address,    \* where the server has, or had, the ws::Connection of a client
  id,         \* the id of a call that was made
  pending,    \* pendingRequests of the clients
  asked,      \* the calls that have been cancelled
  up,         \* messages on their way from a client to the server
  down,       \* and from the server to a client
  table,      \* pendingRequests of the server: id -> call that has the respond
              \* function of the entry
  working,    \* the calls the methods of the application have to answer
  executed,   \* how often the method of a call was called
  finished,   \* the calls the application has answered
  dropped,    \* those whose answer found the table locked
  reported,   \* the calls whose progress has been reported
  heard,      \* the calls whose progress was received as that of a call
  result      \* what the callback of a call was called with

vars == <<alive, link, conn, address, id, pending, asked, up, down, table,
          working, executed, finished, dropped, reported, heard, result>>

clientVars == <<alive, id, pending, asked, heard, result>>
serverVars == <<table, working, executed, finished, dropped, reported>>

Ids == 0 .. Cardinality(Calls) - 1
Kinds == {"request", "cancel", "answer", "abort", "progress"}
Message(kind, i, c) == [kind |-> kind, id |-> i, call |-> c]

Init ==
  /\ alive = Clients
  /\ link = [a \in Clients |-> "none"]
  /\ conn = [a \in Clients |-> "none"]
  /\ address = [a \in Clients |-> None]
  /\ id = [c \in Calls |-> None]
  /\ pending = {}
  /\ asked = {}
  /\ up = [a \in Clients |-> <<>>]
  /\ down = [a \in Clients |-> <<>>]
  /\ table = [i \in Ids |-> None]
  /\ working = {}
  /\ executed = [c \in Calls |-> 0]
  /\ finished = {}
  /\ dropped = {}
  /\ reported = {}
  /\ heard = [c \in Calls |-> {}]
  /\ result = [c \in Calls |-> "none"]

-----------------------------------------------------------------------------
(***************************************************************************)
(* The connections.                                                        *)
(***************************************************************************)

\* The calls whose respond function exists: the application has it while it has to
\* answer, and the table has it.
Responding == working \cup {table[i] : i \in Ids}

\* Variant: the memory of a connection does not depend on weak pointers.
TakenWhileOpen(p) == \E b \in Clients : address[b] = p /\ conn[b] = "open"

\* A connection of make_shared() is where it is until the last weak pointer to it
\* has gone, which the respond functions of its calls have.
Taken(p) ==
  \E b \in Clients : /\ address[b] = p
                     /\ conn[b] = "open" \/ \E c \in Responding \cap Calls : ClientOf[c] = b

Connect(a) ==
  /\ link[a] = "none"
  /\ \E p \in Addresses :
       /\ ~Taken(p)
       /\ address' = [address EXCEPT ![a] = p]
  /\ link' = [link EXCEPT ![a] = "open"]
  /\ conn' = [conn EXCEPT ![a] = "open"]
  /\ UNCHANGED <<clientVars, serverVars, up, down>>

\* The client's end is lost; nobody tells the Requester.
ClientCloses(a) ==
  /\ a \in Leaving
  /\ link[a] = "open"
  /\ link' = [link EXCEPT ![a] = "closed"]
  /\ down' = [down EXCEPT ![a] = <<>>]
  /\ UNCHANGED <<clientVars, serverVars, conn, address, up>>

ServerCloses(a) ==
  /\ a \in Leaving
  /\ conn[a] = "open"
  /\ conn' = [conn EXCEPT ![a] = "closed"]
  /\ up' = [up EXCEPT ![a] = <<>>]
  /\ UNCHANGED <<clientVars, serverVars, link, address, down>>

-----------------------------------------------------------------------------
(***************************************************************************)
(* The clients.                                                            *)
(***************************************************************************)

\* Variant: an id is given out again once its request has been answered.
LastIdPending(a) == Cardinality({c \in pending : ClientOf[c] = a})

\* lastId of the Requester of client a.
LastId(a) == Cardinality({c \in Calls : ClientOf[c] = a /\ id[c] # None})

Request(c) ==
  LET a == ClientOf[c] IN
  /\ a \in alive
  /\ link[a] = "open"
  /\ id[c] = None
  /\ id' = [id EXCEPT ![c] = LastId(a)]
  /\ pending' = pending \cup {c}
  /\ up' = [up EXCEPT ![a] = Append(@, Message("request", LastId(a), c))]
  /\ UNCHANGED <<serverVars, alive, link, conn, address, asked, down, heard, result>>

Cancel(c) ==
  LET a == ClientOf[c] IN
  /\ c \in Cancelling \ asked
  /\ a \in alive
  /\ link[a] = "open"
  /\ id[c] # None
  /\ asked' = asked \cup {c}
  /\ up' = [up EXCEPT ![a] = Append(@, Message("cancel", id[c], c))]
  /\ UNCHANGED <<serverVars, alive, link, conn, address, id, pending, down, heard, result>>

\* The callback for messages of a jsonrpc::Client: a response with the id of a
\* pending request, or a notification.
Deliver(a) ==
  LET m == Head(down[a])
      Named == {c \in Calls : ClientOf[c] = a /\ id[c] = m.id}
      Found == Named \cap pending
  IN
  /\ link[a] = "open"
  /\ down[a] # <<>>
  /\ down' = [down EXCEPT ![a] = Tail(@)]
  /\ IF a \in alive
       THEN IF m.kind = "progress"
              THEN /\ heard' = [c \in Calls |-> IF c \in Named THEN heard[c] \cup {m.call}
                                                               ELSE heard[c]]
                   /\ UNCHANGED <<pending, result>>
              ELSE /\ result' = [c \in Calls |-> IF c \in Found THEN m.kind ELSE result[c]]
                   /\ pending' = pending \ Found
                   /\ UNCHANGED heard
       ELSE UNCHANGED <<pending, result, heard>>
  /\ UNCHANGED <<serverVars, alive, link, conn, address, id, asked, up>>

\* ~Requester()
Destroy(a) ==
  LET mine == {c \in pending : ClientOf[c] = a} IN
  /\ a \in alive \cap Leaving
  /\ alive' = alive \ {a}
  /\ pending' = pending \ mine
  /\ result' = [c \in Calls |-> IF c \in mine THEN "destroyed" ELSE result[c]]
  /\ UNCHANGED <<serverVars, link, conn, address, id, asked, up, down, heard>>

-----------------------------------------------------------------------------
(***************************************************************************)
(* The server.                                                             *)
(***************************************************************************)

\* respond() of call c, through a weak pointer to its connection.
Respond(c, kind) ==
  LET a == ClientOf[c] IN
  down' = IF conn[a] = "open" /\ link[a] = "open"
            THEN [down EXCEPT ![a] = Append(@, Message(kind, id[c], c))] ELSE down

\* The entry of a cancellable method, also over one that is there.
Register(i, c) == [table EXCEPT ![i] = c]

\* process() of a request: the method is called.
ReceiveRequest(a) ==
  LET m == Head(up[a]) IN
  /\ conn[a] = "open"
  /\ up[a] # <<>> /\ m.kind = "request"
  /\ up' = [up EXCEPT ![a] = Tail(@)]
  /\ executed' = [executed EXCEPT ![m.call] = @ + 1]
  /\ working' = working \cup {m.call}
  /\ table' = IF m.call \in Cancellable THEN Register(m.id, m.call) ELSE table
  /\ UNCHANGED <<clientVars, link, conn, address, down, finished, dropped, reported>>

\* processCancel(): the method is told, and says at once that it is done.
ReceiveCancel(a) ==
  LET m == Head(up[a])
      c == table[m.id]
  IN
  /\ conn[a] = "open"
  /\ up[a] # <<>> /\ m.kind = "cancel"
  /\ up' = [up EXCEPT ![a] = Tail(@)]
  /\ table' = [table EXCEPT ![m.id] = None]
  /\ IF c # None THEN Respond(c, "abort") ELSE UNCHANGED down
  /\ UNCHANGED <<clientVars, link, conn, address, working, executed, finished, dropped,
                 reported>>

\* skipResponse() does not find its call.
Skip(c) == c \in Cancellable /\ table[id[c]] = None

\* Another thread may have the mutex of the table: one that handles a message, or
\* the answer of another call.
Locked(c) ==
  \/ (working \cap Cancellable) \ {c} # {}
  \/ \E a \in Clients : /\ conn[a] = "open" /\ up[a] # <<>>
                        /\ Head(up[a]).kind = "cancel" \/ Head(up[a]).call \in Cancellable

\* Variant: the answer of a method that was cancelled is never sent.
AnswerCancelled(c) ==
  /\ c \in working
  /\ working' = working \ {c}
  /\ finished' = finished \cup {c}
  /\ \/ /\ c \in Cancellable /\ Locked(c)
        /\ dropped' = dropped \cup {c}
        /\ UNCHANGED <<table, down>>
     \/ /\ table' = IF c \in Cancellable THEN [table EXCEPT ![id[c]] = None] ELSE table
        /\ IF Skip(c) \/ c \in asked THEN UNCHANGED down ELSE Respond(c, "answer")
        /\ UNCHANGED dropped
  /\ UNCHANGED <<clientVars, link, conn, address, up, executed, reported>>

\* The application answers, or gives up its respond function after an abort.  A
\* try_lock() that fails drops the answer, and leaves the entry.
Answer(c) ==
  /\ c \in working
  /\ working' = working \ {c}
  /\ finished' = finished \cup {c}
  /\ \/ /\ c \in Cancellable /\ Locked(c)
        /\ dropped' = dropped \cup {c}
        /\ UNCHANGED <<table, down>>
     \/ /\ table' = IF c \in Cancellable THEN [table EXCEPT ![id[c]] = None] ELSE table
        /\ IF Skip(c) THEN UNCHANGED down ELSE Respond(c, "answer")
        /\ UNCHANGED dropped
  /\ UNCHANGED <<clientVars, link, conn, address, up, executed, reported>>

\* Server::sendText(): the connection at the address that called.
Receiver(c) == {a \in Clients : conn[a] = "open" /\ address[a] = address[ClientOf[c]]}

\* The method reports progress, be it cancelled or answered.
Progress(c) ==
  /\ c \in Cancellable \ reported
  /\ executed[c] > 0
  /\ reported' = reported \cup {c}
  /\ down' = [a \in Clients |-> IF a \in Receiver(c) /\ link[a] = "open"
                                  THEN Append(down[a], Message("progress", id[c], c))
                                  ELSE down[a]]
  /\ UNCHANGED <<clientVars, link, conn, address, up, table, working, executed, finished,
                 dropped>>

Receive(a) == ReceiveRequest(a) \/ ReceiveCancel(a)

Next ==
  \/ \E a \in Clients : \/ Connect(a) \/ ClientCloses(a) \/ ServerCloses(a)
                        \/ Deliver(a) \/ Destroy(a) \/ Receive(a)
  \/ \E c \in Calls : Request(c) \/ Cancel(c) \/ Answer(c) \/ Progress(c)

\* What was sent over a connection that stays arrives, and the application
\* answers every call of its methods.
Fairness ==
  /\ \A a \in Clients : WF_vars(Receive(a)) /\ WF_vars(Deliver(a))
  /\ \A c \in Calls : WF_vars(Answer(c))

Spec == Init /\ [][Next]_vars /\ Fairness

-----------------------------------------------------------------------------
(***************************************************************************)
(* Properties.                                                             *)
(***************************************************************************)

\* Every variable has its type.
TypeOK ==
  /\ alive \subseteq Clients
  /\ link \in [Clients -> {"none", "open", "closed"}]
  /\ conn \in [Clients -> {"none", "open", "closed"}]
  /\ id \in [Calls -> Ids \cup {None}]
  /\ address \in [Clients -> Addresses \cup {None}]
  /\ pending \cup asked \cup working \cup finished \cup dropped \cup reported \subseteq Calls
  /\ {up, down} \subseteq [Clients -> Seq([kind : Kinds, id : Ids, call : Calls])]
  /\ table \in [Ids -> Calls \cup {None}]
  /\ executed \in [Calls -> Nat]
  /\ heard \in [Calls -> SUBSET Calls]
  /\ result \in [Calls -> {"none", "answer", "abort", "destroyed"}]

\* The connection of call d is gone, and that of client a is where it was.
Moved(d, a) ==
  /\ conn[ClientOf[d]] = "closed"
  /\ address[a] = address[ClientOf[d]]

\* cancellableReceiverImpl.h:119, server.cpp:224: progress goes by the address of
\* a connection, which may be that of another one since, and by an id that every
\* client counts from 0; yet what a client hears of a call is about that call, but
\* for what a method reports that has answered already.
ProgressOwn ==
  \A c \in Calls : \A d \in heard[c] \ {c} : d \in finished /\ Moved(d, ClientOf[c])

Remote == INSTANCE RemoteCall WITH called <- {c \in Calls : id[c] # None}

\* requester.h:61, clientRequest.h:47: ids, the table by id, respond functions and
\* connections together give each call its own answer, at most once, and an
\* abort only when it was asked for.
KeepsCall == Remote!Spec

\* requester.cpp:144, nothing but an answer ends a call: it comes, unless the
\* connection is lost or the client destroyed, or the table was locked for another
\* call when the application answered.
Returns ==
  \A c \in Calls :
    id[c] # None ~> \/ result[c] # "none"
                    \/ link[ClientOf[c]] = "closed" \/ conn[ClientOf[c]] = "closed"
                    \/ c \in dropped
===============================================================================
