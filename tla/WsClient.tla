------------------------------- MODULE WsClient -------------------------------
(***************************************************************************)
(* ws::Client, rockets/ws/client.cpp and connect() of clientContext.cpp,   *)
(* with its MessageHandler: the promise of connect(), which callbacks of   *)
(* libwebsockets and errors of the call itself want to set, the queue of   *)
(* messages and those that arrive.                                         *)
(*                                                                         *)
(* There is no callback for a connection that is closed: the client keeps  *)
(* the pointer that libwebsockets has freed, and the application is told   *)
(* neither of the close nor of what becomes of its messages.               *)
(***************************************************************************)
EXTENDS Naturals, Sequences

CONSTANTS
  MaxConnects,  \* bound: calls of connect()
  MaxSends,     \* bound: messages that are sent
  MaxParts,     \* bound: the fragments of a message that arrives
  MaxMessages,  \* bound: the messages that arrive
  None          \* no message

ASSUME WsClientAssumption ==
  /\ {MaxConnects, MaxSends, MaxMessages} \subseteq Nat
  /\ MaxParts \in Nat \ {0}
  /\ None \notin Nat \cup [msg : Nat, part : Nat, parts : Nat]

VARIABLES
  connects,    \* the calls of connect()
  wsi,         \* what libwebsockets makes of them: "none", "connecting",
               \* "refused" by a proxy, "open", "gone"
  connection,  \* the call that `connection' is of, 0 for none
  promise,     \* connectionPromise: "unset", "value", "exception"
  out,         \* the messages in the queue of `connection'
  wants,       \* the calls for whose wsi a writable callback was asked for
  sends,       \* the messages that were sent
  errors,      \* what went wrong: a "future_error" was thrown; a message was
               \* sent over "no connection", or over one whose wsi is "freed";
               \* the callback of a wsi used the connection of another ("stale")
  arriving, messages, buffer, given, client  \* of the MessageHandler

sending == <<out, wants, sends>>
receiving == <<arriving, messages, buffer, given, client>>
vars == <<connects, wsi, connection, promise, errors, sending, receiving>>

Calls == 1 .. MaxConnects

Handler == INSTANCE MessageHandler WITH
  Conns <- Calls, MayBreak <- TRUE, open <- {k \in Calls : wsi[k] = "open"}

Init ==
  /\ connects = 0
  /\ wsi = [k \in Calls |-> "none"]
  /\ connection = 0
  /\ promise = "unset"
  /\ errors = {}
  /\ out = 0 /\ wants = {} /\ sends = 0
  /\ arriving = [k \in Calls |-> None]
  /\ messages = 0 /\ buffer = <<>> /\ given = <<>> /\ client = None

-----------------------------------------------------------------------------
(***************************************************************************)
(* connect()                                                               *)
(***************************************************************************)

\* set_value() and set_exception() of a std::promise.
Set(state) ==
  IF promise = "unset" THEN promise' = state /\ UNCHANGED errors
                       ELSE errors' = errors \cup {"future_error"} /\ UNCHANGED promise

\* tryToSetException()
TryToSetException ==
  /\ promise' = IF promise = "unset" THEN "exception" ELSE promise
  /\ UNCHANGED errors

\* get_future() throws at the second connect().
GetFuture == errors' = IF connects > 0 THEN errors \cup {"future_error"} ELSE errors

\* The connection is on its way; with its Connection goes the queue of the one
\* before, but not the wsi.
Connect ==
  /\ connects < MaxConnects
  /\ connects' = connects + 1
  /\ wsi' = [wsi EXCEPT ![connects'] = "connecting"]
  /\ connection' = connects'
  /\ out' = 0
  /\ GetFuture
  /\ UNCHANGED <<promise, wants, sends, receiving>>

\* The URI is not one, or libwebsockets does not connect.  It may have called
\* back with the error before it returns, which makes no difference.
ConnectFails ==
  /\ connects < MaxConnects
  /\ connects' = connects + 1
  /\ wsi' = [wsi EXCEPT ![connects'] = "gone"]
  /\ promise' = IF promise = "unset" THEN "exception" ELSE promise
  /\ GetFuture
  /\ UNCHANGED <<connection, sending, receiving>>

\* CLIENT_ESTABLISHED
Established(k) ==
  /\ wsi[k] = "connecting"
  /\ wsi' = [wsi EXCEPT ![k] = "open"]
  /\ Set("value")
  /\ UNCHANGED <<connects, connection, sending, receiving>>

\* The log handler throws a proxy_connection_error through libwebsockets.
ProxyError(k) ==
  /\ wsi[k] = "connecting"
  /\ wsi' = [wsi EXCEPT ![k] = "refused"]
  /\ TryToSetException
  /\ UNCHANGED <<connects, connection, sending, receiving>>

\* Variants: nobody is told; the promise is not looked at.
ConnectionErrorKept(k) ==
  /\ wsi[k] \in {"connecting", "refused"}
  /\ wsi' = [wsi EXCEPT ![k] = "gone"]
  /\ UNCHANGED <<connects, connection, promise, errors, sending, receiving>>

ConnectionErrorSet(k) ==
  /\ wsi[k] \in {"connecting", "refused"}
  /\ wsi' = [wsi EXCEPT ![k] = "gone"]
  /\ Set("exception")
  /\ UNCHANGED <<connects, connection, sending, receiving>>

\* CLIENT_CONNECTION_ERROR
ConnectionError(k) ==
  /\ wsi[k] \in {"connecting", "refused"}
  /\ wsi' = [wsi EXCEPT ![k] = "gone"]
  /\ TryToSetException
  /\ UNCHANGED <<connects, connection, sending, receiving>>

-----------------------------------------------------------------------------
(***************************************************************************)
(* Messages.                                                               *)
(***************************************************************************)

\* sendText() and sendBinary() of the Connection.
Enqueue ==
  /\ sends < MaxSends
  /\ sends' = sends + 1
  /\ out' = out + 1
  /\ wants' = wants \cup {connection}

\* By the application, at any time.  What a pointer that is null or freed gives
\* is not defined: it is noted, and nothing is made of the message.
Send ==
  /\ IF connection # 0 /\ wsi[connection] # "gone"
       THEN Enqueue /\ UNCHANGED errors
       ELSE /\ errors' = errors \cup {IF connection = 0 THEN "no connection" ELSE "freed"}
            /\ UNCHANGED sending
  /\ UNCHANGED <<connects, wsi, connection, promise, receiving>>

\* CLIENT_WRITEABLE: as many messages as the socket takes, and a request for
\* another callback when some are left; of `connection', whichever wsi it is.
Write(k) ==
  /\ wsi[k] = "open" /\ k \in wants
  /\ errors' = IF k = connection THEN errors ELSE errors \cup {"stale"}
  /\ IF wsi[connection] = "gone"
       THEN wants' = wants \ {k} /\ UNCHANGED out
       ELSE /\ \E n \in 0 .. out : out' = out - n
            /\ wants' = (wants \ {k}) \cup {c \in {connection} : out' # 0}
  /\ UNCHANGED <<connects, wsi, connection, promise, sends, receiving>>

\* CLIENT_RECEIVE: the callback of the application may have an answer to a
\* message.
Receive(k) ==
  /\ wsi[k] = "open" /\ k = connection
  /\ UNCHANGED <<connects, wsi, connection, promise, errors>>
  /\ Handler!FirstFragment(k) \/ Handler!NextFragment(k)
  /\ \/ UNCHANGED sending
     \/ given' # given /\ Enqueue

\* Of another wsi than that of `connection', which is asked whether this was the
\* last fragment and may be freed: what is made of it is not followed.
ReceiveStale(k) ==
  /\ wsi[k] = "open" /\ k # connection
  /\ errors' = errors \cup {"stale"}
  /\ UNCHANGED <<connects, wsi, connection, promise, sending, receiving>>

\* The server closes the connection, in the middle of a message or not.
Closed(k) ==
  /\ wsi[k] = "open"
  /\ wsi' = [wsi EXCEPT ![k] = "gone"]
  /\ arriving' = [arriving EXCEPT ![k] = None]
  /\ UNCHANGED <<connects, connection, promise, errors, sending, messages, buffer,
                 given, client>>

Next ==
  \/ Connect \/ ConnectFails \/ Send
  \/ \E k \in Calls : \/ Established(k) \/ ProxyError(k) \/ ConnectionError(k)
                      \/ Write(k) \/ Receive(k) \/ ReceiveStale(k) \/ Closed(k)

\* libwebsockets reports what becomes of a connection.
Fairness == \A k \in Calls : WF_vars(Established(k) \/ ConnectionError(k))

Spec == Init /\ [][Next]_vars /\ Fairness

-----------------------------------------------------------------------------
(***************************************************************************)
(* Properties.                                                             *)
(***************************************************************************)

\* Every variable has its type.
TypeOK ==
  /\ connects \in 0 .. MaxConnects
  /\ wsi \in [Calls -> {"none", "connecting", "refused", "open", "gone"}]
  /\ connection \in 0 .. MaxConnects
  /\ promise \in {"unset", "value", "exception"}
  /\ errors \subseteq {"future_error", "no connection", "freed", "stale"}
  /\ {out, sends} \subseteq 0 .. MaxSends
  /\ wants \subseteq Calls
  /\ Handler!TypeOK

\* ws/client.cpp:40, "promise may already be satisfied": by a client that
\* connects once, whoever sets the promise first, in whatever order libwebsockets
\* reports, nothing is thrown at those who come later, and each callback finds the
\* connection it is about.
NothingThrown == errors \cap {"future_error", "stale"} # {} => connects > 1

\* messageHandler.cpp:41, tests/websockets.cpp:276: the application is given
\* messages as they were sent, however they were cut on the way, by a client that
\* connects once.
WholeMessages == connects <= 1 => Handler!WholeMessages

\* ws/client.h:49, "future that becomes ready": connect() comes to an end.
Ready == connects > 0 ~> promise # "unset"
=============================================================================
