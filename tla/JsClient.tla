------------------------------- MODULE JsClient -------------------------------
(***************************************************************************)
(* Client of js/src/client.ts: requests, batches and their cancellation    *)
(* over a WebSocketSubject.  Every subscription to `json' deserialises the *)
(* messages for itself, in promises of the deserializer, be it the one of  *)
(* client.ts or a slower one of the application.  What runs without        *)
(* returning to the event loop is one step.                                *)
(*                                                                         *)
(* The WebSocketSubject is the one of RxJS 6.3.2, which js/yarn.lock:4028  *)
(* pins.  A subscription makes a websocket when there is none, and gets    *)
(* the messages of that one for good.  A message goes to the websocket     *)
(* that opened last, or is kept until one opens.  The end of a websocket,  *)
(* whichever it is, and the end of the last subscription to the current    *)
(* one reset the subject: it has no websocket, and nothing kept, any more. *)
(*                                                                         *)
(* Of the messages a subscription deserialises only those that pass its    *)
(* filter are kept track of.                                               *)
(***************************************************************************)
EXTENDS ClientCalls, FiniteSets

\* An answer "null" is an error that has a null id.
ASSUME JsClientAssumption ==
  /\ Answers \subseteq {"value", "falsy", "error", "null"}
  /\ MaxSockets # 0

VARIABLES
  current,   \* _socket of the WebSocketSubject, 0 for none
  sends,     \* its destination: the websocket it sends on, 0 while it keeps
  queue,     \* the calls whose messages are kept
  sub,       \* the websocket that the subscription of the client is on
  hears,     \* the one that the response subscription of a call was made on
  listening, \* the calls whose response subscription has not ended
  watches,   \* the websocket that the progress subscription of a call is on
  parsing,   \* the calls whose answer is being deserialised
  response,  \* the promise of a call: "pending", an answer or "closed"
  canceling, \* the calls that have been cancelled
  at,        \* the websocket that the message of a call was sent on
  early,     \* the websockets that were made while another had not ended
  broken     \* the calls whose connection broke while their answer was deserialised

subject == <<socket, current, sends, queue>>

jsVars == <<subject, sub, hears, listening, watches, parsing, response, canceling,
            at, early, broken, answered>>

Made(c) == hears[c] # 0

\* The client subscribes when it is constructed.
JsInit ==
  /\ socket = [k \in Sockets |-> IF k = 1 THEN "connecting" ELSE "unused"]
  /\ current = 1
  /\ sends = 0
  /\ queue = {}
  /\ sub = 1
  /\ hears = [c \in Calls |-> 0]
  /\ listening = {}
  /\ watches = [c \in Calls |-> 0]
  /\ parsing = {}
  /\ response = [c \in Calls |-> "pending"]
  /\ canceling = {}
  /\ at = [c \in Calls |-> 0]
  /\ early = {}
  /\ broken = {}
  /\ answered = [c \in Calls |-> "none"]

-----------------------------------------------------------------------------
(***************************************************************************)
(* The WebSocketSubject.                                                   *)
(***************************************************************************)

\* The websocket of a subscription that is made now.
Target == IF current # 0 THEN current ELSE CHOOSE k \in Unused : \A j \in Unused : k <= j

\* _resetState()
Reset ==
  /\ current' = 0
  /\ sends' = 0
  /\ queue' = {}

\* Subscriptions end: without any, the current websocket is closed.
CloseUnsubscribed(responses, progress) ==
  IF current # 0 /\ \/ sub = current
                    \/ \E c \in responses : hears[c] = current
                    \/ \E c \in Calls : progress[c] = current
    THEN UNCHANGED subject
    ELSE /\ Reset
         /\ socket' = [k \in Sockets |-> IF k = current /\ socket[k] = "open"
                                           THEN "closing" ELSE socket[k]]

-----------------------------------------------------------------------------
(***************************************************************************)
(* The calls.                                                              *)
(***************************************************************************)

\* Both subscriptions of call c, then next() of the subject with its message.
JsSend(c) ==
  /\ current # 0 \/ Unused # {}
  /\ LET k == Target IN
       /\ current' = k
       /\ socket' = [socket EXCEPT ![k] = IF @ = "unused" THEN "connecting" ELSE @]
       /\ early' = IF current = 0 /\ \E j \in Sockets : socket[j] \notin {"unused", "closed"}
                      THEN early \cup {k} ELSE early
       /\ hears' = [hears EXCEPT ![c] = k]
       /\ listening' = listening \cup {c}
       /\ watches' = [watches EXCEPT ![c] = IF c \in Silent THEN 0 ELSE k]
  /\ IF sends # 0
       THEN at' = [at EXCEPT ![c] = sends] /\ UNCHANGED queue
       ELSE queue' = queue \cup {c} /\ UNCHANGED at
  /\ UNCHANGED sends

\* request() and batch().
JsRequest(c) ==
  /\ ~Made(c)
  /\ JsSend(c)
  /\ UNCHANGED <<sub, parsing, response, canceling, broken, answered>>

\* cancel(): a notification for a request, for a batch a batch of them; what a
\* server makes of it is an answer like any other.
JsCancel(c) ==
  /\ c \notin Silent \cup canceling
  /\ Made(c)
  /\ response[c] \in {"pending", "closed"}
  /\ canceling' = canceling \cup {c}
  /\ IF c \in Batches
       THEN \E s \in Silent : ~Made(s) /\ JsSend(s)
       ELSE UNCHANGED <<subject, hears, listening, watches, at, early>>
  /\ UNCHANGED <<sub, parsing, response, broken, answered>>

-----------------------------------------------------------------------------
(***************************************************************************)
(* Messages.                                                               *)
(***************************************************************************)

\* Variant: the ids are not looked at.
PassesAny(c) == Calls

\* createResponseFilter() and createBatchResponseFilter(): the calls an answer
\* to c may be for.  Every request of no requests is found in any array.
Passes(c) == IF c \in Batches THEN {c} \cup Silent ELSE {c}

\* A message with the answer to c, for the subscriptions on that websocket;
\* nothing passes an error without its id.
Message(k, c) ==
  /\ socket[k] = "open"
  /\ at[c] = k
  /\ c \notin Silent
  /\ answered[c] = "none"
  /\ \E answer \in Answers :
       /\ answered' = [answered EXCEPT ![c] = answer]
       /\ parsing' = parsing \cup (IF answer = "null" THEN {}
                                    ELSE {d \in Passes(c) \cap listening : hears[d] = k})
  /\ UNCHANGED <<subject, sub, hears, listening, watches, response, canceling, at,
                 early, broken>>

\* json() of a Response throws for a result that is false in JavaScript.
Json(c, answer) == IF c \in Batches /\ answer = "falsy" THEN "error" ELSE answer

\* The promise of the deserialised answer: take(1) ends the subscription, if
\* the end of its websocket has not done so.
Resolve(c) ==
  /\ c \in parsing
  /\ parsing' = parsing \ {c}
  /\ response' = [response EXCEPT ![c] =
       Json(c, IF c \in Silent THEN "value" ELSE answered[c])]
  /\ listening' = listening \ {c}
  /\ IF socket[hears[c]] = "closed"
       THEN UNCHANGED subject
       ELSE CloseUnsubscribed(listening', watches)
  /\ UNCHANGED <<sub, hears, watches, canceling, at, early, broken, answered>>

\* A progress notification with all of the amount ends that subscription.
Progress(c) ==
  /\ watches[c] # 0
  /\ at[c] = watches[c]
  /\ socket[at[c]] = "open"
  /\ watches' = [watches EXCEPT ![c] = 0]
  /\ CloseUnsubscribed(listening, watches')
  /\ UNCHANGED <<sub, hears, listening, parsing, response, canceling, at, early, broken,
                 answered>>

-----------------------------------------------------------------------------
(***************************************************************************)
(* Connections.                                                            *)
(***************************************************************************)

\* onopen: what was kept is sent, and what is sent from now on.
Open(k) ==
  /\ socket[k] = "connecting"
  /\ socket' = [socket EXCEPT ![k] = "open"]
  /\ sends' = k
  /\ at' = [c \in Calls |-> IF c \in queue THEN k ELSE at[c]]
  /\ queue' = {}
  /\ UNCHANGED <<current, sub, hears, listening, watches, parsing, response, canceling,
                 early, broken, answered>>

\* disconnect() of an open connection.
Disconnect ==
  /\ sends # 0
  /\ socket' = [socket EXCEPT ![sends] = "closing"]
  /\ Reset
  /\ UNCHANGED <<sub, hears, listening, watches, parsing, response, canceling, at, early,
                 broken, answered>>

\* Variants: an end without an error settles nothing; answers that are being
\* deserialised are not waited for.
RejectedByError(k, clean) ==
  {c \in listening : hears[c] = k /\ ~clean}

RejectedAll(k, clean) == {c \in listening : hears[c] = k}

\* mergeMap() hands on an error at once, and the end of the messages when all
\* of them are deserialised.
Rejected(k, clean) == {c \in listening : hears[c] = k /\ (clean => c \notin parsing)}

\* The subscriptions on websocket k end, with an error unless it ended cleanly.
End(k, clean) ==
  LET rejected == Rejected(k, clean) IN
  /\ Reset
  /\ sub' = IF sub = k THEN 0 ELSE sub
  /\ listening' = listening \ rejected
  /\ watches' = [c \in Calls |-> IF watches[c] = k THEN 0 ELSE watches[c]]
  /\ parsing' = parsing \ rejected
  /\ broken' = broken \cup (IF clean THEN {} ELSE parsing \cap rejected)
  /\ response' = [c \in Calls |-> IF c \in rejected THEN "closed" ELSE response[c]]
  /\ UNCHANGED <<hears, canceling, at, early, answered>>

\* onerror; the close event is still to come, behind the promises.
Broken(k) ==
  /\ socket[k] \in {"connecting", "open"}
  /\ socket' = [socket EXCEPT ![k] = "failed"]
  /\ End(k, FALSE)

\* onclose
Closed(k, clean) ==
  /\ socket[k] \in {"open", "closing", "failed"}
  /\ socket[k] = "failed" => ~clean
  /\ socket' = [socket EXCEPT ![k] = "closed"]
  /\ End(k, clean)

Ended(k) == Broken(k) \/ \E clean \in BOOLEAN : Closed(k, clean)

JsNext ==
  \/ \E c \in Calls : JsRequest(c) \/ JsCancel(c) \/ Resolve(c) \/ Progress(c)
  \/ \E k \in Sockets, c \in Calls : Message(k, c)
  \/ \E k \in Sockets : Open(k) \/ Ended(k)
  \/ Disconnect

\* A connection is made or fails, a close event comes, a promise is run, and a
\* server answers or closes.
JsFairness ==
  /\ \A k \in Sockets :
       /\ WF_jsVars(Open(k) \/ (socket[k] # "open" /\ Ended(k)))
       /\ \A c \in Calls : WF_jsVars(Message(k, c))
  /\ \A c \in Calls : WF_jsVars(Resolve(c))

JsSpec == JsInit /\ [][JsNext]_jsVars /\ JsFairness

-----------------------------------------------------------------------------
(***************************************************************************)
(* Properties.                                                             *)
(***************************************************************************)

\* Every variable has its type.
JsTypeOK ==
  /\ socket \in [Sockets -> {"unused", "connecting", "open", "closing", "failed", "closed"}]
  /\ {current, sends, sub} \subseteq Sockets \cup {0}
  /\ {hears, watches, at} \subseteq [Calls -> Sockets \cup {0}]
  /\ queue \cup listening \cup parsing \cup canceling \cup broken \subseteq Calls
  /\ early \subseteq Sockets
  /\ response \in [Calls -> Answers \cup {"pending", "closed", "value", "error"}]
  /\ answered \in [Calls -> Answers \cup {"none"}]

\* client.ts:410, 421: among all that arrives on a shared stream, a call finds
\* the answer to its own message, and what it is given is what was answered; but
\* a result of a batch that is false in JavaScript is thrown for an error.
JsOwnAnswer ==
  \A c \in Calls \ Silent : response[c] \notin {"pending", "closed"} =>
    \/ response[c] = answered[c]
    \/ c \in Batches /\ answered[c] = "falsy" /\ response[c] = "error"

\* The message of a call that waits was not sent, or not on the websocket it
\* listens on, or an error without its id was the answer.
Unheard(c) ==
  /\ c \in listening
  /\ socket[hears[c]] \in {"connecting", "open"}
  /\ \/ at[c] # hears[c] /\ c \notin queue
     \/ answered[c] = "null"

\* client.ts:184, "Socket connection closed", README.md:134 of js, "requests will
\* be buffered and sent once the connection is alive": a call whose answer has
\* come is not told that its connection closed, and the message of one that waits
\* is kept or was sent where it listens; unless its websocket was made while
\* another had not ended, an error came without its id, or the connection broke
\* while the answer was deserialised.
KeptAnswer ==
  \A c \in Calls :
    /\ response[c] = "closed" /\ answered[c] # "none" =>
         hears[c] \in early \/ answered[c] = "null" \/ c \in broken
    /\ Unheard(c) => hears[c] \in early \/ answered[c] = "null"

\* README.md:134 of js, "in case of a socket error, the request promise will
\* reject": every call settles in the end, whatever becomes of the connections,
\* or is unheard for ever on one that does not end.
JsSettles ==
  \A c \in Calls \ Silent :
    \/ Made(c) ~> response[c] # "pending"
    \/ <>[]Unheard(c)
=============================================================================
