--------------------------- MODULE RequestProcessor ---------------------------
(***************************************************************************)
(* How a receiver answers a message: rockets/jsonrpc/requestProcessor.cpp  *)
(* with ReceiverImpl::process(), AsyncReceiverImpl::process() and the      *)
(* responses of jsonrpc/utils.h.                                           *)
(*                                                                         *)
(* A message is processed by the thread it arrives at; the requests of a   *)
(* batch one by one, each when the one before has been replied to.  The    *)
(* reply of a delayed method comes from another thread.                    *)
(***************************************************************************)
EXTENDS Naturals, Sequences, FiniteSets

CONSTANTS
  MaxBatch,  \* bound: the entries of a batch
  Versions,  \* what may be found under "jsonrpc": "absent", "2.0", "text" for
             \* another string, "other" for another type
  Outcomes   \* what a method returns: a "result"; "text" that is not JSON; an
             \* "error"; "baddata", an error whose data is not JSON

ASSUME ProcessorAssumption ==
  /\ MaxBatch \in Nat
  /\ Versions \subseteq {"absent", "2.0", "text", "other"}
  /\ Outcomes \subseteq {"result", "text", "error", "baddata"}

\* The members of an object that decide what becomes of it: "sync" and
\* "delayed" are registered methods, "odd" is an id of any other type.
Object ==
  [kind : {"object"}, jsonrpc : Versions, id : {"absent", "null", "one", "two", "odd"},
   method : {"absent", "other", "unknown", "sync", "delayed"},
   params : {"fit", "other"}]

BatchEntry == Object \cup {[kind |-> "value"]}

Document ==
  Object \cup [kind : {"garbage", "value"}]
         \cup [kind : {"array"}, entries : UNION {[1 .. n -> BatchEntry] : n \in 0 .. MaxBatch}]

Errors == {"parse error", "invalid request", "method not found", "invalid params",
           "internal error", "error"}

Response == [id : {"null", "one", "two", "odd"}, is : Errors \cup {"result"}]

VARIABLES
  document,  \* the message
  state,     \* "new", "running", "waiting" for a delayed method, "done", or
             \* "thrown": an exception has left process()
  at,        \* the entry that is processed
  replies,   \* the replies to the entries before it
  called,    \* the entries whose methods have been called
  answers,   \* what the callback of process() has been called with
  raised     \* a method has returned an error whose data is not JSON

processorVars == <<document, state, at, replies, called, answers, raised>>

Entries == IF document.kind = "array" THEN document.entries ELSE <<document>>

ErrorResponse(is, id) == [id |-> id, is |-> is]

IsNotification(e) == e.id \in {"absent", "null"}

\* get<std::string>() of a member of another type.
Throws(e) == e.jsonrpc = "other"

\* Variant: an id of any type is accepted.
IsValidJsonRpcRequestAnyId(e) ==
  e.jsonrpc = "2.0" /\ e.method \notin {"absent", "other"} /\ e.params = "fit"

\* _isValidJsonRpcRequest(): an explicit null is neither a number nor a string.
IsValidJsonRpcRequest(e) ==
  /\ e.jsonrpc = "2.0"
  /\ e.method \notin {"absent", "other"}
  /\ e.params = "fit"
  /\ e.id \notin {"null", "odd"}

IsRegisteredMethodName(e) == e.method \in {"sync", "delayed"}

ProcessorInit ==
  /\ document \in Document
  /\ state = "new"
  /\ at = 1
  /\ replies = <<>>
  /\ called = <<>>
  /\ answers = <<>>
  /\ raised = FALSE

Answer(text) ==
  /\ answers' = Append(answers, text)
  /\ state' = "done"

\* process(): what is no batch and no request, and the two that are.
Process ==
  /\ state = "new"
  /\ CASE document.kind = "garbage" -> Answer(<<ErrorResponse("parse error", "null")>>)
       [] document.kind = "value" -> Answer(<<ErrorResponse("invalid params", "null")>>)
       [] OTHER -> state' = "running" /\ UNCHANGED answers
  /\ UNCHANGED <<document, at, replies, called, raised>>

\* Variant: there is a place for each entry.
RespondAlways(response) ==
  IF document.kind = "array"
    THEN /\ replies' = replies \o IF response = <<>>
                                    THEN <<ErrorResponse("error", "null")>> ELSE response
         /\ at' = at + 1
         /\ state' = "running"
         /\ UNCHANGED answers
    ELSE Answer(response) /\ UNCHANGED <<at, replies>>

\* The callback of _processCommand(): into the promise that the batch waits
\* for, or the answer to the message; <<>> stands for null, dumped as "".
RespondWith(response) ==
  IF document.kind = "array"
    THEN /\ replies' = replies \o response
         /\ at' = at + 1
         /\ state' = "running"
         /\ UNCHANGED answers
    ELSE Answer(response) /\ UNCHANGED <<at, replies>>

RespondError(e, is) ==
  RespondWith(IF IsNotification(e) THEN <<>> ELSE <<ErrorResponse(is, e.id)>>)

\* makeResponse()
MakeResponse(e, outcome) ==
  IF IsNotification(e)
    THEN <<>>
    ELSE <<[id |-> e.id, is |-> IF outcome = "text" THEN "internal error" ELSE outcome]>>

\* json::parse() of the data of an error throws what process() takes for an
\* error of the message.
CaughtParseError ==
  /\ Answer(<<ErrorResponse("parse error", "null")>>)
  /\ UNCHANGED <<at, replies>>

Raises(e, outcome) == outcome = "baddata" /\ ~IsNotification(e)

\* AsyncReceiverImpl::process() and ReceiverImpl::process()
CallMethod(e) ==
  /\ called' = Append(called, at)
  /\ IF e.method = "delayed"
       THEN state' = "waiting" /\ UNCHANGED <<at, replies, answers, raised>>
       ELSE \E outcome \in Outcomes :
              /\ raised' = Raises(e, outcome)
              /\ IF Raises(e, outcome)
                   THEN CaughtParseError
                   ELSE RespondWith(MakeResponse(e, outcome))

Throw ==
  /\ state' = "thrown"
  /\ UNCHANGED <<at, replies, answers>>

\* _processCommand() with entry e.
ProcessCommand(e) ==
  IF Throws(e)
    THEN Throw /\ UNCHANGED <<called, raised>>
    ELSE IF ~IsValidJsonRpcRequest(e)
      THEN RespondError(e, "invalid request") /\ UNCHANGED <<called, raised>>
      ELSE IF ~IsRegisteredMethodName(e)
        THEN RespondError(e, "method not found") /\ UNCHANGED <<called, raised>>
        ELSE CallMethod(e)

\* The loop of _processValidBatchBlocking(), or the one command.
ProcessEntry ==
  /\ state = "running"
  /\ at <= Len(Entries)
  /\ IF Entries[at].kind = "value"
       THEN /\ RespondWith(<<ErrorResponse("invalid request", "null")>>)
            /\ UNCHANGED <<called, raised>>
       ELSE ProcessCommand(Entries[at])
  /\ UNCHANGED document

\* A delayed method replies; bad data throws into its own thread, and the
\* promise it gives up is an exception for the thread that waits.
Reply ==
  /\ state = "waiting"
  /\ \E outcome \in Outcomes :
       /\ raised' = Raises(Entries[at], outcome)
       /\ IF Raises(Entries[at], outcome)
            THEN Throw
            ELSE RespondWith(MakeResponse(Entries[at], outcome))
  /\ UNCHANGED <<document, called>>

\* Variant: nothing to reply is nothing to answer.
EndOfBatchIfReplies ==
  /\ state = "running"
  /\ at > Len(Entries)
  /\ replies # <<>>
  /\ Answer(replies)
  /\ UNCHANGED <<document, at, replies, called, raised>>

\* All entries are replied to; no replies at all are dumped as "".
EndOfBatch ==
  /\ state = "running"
  /\ at > Len(Entries)
  /\ Answer(replies)
  /\ UNCHANGED <<document, at, replies, called, raised>>

ProcessorNext == Process \/ ProcessEntry \/ Reply \/ EndOfBatch

ProcessorSpec == ProcessorInit /\ [][ProcessorNext]_processorVars /\ WF_processorVars(ProcessorNext)

-----------------------------------------------------------------------------
(***************************************************************************)
(* Properties.                                                             *)
(***************************************************************************)

\* Every variable has its type.
ProcessorTypeOK ==
  /\ document \in Document
  /\ state \in {"new", "running", "waiting", "done", "thrown"}
  /\ at \in 1 .. Len(Entries) + 1
  /\ replies \in Seq(Response)
  /\ called \in Seq(1 .. Len(Entries))
  /\ answers \in Seq(Seq(Response))
  /\ raised \in BOOLEAN

\* What the sender expects a reply to, and under which id.
Expects(e) == e.kind = "value" \/ ~IsNotification(e)
ReplyId(e) == IF e.kind = "value" THEN "null" ELSE e.id

\* The number of the entries up to i that expect one.
Asked(i) == Cardinality({j \in 1 .. i : Expects(Entries[j])})

\* requestProcessor.cpp:103, tests/jsonRpc.cpp: the answer to a batch, and to
\* a request, has a reply for each request of it under its id, in the order of
\* the batch, and none for notifications, whatever is wrong with the others; but
\* for an error whose data is not JSON, which is answered with nothing else than
\* a parse error.
OneReplyEach ==
  state = "done" /\ document.kind \in {"object", "array"} /\ ~raised =>
    /\ Len(answers[1]) = Asked(Len(Entries))
    /\ \A i \in DOMAIN Entries :
         Expects(Entries[i]) => answers[1][Asked(i)].id = ReplyId(Entries[i])

\* A request that is valid, of a method that is registered.
MayBeCalled(e) ==
  /\ e.kind = "object"
  /\ e.jsonrpc = "2.0"
  /\ e.method \in {"sync", "delayed"}
  /\ e.params = "fit"
  /\ e.id \in {"absent", "one", "two"}

\* requestProcessor.cpp:45: the answer is given when each method has been
\* called once, in the order of the batch, for the requests that are valid,
\* and for nothing else; but for the entries behind one with such an error.
CalledAsAsked ==
  state = "done" /\ document.kind \in {"object", "array"} /\ ~raised =>
    /\ \A i \in DOMAIN Entries :
         Cardinality({k \in DOMAIN called : called[k] = i}) =
           IF MayBeCalled(Entries[i]) THEN 1 ELSE 0
    /\ \A j, k \in DOMAIN called : j < k => called[j] < called[k]

\* An entry with a "jsonrpc" that is no string.
HasNoVersion(e) == e.kind = "object" /\ Throws(e)

\* requestProcessor.cpp:62-84: every message is answered, once, one that cannot
\* be parsed and one that waits for other threads; or never, for an exception
\* leaves the receiver, and then an entry has a "jsonrpc" that is no string, or
\* a method an error whose data is not JSON.
Answered ==
  \/ <>[](state = "done" /\ Len(answers) = 1)
  \/ <>[](/\ state = "thrown" /\ answers = <<>>
          /\ raised \/ \E i \in DOMAIN Entries : HasNoVersion(Entries[i]))
=============================================================================
