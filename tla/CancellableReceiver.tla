-------------------------- MODULE CancellableReceiver --------------------------
(***************************************************************************)
(* The JSON-RPC receiver of Rockets with cancellable requests:             *)
(* rockets/jsonrpc/cancellableReceiverImpl.h and the classes it derives    *)
(* from (asyncReceiverImpl.h, receiverImpl.h).                             *)
(*                                                                         *)
(* The threads of a server execute process() and processCancel(); the      *)
(* application answers a request from the method itself or, later, from a  *)
(* worker thread of its own.  Everyone meets in PendingRequests, a map     *)
(* from JSON-RPC id to <<cancel function, respond function>> guarded by a  *)
(* mutex.  A step of a thread is the code between two points at which      *)
(* another thread can see the difference: taking the mutex is a step of    *)
(* its own because skipResponse() gives up when the mutex is taken.        *)
(***************************************************************************)
EXTENDS Naturals

CONSTANTS
  Threads,      \* threads that call process(): the service threads
  Requests,     \* the requests that arrive, each of them once
  Cancellable,  \* those whose method was registered as cancellable
  Ids,          \* JSON-RPC ids of requests
  NoId,         \* the null id: key of every notification
  IdOf,         \* the id a request carries, NoId for a notification
  CancelIds,    \* ids that clients send in cancel notifications
  Serialised,   \* TRUE: process() is called under wsConnectionsMutex, as it is
                \* for WebSockets; FALSE: also by HTTP requests on other threads
  TempCancel,   \* the cancel function of the temporary entry
  Empty,        \* an empty std::function
  None          \* nothing: no entry, no owner, no done()

Keys == Ids \cup {NoId}

\* std::pair<CancelRequestCallback, JsonResponseCallback>
Entry == [cancel : Requests \cup {TempCancel}, respond : Requests \cup {Empty}]

ASSUME ReceiverAssumption ==
  /\ Cancellable \subseteq Requests
  /\ NoId \notin Ids
  /\ IdOf \in [Requests -> Keys]
  /\ CancelIds \subseteq Keys
  /\ Serialised \in BOOLEAN
  /\ TempCancel \notin Requests
  /\ Empty \notin Requests
  /\ None \notin Requests \cup {Empty}
  /\ None \notin Entry
  /\ None \notin Threads
  /\ Threads \cap Requests = {}

VARIABLES
  mutex,        \* pendingRequests->mutex: the thread or the request whose
                \* response callback owns it, or None
  table,        \* pendingRequests->requests, None where there is no entry
  pc,           \* where each thread is in process() or processCancel()
  cur,          \* the request or the id to cancel a thread is busy with
  rsp,          \* where the answer of the application to a request is
  owed,         \* the respond function in the done() that the application
                \* keeps since the cancel function of a request was called
  results,      \* how often respond() was given a response or an error
  aborts,       \* how often respond() was given "Request aborted"
  cancelAsked,  \* the requests taken before a cancel with their id arrived
  crashed       \* std::bad_function_call has ended the process

vars == <<mutex, table, pc, cur, rsp, owed, results, aborts, cancelAsked,
          crashed>>

PcStates == {"idle", "register", "registering", "call", "sync", "async",
             "store", "storing", "cancel", "ignore", "find", "joining"}
RspStates == {"new", "received", "held", "working", "erasing", "responding",
              "sent", "skipped", "dropped"}

\* The application has called the response callback and it has returned.
Returned == {"sent", "skipped", "dropped"}

Init ==
  /\ mutex = None
  /\ table = [k \in Keys |-> None]
  /\ pc = [t \in Threads |-> "idle"]
  /\ cur = [t \in Threads |-> None]
  /\ rsp = [r \in Requests |-> "new"]
  /\ owed = [r \in Requests |-> None]
  /\ results = [r \in Requests |-> 0]
  /\ aborts = [r \in Requests |-> 0]
  /\ cancelAsked = {}
  /\ crashed = FALSE

Goto(t, label) == pc' = [pc EXCEPT ![t] = label] /\ UNCHANGED cur

\* The thread returns from process().
Return(t) ==
  /\ pc' = [pc EXCEPT ![t] = "idle"]
  /\ cur' = [cur EXCEPT ![t] = None]

\* The thread enters process() with a request or an id to cancel.
Enter(t, what, label) ==
  /\ pc' = [pc EXCEPT ![t] = label]
  /\ cur' = [cur EXCEPT ![t] = what]

\* Server::Impl::handleReceive() runs the callback under wsConnectionsMutex.
MayReceive(t) ==
  /\ pc[t] = "idle"
  /\ Serialised => \A u \in Threads : pc[u] = "idle"

-----------------------------------------------------------------------------
(***************************************************************************)
(* process(): a request for a registered method.                           *)
(***************************************************************************)

\* A method that is not cancellable goes straight to the base class.
Receive(t, r) ==
  /\ MayReceive(t)
  /\ rsp[r] = "new"
  /\ rsp' = [rsp EXCEPT ![r] = "received"]
  /\ Enter(t, r, IF r \in Cancellable THEN "register" ELSE "call")
  /\ UNCHANGED <<mutex, table, owed, results, aborts, cancelAsked, crashed>>

\* Constructor of a lock_guard: blocks until the mutex is free.
Lock(t, from, to) ==
  /\ pc[t] = from
  /\ mutex = None
  /\ mutex' = t
  /\ Goto(t, to)
  /\ UNCHANGED <<table, rsp, owed, results, aborts, cancelAsked, crashed>>

LockRegister(t) == Lock(t, "register", "registering")

\* Variant: without the temporary entry.
RegisterNothing(t) ==
  /\ pc[t] = "registering"
  /\ mutex' = None
  /\ Goto(t, "call")
  /\ UNCHANGED <<table, rsp, owed, results, aborts, cancelAsked, crashed>>

\* The temporary entry, and the end of the lock_guard's scope.
Register(t) ==
  /\ pc[t] = "registering"
  /\ table' = [table EXCEPT
       ![IdOf[cur[t]]] = [cancel |-> TempCancel, respond |-> cur[t]]]
  /\ mutex' = None
  /\ Goto(t, "call")
  /\ UNCHANGED <<rsp, owed, results, aborts, cancelAsked, crashed>>

\* The method of the application answers before it returns, hands the request
\* to a worker that will answer, or keeps it without ever answering it.
CallFunc(t) ==
  /\ pc[t] = "call"
  /\ \/ rsp' = [rsp EXCEPT ![cur[t]] = "working"] /\ Goto(t, "sync")
     \/ rsp' = [rsp EXCEPT ![cur[t]] = "working"] /\ Goto(t, "async")
     \/ /\ cur[t] \in Cancellable
        /\ rsp' = [rsp EXCEPT ![cur[t]] = "held"]
        /\ Goto(t, "async")
  /\ UNCHANGED <<mutex, table, owed, results, aborts, cancelAsked, crashed>>

\* It returns a cancel function, or an empty one.
FuncReturn(t) ==
  /\ \/ pc[t] = "async"
     \/ pc[t] = "sync" /\ rsp[cur[t]] \in Returned
  /\ \/ Return(t)
     \/ cur[t] \in Cancellable /\ Goto(t, "store")
  /\ UNCHANGED <<mutex, table, rsp, owed, results, aborts, cancelAsked,
                 crashed>>

LockStore(t) == Lock(t, "store", "storing")

\* Variant: the whole pair is assigned instead of its first member.
StoredPair(k, r) == [cancel |-> r, respond |-> Empty]

\* requests[requestID].first = cancelFunc: operator[] makes a new entry with
\* an empty respond function when the entry is gone.
Stored(k, r) == [cancel |-> r,
                 respond |-> IF table[k] = None THEN Empty
                                                ELSE table[k].respond]

Store(t) ==
  /\ pc[t] = "storing"
  /\ table' = [table EXCEPT ![IdOf[cur[t]]] = Stored(IdOf[cur[t]], cur[t])]
  /\ mutex' = None
  /\ Return(t)
  /\ UNCHANGED <<rsp, owed, results, aborts, cancelAsked, crashed>>

-----------------------------------------------------------------------------
(***************************************************************************)
(* The response callback given to the application.                         *)
(***************************************************************************)

\* A method of AsyncReceiver or Receiver: the response is sent directly.
RespondPlain(r) ==
  /\ rsp[r] = "working"
  /\ r \notin Cancellable
  /\ rsp' = [rsp EXCEPT ![r] = "responding"]
  /\ UNCHANGED <<mutex, table, pc, cur, owed, results, aborts, cancelAsked,
                 crashed>>

\* Variant: lock() instead of try_lock().
BlockingLock(r) ==
  /\ rsp[r] = "working"
  /\ r \in Cancellable
  /\ mutex = None
  /\ mutex' = r
  /\ rsp' = [rsp EXCEPT ![r] = "erasing"]
  /\ UNCHANGED <<table, pc, cur, owed, results, aborts, cancelAsked, crashed>>

\* skipResponse(): try_lock() gives up when any thread owns the mutex.
TryLock(r) ==
  /\ rsp[r] = "working"
  /\ r \in Cancellable
  /\ IF mutex = None
       THEN mutex' = r /\ rsp' = [rsp EXCEPT ![r] = "erasing"]
       ELSE rsp' = [rsp EXCEPT ![r] = "dropped"] /\ UNCHANGED mutex
  /\ UNCHANGED <<table, pc, cur, owed, results, aborts, cancelAsked, crashed>>

\* Variant: the number of erased entries is not looked at.
EraseUnchecked(r) ==
  /\ rsp[r] = "erasing"
  /\ table' = [table EXCEPT ![IdOf[r]] = None]
  /\ rsp' = [rsp EXCEPT ![r] = "responding"]
  /\ mutex' = None
  /\ UNCHANGED <<pc, cur, owed, results, aborts, cancelAsked, crashed>>

\* skipResponse(): the answer is skipped when there is no entry to erase.
Erase(r) ==
  /\ rsp[r] = "erasing"
  /\ table' = [table EXCEPT ![IdOf[r]] = None]
  /\ rsp' = [rsp EXCEPT ![r] =
               IF table[IdOf[r]] = None THEN "skipped" ELSE "responding"]
  /\ mutex' = None
  /\ UNCHANGED <<pc, cur, owed, results, aborts, cancelAsked, crashed>>

\* respond(), outside of the mutex; it sends nothing for a notification.
Respond(r) ==
  /\ rsp[r] = "responding"
  /\ rsp' = [rsp EXCEPT ![r] = "sent"]
  /\ results' = IF IdOf[r] = NoId THEN results
                                  ELSE [results EXCEPT ![r] = @ + 1]
  /\ UNCHANGED <<mutex, table, pc, cur, owed, aborts, cancelAsked, crashed>>

-----------------------------------------------------------------------------
(***************************************************************************)
(* processCancel(): a cancel with an id in its parameters, or one that is  *)
(* not a notification or names no id.                                      *)
(***************************************************************************)

\* Variant: params["id"] is read without params.count("id"), which gives null.
ReceiveCancelUnchecked(t, k) ==
  /\ MayReceive(t)
  /\ cancelAsked' =
       cancelAsked \cup {r \in Requests : IdOf[r] = k /\ rsp[r] # "new"}
  /\ Enter(t, NoId, "cancel")
  /\ UNCHANGED <<mutex, table, rsp, owed, results, aborts, crashed>>

ReceiveCancel(t, k) ==
  /\ MayReceive(t)
  /\ cancelAsked' =
       cancelAsked \cup {r \in Requests : IdOf[r] = k /\ rsp[r] # "new"}
  /\ Enter(t, k, "cancel")
  /\ UNCHANGED <<mutex, table, rsp, owed, results, aborts, crashed>>

\* A request of its own, or parameters that do not parse or have no id.
ReceiveInvalidCancel(t) ==
  /\ MayReceive(t)
  /\ Enter(t, None, "ignore")
  /\ UNCHANGED <<mutex, table, rsp, owed, results, aborts, cancelAsked,
                 crashed>>

\* It returns before it takes the mutex; respond() is given nothing to send.
IgnoreCancel(t) ==
  /\ pc[t] = "ignore"
  /\ Return(t)
  /\ UNCHANGED <<mutex, table, rsp, owed, results, aborts, cancelAsked,
                 crashed>>

LockCancel(t) == Lock(t, "cancel", "find")

\* done(): respond(makeErrorResponse(requestAborted, requestID)), which throws
\* when respond is the empty function.
Done(respond) ==
  IF respond \in Requests
    THEN /\ aborts' = [aborts EXCEPT ![respond] = @ + 1]
         /\ UNCHANGED crashed
    ELSE /\ crashed' = TRUE
         /\ UNCHANGED aborts

\* Variant: the cancelled entry stays in the map.
UnlockOnly(t, thrown) ==
  /\ UNCHANGED table
  /\ mutex' = None
  /\ Return(t)

\* The mutex is released with the entry gone, unless an exception unwinds.
EraseAndUnlock(t, thrown) ==
  /\ table' = IF thrown THEN table ELSE [table EXCEPT ![cur[t]] = None]
  /\ mutex' = None
  /\ Return(t)

\* Invalid request id, or request already processed.
CancelUnknown(t) ==
  /\ pc[t] = "find"
  /\ table[cur[t]] = None
  /\ mutex' = None
  /\ Return(t)
  /\ UNCHANGED <<table, rsp, owed, results, aborts, cancelAsked, crashed>>

\* Variant: the cancel function of the temporary entry does nothing.
CancelSilently(t) ==
  /\ pc[t] = "find"
  /\ table[cur[t]] # None
  /\ EraseAndUnlock(t, FALSE)
  /\ UNCHANGED <<rsp, owed, results, aborts, cancelAsked, crashed>>

\* The cancel function of the temporary entry calls done(); so does one of the
\* application that cancels at once.
CancelNow(t) ==
  /\ pc[t] = "find"
  /\ table[cur[t]] # None
  /\ Done(table[cur[t]].respond)
  /\ EraseAndUnlock(t, table[cur[t]].respond = Empty)
  /\ UNCHANGED <<rsp, owed, results, cancelAsked>>

\* The cancel function of the application keeps done() for later.
CancelLater(t) ==
  /\ pc[t] = "find"
  /\ table[cur[t]] # None
  /\ table[cur[t]].cancel \in Requests
  /\ owed' = [owed EXCEPT ![table[cur[t]].cancel] = table[cur[t]].respond]
  /\ EraseAndUnlock(t, FALSE)
  /\ UNCHANGED <<rsp, results, aborts, cancelAsked, crashed>>

\* It waits for its worker, as a destructor that joins a thread does.
CancelJoin(t) ==
  /\ pc[t] = "find"
  /\ table[cur[t]] # None
  /\ table[cur[t]].cancel \in Requests
  /\ Goto(t, "joining")
  /\ UNCHANGED <<mutex, table, rsp, owed, results, aborts, cancelAsked,
                 crashed>>

CancelJoined(t) ==
  /\ pc[t] = "joining"
  /\ rsp[table[cur[t]].cancel] \in Returned \cup {"held"}
  /\ Done(table[cur[t]].respond)
  /\ EraseAndUnlock(t, table[cur[t]].respond = Empty)
  /\ UNCHANGED <<rsp, owed, results, cancelAsked>>

\* The application calls the done() it kept.
DoneLater(r) ==
  /\ owed[r] # None
  /\ owed' = [owed EXCEPT ![r] = None]
  /\ Done(owed[r])
  /\ UNCHANGED <<mutex, table, pc, cur, rsp, results, cancelAsked>>

-----------------------------------------------------------------------------
ThreadStep(t) ==
  \/ LockRegister(t) \/ Register(t) \/ CallFunc(t) \/ FuncReturn(t)
  \/ LockStore(t) \/ Store(t)
  \/ IgnoreCancel(t) \/ LockCancel(t) \/ CancelUnknown(t) \/ CancelNow(t)
  \/ CancelLater(t) \/ CancelJoin(t) \/ CancelJoined(t)

ResponseStep(r) == RespondPlain(r) \/ TryLock(r) \/ Erase(r) \/ Respond(r)

Next ==
  /\ ~crashed
  /\ \/ \E t \in Threads : \/ \E r \in Requests : Receive(t, r)
                           \/ \E k \in CancelIds : ReceiveCancel(t, k)
                           \/ ReceiveInvalidCancel(t)
                           \/ ThreadStep(t)
     \/ \E r \in Requests : ResponseStep(r) \/ DoneLater(r)

Spec == Init /\ [][Next]_vars

\* A thread inside process() goes on, an application that took a request or a
\* done() uses it: the scheduler and the contract of bindAsync().  Nothing is
\* assumed of the arrival of messages.
Fairness ==
  /\ \A t \in Threads : WF_vars(~crashed /\ ThreadStep(t))
  /\ \A r \in Requests : WF_vars(~crashed /\ ResponseStep(r))
                         /\ WF_vars(~crashed /\ DoneLater(r))

FairSpec == Spec /\ Fairness

-----------------------------------------------------------------------------
(***************************************************************************)
(* Properties.                                                             *)
(***************************************************************************)

\* Every variable has its type.
TypeOK ==
  /\ mutex \in Threads \cup Requests \cup {None}
  /\ table \in [Keys -> Entry \cup {None}]
  /\ pc \in [Threads -> PcStates]
  /\ cur \in [Threads -> Requests \cup Keys \cup {None}]
  /\ rsp \in [Requests -> RspStates]
  /\ owed \in [Requests -> Requests \cup {Empty, None}]
  /\ results \in [Requests -> Nat]
  /\ aborts \in [Requests -> Nat]
  /\ cancelAsked \subseteq Requests
  /\ crashed \in BOOLEAN

Notification(r) == IdOf[r] = NoId

\* Some application keeps the done() that will report r as aborted.
AbortOwed(r) == \E x \in Requests : owed[x] = r

\* cancellableReceiverImpl.h:100 and :111: the answer of the application and
\* the cancel of the client race, and one of the two is reported, not both.
AtMostOneReply == \A r \in Requests : results[r] + aborts[r] <= 1

\* "Request aborted" is reported of a request only if a cancel with its id
\* arrived after the request: an entry never survives its request to be taken
\* for the entry of another one.
AbortOnlyIfAsked ==
  \A r \in Requests : aborts[r] > 0 \/ AbortOwed(r) => r \in cancelAsked

\* While the application works on a cancellable request a cancel finds it: the
\* map has an entry that answers this request, until an abort has been handed
\* out or the answer is on its way.
PendingIsCancellable ==
  \A r \in Cancellable :
    rsp[r] \in {"held", "working", "erasing"} /\ ~Notification(r) =>
      \/ table[IdOf[r]] # None /\ table[IdOf[r]].respond = r
      \/ aborts[r] > 0
      \/ AbortOwed(r)

\* skipResponse() finds no entry only for a request whose abort is reported.
SkippedOnlyIfAborted ==
  \A r \in Requests :
    rsp[r] = "skipped" /\ ~Notification(r) => aborts[r] > 0 \/ AbortOwed(r)

\* cancellableReceiverImpl.h:138: no reply for notifications.
NotificationsUnanswered ==
  \A r \in Requests : Notification(r) => results[r] + aborts[r] = 0

\* cancellableReceiverImpl.h:100: the answer is left out "in case the request
\* was cancelled at the same time when it finishes", and in no other case.
DroppedOnlyIfCancelled ==
  \A r \in Requests : rsp[r] = "dropped" => r \in cancelAsked

\* cancellableReceiverImpl.h:165: a cancel of a "request already processed"
\* does nothing; above all it does not call the empty respond function.
ProcessedIsNotCancelled == ~crashed

\* An answer the application gives reaches the client, as a response or as the
\* abort that overtook it, unless it met a taken mutex.
AnswerArrives ==
  \A r \in Requests :
    (rsp[r] = "working" /\ ~Notification(r))
      ~> (results[r] + aborts[r] > 0 \/ rsp[r] = "dropped" \/ crashed)

\* A request that runs until it is cancelled is reported as aborted when a
\* cancel for it has been received.
CancelArrives ==
  \A r \in Requests, t \in Threads :
    (rsp[r] = "held" /\ pc[t] = "cancel" /\ cur[t] = IdOf[r]
       /\ ~Notification(r))
      ~> (aborts[r] > 0 \/ crashed)

\* A cancel function that waits for the worker of its request returns: the
\* worker is never blocked by the mutex the canceller owns.
JoinReturns ==
  \A t \in Threads : pc[t] = "joining" ~> (pc[t] # "joining" \/ crashed)

-----------------------------------------------------------------------------
(***************************************************************************)
(* The receiver keeps the promise of RequestReply for requests with an id. *)
(***************************************************************************)
Calls == {r \in Requests : ~Notification(r)}

Promise == INSTANCE RequestReply WITH
  accepted <- {r \in Calls : rsp[r] # "new"},
  asked <- cancelAsked \cap Calls,
  results <- [r \in Calls |-> results[r]],
  aborts <- [r \in Calls |-> aborts[r]]

\* cancellableReceiverImpl.h: registration, answers and cancels together give a
\* client one reply per request.
KeepsPromise == Promise!Spec
=============================================================================
