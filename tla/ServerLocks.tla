------------------------------ MODULE ServerLocks ------------------------------
(***************************************************************************)
(* Who waits for whom in a jsonrpc::Server on a rockets::Server: service   *)
(* threads, which run the methods and the cancel functions of the          *)
(* application, and the workers that the application starts for its        *)
(* requests.  There are two mutexes:                                       *)
(*                                                                         *)
(*   - wsConnectionsMutex of server.cpp, held while a WebSocket message is *)
(*     handled, whatever that calls, and taken by everything that sends:   *)
(*     progress(), notify(), broadcastText();                              *)
(*   - the mutex of the pending requests of cancellableReceiverImpl.h.     *)
(*                                                                         *)
(* An application does as it pleases: a method may send before it returns, *)
(* a worker may report, a cancel function may wait for its worker.  So     *)
(* does a client: a message comes by WebSocket or by HTTP, a request alone *)
(* or in a batch.                                                          *)
(***************************************************************************)
EXTENDS Naturals

CONSTANTS
  ServiceThreads,  \* service threads
  Requests,        \* the requests that arrive, each of them once
  Cancellable,     \* those with a method that can be cancelled
  Nobody           \* nobody

ASSUME LocksAssumption ==
  /\ Cancellable \subseteq Requests
  /\ ServiceThreads \cap Requests = {}
  /\ Nobody \notin ServiceThreads \cup Requests

VARIABLES
  ws,       \* wsConnectionsMutex: the thread that holds it, or Nobody
  pending,  \* pendingRequests->mutex: the thread or the worker that holds it
  place,    \* where a thread is
  by,       \* how the message it handles came
  cur,      \* the request it handles or cancels
  worker,   \* where the worker of a request is
  entries,  \* the cancel function in the map of pending requests: of the
            \* temporary entry, of the application, or there is no entry
  replied   \* the requests whose respond() has been called

locksVars == <<ws, pending, place, by, cur, worker, entries, replied>>

Places == {"idle", "register", "registering", "method", "sending", "start",
           "store", "storing", "return", "wait", "cancel", "cancelling",
           "joining"}
Ways == {"ws", "http"}
WorkerStates == {"none", "running", "reporting", "reported", "erasing", "ended"}
EntryStates == {"none", "temporary", "own"}

LocksInit ==
  /\ ws = Nobody
  /\ pending = Nobody
  /\ place = [t \in ServiceThreads |-> "idle"]
  /\ by = [t \in ServiceThreads |-> "http"]
  /\ cur = [t \in ServiceThreads |-> Nobody]
  /\ worker = [r \in Requests |-> "none"]
  /\ entries = [r \in Requests |-> "none"]
  /\ replied = {}

MoveTo(t, label) == place' = [place EXCEPT ![t] = label]
SetEntry(r, e) == entries' = [entries EXCEPT ![r] = e]

\* Variant: HTTP requests are serialised by the same mutex.
UnderMutexAlways(way) == TRUE

\* handleReceive() holds wsConnectionsMutex, an HTTP callback does not.
UnderMutex(way) == way = "ws"

Enter(t, r, way, label) ==
  /\ place[t] = "idle"
  /\ IF UnderMutex(way) THEN ws = Nobody /\ ws' = t ELSE UNCHANGED ws
  /\ by' = [by EXCEPT ![t] = way]
  /\ cur' = [cur EXCEPT ![t] = r]
  /\ MoveTo(t, label)

Leave(t) ==
  /\ ws' = IF ws = t THEN Nobody ELSE ws
  /\ cur' = [cur EXCEPT ![t] = Nobody]
  /\ MoveTo(t, "idle")
  /\ UNCHANGED by

-----------------------------------------------------------------------------
(***************************************************************************)
(* A service thread: a request.                                            *)
(***************************************************************************)
Taken(r) == worker[r] # "none" \/ \E t \in ServiceThreads : cur[t] = r

HandleReceive(t, r, way) ==
  /\ ~Taken(r)
  /\ Enter(t, r, way, IF r \in Cancellable THEN "register" ELSE "method")
  /\ UNCHANGED <<pending, worker, entries, replied>>

\* The lock_guards around the temporary entry, the entry with the cancel
\* function, and processCancel().
TakePending(t) ==
  /\ pending = Nobody
  /\ pending' = t
  /\ \/ place[t] = "register" /\ MoveTo(t, "registering")
     \/ place[t] = "store" /\ MoveTo(t, "storing")
     \/ place[t] = "cancel" /\ MoveTo(t, "cancelling")
  /\ UNCHANGED <<ws, by, cur, worker, entries, replied>>

Register(t) ==
  /\ place[t] = "registering"
  /\ SetEntry(cur[t], "temporary")
  /\ pending' = Nobody
  /\ MoveTo(t, "method")
  /\ UNCHANGED <<ws, by, cur, worker, replied>>

\* The method is called; it may send before it starts its worker.
Method(t) ==
  /\ place[t] = "method"
  /\ \E label \in {"sending", "start"} : MoveTo(t, label)
  /\ UNCHANGED <<ws, pending, by, cur, worker, entries, replied>>

\* sendText() or broadcastText() on the service thread.
MethodSends(t) ==
  /\ place[t] = "sending"
  /\ ws = Nobody
  /\ MoveTo(t, "start")
  /\ UNCHANGED <<ws, pending, by, cur, worker, entries, replied>>

\* The worker is started, and the method returns a cancel function or not.
Start(t) ==
  /\ place[t] = "start"
  /\ worker' = [worker EXCEPT ![cur[t]] = "running"]
  /\ \/ MoveTo(t, "return")
     \/ cur[t] \in Cancellable /\ MoveTo(t, "store")
  /\ UNCHANGED <<ws, pending, by, cur, entries, replied>>

\* The [] of the map makes an entry again when there is none any more.
Store(t) ==
  /\ place[t] = "storing"
  /\ SetEntry(cur[t], "own")
  /\ pending' = Nobody
  /\ MoveTo(t, "return")
  /\ UNCHANGED <<ws, by, cur, worker, replied>>

\* process() returns to handleReceive() or, for a request in a batch, to
\* _processCommandBlocking(), which waits for the reply.
Return(t) ==
  /\ place[t] = "return"
  /\ \/ Leave(t)
     \/ MoveTo(t, "wait") /\ UNCHANGED <<ws, by, cur>>
  /\ UNCHANGED <<pending, worker, entries, replied>>

HasWaited(t) ==
  /\ place[t] = "wait"
  /\ cur[t] \in replied
  /\ Leave(t)
  /\ UNCHANGED <<pending, worker, entries, replied>>

-----------------------------------------------------------------------------
(***************************************************************************)
(* A service thread: a cancel.                                             *)
(***************************************************************************)
Cancel(t, r, way) ==
  /\ r \in Cancellable
  /\ Taken(r)
  /\ Enter(t, r, way, "cancel")
  /\ UNCHANGED <<pending, worker, entries, replied>>

\* No entry, or a cancel function that calls done() at once, as the one of the
\* temporary entry does.
CancelNow(t) ==
  /\ place[t] = "cancelling"
  /\ replied' = IF entries[cur[t]] = "none" THEN replied ELSE replied \cup {cur[t]}
  /\ SetEntry(cur[t], "none")
  /\ pending' = Nobody
  /\ Leave(t)
  /\ UNCHANGED worker

CancelJoin(t) ==
  /\ place[t] = "cancelling"
  /\ entries[cur[t]] = "own"
  /\ MoveTo(t, "joining")
  /\ UNCHANGED <<ws, pending, by, cur, worker, entries, replied>>

CancelJoined(t) ==
  /\ place[t] = "joining"
  /\ worker[cur[t]] = "ended"
  /\ replied' = replied \cup {cur[t]}
  /\ SetEntry(cur[t], "none")
  /\ pending' = Nobody
  /\ Leave(t)
  /\ UNCHANGED worker

-----------------------------------------------------------------------------
(***************************************************************************)
(* A worker.  Bound: it reports once.                                      *)
(***************************************************************************)
WorkerGoto(r, label) == worker' = [worker EXCEPT ![r] = label]

Report(r) ==
  /\ worker[r] = "running"
  /\ WorkerGoto(r, "reporting")
  /\ UNCHANGED <<ws, pending, place, by, cur, entries, replied>>

\* sendText(): takes wsConnectionsMutex and releases it.
Reported(r) ==
  /\ worker[r] = "reporting"
  /\ ws = Nobody
  /\ WorkerGoto(r, "reported")
  /\ UNCHANGED <<ws, pending, place, by, cur, entries, replied>>

MayAnswer(r) == worker[r] \in {"running", "reported"}

AnswerPlain(r) ==
  /\ r \notin Cancellable
  /\ MayAnswer(r)
  /\ WorkerGoto(r, "ended")
  /\ replied' = replied \cup {r}
  /\ UNCHANGED <<ws, pending, place, by, cur, entries>>

\* Variant: lock() instead of try_lock().
LockBlocking(r) ==
  /\ r \in Cancellable
  /\ MayAnswer(r)
  /\ pending = Nobody
  /\ pending' = r
  /\ WorkerGoto(r, "erasing")
  /\ UNCHANGED <<ws, place, by, cur, entries, replied>>

\* skipResponse(): without the mutex the answer is dropped.
TryLock(r) ==
  /\ r \in Cancellable
  /\ MayAnswer(r)
  /\ IF pending = Nobody THEN pending' = r /\ WorkerGoto(r, "erasing")
                       ELSE UNCHANGED pending /\ WorkerGoto(r, "ended")
  /\ UNCHANGED <<ws, place, by, cur, entries, replied>>

Erase(r) ==
  /\ worker[r] = "erasing"
  /\ pending' = Nobody
  /\ replied' = IF entries[r] = "none" THEN replied ELSE replied \cup {r}
  /\ SetEntry(r, "none")
  /\ WorkerGoto(r, "ended")
  /\ UNCHANGED <<ws, place, by, cur>>

-----------------------------------------------------------------------------
ThreadStep(t) ==
  \/ Register(t) \/ Method(t) \/ Start(t) \/ Store(t) \/ Return(t)
  \/ HasWaited(t) \/ CancelNow(t) \/ CancelJoin(t) \/ CancelJoined(t)

WorkerStep(r) == Report(r) \/ AnswerPlain(r) \/ TryLock(r) \/ Erase(r)

LocksNext ==
  \/ \E t \in ServiceThreads :
       \/ \E r \in Requests, way \in Ways :
            HandleReceive(t, r, way) \/ Cancel(t, r, way)
       \/ TakePending(t) \/ MethodSends(t) \/ ThreadStep(t)
  \/ \E r \in Requests : Reported(r) \/ WorkerStep(r)

LocksSpec == LocksInit /\ [][LocksNext]_locksVars

\* Threads and workers go on, and a mutex that is free again and again is
\* given to everyone who waits for it.
LocksFairness ==
  /\ \A t \in ServiceThreads : /\ WF_locksVars(ThreadStep(t))
                               /\ SF_locksVars(TakePending(t))
                               /\ SF_locksVars(MethodSends(t))
  /\ \A r \in Requests : WF_locksVars(WorkerStep(r)) /\ SF_locksVars(Reported(r))

LocksFairSpec == LocksSpec /\ LocksFairness

-----------------------------------------------------------------------------
(***************************************************************************)
(* Properties.                                                             *)
(***************************************************************************)

\* Every variable has its type; a worker never keeps wsConnectionsMutex.
LocksTypeOK ==
  /\ ws \in ServiceThreads \cup {Nobody}
  /\ pending \in ServiceThreads \cup Requests \cup {Nobody}
  /\ place \in [ServiceThreads -> Places]
  /\ by \in [ServiceThreads -> Ways]
  /\ cur \in [ServiceThreads -> Requests \cup {Nobody}]
  /\ worker \in [Requests -> WorkerStates]
  /\ entries \in [Requests -> EntryStates]
  /\ replied \subseteq Requests

\* Whom an actor waits for: the owner of a mutex, or the worker of a request.
WaitsFor(a) ==
  IF a \in ServiceThreads
    THEN CASE place[a] = "sending" -> ws
           [] place[a] \in {"register", "store", "cancel"} -> pending
           [] place[a] = "wait" /\ cur[a] \notin replied -> cur[a]
           [] place[a] = "joining" -> cur[a]
           [] OTHER -> Nobody
    ELSE IF worker[a] = "reporting" THEN ws ELSE Nobody

\* Threads and workers that wait for one another.
Waiting(S) == S # {} /\ \A a \in S : WaitsFor(a) \in S

\* What an application may not do to the mutexes: send in a method, as the one
\* in tests/jsonRpcCancellable.cpp:108 does, when it is called for a WebSocket
\* message; wait in a cancel function for a worker that reports; and let a worker
\* report whose request came in a batch by WebSocket.
Misused(a) ==
  /\ a \in ServiceThreads
  /\ \/ place[a] = "sending" /\ by[a] = "ws"
     \/ place[a] = "joining" /\ worker[cur[a]] = "reporting"
     \/ place[a] = "wait" /\ by[a] = "ws" /\ worker[cur[a]] = "reporting"

\* cancellableReceiver.h:31, cancellableReceiverImpl.h:172, server.cpp:94:
\* whatever application and clients do, threads and workers that wait for one
\* another do so because of one of these three; a worker that waits for nobody
\* else, a cancel, a batch by HTTP or a method that sends in a request by HTTP
\* never close a circle.
NoWaitCycle ==
  \A S \in SUBSET (ServiceThreads \cup Requests) :
    Waiting(S) => \E a \in S : Misused(a)

Deadlocked == \E S \in SUBSET (ServiceThreads \cup Requests) : Waiting(S)

\* A request in a batch whose answer was dropped because the mutex of the
\* pending requests was taken: its thread waits until somebody cancels it.
AnswerLost ==
  \E t \in ServiceThreads :
    place[t] = "wait" /\ cur[t] \notin replied /\ worker[cur[t]] = "ended"

\* A service thread comes back from every message: the server stays alive,
\* unless it is from some time on in a deadlock or without an answer it needs.
ThreadsReturn ==
  \A t \in ServiceThreads :
    ([]<>(place[t] = "idle")) \/ <>[](Deadlocked \/ AnswerLost)
=============================================================================
