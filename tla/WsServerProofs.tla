---------------------------- MODULE WsServerProofs ----------------------------
(***************************************************************************)
(* Proofs about WsServer: every variable keeps its type and no message is  *)
(* left without anybody who is going to write it, for every number of      *)
(* connections, service threads and senders.  And about ServerLocks: there *)
(* are three ways for an application to have threads wait in a circle and  *)
(* no other one, for every number of threads and requests.                 *)
(***************************************************************************)
EXTENDS WsServer, ServerLocks, TLAPS

LEMMA EnqueueType ==
  ASSUME TypeOK, NEW C, Enqueue(C)
  PROVE  out' \in [Conns -> Nat] /\ sends' \in Nat
BY DEF TypeOK, Enqueue

LEMMA RequestWriteType ==
  ASSUME TypeOK, NEW C, RequestWrite(C)
  PROVE  wants' \in [Conns -> BOOLEAN]
BY Zenon DEF TypeOK, RequestWrite

LEMMA TypeInit == Init => TypeOK
<1> SUFFICES ASSUME Init PROVE TypeOK
    OBVIOUS
<1>1. wants \in [Conns -> BOOLEAN] /\ flag \in [Threads -> BOOLEAN]
      BY Zenon DEF Init
<1> QED
    BY <1>1 DEF Init, TypeOK

LEMMA TypeNext == TypeOK /\ [Next]_vars => TypeOK'
<1> SUFFICES ASSUME TypeOK, [Next]_vars PROVE TypeOK'
    OBVIOUS
<1> USE ServerAssumption
<1>1. ASSUME NEW a \in Senders, NEW C \in SUBSET open, Broadcast(a, C)
      PROVE  TypeOK'
      BY <1>1, EnqueueType DEF Broadcast, TypeOK, FlagsToSet
<1>2. ASSUME NEW a \in Senders, NEW t \in Threads, SetFlag(a, t)
      PROVE  TypeOK'
      BY <1>2 DEF SetFlag, TypeOK
<1>3. ASSUME NEW a \in Senders, BroadcastReturns(a) PROVE TypeOK'
      BY <1>3 DEF BroadcastReturns, TypeOK
<1>4. ASSUME NEW C \in SUBSET open, BroadcastPolled(C) PROVE TypeOK'
      BY <1>4, EnqueueType, RequestWriteType DEF BroadcastPolled, TypeOK
<1>5. ASSUME NEW t \in Threads, NEW c \in Conns, Open(t, c) PROVE TypeOK'
      <2>1. out' \in [Conns -> Nat] /\ sends' \in Nat
            BY <1>5, EnqueueType DEF Open, TypeOK
      <2>2. wants' \in [Conns -> BOOLEAN]
            BY <1>5, RequestWriteType DEF Open, TypeOK
      <2> QED
          BY <1>5, <2>1, <2>2 DEF Open, TypeOK
<1>6. ASSUME NEW t \in Threads, NEW c \in Conns, NEW C \in SUBSET open,
             Receive(t, c, C)
      PROVE  TypeOK'
      BY <1>6, EnqueueType, RequestWriteType DEF Receive, TypeOK
<1>7. ASSUME NEW t \in Threads, NEW c \in Conns, NEW C \in SUBSET open,
             Close(t, c, C)
      PROVE  TypeOK'
      <2>1. out' \in [Conns -> Nat] /\ sends' \in Nat
            BY <1>7 DEF Close, TypeOK
      <2>2. wants' \in [Conns -> BOOLEAN]
            BY <1>7, Zenon DEF Close, TypeOK
      <2> QED
          BY <1>7, <2>1, <2>2 DEF Close, TypeOK
<1>8. ASSUME NEW t \in Threads, NEW c \in Conns, NEW n \in 0 .. MaxSends,
             Write(t, c, n)
      PROVE  TypeOK'
      <2>1. out' \in [Conns -> Nat]
            BY <1>8 DEF Write, TypeOK
      <2>2. wants' \in [Conns -> BOOLEAN]
            <3>1. AskAgain(out[c] - n) \in BOOLEAN
                  BY DEF AskAgain
            <3> QED
                BY <1>8, <3>1, Zenon DEF Write, TypeOK
      <2> QED
          BY <1>8, <2>1, <2>2 DEF Write, TypeOK
<1>9. ASSUME NEW t \in Threads, ServiceReturns(t) PROVE TypeOK'
      BY <1>9 DEF ServiceReturns, Goto, TypeOK
<1>9a. ASSUME NEW t \in Threads, ServiceFails(t) PROVE TypeOK'
      BY <1>9a DEF ServiceFails, Goto, TypeOK
<1>10. ASSUME NEW t \in Threads, Mark(t) PROVE TypeOK'
      BY <1>10, RequestWriteType DEF Mark, Goto, TypeOK
<1>11. ASSUME NEW t \in Threads, ClearFlag(t) PROVE TypeOK'
      BY <1>11 DEF ClearFlag, Goto, TypeOK
<1>12. CASE Stop
      BY <1>12 DEF Stop, TypeOK
<1>13. CASE UNCHANGED vars
      BY <1>13 DEF vars, TypeOK
<1> QED
    BY <1>1, <1>2, <1>3, <1>4, <1>5, <1>6, <1>7, <1>8, <1>9, <1>9a, <1>10,
       <1>11, <1>12, <1>13 DEF Next, Sending, Callback, Loop

\* Every variable of the server has its type.
THEOREM TypeCorrect == Spec => []TypeOK
BY TypeInit, TypeNext, PTL DEF Spec

-----------------------------------------------------------------------------
(***************************************************************************)
(* The inductive invariant: a thread that is about to clear its flag has   *)
(* just asked for all of its connections, and cannot have written to one   *)
(* since; a closed connection has no messages.                             *)
(***************************************************************************)
MarkedBeforeClear ==
  \A c \in open : pc[Owner[c]] = "clear" => wants[c]

FlaggedAtMark ==
  \A t \in Threads : pc[t] = "mark" => flag[t]

ClosedEmpty ==
  \A c \in Conns \ open : out[c] = 0

IInv ==
  TypeOK /\ MarkedBeforeClear /\ FlaggedAtMark /\ ClosedEmpty /\ NoLostWakeup

LEMMA IInvInit == Init => IInv
<1> SUFFICES ASSUME Init PROVE IInv
    OBVIOUS
<1>1. TypeOK
      BY TypeInit
<1> QED
    BY <1>1, ServerAssumption
       DEF Init, IInv, MarkedBeforeClear, FlaggedAtMark, ClosedEmpty,
        NoLostWakeup

LEMMA IInvNext == IInv /\ [Next]_vars => IInv'
<1> SUFFICES ASSUME IInv, [Next]_vars PROVE IInv'
    OBVIOUS
<1> DEFINE Lost == /\ MarkedBeforeClear /\ FlaggedAtMark
                   /\ ClosedEmpty /\ NoLostWakeup
<1> USE ServerAssumption
    DEF IInv, TypeOK, MarkedBeforeClear, FlaggedAtMark, ClosedEmpty,
        NoLostWakeup, Goto
<1>0. TypeOK'
      BY TypeNext
<1>1. ASSUME NEW a \in Senders, NEW C \in SUBSET open, Broadcast(a, C)
      PROVE  Lost'
      BY <1>1 DEF Broadcast, Enqueue, FlagsToSet
<1>2. ASSUME NEW a \in Senders, NEW t \in Threads, SetFlag(a, t)
      PROVE  Lost'
      BY <1>2 DEF SetFlag
<1>3. ASSUME NEW a \in Senders, BroadcastReturns(a) PROVE Lost'
      BY <1>3 DEF BroadcastReturns
<1>4. ASSUME NEW C \in SUBSET open, BroadcastPolled(C) PROVE Lost'
      BY <1>4 DEF BroadcastPolled, Enqueue, RequestWrite
<1>5. ASSUME NEW t \in Threads, NEW c \in Conns, Open(t, c) PROVE Lost'
      <2>1. /\ open' = open \cup {c} /\ pc[t] = "service" /\ Owner[c] = t
            /\ UNCHANGED <<flag, todo, pc>>
            BY <1>5 DEF Open, InCallback
      <2>2. CASE UNCHANGED <<out, wants>>
            BY <1>5, <2>1, <2>2 DEF Open
      <2>3. CASE Enqueue({c}) /\ RequestWrite({c})
            <3>1. MarkedBeforeClear' /\ FlaggedAtMark'
                  BY <2>1, <2>3 DEF RequestWrite
            <3>2. ClosedEmpty'
                  BY <2>1, <2>3 DEF Enqueue
            <3>3. wants'[c] /\ \A d \in open \ {c} : out'[d] = out[d]
                                                /\ wants'[d] = wants[d]
                  BY <2>3 DEF Enqueue, RequestWrite
            <3>4. NoLostWakeup'
                  BY <2>1, <3>3
            <3> QED
                BY <3>1, <3>2, <3>4
      <2> QED
          BY <1>5, <2>2, <2>3 DEF Open
<1>6. ASSUME NEW t \in Threads, NEW c \in Conns, NEW C \in SUBSET open,
             Receive(t, c, C)
      PROVE  Lost'
      BY <1>6 DEF Receive, InCallback, Enqueue, RequestWrite
<1>7. ASSUME NEW t \in Threads, NEW c \in Conns, NEW C \in SUBSET open,
             Close(t, c, C)
      PROVE  Lost'
      <2>1. open' = open \ {c} /\ UNCHANGED <<flag, todo, pc>>
            BY <1>7 DEF Close
      <2>2. ASSUME NEW d \in open'
            PROVE  /\ wants[d] => wants'[d]
                   /\ out'[d] # out[d] => wants'[d]
            BY <1>7, <2>1, <2>2 DEF Close
      <2>3. MarkedBeforeClear' /\ FlaggedAtMark'
            BY <2>1, <2>2
      <2>4. ClosedEmpty'
            BY <1>7, <2>1 DEF Close
      <2>5. NoLostWakeup'
            BY <2>1, <2>2
      <2> QED
          BY <2>3, <2>4, <2>5
<1>8. ASSUME NEW t \in Threads, NEW c \in Conns, NEW n \in 0 .. MaxSends,
             Write(t, c, n)
      PROVE  Lost'
      BY <1>8 DEF Write, InCallback, AskAgain
<1>9. ASSUME NEW t \in Threads, ServiceReturns(t) PROVE Lost'
      BY <1>9 DEF ServiceReturns
<1>9a. ASSUME NEW t \in Threads, ServiceFails(t) PROVE Lost'
      BY <1>9a DEF ServiceFails
<1>10. ASSUME NEW t \in Threads, Mark(t) PROVE Lost'
      BY <1>10 DEF Mark, RequestWrite
<1>11. ASSUME NEW t \in Threads, ClearFlag(t) PROVE Lost'
      BY <1>11 DEF ClearFlag
<1>12. CASE Stop
      BY <1>12 DEF Stop
<1>13. CASE UNCHANGED vars
      BY <1>13 DEF vars
<1> QED
    BY <1>0, <1>1, <1>2, <1>3, <1>4, <1>5, <1>6, <1>7, <1>8, <1>9, <1>9a, <1>10,
       <1>11, <1>12, <1>13 DEF Next, Sending, Callback, Loop

\* serviceThreadPool.cpp:65: however setting, reading and clearing the flags
\* interleave with the callbacks of all threads, a queued message has somebody
\* who is going to write it.
THEOREM NothingLost == Spec => []NoLostWakeup
<1>1. IInv => NoLostWakeup
      BY DEF IInv
<1> QED
    BY IInvInit, IInvNext, <1>1, PTL DEF Spec

-----------------------------------------------------------------------------
(***************************************************************************)
(* Who waits for wsConnectionsMutex: ServerLocks, whose service threads    *)
(* are those of WsServer seen from the other side.  The inductive          *)
(* invariant says who holds which mutex at which place.                    *)
(***************************************************************************)
Handled == {"register", "registering", "method", "sending", "start"}
Holding == {"registering", "storing", "cancelling", "joining"}

\* A thread is busy with a request, and one thread at most with the method of a
\* request that has no worker yet.
BusyOK ==
  \A t \in ServiceThreads :
    /\ place[t] = "idle" <=> cur[t] = Nobody
    /\ place[t] \in Handled => /\ worker[cur[t]] = "none"
                               /\ \A u \in ServiceThreads \ {t} :
                                    place[u] \in Handled => cur[u] # cur[t]

\* wsConnectionsMutex is held for a WebSocket message.
HandlingOK == ws # Nobody => cur[ws] # Nobody /\ by[ws] = "ws"

\* The mutex of the pending requests is held by whoever is where it is held.
PendingOK ==
  /\ pending \in ServiceThreads => place[pending] \in Holding
  /\ pending \in Requests => worker[pending] = "erasing"
  /\ \A t \in ServiceThreads : place[t] \in Holding => pending = t
  /\ \A r \in Requests : worker[r] = "erasing" => pending = r

LocksIInv == LocksTypeOK /\ BusyOK /\ HandlingOK /\ PendingOK

LEMMA LocksInitInv == LocksInit => LocksIInv
BY LocksAssumption
DEF LocksInit, Places, Ways, WorkerStates, EntryStates, LocksIInv,
       LocksTypeOK, BusyOK, Handled, HandlingOK, PendingOK, Holding

LEMMA LocksReceive ==
  ASSUME LocksIInv, NEW t \in ServiceThreads, NEW r \in Requests,
         NEW way \in Ways, HandleReceive(t, r, way) \/ Cancel(t, r, way)
  PROVE  LocksIInv'
<1> USE LocksAssumption DEF Places, Ways, WorkerStates, EntryStates, SetEntry, LocksIInv,
            LocksTypeOK, BusyOK, Handled, HandlingOK, PendingOK, Holding,
            MoveTo, Enter, UnderMutex
<1>1. CASE HandleReceive(t, r, way)
      BY <1>1 DEF HandleReceive, Taken
<1>2. CASE Cancel(t, r, way)
      BY <1>2 DEF Cancel, Taken
<1> QED
    BY <1>1, <1>2

LEMMA LocksThread ==
  ASSUME LocksIInv, NEW t \in ServiceThreads,
         TakePending(t) \/ MethodSends(t) \/ ThreadStep(t)
  PROVE  LocksIInv'
<1> USE LocksAssumption DEF Places, Ways, WorkerStates, EntryStates, SetEntry, LocksIInv,
            LocksTypeOK, BusyOK, Handled, HandlingOK, PendingOK, Holding,
            MoveTo, Leave
<1>1. CASE TakePending(t)
      BY <1>1 DEF TakePending
<1>2. CASE MethodSends(t)
      BY <1>2 DEF MethodSends
<1>3. CASE Register(t)
      BY <1>3 DEF Register
<1>4. CASE Method(t)
      BY <1>4 DEF Method
<1>5. CASE Start(t)
      BY <1>5 DEF Start
<1>6. CASE Store(t)
      BY <1>6 DEF Store
<1>7. CASE Return(t)
      BY <1>7 DEF Return
<1>8. CASE CancelNow(t)
      BY <1>8 DEF CancelNow
<1>9. CASE CancelJoin(t)
      BY <1>9 DEF CancelJoin
<1>10. CASE CancelJoined(t)
      BY <1>10 DEF CancelJoined
<1>11. CASE HasWaited(t)
      BY <1>11 DEF HasWaited
<1> QED
    BY <1>1, <1>2, <1>3, <1>4, <1>5, <1>6, <1>7, <1>8, <1>9, <1>10, <1>11
    DEF ThreadStep

LEMMA LocksWorker ==
  ASSUME LocksIInv, NEW r \in Requests,
         Reported(r) \/ WorkerStep(r)
  PROVE  LocksIInv'
<1> USE LocksAssumption DEF Places, Ways, WorkerStates, EntryStates, SetEntry, LocksIInv,
            LocksTypeOK, BusyOK, Handled, HandlingOK, PendingOK, Holding,
            WorkerGoto, MayAnswer
<1>1. CASE Reported(r)
      BY <1>1 DEF Reported
<1>2. CASE Report(r)
      BY <1>2 DEF Report
<1>3. CASE AnswerPlain(r)
      BY <1>3 DEF AnswerPlain
<1>4. CASE TryLock(r)
      BY <1>4 DEF TryLock
<1>5. CASE Erase(r)
      BY <1>5 DEF Erase
<1> QED
    BY <1>1, <1>2, <1>3, <1>4, <1>5 DEF WorkerStep

LEMMA LocksInvariant == LocksSpec => []LocksIInv
<1>1. LocksIInv /\ [LocksNext]_locksVars => LocksIInv'
      <2>1. CASE UNCHANGED locksVars
            BY <2>1 DEF locksVars, LocksIInv, LocksTypeOK, BusyOK,
                        HandlingOK, PendingOK
      <2>2. CASE LocksNext
            BY <2>2, LocksReceive, LocksThread, LocksWorker DEF LocksNext
      <2> QED
          BY <2>1, <2>2
<1> QED
    BY <1>1, LocksInitInv, PTL DEF LocksSpec

(***************************************************************************)
(* No cycle: of a set in which nobody does what applications may not do,   *)
(* whoever one waits for is found not to be in it, the owner of            *)
(* wsConnectionsMutex last.                                                *)
(***************************************************************************)
LEMMA NobodyInACycle ==
  ASSUME LocksIInv
  PROVE  NoWaitCycle
<1>1. SUFFICES ASSUME NEW S \in SUBSET (ServiceThreads \cup Requests),
                      \A a \in S : WaitsFor(a) \in S,
                      \A a \in S : ~Misused(a)
               PROVE  S = {}
      BY Zenon DEF NoWaitCycle, Waiting
<1>2. Nobody \notin S
      BY LocksAssumption
<1>3. ASSUME NEW r \in S \cap Requests
      PROVE  worker[r] = "reporting" /\ ws \in S
      BY <1>1, <1>2, LocksAssumption DEF LocksIInv, WaitsFor
<1>4. ASSUME NEW t \in S \cap ServiceThreads PROVE place[t] # "joining"
      <2>1. SUFFICES ASSUME place[t] = "joining" PROVE FALSE
            OBVIOUS
      <2>2. cur[t] \in S
            BY <1>1, <2>1 DEF WaitsFor
      <2>3. cur[t] \in Requests
            BY <1>2, <2>2 DEF LocksIInv, LocksTypeOK
      <2> QED
          BY <1>1, <1>3, <2>1, <2>2, <2>3 DEF Misused
<1>5. ASSUME NEW t \in S \cap ServiceThreads
      PROVE  place[t] \notin {"register", "store", "cancel"}
      <2>1. SUFFICES ASSUME place[t] \in {"register", "store", "cancel"} PROVE FALSE
            OBVIOUS
      <2>2. pending \in S
            BY <1>1, <2>1 DEF WaitsFor
      <2>3. CASE pending \in Requests
            BY <1>1, <1>2, <2>2, <2>3, LocksAssumption
            DEF LocksIInv, PendingOK, WaitsFor
      <2>4. CASE pending \in ServiceThreads
            BY <1>1, <1>2, <1>4, <2>2, <2>4
            DEF LocksIInv, PendingOK, Holding, WaitsFor
      <2> QED
          BY <2>2, <2>3, <2>4
<1>6. ws \notin S
      <2>1. SUFFICES ASSUME ws \in S PROVE FALSE
            OBVIOUS
      <2>2. ws \in ServiceThreads /\ cur[ws] \in Requests /\ by[ws] = "ws"
            BY <1>2, <2>1 DEF LocksIInv, HandlingOK, LocksTypeOK
      <2>3. CASE place[ws] = "sending"
            BY <1>1, <2>1, <2>2, <2>3 DEF Misused
      <2>4. CASE place[ws] = "wait" /\ cur[ws] \notin replied
            <3>1. cur[ws] \in S
                  BY <1>1, <2>1, <2>2, <2>4 DEF WaitsFor
            <3> QED
                BY <1>1, <1>3, <2>1, <2>2, <2>4, <3>1 DEF Misused
      <2> QED
          BY <1>1, <1>2, <1>4, <1>5, <2>1, <2>2, <2>3, <2>4 DEF WaitsFor
<1>7. S \cap Requests = {}
      BY <1>3, <1>6
<1>8. ASSUME NEW t \in S \cap ServiceThreads PROVE FALSE
      <2>1. cur[t] \in Requests \cup {Nobody}
            BY DEF LocksIInv, LocksTypeOK
      <2> QED
          BY <1>1, <1>2, <1>4, <1>5, <1>6, <1>7, <2>1 DEF WaitsFor
<1> QED
    BY <1>7, <1>8

\* The lock_guards of server.cpp (wsConnectionsMutex) and of
\* cancellableReceiverImpl.h: whatever their number, and whatever application
\* and clients do, service threads and workers that wait for one another do so
\* because of one of the three things an application may not do.
THEOREM NoDeadlock == LocksSpec => []NoWaitCycle
BY LocksInvariant, NobodyInACycle, PTL
=============================================================================
