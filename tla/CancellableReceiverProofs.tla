---------------------- MODULE CancellableReceiverProofs ----------------------
(***************************************************************************)
(* Proofs about CancellableReceiver: every variable keeps its type, and    *)
(* when process() is serialised and no two requests share an id, a request *)
(* gets at most one reply and is aborted only when it was asked for.  And  *)
(* about RequestProcessor, which serves the receivers: a message is        *)
(* answered with one reply for each request of it, each called once.       *)
(***************************************************************************)
EXTENDS CancellableReceiver, RequestProcessor, TLAPS, FiniteSetTheorems, SequenceTheorems

-----------------------------------------------------------------------------
(***************************************************************************)
(* What a thread is busy with, by the place it is at.                      *)
(***************************************************************************)
InProcess == {"register", "registering", "call", "sync", "async", "store",
              "storing"}
InCancel == {"cancel", "find", "joining"}
InTable == InProcess \ {"call", "sync", "async"}

CurOK ==
  \A t \in Threads :
    /\ pc[t] \in InProcess => cur[t] \in Requests
    /\ pc[t] \in InTable => cur[t] \in Cancellable
    /\ pc[t] \in InCancel => cur[t] \in Keys

TInv == TypeOK /\ CurOK

LEMMA TInvInit == Init => TInv
<1> SUFFICES ASSUME Init PROVE TInv
    OBVIOUS
<1> USE DEF Init
<1>1. table \in [Keys -> Entry \cup {None}]
      OBVIOUS
<1>2. rsp \in [Requests -> RspStates] /\ pc \in [Threads -> PcStates]
      BY DEF RspStates, PcStates
<1>3. TypeOK
      BY <1>1, <1>2, Zenon DEF TypeOK
<1>4. CurOK
      BY DEF CurOK, InProcess, InTable, InCancel
<1> QED
    BY <1>3, <1>4 DEF TInv

LEMMA DoneType ==
  ASSUME TypeOK, NEW respond, Done(respond)
  PROVE  aborts' \in [Requests -> Nat] /\ crashed' \in BOOLEAN
<1>1. CASE respond \in Requests
      <2>1. aborts' = [aborts EXCEPT ![respond] = @ + 1]
            BY <1>1 DEF Done
      <2>2. crashed' \in BOOLEAN
            BY <1>1, Zenon DEF Done, TypeOK
      <2>3. aborts' \in [Requests -> Nat]
            BY <1>1, <2>1 DEF TypeOK
      <2> QED
          BY <2>2, <2>3, Zenon
<1>2. CASE respond \notin Requests
      <2>1. crashed' = TRUE /\ aborts' = aborts
            BY <1>2, Zenon DEF Done
      <2> QED
          BY <2>1, Zenon DEF TypeOK
<1> QED
    BY <1>1, <1>2

LEMMA TInvNext == TInv /\ [Next]_vars => TInv'
<1> SUFFICES ASSUME TInv, [Next]_vars PROVE TInv'
    OBVIOUS
<1> USE ReceiverAssumption
    DEF TInv, TypeOK, CurOK, InProcess, InTable, InCancel, Keys, PcStates,
        RspStates, Goto, Return, Enter
<1>1. ASSUME NEW t \in Threads, NEW r \in Requests, Receive(t, r) PROVE TInv'
      BY <1>1 DEF Receive, MayReceive
<1>2. ASSUME NEW t \in Threads, NEW k \in CancelIds, ReceiveCancel(t, k)
      PROVE  TInv'
      BY <1>2 DEF ReceiveCancel, MayReceive
<1>3. ASSUME NEW t \in Threads,
             LockRegister(t) \/ LockStore(t) \/ LockCancel(t)
      PROVE  TInv'
      BY <1>3 DEF LockRegister, LockStore, LockCancel, Lock
<1>4. ASSUME NEW t \in Threads, Register(t) PROVE TInv'
      BY <1>4 DEF Register, Entry
<1>5. ASSUME NEW t \in Threads, CallFunc(t) PROVE TInv'
      BY <1>5 DEF CallFunc
<1>6. ASSUME NEW t \in Threads, FuncReturn(t) PROVE TInv'
      BY <1>6 DEF FuncReturn
<1>7. ASSUME NEW t \in Threads, Store(t) PROVE TInv'
      BY <1>7 DEF Store, Stored, Entry
<1>8. ASSUME NEW t \in Threads, CancelUnknown(t) PROVE TInv'
      BY <1>8 DEF CancelUnknown
<1>9. ASSUME NEW t \in Threads, CancelNow(t) \/ CancelJoined(t) PROVE TInv'
      <2>1. aborts' \in [Requests -> Nat] /\ crashed' \in BOOLEAN
            BY <1>9, DoneType DEF CancelNow, CancelJoined
      <2> QED
          BY <1>9, <2>1 DEF CancelNow, CancelJoined, EraseAndUnlock
<1>10. ASSUME NEW t \in Threads, CancelLater(t) PROVE TInv'
      BY <1>10 DEF CancelLater, EraseAndUnlock, Entry
<1>11. ASSUME NEW t \in Threads, CancelJoin(t) PROVE TInv'
      BY <1>11 DEF CancelJoin
<1>12. ASSUME NEW r \in Requests, ResponseStep(r) PROVE TInv'
      BY <1>12 DEF ResponseStep, RespondPlain, TryLock, Erase, Respond
<1>13. ASSUME NEW r \in Requests, DoneLater(r) PROVE TInv'
      <2>1. aborts' \in [Requests -> Nat] /\ crashed' \in BOOLEAN
            BY <1>13, DoneType DEF DoneLater
      <2> QED
          BY <1>13, <2>1 DEF DoneLater
<1>14. ASSUME NEW t \in Threads, ReceiveInvalidCancel(t) \/ IgnoreCancel(t)
       PROVE  TInv'
      BY <1>14 DEF ReceiveInvalidCancel, IgnoreCancel, MayReceive
<1>15. CASE UNCHANGED vars
      BY <1>15 DEF vars
<1> QED
    BY <1>1, <1>2, <1>3, <1>4, <1>5, <1>6, <1>7, <1>8, <1>9, <1>10, <1>11,
       <1>12, <1>13, <1>14, <1>15 DEF Next, ThreadStep

\* Every variable of the receiver has its type, for every number of threads and
\* requests and whether or not process() is serialised.
THEOREM TypeCorrect == Spec => []TypeOK
<1>1. TInv => TypeOK
      BY DEF TInv
<1> QED
    BY TInvInit, TInvNext, <1>1, PTL DEF Spec

-----------------------------------------------------------------------------
(***************************************************************************)
(* The inductive invariant of a serialised receiver with unique ids.       *)
(***************************************************************************)
UniqueIds ==
  \A r, s \in Requests : IdOf[r] = IdOf[s] /\ IdOf[r] # NoId => r = s

\* The abort of r has been reported or will be.
Aborted(r) == aborts[r] > 0 \/ AbortOwed(r)

\* The answer of r has passed skipResponse().
IsAnswered(r) == rsp[r] \in {"responding", "sent"}

\* The entry under k is the one Register made for r.
Registered(k, r) == table[k] # None /\ table[k].respond = r

\* process() is serialised.
OneBusy ==
  \A t, u \in Threads : pc[t] # "idle" /\ pc[u] # "idle" => t = u

MutexOK ==
  /\ \A t \in Threads :
       pc[t] \in {"registering", "storing", "find", "joining"} => mutex = t
  /\ \A r \in Requests : rsp[r] = "erasing" => mutex = r

\* An entry is under the id of its requests; without a respond function it is
\* what Store leaves behind for a request that has been answered.
EntryOK ==
  \A k \in Keys : table[k] # None =>
    /\ \A r \in Requests :
         table[k].respond = r => /\ r \in Cancellable
                                 /\ IdOf[r] = k
                                 /\ rsp[r] # "new"
                                 /\ ~Aborted(r)
                                 /\ k # NoId => ~IsAnswered(r)
    /\ \A r \in Requests :
         table[k].cancel = r => IdOf[r] = k
    /\ table[k].respond = Empty /\ k # NoId =>
         table[k].cancel \in Requests /\ IsAnswered(table[k].cancel)
    /\ table[k].cancel = TempCancel => table[k].respond # Empty

\* A joining cancel still owns the entry it found.
JoinOK ==
  \A t \in Threads :
    pc[t] = "joining" => table[cur[t]] # None /\ table[cur[t]].cancel \in Requests

\* The request a thread is busy with, before and after it is in the map.
ProcessOK ==
  \A t \in Threads :
    /\ pc[t] \in {"register", "registering", "call"} => rsp[cur[t]] = "received"
    /\ pc[t] \in {"register", "registering"} => ~Aborted(cur[t])
    /\ pc[t] \in {"store", "storing"} \/ (pc[t] \in {"call", "sync", "async"}
                                           /\ cur[t] \in Cancellable) =>
         \/ Notification(cur[t])
         \/ Registered(IdOf[cur[t]], cur[t])
         \/ IsAnswered(cur[t])

\* Replies are counted once, and an abort is either owed or reported.
CountOK ==
  /\ \A r \in Requests :
       /\ results[r] <= 1
       /\ results[r] > 0 => rsp[r] = "sent" /\ ~Notification(r)
       /\ aborts[r] <= 1
       /\ Aborted(r) => r \in Cancellable /\ rsp[r] # "new"
       /\ Aborted(r) /\ ~Notification(r) => ~IsAnswered(r)
  /\ \A x \in Requests : owed[x] \in Requests =>
       /\ aborts[owed[x]] = 0
       /\ \A y \in Requests : owed[y] = owed[x] => x = y

\* A cancel was asked for whatever it is about to abort.
AskedOK ==
  /\ \A t \in Threads : pc[t] \in InCancel =>
       \A r \in Requests :
         IdOf[r] = cur[t] /\ rsp[r] # "new" => r \in cancelAsked
  /\ \A r \in Requests : Aborted(r) => r \in cancelAsked

IInv ==
  TInv /\ OneBusy /\ MutexOK /\ EntryOK /\ JoinOK /\ ProcessOK /\ CountOK /\ AskedOK

\* Every step of a serialised receiver preserves the invariant.
LEMMA IInvNext ==
  ASSUME Serialised, UniqueIds, IInv, [Next]_vars
  PROVE  IInv'
<1> USE ReceiverAssumption DEF IInv, TInv, TypeOK, Keys
<1>0. TInv'
      BY TInvNext
<1>1. ASSUME NEW t \in Threads, NEW r \in Requests, Receive(t, r) PROVE IInv'
      <2>1. OneBusy' /\ MutexOK' /\ JoinOK'
            BY <1>1 DEF Receive, MayReceive, Enter, OneBusy, MutexOK, JoinOK
      <2>2. EntryOK'
            BY <1>1 DEF Receive, EntryOK, IsAnswered, Aborted, AbortOwed
      <2>3. ProcessOK'
            BY <1>1 DEF Receive, Enter, ProcessOK, CountOK, IsAnswered, Aborted,
               AbortOwed, Registered
      <2>4. CountOK'
            BY <1>1 DEF Receive, CountOK, IsAnswered, Aborted, AbortOwed
      <2>5. AskedOK'
            BY <1>1 DEF Receive, MayReceive, Enter, AskedOK, InCancel,
               Aborted,
               AbortOwed
      <2> QED
          BY <1>0, <2>1, <2>2, <2>3, <2>4, <2>5
<1>2. ASSUME NEW t \in Threads, NEW k \in CancelIds, ReceiveCancel(t, k)
      PROVE  IInv'
      <2>1. OneBusy' /\ MutexOK' /\ JoinOK'
            BY <1>2 DEF ReceiveCancel, MayReceive, Enter, OneBusy, MutexOK,
               JoinOK
      <2>2. EntryOK'
            BY <1>2 DEF ReceiveCancel, EntryOK, IsAnswered, Aborted, AbortOwed
      <2>3. ProcessOK'
            BY <1>2 DEF ReceiveCancel, Enter, ProcessOK, IsAnswered, Aborted,
               AbortOwed, Registered
      <2>4. CountOK'
            BY <1>2 DEF ReceiveCancel, CountOK, IsAnswered, Aborted, AbortOwed
      <2>5. AskedOK'
            BY <1>2 DEF ReceiveCancel, Enter, AskedOK, Aborted, AbortOwed
      <2> QED
          BY <1>0, <2>1, <2>2, <2>3, <2>4, <2>5
<1>3. ASSUME NEW t \in Threads, LockRegister(t) \/ LockStore(t) \/ LockCancel(t)
      PROVE  IInv'
      <2>1. OneBusy' /\ MutexOK' /\ JoinOK'
            BY <1>3 DEF LockRegister, LockStore, LockCancel, Lock, Goto,
               OneBusy, MutexOK, JoinOK
      <2>2. EntryOK'
            BY <1>3 DEF LockRegister, LockStore, LockCancel, Lock, EntryOK,
               IsAnswered, Aborted, AbortOwed
      <2>3. ProcessOK'
            BY <1>3 DEF LockRegister, LockStore, LockCancel, Lock, Goto,
               ProcessOK, IsAnswered, Aborted, AbortOwed, Registered
      <2>4. CountOK'
            BY <1>3 DEF LockRegister, LockStore, LockCancel, Lock, CountOK,
               IsAnswered, Aborted, AbortOwed
      <2>5. AskedOK'
            BY <1>3 DEF LockRegister, LockStore, LockCancel, Lock, Goto,
               AskedOK, InCancel, Aborted, AbortOwed
      <2> QED
          BY <1>0, <2>1, <2>2, <2>3, <2>4, <2>5
<1>4. ASSUME NEW t \in Threads, Register(t) PROVE IInv'
      <2>1. OneBusy' /\ MutexOK' /\ JoinOK'
            BY <1>4 DEF Register, Goto, OneBusy, MutexOK, JoinOK
      <2>2. EntryOK'
            BY <1>4 DEF Register, EntryOK, ProcessOK, IsAnswered, Aborted,
               AbortOwed, CurOK, InProcess, InTable
      <2>3. ProcessOK'
            BY <1>4 DEF Register, Goto, ProcessOK, IsAnswered, Aborted,
               AbortOwed, Registered, Notification, CurOK, InProcess,
               UniqueIds, Entry
      <2>4. CountOK'
            BY <1>4 DEF Register, CountOK, IsAnswered, Aborted, AbortOwed
      <2>5. AskedOK'
            BY <1>4 DEF Register, Goto, AskedOK, InCancel, Aborted, AbortOwed
      <2> QED
          BY <1>0, <2>1, <2>2, <2>3, <2>4, <2>5
<1>5. ASSUME NEW t \in Threads, CallFunc(t) PROVE IInv'
      <2>1. OneBusy' /\ MutexOK' /\ JoinOK'
            BY <1>5 DEF CallFunc, Goto, OneBusy, MutexOK, JoinOK
      <2>2. EntryOK'
            BY <1>5 DEF CallFunc, EntryOK, ProcessOK, IsAnswered, Aborted,
               AbortOwed
      <2>3. ProcessOK'
            BY <1>5 DEF CallFunc, Goto, ProcessOK, OneBusy, IsAnswered,
               Registered
      <2>4. CountOK'
            BY <1>5 DEF CallFunc, CountOK, ProcessOK, IsAnswered, Aborted,
               AbortOwed
      <2>5. AskedOK'
            BY <1>5 DEF CallFunc, Goto, AskedOK, OneBusy, InCancel, Aborted,
               AbortOwed
      <2> QED
          BY <1>0, <2>1, <2>2, <2>3, <2>4, <2>5
<1>6. ASSUME NEW t \in Threads, FuncReturn(t) PROVE IInv'
      <2>1. OneBusy' /\ MutexOK' /\ JoinOK'
            BY <1>6 DEF FuncReturn, Goto, Return, OneBusy, MutexOK, JoinOK
      <2>2. EntryOK'
            BY <1>6 DEF FuncReturn, EntryOK, IsAnswered, Aborted, AbortOwed
      <2>3. ProcessOK'
            BY <1>6 DEF FuncReturn, Goto, Return, ProcessOK, IsAnswered,
               Aborted,
               AbortOwed, Registered
      <2>4. CountOK'
            BY <1>6 DEF FuncReturn, CountOK, IsAnswered, Aborted, AbortOwed
      <2>5. AskedOK'
            BY <1>6 DEF FuncReturn, Goto, Return, AskedOK, InCancel, Aborted,
               AbortOwed
      <2> QED
          BY <1>0, <2>1, <2>2, <2>3, <2>4, <2>5
<1>7. ASSUME NEW t \in Threads, Store(t) PROVE IInv'
      <2>1. OneBusy' /\ MutexOK' /\ JoinOK'
            BY <1>7 DEF Store, Return, OneBusy, MutexOK, JoinOK
      <2>2. EntryOK'
            BY <1>7 DEF Store, Stored, EntryOK, ProcessOK, IsAnswered, Aborted,
               AbortOwed, Registered, Notification, CurOK, InProcess
      <2>3. ProcessOK'
            BY <1>7 DEF Store, Return, ProcessOK, OneBusy
      <2>4. CountOK'
            BY <1>7 DEF Store, CountOK, IsAnswered, Aborted, AbortOwed
      <2>5. AskedOK'
            BY <1>7 DEF Store, Return, AskedOK, InCancel, Aborted, AbortOwed
      <2> QED
          BY <1>0, <2>1, <2>2, <2>3, <2>4, <2>5
<1>8. ASSUME NEW t \in Threads, CancelUnknown(t) PROVE IInv'
      <2>1. OneBusy' /\ MutexOK' /\ JoinOK'
            BY <1>8 DEF CancelUnknown, Return, OneBusy, MutexOK, JoinOK
      <2>2. EntryOK'
            BY <1>8 DEF CancelUnknown, EntryOK, IsAnswered, Aborted, AbortOwed
      <2>3. ProcessOK'
            BY <1>8 DEF CancelUnknown, Return, ProcessOK, IsAnswered, Aborted,
               AbortOwed, Registered
      <2>4. CountOK'
            BY <1>8 DEF CancelUnknown, CountOK, IsAnswered, Aborted, AbortOwed
      <2>5. AskedOK'
            BY <1>8 DEF CancelUnknown, Return, AskedOK, InCancel, Aborted,
               AbortOwed
      <2> QED
          BY <1>0, <2>1, <2>2, <2>3, <2>4, <2>5
<1>9. ASSUME NEW t \in Threads, CancelNow(t) PROVE IInv'
      <2>1. OneBusy' /\ MutexOK' /\ JoinOK'
            BY <1>9 DEF CancelNow, EraseAndUnlock, Return, OneBusy, MutexOK,
               JoinOK
      <2>2. EntryOK'
            BY <1>9 DEF CancelNow, Done, EraseAndUnlock, EntryOK, IsAnswered,
               Aborted, AbortOwed, CurOK, InCancel
      <2>3. ProcessOK'
            BY <1>9 DEF CancelNow, EraseAndUnlock, Return, ProcessOK, OneBusy
      <2>4. CountOK'
            BY <1>9 DEF CancelNow, Done, CountOK, EntryOK, CurOK, InCancel,
               IsAnswered, Aborted, AbortOwed, Notification
      <2>5. AskedOK'
            BY <1>9 DEF CancelNow, Done, EraseAndUnlock, Return, AskedOK,
               EntryOK, CurOK, InCancel, Aborted, AbortOwed
      <2> QED
          BY <1>0, <2>1, <2>2, <2>3, <2>4, <2>5
<1>10. ASSUME NEW t \in Threads, CancelLater(t) PROVE IInv'
      <2>1. OneBusy' /\ MutexOK' /\ JoinOK'
            BY <1>10 DEF CancelLater, EraseAndUnlock, Return, OneBusy,
               MutexOK,
               JoinOK
      <2>2. EntryOK'
            BY <1>10 DEF CancelLater, EraseAndUnlock, EntryOK, IsAnswered,
               Aborted, AbortOwed, CurOK, InCancel
      <2>3. ProcessOK'
            BY <1>10 DEF CancelLater, EraseAndUnlock, Return, ProcessOK,
               OneBusy
      <2>4. CountOK'
            BY <1>10 DEF CancelLater, CountOK, EntryOK, CurOK, InCancel,
               IsAnswered, Aborted, AbortOwed, Notification
      <2>5. AskedOK'
            BY <1>10 DEF CancelLater, EraseAndUnlock, Return, AskedOK,
               EntryOK,
               CurOK, InCancel, Aborted, AbortOwed
      <2> QED
          BY <1>0, <2>1, <2>2, <2>3, <2>4, <2>5
<1>11. ASSUME NEW t \in Threads, CancelJoin(t) PROVE IInv'
      <2>1. OneBusy' /\ MutexOK' /\ JoinOK'
            BY <1>11 DEF CancelJoin, Goto, OneBusy, MutexOK, JoinOK
      <2>2. EntryOK'
            BY <1>11 DEF CancelJoin, EntryOK, IsAnswered, Aborted, AbortOwed
      <2>3. ProcessOK'
            BY <1>11 DEF CancelJoin, Goto, ProcessOK, IsAnswered, Aborted,
               AbortOwed, Registered
      <2>4. CountOK'
            BY <1>11 DEF CancelJoin, CountOK, IsAnswered, Aborted, AbortOwed
      <2>5. AskedOK'
            BY <1>11 DEF CancelJoin, Goto, AskedOK, InCancel, Aborted,
               AbortOwed
      <2> QED
          BY <1>0, <2>1, <2>2, <2>3, <2>4, <2>5
<1>12. ASSUME NEW t \in Threads, CancelJoined(t) PROVE IInv'
      <2>1. OneBusy' /\ MutexOK' /\ JoinOK'
            BY <1>12 DEF CancelJoined, EraseAndUnlock, Return, OneBusy,
               MutexOK, JoinOK
      <2>2. EntryOK'
            BY <1>12 DEF CancelJoined, Done, EraseAndUnlock, EntryOK, JoinOK,
               IsAnswered, Aborted, AbortOwed, CurOK, InCancel
      <2>3. ProcessOK'
            BY <1>12 DEF CancelJoined, EraseAndUnlock, Return, ProcessOK,
               OneBusy
      <2>4. CountOK'
            BY <1>12 DEF CancelJoined, Done, CountOK, EntryOK, JoinOK, CurOK,
               InCancel, IsAnswered, Aborted, AbortOwed, Notification
      <2>5. AskedOK'
            BY <1>12 DEF CancelJoined, Done, EraseAndUnlock, Return, AskedOK,
               EntryOK, JoinOK, CurOK, InCancel, Aborted, AbortOwed
      <2> QED
          BY <1>0, <2>1, <2>2, <2>3, <2>4, <2>5
<1>13. ASSUME NEW r \in Requests, RespondPlain(r) PROVE IInv'
      <2>1. OneBusy' /\ MutexOK' /\ JoinOK'
            BY <1>13 DEF RespondPlain, OneBusy, MutexOK, JoinOK
      <2>2. EntryOK'
            BY <1>13 DEF RespondPlain, EntryOK, IsAnswered, Aborted, AbortOwed
      <2>3. ProcessOK'
            BY <1>13 DEF RespondPlain, ProcessOK, IsAnswered, Aborted,
               AbortOwed,
               Registered
      <2>4. CountOK'
            BY <1>13 DEF RespondPlain, CountOK, IsAnswered, Aborted, AbortOwed
      <2>5. AskedOK'
            BY <1>13 DEF RespondPlain, AskedOK, Aborted, AbortOwed
      <2> QED
          BY <1>0, <2>1, <2>2, <2>3, <2>4, <2>5
<1>14. ASSUME NEW r \in Requests, TryLock(r) PROVE IInv'
      <2>1. OneBusy' /\ MutexOK' /\ JoinOK'
            BY <1>14 DEF TryLock, OneBusy, MutexOK, JoinOK
      <2>2. EntryOK'
            BY <1>14 DEF TryLock, EntryOK, IsAnswered, Aborted, AbortOwed
      <2>3. ProcessOK'
            BY <1>14 DEF TryLock, ProcessOK, IsAnswered, Aborted, AbortOwed,
               Registered, CurOK, InProcess
      <2>4. CountOK'
            BY <1>14 DEF TryLock, CountOK, IsAnswered, Aborted, AbortOwed
      <2>5. AskedOK'
            BY <1>14 DEF TryLock, AskedOK, Aborted, AbortOwed
      <2> QED
          BY <1>0, <2>1, <2>2, <2>3, <2>4, <2>5
<1>15. ASSUME NEW r \in Requests, Erase(r) PROVE IInv'
      <2>1. OneBusy' /\ MutexOK' /\ JoinOK'
            BY <1>15 DEF Erase, OneBusy, MutexOK, JoinOK
      <2>2. EntryOK'
            BY <1>15 DEF Erase, EntryOK, IsAnswered, Aborted, AbortOwed
      <2>3. ProcessOK'
            BY <1>15 DEF Erase, ProcessOK, IsAnswered, Aborted, AbortOwed,
               Registered, Notification, CurOK, InProcess, UniqueIds
      <2>4. CountOK'
            BY <1>15 DEF Erase, CountOK, EntryOK, IsAnswered, Aborted,
               AbortOwed,
               Notification, UniqueIds, Entry
      <2>5. AskedOK'
            BY <1>15 DEF Erase, AskedOK, Aborted, AbortOwed
      <2> QED
          BY <1>0, <2>1, <2>2, <2>3, <2>4, <2>5
<1>16. ASSUME NEW r \in Requests, Respond(r) PROVE IInv'
      <2>1. OneBusy' /\ MutexOK' /\ JoinOK'
            BY <1>16 DEF Respond, OneBusy, MutexOK, JoinOK
      <2>2. EntryOK'
            BY <1>16 DEF Respond, EntryOK, IsAnswered, Aborted, AbortOwed
      <2>3. ProcessOK'
            BY <1>16 DEF Respond, ProcessOK, IsAnswered, Aborted, AbortOwed,
               Registered
      <2>4. CountOK'
            BY <1>16 DEF Respond, CountOK, IsAnswered, Aborted, AbortOwed,
               Notification
      <2>5. AskedOK'
            BY <1>16 DEF Respond, AskedOK, Aborted, AbortOwed
      <2> QED
          BY <1>0, <2>1, <2>2, <2>3, <2>4, <2>5
<1>17. ASSUME NEW r \in Requests, DoneLater(r) PROVE IInv'
      <2>1. OneBusy' /\ MutexOK' /\ JoinOK'
            BY <1>17 DEF DoneLater, OneBusy, MutexOK, JoinOK
      <2>2. EntryOK'
            BY <1>17 DEF DoneLater, Done, EntryOK, IsAnswered, Aborted,
               AbortOwed
      <2>3. ProcessOK'
            BY <1>17 DEF DoneLater, Done, ProcessOK, IsAnswered, Aborted,
               AbortOwed, Registered, CurOK, InProcess
      <2>4. CountOK'
            BY <1>17 DEF DoneLater, Done, CountOK, IsAnswered, Aborted,
               AbortOwed
      <2>5. AskedOK'
            BY <1>17 DEF DoneLater, Done, AskedOK, Aborted, AbortOwed
      <2> QED
          BY <1>0, <2>1, <2>2, <2>3, <2>4, <2>5
<1>18. ASSUME NEW t \in Threads, ReceiveInvalidCancel(t) \/ IgnoreCancel(t)
       PROVE  IInv'
      <2> USE DEF ReceiveInvalidCancel, IgnoreCancel, Enter, Return
      <2>1. OneBusy' /\ MutexOK' /\ JoinOK'
            BY <1>18 DEF MayReceive, OneBusy, MutexOK, JoinOK
      <2>2. EntryOK'
            BY <1>18 DEF EntryOK, IsAnswered, Aborted, AbortOwed
      <2>3. ProcessOK'
            BY <1>18 DEF ProcessOK, IsAnswered, Aborted, AbortOwed, Registered
      <2>4. CountOK'
            BY <1>18 DEF CountOK, IsAnswered, Aborted, AbortOwed
      <2>5. AskedOK'
            BY <1>18 DEF AskedOK, InCancel, Aborted, AbortOwed
      <2> QED
          BY <1>0, <2>1, <2>2, <2>3, <2>4, <2>5
<1>19. CASE UNCHANGED vars
      BY <1>19 DEF vars, OneBusy, MutexOK, EntryOK, JoinOK, ProcessOK,
         CountOK,
         AskedOK, IsAnswered, Aborted, AbortOwed, Registered, CurOK
<1> QED
    BY <1>0, <1>1, <1>2, <1>3, <1>4, <1>5, <1>6, <1>7, <1>8, <1>9, <1>10,
       <1>11, <1>12, <1>13, <1>14, <1>15, <1>16, <1>17, <1>18, <1>19
       DEF Next, ThreadStep, ResponseStep

LEMMA IInvInit == Init => IInv
<1> SUFFICES ASSUME Init PROVE IInv
    OBVIOUS
<1>1. TInv
      BY TInvInit
<1>2. OneBusy /\ MutexOK /\ JoinOK /\ EntryOK /\ ProcessOK
      BY DEF Init, OneBusy, MutexOK, JoinOK, EntryOK, ProcessOK
<1>3. ~\E r \in Requests : Aborted(r)
      BY ReceiverAssumption DEF Init, Aborted, AbortOwed
<1>4. AskedOK
      BY <1>3 DEF Init, AskedOK, InCancel
<1>5. CountOK
      BY <1>3, ReceiverAssumption DEF Init, CountOK
<1> QED
    BY <1>1, <1>2, <1>4, <1>5 DEF IInv

\* cancellableReceiverImpl.h:100 and :111: of the answer of the application and
\* the abort that a cancel brings about, a client gets at most one, however the
\* two interleave, when process() is serialised and no two requests share an id.
THEOREM OneReply ==
  ASSUME Serialised, UniqueIds
  PROVE  Spec => []AtMostOneReply
<1>1. ASSUME IInv PROVE AtMostOneReply
      <2> SUFFICES ASSUME NEW r \in Requests
                   PROVE  results[r] + aborts[r] <= 1
          BY DEF AtMostOneReply
      <2>1. results[r] \in Nat /\ aborts[r] \in Nat
            BY <1>1 DEF IInv, TInv, TypeOK
      <2>2. results[r] > 0 => aborts[r] = 0
            BY <1>1, <2>1 DEF IInv, CountOK, Aborted, IsAnswered
      <2>3. results[r] <= 1 /\ aborts[r] <= 1
            BY <1>1 DEF IInv, CountOK
      <2> QED
          BY <2>1, <2>2, <2>3
<1> QED
    BY IInvInit, IInvNext, <1>1, PTL DEF Spec

\* cancellableReceiverImpl.h:97: an entry of the map never survives its request
\* to be taken for a later one: whoever is told "Request aborted" was asked for
\* by a cancel that arrived after it.
THEOREM AbortsAskedFor ==
  ASSUME Serialised, UniqueIds
  PROVE  Spec => []AbortOnlyIfAsked
<1>1. IInv => AbortOnlyIfAsked
      BY DEF IInv, AskedOK, AbortOnlyIfAsked, Aborted
<1> QED
    BY IInvInit, IInvNext, <1>1, PTL DEF Spec

-----------------------------------------------------------------------------
(***************************************************************************)
(* What a cancel finds: a request that is being worked on has its entry,   *)
(* and a done() is kept by the request whose abort it reports.             *)
(***************************************************************************)
OwedOK ==
  \A x \in Requests : owed[x] \in Requests => IdOf[owed[x]] = IdOf[x]

AskedIds == \A r \in cancelAsked : IdOf[r] \in CancelIds

ErasingOK == \A r \in Requests : rsp[r] = "erasing" => r \in Cancellable

PInv ==
  OwedOK /\ AskedIds /\ ErasingOK /\ PendingIsCancellable /\ SkippedOnlyIfAborted

LEMMA PInvInit == Init => PInv
<1> SUFFICES ASSUME Init PROVE PInv
    OBVIOUS
<1> QED
    BY ReceiverAssumption
       DEF Init, PInv, OwedOK, AskedIds, ErasingOK, PendingIsCancellable,
           SkippedOnlyIfAborted

\* Steps that leave the map, the aborts and the done()s alone.
LEMMA PInvKept ==
  ASSUME PInv, UNCHANGED <<table, owed, aborts>>,
         cancelAsked \subseteq cancelAsked',
         \A r \in cancelAsked' \ cancelAsked : IdOf[r] \in CancelIds,
         \A r \in Requests :
           /\ rsp'[r] = "skipped" => rsp[r] = "skipped"
           /\ rsp'[r] = "erasing" => rsp[r] = "erasing" \/ r \in Cancellable
           /\ rsp'[r] \in {"held", "working", "erasing"} =>
                \/ rsp[r] \in {"held", "working", "erasing"}
                \/ Registered(IdOf[r], r)
  PROVE  PInv'
BY ReceiverAssumption DEF PInv, OwedOK, AskedIds, ErasingOK,
   PendingIsCancellable, SkippedOnlyIfAborted,
   AbortOwed, Notification, Registered

LEMMA PInvNext ==
  ASSUME Serialised, UniqueIds, IInv, PInv, [Next]_vars
  PROVE  PInv'
<1> USE ReceiverAssumption
<1>0. /\ table \in [Keys -> Entry \cup {None}]
      /\ rsp \in [Requests -> RspStates]
      /\ owed \in [Requests -> Requests \cup {Empty, None}]
      /\ aborts \in [Requests -> Nat]
      /\ cancelAsked \subseteq Requests
      /\ CurOK
      BY DEF IInv, TInv, TypeOK
<1>1. ASSUME NEW t \in Threads, NEW r \in Requests, Receive(t, r) PROVE PInv'
      <2>1. /\ UNCHANGED <<table, owed, aborts, cancelAsked>>
            /\ rsp' = [rsp EXCEPT ![r] = "received"]
            BY <1>1 DEF Receive
      <2> QED
          BY <1>0, <2>1, PInvKept
<1>2. ASSUME NEW t \in Threads, NEW k \in CancelIds, ReceiveCancel(t, k)
      PROVE  PInv'
      <2>1. /\ UNCHANGED <<table, owed, aborts, rsp>>
            /\ cancelAsked \subseteq cancelAsked'
            /\ \A r \in cancelAsked' \ cancelAsked : IdOf[r] = k
            BY <1>2 DEF ReceiveCancel
      <2> QED
          BY <2>1, PInvKept
<1>3. ASSUME NEW t \in Threads,
             \/ LockRegister(t) \/ LockStore(t) \/ LockCancel(t)
             \/ FuncReturn(t) \/ CancelUnknown(t) \/ CancelJoin(t)
             \/ ReceiveInvalidCancel(t) \/ IgnoreCancel(t)
      PROVE  PInv'
      <2>1. UNCHANGED <<table, owed, aborts, cancelAsked, rsp>>
            BY <1>3 DEF LockRegister, LockStore, LockCancel, Lock, FuncReturn,
               CancelUnknown, CancelJoin, ReceiveInvalidCancel, IgnoreCancel
      <2> QED
          BY <2>1, PInvKept
<1>4. ASSUME NEW t \in Threads, Register(t) PROVE PInv'
      <2>1. /\ pc[t] = "registering" /\ cur[t] \in Requests
            /\ UNCHANGED <<rsp, owed, aborts, cancelAsked>>
            /\ table' = [table EXCEPT ![IdOf[cur[t]]] =
                           [cancel |-> TempCancel, respond |-> cur[t]]]
            BY <1>0, <1>4 DEF Register, CurOK, InProcess
      <2>2. ASSUME NEW r \in Requests, Registered(IdOf[r], r), ~Notification(r)
            PROVE  Registered(IdOf[r], r)'
            BY <1>0, <2>1, <2>2 DEF Registered, Notification, UniqueIds, Entry
      <2> QED
          BY <2>1, <2>2 DEF PInv, OwedOK, AskedIds, ErasingOK,
             PendingIsCancellable,
             SkippedOnlyIfAborted, AbortOwed, Notification, Registered
<1>5. ASSUME NEW t \in Threads, CallFunc(t) PROVE PInv'
      <2>1. /\ pc[t] = "call" /\ cur[t] \in Requests
            /\ UNCHANGED <<table, owed, aborts, cancelAsked>>
            /\ \A r \in Requests : r # cur[t] => rsp'[r] = rsp[r]
            /\ rsp'[cur[t]] \in {"working", "held"} /\ rsp[cur[t]] = "received"
            BY <1>0, <1>5 DEF CallFunc, CurOK, InProcess, IInv, ProcessOK
      <2>2. cur[t] \in Cancellable /\ ~Notification(cur[t]) =>
              Registered(IdOf[cur[t]], cur[t])
            BY <2>1 DEF IInv, ProcessOK, IsAnswered
      <2> QED
          BY <2>1, <2>2 DEF PInv, OwedOK, AskedIds, ErasingOK,
             PendingIsCancellable,
             SkippedOnlyIfAborted, AbortOwed, Notification, Registered
<1>6. ASSUME NEW t \in Threads, Store(t) PROVE PInv'
      <2>1. /\ UNCHANGED <<rsp, owed, aborts, cancelAsked>>
            /\ cur[t] \in Requests
            /\ table' = [table EXCEPT ![IdOf[cur[t]]] =
                           Stored(IdOf[cur[t]], cur[t])]
            BY <1>0, <1>6 DEF Store, CurOK, InProcess
      <2>2. ASSUME NEW r \in Requests, Registered(IdOf[r], r)
            PROVE  Registered(IdOf[r], r)'
            BY <1>0, <2>1, <2>2 DEF Registered, Stored, Entry
      <2> QED
          BY <2>1, <2>2 DEF PInv, OwedOK, AskedIds, ErasingOK,
             PendingIsCancellable,
             SkippedOnlyIfAborted, AbortOwed, Notification, Registered
<1>7. ASSUME NEW t \in Threads, CancelNow(t) \/ CancelJoined(t) PROVE PInv'
      <2> DEFINE x == table[cur[t]].respond
      <2>1. /\ cur[t] \in Keys /\ table[cur[t]] # None
            /\ UNCHANGED <<rsp, owed, cancelAsked>>
            /\ Done(x)
            /\ table' = IF x = Empty THEN table
                                     ELSE [table EXCEPT ![cur[t]] = None]
            BY <1>0, <1>7 DEF CancelNow, CancelJoined, EraseAndUnlock, CurOK,
               InCancel, IInv, JoinOK
      <2>2. x \in Requests \cup {Empty}
            BY <1>0, <2>1 DEF Entry
      <2>3. \A r \in Requests : aborts[r] > 0 => aborts'[r] > 0
            BY <1>0, <2>1 DEF Done
      <2>4. x \in Requests => aborts'[x] > 0
            BY <1>0, <2>1 DEF Done
      <2>5. ASSUME NEW r \in Requests, Registered(IdOf[r], r)
            PROVE  Registered(IdOf[r], r)' \/ aborts'[r] > 0
            BY <1>0, <2>1, <2>2, <2>4, <2>5 DEF Registered
      <2> QED
          BY <2>1, <2>3, <2>5 DEF PInv, OwedOK, AskedIds, ErasingOK,
             PendingIsCancellable,
             SkippedOnlyIfAborted, AbortOwed, Notification, Registered
<1>8. ASSUME NEW t \in Threads, CancelLater(t) PROVE PInv'
      <2> DEFINE e == table[cur[t]]
      <2>1. /\ cur[t] \in Keys /\ e # None /\ e.cancel \in Requests
            /\ UNCHANGED <<rsp, aborts, cancelAsked>>
            /\ owed' = [owed EXCEPT ![e.cancel] = e.respond]
            /\ table' = [table EXCEPT ![cur[t]] = None]
            BY <1>0, <1>8 DEF CancelLater, EraseAndUnlock, CurOK, InCancel
      <2>2. /\ IdOf[e.cancel] = cur[t]
            /\ e.respond \in Requests =>
                 IdOf[e.respond] = cur[t] /\ ~Aborted(e.respond)
            /\ e.respond = Empty /\ cur[t] # NoId => IsAnswered(e.cancel)
            /\ e.respond \in Requests \cup {Empty}
            BY <1>0, <2>1 DEF IInv, EntryOK, Entry
      <2>3. ASSUME NEW r \in Requests, AbortOwed(r), ~Notification(r)
            PROVE  AbortOwed(r)'
            <3>1. PICK y \in Requests : owed[y] = r
                  BY <2>3 DEF AbortOwed
            <3>2. y = r
                  BY <2>3, <3>1 DEF PInv, OwedOK, UniqueIds, Notification
            <3>3. Aborted(r) /\ ~IsAnswered(r)
                  BY <2>3 DEF Aborted, IInv, CountOK
            <3>4. e.cancel # r
                  BY <2>1, <2>2, <2>3, <3>3 DEF UniqueIds, Notification
            <3> QED
                BY <1>0, <2>1, <3>1, <3>2, <3>4 DEF AbortOwed
      <2>4. ASSUME NEW r \in Requests, Registered(IdOf[r], r)
            PROVE  Registered(IdOf[r], r)' \/ AbortOwed(r)'
            BY <1>0, <2>1, <2>2, <2>4 DEF Registered, AbortOwed
      <2>5. OwedOK'
            BY <1>0, <2>1, <2>2 DEF PInv, OwedOK
      <2> QED
          BY <2>1, <2>3, <2>4, <2>5 DEF PInv, AskedIds, ErasingOK,
             PendingIsCancellable,
             SkippedOnlyIfAborted, Notification, Registered
<1>9. ASSUME NEW r \in Requests, RespondPlain(r) \/ TryLock(r) \/ Respond(r)
      PROVE  PInv'
      <2>1. /\ UNCHANGED <<table, owed, aborts, cancelAsked>>
            /\ \A s \in Requests : s # r => rsp'[s] = rsp[s]
            /\ rsp'[r] # "skipped"
            /\ rsp'[r] = "erasing" => rsp[r] = "working" /\ r \in Cancellable
            /\ rsp'[r] \notin {"held", "working"}
            BY <1>0, <1>9 DEF RespondPlain, TryLock, Respond
      <2> QED
          BY <2>1, PInvKept
<1>10. ASSUME NEW r \in Requests, Erase(r) PROVE PInv'
      <2>1. /\ UNCHANGED <<owed, aborts, cancelAsked>>
            /\ rsp[r] = "erasing"
            /\ \A s \in Requests : s # r => rsp'[s] = rsp[s]
            /\ rsp'[r] = IF table[IdOf[r]] = None THEN "skipped" ELSE "responding"
            /\ table' = [table EXCEPT ![IdOf[r]] = None]
            BY <1>0, <1>10 DEF Erase
      <2>2. table[IdOf[r]] = None /\ ~Notification(r) =>
              aborts[r] > 0 \/ AbortOwed(r)
            BY <2>1 DEF PInv, ErasingOK, PendingIsCancellable
      <2>3. ASSUME NEW s \in Requests, s # r, ~Notification(s),
                   Registered(IdOf[s], s)
            PROVE  Registered(IdOf[s], s)'
            BY <1>0, <2>1, <2>3 DEF Registered, UniqueIds, Notification
      <2> QED
          BY <2>1, <2>2, <2>3 DEF PInv, OwedOK, AskedIds, ErasingOK,
             PendingIsCancellable,
             SkippedOnlyIfAborted, AbortOwed, Notification, Registered
<1>11. ASSUME NEW r \in Requests, DoneLater(r) PROVE PInv'
      <2>1. /\ UNCHANGED <<table, rsp, cancelAsked>>
            /\ owed' = [owed EXCEPT ![r] = None]
            /\ Done(owed[r])
            BY <1>11 DEF DoneLater
      <2>2. \A s \in Requests : aborts[s] > 0 => aborts'[s] > 0
            BY <1>0, <2>1 DEF Done
      <2>3. ASSUME NEW s \in Requests, AbortOwed(s)
            PROVE  AbortOwed(s)' \/ aborts'[s] > 0
            BY <1>0, <2>1, <2>3 DEF Done, AbortOwed
      <2>4. OwedOK'
            BY <1>0, <2>1 DEF PInv, OwedOK
      <2> QED
          BY <2>1, <2>2, <2>3, <2>4 DEF PInv, AskedIds, ErasingOK,
             PendingIsCancellable,
             SkippedOnlyIfAborted, Notification
<1>12. CASE UNCHANGED vars
      <2>1. UNCHANGED <<table, owed, aborts, cancelAsked, rsp>>
            BY <1>12 DEF vars
      <2> QED
          BY <2>1, PInvKept
<1> QED
    BY <1>1, <1>2, <1>3, <1>4, <1>5, <1>6, <1>7, <1>8, <1>9, <1>10, <1>11,
       <1>12 DEF Next, ThreadStep, ResponseStep

\* cancellableReceiverImpl.h:97 and :150: a request that is being worked on can
\* be cancelled, whatever the threads have done to the map in the meantime.
THEOREM Cancellability ==
  ASSUME Serialised, UniqueIds
  PROVE  Spec => []PendingIsCancellable
<1>1. PInv => PendingIsCancellable
      BY DEF PInv
<1> QED
    BY IInvInit, IInvNext, PInvInit, PInvNext, <1>1, PTL DEF Spec

\* cancellableReceiverImpl.h:111: an answer is skipped because no entry is left
\* only if the client has been or will be told of the abort.
THEOREM SkippedAreAborted ==
  ASSUME Serialised, UniqueIds
  PROVE  Spec => []SkippedOnlyIfAborted
<1>1. PInv => SkippedOnlyIfAborted
      BY DEF PInv
<1> QED
    BY IInvInit, IInvNext, PInvInit, PInvNext, <1>1, PTL DEF Spec

\* cancellableReceiverImpl.h:138: a notification gets no reply, provided that
\* no client cancels the null id.
THEOREM NoReplyToNotifications ==
  ASSUME Serialised, UniqueIds, NoId \notin CancelIds
  PROVE  Spec => []NotificationsUnanswered
<1>1. ASSUME IInv, PInv PROVE NotificationsUnanswered
      <2> SUFFICES ASSUME NEW r \in Requests, Notification(r)
                   PROVE  results[r] + aborts[r] = 0
          BY DEF NotificationsUnanswered
      <2>1. results[r] \in Nat /\ aborts[r] \in Nat
            BY <1>1 DEF IInv, TInv, TypeOK
      <2>2. results[r] = 0
            BY <1>1, <2>1 DEF IInv, CountOK
      <2>3. aborts[r] = 0
            BY <1>1, <2>1
               DEF IInv, AskedOK, Aborted, PInv, AskedIds, Notification
      <2> QED
          BY <2>2, <2>3
<1> QED
    BY IInvInit, IInvNext, PInvInit, PInvNext, <1>1, PTL DEF Spec

\* Done(x) is an Abort of the promise, or nothing when x is a notification.
LEMMA DoneAborts ==
  ASSUME IInv, NEW x \in Requests \cup {Empty, None}, Done(x),
         UNCHANGED <<rsp, results, cancelAsked>>,
         x \in Calls => /\ x \in cancelAsked
                        /\ aborts[x] = 0
                        /\ rsp[x] # "new"
                        /\ ~IsAnswered(x)
  PROVE  [Promise!Next]_(Promise!vars)
<1>1. CASE x \in Calls
      <2>1. aborts' = [aborts EXCEPT ![x] = @ + 1] /\ aborts[x] = 0
            BY <1>1 DEF Done, Calls
      <2>2. results[x] = 0
            BY <1>1 DEF IInv, TInv, TypeOK, CountOK, IsAnswered, Calls
      <2>3. Promise!Abort(x)
            BY <1>1, <2>1, <2>2
               DEF Promise!Abort, Promise!Open, Calls, Notification, IInv,
                   TInv, TypeOK
      <2> QED
          BY <1>1, <2>3 DEF Promise!Next
<1>2. CASE x \notin Calls
      <2>1. \A r \in Calls : aborts'[r] = aborts[r]
            BY <1>2 DEF Done, Calls, IInv, TInv, TypeOK
      <2> QED
          BY <2>1 DEF Promise!vars, Calls, Notification
<1> QED
    BY <1>1, <1>2

\* Every step of the receiver is a step of its promise, or none.
LEMMA PromiseNext ==
  ASSUME UniqueIds, IInv, [Next]_vars
  PROVE  [Promise!Next]_(Promise!vars)
<1> USE ReceiverAssumption
<1> DEFINE P == [Promise!Next]_(Promise!vars)
           Quiet == /\ UNCHANGED <<results, aborts, cancelAsked>>
                    /\ \A r \in Requests : rsp'[r] = "new" <=> rsp[r] = "new"
<1>0. ASSUME Quiet PROVE P
      <2>1. {r \in Calls : rsp[r] # "new"}' = {r \in Calls : rsp[r] # "new"}
            BY <1>0 DEF Calls, Notification
      <2> QED
          BY <1>0, <2>1 DEF Promise!vars, Calls, Notification
<1>1. ASSUME NEW t \in Threads, NEW r \in Requests, Receive(t, r) PROVE P
      <2>1. UNCHANGED <<cancelAsked, results, aborts>> /\ rsp[r] = "new"
            /\ rsp' = [rsp EXCEPT ![r] = "received"]
            BY <1>1 DEF Receive
      <2>2. rsp \in [Requests -> RspStates]
            BY DEF IInv, TInv, TypeOK
      <2>3. CASE r \in Calls
            <3>1. Promise!Accept(r)
                  BY <2>1, <2>2, <2>3 DEF Promise!Accept, Calls, Notification
            <3> QED
                BY <2>3, <3>1 DEF Promise!Next
      <2>4. CASE r \notin Calls
            <3>1. {x \in Calls : rsp[x] # "new"}' = {x \in Calls : rsp[x] # "new"}
                  BY <2>1, <2>2, <2>4 DEF Calls, Notification
            <3> QED
                BY <2>1, <3>1 DEF Promise!vars, Calls, Notification
      <2> QED
          BY <2>3, <2>4
<1>2. ASSUME NEW t \in Threads, NEW k \in CancelIds, ReceiveCancel(t, k) PROVE P
      <2> DEFINE C == {r \in Calls : IdOf[r] = k /\ rsp[r] # "new"}
      <2>1. UNCHANGED <<rsp, results, aborts>>
            BY <1>2 DEF ReceiveCancel
      <2>2. (cancelAsked \cap Calls)' = (cancelAsked \cap Calls) \cup C
            BY <1>2 DEF ReceiveCancel, Calls, Notification
      <2>3. Promise!Ask(C)
            BY <2>1, <2>2 DEF Promise!Ask, Calls, Notification
      <2>4. C \in SUBSET Calls
            OBVIOUS
      <2> QED
          BY <2>3, <2>4 DEF Promise!Next
<1>3. ASSUME NEW t \in Threads,
             \/ LockRegister(t) \/ LockStore(t) \/ LockCancel(t)
             \/ Register(t) \/ FuncReturn(t) \/ Store(t)
             \/ CancelUnknown(t) \/ CancelLater(t) \/ CancelJoin(t)
             \/ ReceiveInvalidCancel(t) \/ IgnoreCancel(t)
      PROVE  P
      <2>1. UNCHANGED <<rsp, results, aborts, cancelAsked>>
            BY <1>3 DEF LockRegister, LockStore, LockCancel, Lock, Register,
               FuncReturn, Store, CancelUnknown, CancelLater, CancelJoin,
               ReceiveInvalidCancel, IgnoreCancel
      <2> QED
          BY <1>0, <2>1
<1>4. ASSUME NEW t \in Threads, CallFunc(t) PROVE P
      <2>1. rsp[cur[t]] = "received" /\ cur[t] \in Requests
            BY <1>4 DEF CallFunc, IInv, TInv, CurOK, InProcess, ProcessOK
      <2>2. Quiet
            BY <1>4, <2>1 DEF CallFunc, IInv, TInv, TypeOK
      <2> QED
          BY <1>0, <2>2
<1>5. ASSUME NEW t \in Threads, CancelNow(t) \/ CancelJoined(t) PROVE P
      <2> DEFINE x == table[cur[t]].respond
      <2>1. cur[t] \in Keys /\ table[cur[t]] # None /\ pc[t] \in InCancel
            BY <1>5 DEF CancelNow, CancelJoined, IInv, TInv, CurOK, InCancel,
               JoinOK
      <2>2. x \in Requests \cup {Empty}
            BY <2>1 DEF IInv, TInv, TypeOK, Entry
      <2>3. ASSUME x \in Calls
            PROVE  /\ x \in cancelAsked
                   /\ aborts[x] = 0
                   /\ rsp[x] # "new"
                   /\ ~IsAnswered(x)
            BY <2>1, <2>3 DEF IInv, TInv, TypeOK, EntryOK, AskedOK, Aborted,
               Calls, Notification
      <2>4. Done(x) /\ UNCHANGED <<rsp, results, cancelAsked>>
            BY <1>5 DEF CancelNow, CancelJoined
      <2> QED
          BY <2>2, <2>3, <2>4, DoneAborts
<1>6. ASSUME NEW r \in Requests, DoneLater(r) PROVE P
      <2>1. owed[r] \in Requests \cup {Empty}
            BY <1>6 DEF DoneLater, IInv, TInv, TypeOK
      <2>2. ASSUME owed[r] \in Calls
            PROVE  /\ owed[r] \in cancelAsked
                   /\ aborts[owed[r]] = 0
                   /\ rsp[owed[r]] # "new"
                   /\ ~IsAnswered(owed[r])
            BY <2>2 DEF IInv, CountOK, AskedOK, Aborted, AbortOwed, Calls
      <2>3. Done(owed[r]) /\ UNCHANGED <<rsp, results, cancelAsked>>
            BY <1>6 DEF DoneLater
      <2> QED
          BY <2>1, <2>2, <2>3, DoneAborts
<1>7. ASSUME NEW r \in Requests, RespondPlain(r) \/ TryLock(r) \/ Erase(r)
      PROVE  P
      <2>1. Quiet
            BY <1>7 DEF RespondPlain, TryLock, Erase, IInv, TInv, TypeOK
      <2> QED
          BY <1>0, <2>1
<1>8. ASSUME NEW r \in Requests, Respond(r) PROVE P
      <2>1. rsp \in [Requests -> RspStates]
            /\ results \in [Requests -> Nat] /\ aborts \in [Requests -> Nat]
            BY DEF IInv, TInv, TypeOK
      <2>2. UNCHANGED <<aborts, cancelAsked>>
            /\ \A x \in Requests : rsp'[x] = "new" <=> rsp[x] = "new"
            BY <1>8, <2>1 DEF Respond
      <2>3. {x \in Calls : rsp[x] # "new"}' = {x \in Calls : rsp[x] # "new"}
            BY <2>2 DEF Calls, Notification
      <2>4. CASE r \in Calls
            <3>1. results' = [results EXCEPT ![r] = @ + 1]
                  BY <1>8, <2>4 DEF Respond, Calls, Notification
            <3>2. results[r] = 0 /\ aborts[r] = 0
                  BY <1>8, <2>1, <2>4
                     DEF Respond, IInv, CountOK, IsAnswered, Aborted, Calls
            <3>3. [c \in Calls |-> results[c]]'
                    = [[c \in Calls |-> results[c]] EXCEPT ![r] = 1]
                  <4>1. \A c \in Calls :
                          results'[c] = IF c = r THEN 1 ELSE results[c]
                        BY <2>1, <3>1, <3>2 DEF Calls
                  <4>2. Calls' = Calls
                        BY DEF Calls, Notification
                  <4> QED
                      BY <2>4, <4>1, <4>2
            <3>4. UNCHANGED <<[c \in Calls |-> aborts[c]], cancelAsked \cap Calls>>
                  BY <2>2 DEF Calls, Notification
            <3>5. rsp[r] # "new"
                  BY <1>8 DEF Respond
            <3>6. Promise!Answer(r)
                  BY <2>3, <2>4, <3>2, <3>3, <3>4, <3>5
                     DEF Promise!Answer, Promise!Open
            <3> QED
                BY <2>4, <3>6 DEF Promise!Next
      <2>5. CASE r \notin Calls
            <3>1. UNCHANGED results
                  BY <1>8, <2>5 DEF Respond, Calls, Notification
            <3> QED
                BY <2>2, <2>3, <3>1 DEF Promise!vars, Calls, Notification
      <2> QED
          BY <2>4, <2>5
<1>9. CASE UNCHANGED vars
      BY <1>0, <1>9 DEF vars
<1> QED
    BY <1>1, <1>2, <1>3, <1>4, <1>5, <1>6, <1>7, <1>8, <1>9
       DEF Next, ThreadStep, ResponseStep

\* cancellableReceiverImpl.h: a serialised receiver with unique ids implements
\* RequestReply: one reply per request, an abort only of a request that was
\* received and then asked for.
THEOREM Implements ==
  ASSUME Serialised, UniqueIds
  PROVE  Spec => KeepsPromise
<1>1. Init => Promise!Init
      BY DEF Init, Promise!Init, Calls, Notification
<1> QED
    BY IInvInit, IInvNext, PromiseNext, <1>1, PTL
       DEF Spec, KeepsPromise, Promise!Spec

-----------------------------------------------------------------------------
(***************************************************************************)
(* The request processor beneath the receivers: RequestProcessor, which    *)
(* shares nothing with CancellableReceiver but its place in the code.  In  *)
(* what follows E stands for the entries of its document.                  *)
(***************************************************************************)

AskedOf(E, n) == Cardinality({j \in 1 .. n : Expects(E[j])})

\* What is a reply to entry e.
IsReply(e, response) ==
  IF Expects(e)
    THEN \E x \in Response : response = <<x>> /\ x.id = ReplyId(e)
    ELSE response = <<>>

\* r has the replies to the first n entries.
RepliedTo(E, n, r) ==
  /\ r \in Seq(Response)
  /\ Len(r) = AskedOf(E, n)
  /\ \A i \in 1 .. n : Expects(E[i]) => r[AskedOf(E, i)].id = ReplyId(E[i])

\* The methods of the first n entries have been called, as c says.
CalledUpTo(E, n, c) ==
  /\ c \in Seq(1 .. n)
  /\ \A j, k \in 1 .. Len(c) : j < k => c[j] < c[k]
  /\ \A i \in 1 .. n : MayBeCalled(E[i]) <=> \E k \in 1 .. Len(c) : c[k] = i

LEMMA AskedFacts ==
  ASSUME NEW E, NEW n \in Nat
  PROVE  /\ AskedOf(E, n) \in Nat
         /\ AskedOf(E, 0) = 0
         /\ AskedOf(E, n + 1) =
              IF Expects(E[n + 1]) THEN AskedOf(E, n) + 1 ELSE AskedOf(E, n)
         /\ \A i \in 1 .. n : /\ AskedOf(E, i) \in Nat
                              /\ AskedOf(E, i) <= AskedOf(E, n)
                              /\ Expects(E[i]) => 1 <= AskedOf(E, i)
<1> DEFINE A(i) == {j \in 1 .. i : Expects(E[j])}
<1>1. ASSUME NEW i \in Nat PROVE IsFiniteSet(A(i)) /\ Cardinality(A(i)) \in Nat
      <2>1. IsFiniteSet(1 .. i) /\ A(i) \in SUBSET (1 .. i)
            BY FS_Interval
      <2> QED
          BY <2>1, FS_Subset, FS_CardinalityType
<1>2. AskedOf(E, 0) = 0
      <2>1. A(0) = {}
            OBVIOUS
      <2> QED
          BY <2>1, FS_EmptySet DEF AskedOf
<1>3. AskedOf(E, n + 1) =
        IF Expects(E[n + 1]) THEN AskedOf(E, n) + 1 ELSE AskedOf(E, n)
      <2>1. A(n + 1) = IF Expects(E[n + 1]) THEN A(n) \cup {n + 1} ELSE A(n)
            OBVIOUS
      <2>2. n + 1 \notin A(n)
            OBVIOUS
      <2>3. Cardinality(A(n) \cup {n + 1}) = Cardinality(A(n)) + 1
            BY <1>1, <2>2, FS_AddElement
      <2> QED
          BY <2>1, <2>3 DEF AskedOf
<1>4. ASSUME NEW i \in 1 .. n
      PROVE  /\ AskedOf(E, i) \in Nat
             /\ AskedOf(E, i) <= AskedOf(E, n)
             /\ Expects(E[i]) => 1 <= AskedOf(E, i)
      <2>1. A(i) \in SUBSET A(n)
            OBVIOUS
      <2>2. Cardinality(A(i)) <= Cardinality(A(n))
            BY <1>1, <2>1, FS_Subset
      <2>3. Expects(E[i]) => A(i) # {}
            OBVIOUS
      <2>4. Expects(E[i]) => Cardinality(A(i)) # 0
            BY <1>1, <2>3, FS_EmptySet
      <2> QED
          BY <1>1, <2>2, <2>4 DEF AskedOf
<1> QED
    BY <1>1, <1>2, <1>3, <1>4 DEF AskedOf

LEMMA ReplyStep ==
  ASSUME NEW E, NEW n \in Nat, NEW r, RepliedTo(E, n, r),
         NEW response, IsReply(E[n + 1], response)
  PROVE  RepliedTo(E, n + 1, r \o response)
<1> DEFINE q == r \o response
<1>1. /\ r \in Seq(Response) /\ Len(r) = AskedOf(E, n)
      /\ response \in Seq(Response)
      <2>1. CASE Expects(E[n + 1])
            <3>1. PICK x \in Response : response = <<x>>
                  BY <2>1 DEF IsReply
            <3>2. <<x>> \in Seq(Response)
                  OBVIOUS
            <3> QED
                BY <3>1, <3>2 DEF RepliedTo
      <2>2. CASE response = <<>>
            <3>1. <<>> \in Seq(Response)
                  OBVIOUS
            <3> QED
                BY <2>2, <3>1 DEF RepliedTo
      <2> QED
          BY <2>1, <2>2 DEF IsReply
<1>2. q \in Seq(Response) /\ Len(q) = Len(r) + Len(response)
      BY <1>1
<1>3. \A i \in 1 .. Len(r) : q[i] = r[i]
      BY <1>1
<1>4. ASSUME NEW i \in 1 .. n, Expects(E[i])
      PROVE  q[AskedOf(E, i)].id = ReplyId(E[i])
      BY <1>1, <1>3, <1>4, AskedFacts DEF RepliedTo
<1>5. CASE Expects(E[n + 1])
      <2>1. PICK x \in Response : response = <<x>> /\ x.id = ReplyId(E[n + 1])
            BY <1>5 DEF IsReply
      <2>2. Len(q) = AskedOf(E, n + 1) /\ q[AskedOf(E, n + 1)] = x
            <3>1. Len(q) = Len(r) + 1 /\ q[Len(r) + 1] = x
                  BY <1>1, <2>1
            <3> QED
                BY <1>1, <1>5, <3>1, AskedFacts
      <2>3. ASSUME NEW i \in 1 .. n + 1, Expects(E[i])
            PROVE  q[AskedOf(E, i)].id = ReplyId(E[i])
            <3>1. CASE i = n + 1
                  BY <2>1, <2>2, <3>1
            <3>2. CASE i \in 1 .. n
                  BY <1>4, <2>3, <3>2
            <3>3. i = n + 1 \/ i \in 1 .. n
                  OBVIOUS
            <3> QED
                BY <3>1, <3>2, <3>3
      <2> QED
          BY <1>2, <2>2, <2>3 DEF RepliedTo
<1>6. CASE ~Expects(E[n + 1])
      <2>1. Len(q) = AskedOf(E, n + 1)
            BY <1>1, <1>2, <1>6, AskedFacts DEF IsReply
      <2>2. \A i \in 1 .. n + 1 : Expects(E[i]) => i \in 1 .. n
            BY <1>6
      <2> QED
          BY <1>2, <1>4, <2>1, <2>2 DEF RepliedTo
<1> QED
    BY <1>5, <1>6

LEMMA CallStep ==
  ASSUME NEW E, NEW n \in Nat, NEW c, CalledUpTo(E, n, c)
  PROVE  /\ MayBeCalled(E[n + 1]) => CalledUpTo(E, n + 1, Append(c, n + 1))
         /\ ~MayBeCalled(E[n + 1]) => CalledUpTo(E, n + 1, c)
<1> HIDE DEF MayBeCalled
<1>1. CASE MayBeCalled(E[n + 1])
      <2> DEFINE d == Append(c, n + 1)
      <2>1. d \in Seq(1 .. n + 1)
            BY DEF CalledUpTo
      <2>2. /\ Len(d) = Len(c) + 1 /\ d[Len(d)] = n + 1
            /\ \A k \in 1 .. Len(c) : d[k] = c[k] /\ c[k] \in 1 .. n
            BY DEF CalledUpTo
      <2> HIDE DEF d
      <2>5. Len(c) \in Nat
            BY DEF CalledUpTo
      <2>3. ASSUME NEW j \in 1 .. Len(d), NEW k \in 1 .. Len(d), j < k PROVE d[j] < d[k]
            <3>1. j \in 1 .. Len(c) /\ d[j] = c[j] /\ c[j] \in 1 .. n
                  BY <2>2, <2>3, <2>5
            <3>2. CASE k \in 1 .. Len(c)
                  BY <2>2, <2>3, <3>1, <3>2 DEF CalledUpTo
            <3>3. CASE k = Len(d)
                  BY <2>2, <3>1, <3>3
            <3> QED
                BY <2>2, <2>5, <3>2, <3>3
      <2>4. ASSUME NEW i \in 1 .. n + 1
            PROVE  MayBeCalled(E[i]) <=> \E k \in 1 .. Len(d) : d[k] = i
            <3>1. CASE i = n + 1
                  BY <1>1, <2>1, <2>2, <3>1
            <3>2. CASE i \in 1 .. n
                  <4>1. (\E k \in 1 .. Len(d) : d[k] = i) <=> \E k \in 1 .. Len(c) : c[k] = i
                        BY <2>2, <2>5, <3>2
                  <4> QED
                      BY <3>2, <4>1 DEF CalledUpTo
            <3> QED
                BY <3>1, <3>2
      <2> QED
          BY <1>1, <2>1, <2>3, <2>4 DEF CalledUpTo, d
<1>2. CASE ~MayBeCalled(E[n + 1])
      <2>1. c \in Seq(1 .. n + 1) /\ \A k \in 1 .. Len(c) : c[k] \in 1 .. n
            BY DEF CalledUpTo
      <2> QED
          BY <1>2, <2>1 DEF CalledUpTo
<1> QED
    BY <1>1, <1>2

\* The replies and the calls, up to the entry that is processed.
ProcessorOK ==
  /\ document \in Document
  /\ state \in {"new", "running", "waiting", "done", "thrown"}
  /\ state = "new" => at = 1 /\ replies = <<>> /\ called = <<>> /\ answers = <<>>
  /\ state \in {"new", "running", "waiting"} => ~raised
  /\ state \in {"running", "waiting"} =>
       /\ document.kind \in {"object", "array"}
       /\ at \in 1 .. Len(Entries) + 1
       /\ document.kind = "object" => at = 1
       /\ answers = <<>>
       /\ RepliedTo(Entries, at - 1, replies)
  /\ state = "running" => CalledUpTo(Entries, at - 1, called)
  /\ state = "waiting" => /\ at <= Len(Entries)
                          /\ MayBeCalled(Entries[at])
                          /\ CalledUpTo(Entries, at, called)
  /\ state = "done" /\ document.kind \in {"object", "array"} /\ ~raised =>
       /\ RepliedTo(Entries, Len(Entries), answers[1])
       /\ CalledUpTo(Entries, Len(Entries), called)

\* Only a message of entries has them, and they are objects or values.
LEMMA EntriesAreEntries ==
  ASSUME document \in Document, document.kind \in {"object", "array"}
  PROVE  /\ Entries \in Seq(BatchEntry)
         /\ document.kind = "object" => Len(Entries) = 1
<1>1. CASE document.kind = "object"
      <2>1. document \in Object
            BY <1>1 DEF Document
      <2>2. Entries = <<document>> /\ document \in BatchEntry
            BY <1>1, <2>1, Zenon DEF Entries, BatchEntry
      <2> QED
          BY <2>2
<1>2. CASE document.kind = "array"
      <2>1. PICK n \in 0 .. MaxBatch : document.entries \in [1 .. n -> BatchEntry]
            BY <1>2 DEF Document, Object
      <2>2. n \in Nat
            BY ProcessorAssumption
      <2>3. document.entries \in Seq(BatchEntry)
            BY <2>1, <2>2, SeqDef
      <2> QED
          BY <1>2, <2>3 DEF Entries
<1> QED
    BY <1>1, <1>2

\* What is made of an entry is a reply to it.
LEMMA MadeForEntry ==
  ASSUME NEW e \in Object
  PROVE  /\ \A is \in Errors :
              IsReply(e, IF IsNotification(e)
                           THEN <<>> ELSE <<ErrorResponse(is, e.id)>>)
         /\ \A outcome \in {"result", "text", "error"} :
              IsReply(e, MakeResponse(e, outcome))
<1>1. e.kind = "object" /\ e.id \in {"absent", "null", "one", "two", "odd"}
      BY DEF Object
<1>2. CASE IsNotification(e)
      BY <1>1, <1>2 DEF IsReply, Expects, MakeResponse
<1>3. CASE ~IsNotification(e)
      <2>1. /\ e.id \in {"null", "one", "two", "odd"}
            /\ Expects(e) /\ ReplyId(e) = e.id
            BY <1>1, <1>3 DEF IsNotification, Expects, ReplyId
      <2>2. ASSUME NEW is \in Errors \cup {"result"}
            PROVE  IsReply(e, <<[id |-> e.id, is |-> is]>>)
            <3>1. [id |-> e.id, is |-> is] \in Response
                  BY <2>1 DEF Response
            <3> QED
                BY <2>1, <3>1 DEF IsReply
      <2>3. ASSUME NEW is \in Errors
            PROVE  IsReply(e, <<ErrorResponse(is, e.id)>>)
            BY <2>2 DEF ErrorResponse
      <2>4. ASSUME NEW outcome \in {"result", "text", "error"}
            PROVE  IsReply(e, MakeResponse(e, outcome))
            <3> DEFINE is == IF outcome = "text" THEN "internal error" ELSE outcome
            <3>1. is \in Errors \cup {"result"}
                  BY DEF Errors
            <3>2. MakeResponse(e, outcome) = <<[id |-> e.id, is |-> is]>>
                  BY <1>3 DEF MakeResponse
            <3> HIDE DEF is
            <3> QED
                BY <2>2, <3>1, <3>2
      <2> QED
          BY <1>3, <2>3, <2>4
<1> QED
    BY <1>2, <1>3

\* What an outcome that does not raise is made into is a reply.
LEMMA IsReplyMade ==
  ASSUME NEW e \in Object, NEW outcome \in Outcomes, ~Raises(e, outcome)
  PROVE  IsReply(e, MakeResponse(e, outcome))
<1>1. CASE outcome = "baddata"
      <2>1. IsNotification(e)
            BY <1>1 DEF Raises
      <2>2. /\ e.kind = "object" /\ ~Expects(e)
            /\ MakeResponse(e, outcome) = <<>>
            BY <2>1 DEF Object, Expects, MakeResponse
      <2> QED
          BY <2>2 DEF IsReply
<1>2. CASE outcome # "baddata"
      <2>1. outcome \in {"result", "text", "error"}
            BY <1>2, ProcessorAssumption
      <2> QED
          BY <2>1, MadeForEntry
<1> QED
    BY <1>1, <1>2

LEMMA MadeForValue ==
  ASSUME NEW e, e.kind = "value"
  PROVE  IsReply(e, <<ErrorResponse("invalid request", "null")>>)
<1>1. /\ ErrorResponse("invalid request", "null") \in Response
      /\ ErrorResponse("invalid request", "null").id = "null"
      BY DEF ErrorResponse, Response, Errors
<1> QED
    BY <1>1 DEF IsReply, Expects, ReplyId

\* The reply to the entry that is processed keeps the invariant.
LEMMA RespondKeeps ==
  ASSUME ProcessorOK, state \in {"running", "waiting"},
         at <= Len(Entries), UNCHANGED document,
         NEW response, IsReply(Entries[at], response),
         RespondWith(response), ~raised',
         CalledUpTo(Entries, at, called')
  PROVE  ProcessorOK'
<1>1. PICK E : E = Entries
      OBVIOUS
<1>2. Entries' = E
      BY <1>1 DEF Entries
<1>3. PICK n : n = at - 1
      OBVIOUS
<1>4. /\ E \in Seq(BatchEntry) /\ Len(E) \in Nat
      /\ document.kind = "object" => Len(E) = 1
      BY <1>1, EntriesAreEntries DEF ProcessorOK
<1>5. /\ n \in Nat /\ at = n + 1 /\ at \in Nat /\ answers = <<>>
      /\ document.kind \in {"object", "array"}
      /\ document.kind = "object" => at = 1
      /\ RepliedTo(E, n, replies)
      BY <1>1, <1>3, <1>4 DEF ProcessorOK
<1>6. IsReply(E[n + 1], response)
      BY <1>1, <1>5
<1>7. RepliedTo(E, n + 1, replies \o response)
      BY <1>5, <1>6, ReplyStep
<1>8. CalledUpTo(E, n + 1, called')
      BY <1>1, <1>5
<1>9. document' \in Document
      BY DEF ProcessorOK
<1>10. CASE document.kind = "array"
      <2>1. /\ replies' = replies \o response /\ at' = n + 2
            /\ state' = "running" /\ answers' = <<>>
            BY <1>5, <1>10 DEF RespondWith
      <2>2. at' - 1 = n + 1 /\ at' \in 1 .. Len(E) + 1
            BY <1>1, <1>4, <1>5, <2>1
      <2>3. RepliedTo(E, at' - 1, replies') /\ CalledUpTo(E, at' - 1, called')
            BY <1>7, <1>8, <2>1, <2>2
      <2> QED
          BY <1>2, <1>5, <1>9, <1>10, <2>1, <2>2, <2>3 DEF ProcessorOK
<1>11. CASE document.kind = "object"
      <2>1. answers' = <<response>> /\ state' = "done"
            BY <1>5, <1>11 DEF RespondWith, Answer
      <2>2. n = 0 /\ n + 1 = Len(E)
            BY <1>4, <1>5, <1>11
      <2>3. replies = <<>> /\ response \in Seq(Response)
            <3>1. Len(replies) = 0 /\ replies \in Seq(Response)
                  BY <1>5, <2>2, AskedFacts DEF RepliedTo
            <3>2. response \in Seq(Response)
                  <4>1. CASE Expects(E[n + 1])
                        <5>1. PICK x \in Response : response = <<x>>
                              BY <1>6, <4>1 DEF IsReply
                        <5> QED
                            BY <5>1
                  <4>2. CASE response = <<>>
                        BY <4>2
                  <4> QED
                      BY <1>6, <4>1, <4>2 DEF IsReply
            <3> QED
                BY <3>1, <3>2
      <2>4. replies \o response = response
            BY <2>3
      <2>5. RepliedTo(E, Len(E), answers'[1]) /\ CalledUpTo(E, Len(E), called')
            BY <1>7, <1>8, <2>1, <2>2, <2>4
      <2> QED
          BY <1>2, <1>5, <1>9, <1>11, <2>1, <2>5 DEF ProcessorOK
<1> QED
    BY <1>5, <1>10, <1>11

LEMMA ProcessKeeps ==
  ASSUME ProcessorOK, Process
  PROVE  ProcessorOK'
<1>1. /\ state = "new" /\ UNCHANGED <<document, at, replies, called>>
      /\ ~raised /\ ~raised'
      /\ at = 1 /\ replies = <<>> /\ called = <<>> /\ answers = <<>>
      /\ document \in Document
      BY DEF Process, ProcessorOK
<1>2. CASE document.kind \in {"garbage", "value"}
      <2>1. state' = "done" /\ document'.kind \notin {"object", "array"}
            BY <1>1, <1>2 DEF Process, Answer
      <2> QED
          BY <1>1, <2>1 DEF ProcessorOK
<1>3. CASE document.kind \notin {"garbage", "value"}
      <2>1. state' = "running" /\ answers' = <<>>
            BY <1>1, <1>3 DEF Process
      <2>2. document.kind \in {"object", "array"}
            BY <1>1, <1>3 DEF Document, Object
      <2>3. PICK E : E = Entries
            OBVIOUS
      <2>4. Entries' = E /\ Len(E) \in Nat
            BY <1>1, <2>2, <2>3, EntriesAreEntries DEF Entries
      <2>5. RepliedTo(E, 0, <<>>)
            <3>1. <<>> \in Seq(Response) /\ Len(<<>>) = 0
                  OBVIOUS
            <3>2. AskedOf(E, 0) = 0
                  BY AskedFacts
            <3> QED
                BY <3>1, <3>2 DEF RepliedTo
      <2>6. CalledUpTo(E, 0, <<>>)
            <3>1. <<>> \in Seq(1 .. 0) /\ Len(<<>>) = 0
                  OBVIOUS
            <3> QED
                BY <3>1 DEF CalledUpTo
      <2>7. at' - 1 = 0
            BY <1>1
      <2>8. RepliedTo(E, at' - 1, replies') /\ CalledUpTo(E, at' - 1, called')
            BY <1>1, <2>5, <2>6, <2>7
      <2>9. at' \in 1 .. Len(E) + 1
            BY <1>1, <2>4
      <2> QED
          BY <1>1, <2>1, <2>2, <2>4, <2>8, <2>9 DEF ProcessorOK
<1> QED
    BY <1>2, <1>3

LEMMA ProcessEntryKeeps ==
  ASSUME ProcessorOK, ProcessEntry
  PROVE  ProcessorOK'
<1>1. PICK E : E = Entries
      OBVIOUS
<1>2. PICK e : e = E[at]
      OBVIOUS
<1>3. Entries' = E
      BY <1>1 DEF Entries, ProcessEntry
<1>4. /\ E \in Seq(BatchEntry) /\ at \in 1 .. Len(E)
      /\ CalledUpTo(E, at - 1, called) /\ state = "running" /\ UNCHANGED document
      /\ document \in Document /\ ~raised
      <2>1. /\ state = "running" /\ at <= Len(E) /\ UNCHANGED document
            /\ ~raised /\ document \in Document /\ document.kind \in {"object", "array"}
            /\ at \in 1 .. Len(E) + 1 /\ CalledUpTo(E, at - 1, called)
            BY <1>1 DEF ProcessorOK, ProcessEntry
      <2>2. E \in Seq(BatchEntry)
            BY <1>1, <2>1, EntriesAreEntries
      <2> QED
          BY <2>1, <2>2
<1>5. e \in BatchEntry
      BY <1>2, <1>4
<1>6. PICK n \in Nat : at = n + 1
      BY <1>4
<1>7. at - 1 = n
      BY <1>6
<1>8. CalledUpTo(E, n, called)
      BY <1>4, <1>7
<1>9. /\ MayBeCalled(e) => CalledUpTo(E, at, Append(called, at))
      /\ ~MayBeCalled(e) => CalledUpTo(E, at, called)
      BY <1>2, <1>6, <1>8, CallStep
<1>10. ASSUME NEW response, IsReply(e, response), RespondWith(response),
             ~raised', CalledUpTo(E, at, called')
      PROVE  ProcessorOK'
      BY <1>1, <1>2, <1>4, <1>10, RespondKeeps
<1>11. CASE e.kind = "value"
      <2>1. /\ RespondWith(<<ErrorResponse("invalid request", "null")>>)
            /\ called' = called /\ raised' = raised
            BY <1>1, <1>2, <1>11 DEF ProcessEntry
      <2>2. ~MayBeCalled(e)
            BY <1>11 DEF MayBeCalled
      <2> QED
          BY <1>4, <1>9, <1>10, <1>11, <2>1, <2>2, MadeForValue
<1>12. CASE e.kind # "value"
      <2>1. e \in Object /\ e.kind = "object"
            BY <1>5, <1>12 DEF BatchEntry, Object
      <2>2. ProcessCommand(e)
            BY <1>1, <1>2, <1>12 DEF ProcessEntry
      <2>3. CASE Throws(e)
            <3>1. state' = "thrown"
                  BY <2>2, <2>3 DEF ProcessCommand, Throw
            <3> QED
                BY <1>4, <3>1 DEF ProcessorOK
      <2>4. ASSUME NEW is \in Errors, RespondError(e, is),
                   called' = called, raised' = raised, ~MayBeCalled(e)
            PROVE  ProcessorOK'
            <3> DEFINE response == IF IsNotification(e)
                                     THEN <<>> ELSE <<ErrorResponse(is, e.id)>>
            <3>1. IsReply(e, response) /\ RespondWith(response)
                  BY <2>1, <2>4, MadeForEntry DEF RespondError
            <3> HIDE DEF response
            <3> QED
                BY <1>4, <1>9, <1>10, <2>4, <3>1
      <2>5. CASE ~Throws(e) /\ ~IsValidJsonRpcRequest(e)
            <3>1. RespondError(e, "invalid request") /\ called' = called /\ raised' = raised
                  BY <2>2, <2>5 DEF ProcessCommand
            <3>2. ~MayBeCalled(e)
                  BY <2>5 DEF IsValidJsonRpcRequest, MayBeCalled
            <3>3. "invalid request" \in Errors
                  BY DEF Errors
            <3> QED
                BY <2>4, <3>1, <3>2, <3>3
      <2>6. CASE /\ ~Throws(e) /\ IsValidJsonRpcRequest(e)
                 /\ ~IsRegisteredMethodName(e)
            <3>1. RespondError(e, "method not found") /\ called' = called /\ raised' = raised
                  BY <2>2, <2>6 DEF ProcessCommand
            <3>2. ~MayBeCalled(e)
                  BY <2>6 DEF IsRegisteredMethodName, MayBeCalled
            <3>3. "method not found" \in Errors
                  BY DEF Errors
            <3> QED
                BY <2>4, <3>1, <3>2, <3>3
      <2>7. CASE /\ ~Throws(e) /\ IsValidJsonRpcRequest(e)
                 /\ IsRegisteredMethodName(e)
            <3>1. CallMethod(e)
                  BY <2>2, <2>7 DEF ProcessCommand
            <3>2. MayBeCalled(e)
                  BY <2>1, <2>7
                  DEF IsValidJsonRpcRequest, IsRegisteredMethodName,
                      MayBeCalled, Object
            <3>3. called' = Append(called, at) /\ CalledUpTo(E, at, called')
                  BY <1>9, <3>1, <3>2 DEF CallMethod
            <3>4. CASE e.method = "delayed"
                  <4>1. state' = "waiting" /\ UNCHANGED <<at, replies, answers, raised>>
                        BY <3>1, <3>4 DEF CallMethod
                  <4>2. /\ document.kind \in {"object", "array"}
                        /\ document.kind = "object" => at = 1
                        /\ answers = <<>> /\ RepliedTo(E, at - 1, replies)
                        BY <1>1, <1>4 DEF ProcessorOK
                  <4>3. at' = at /\ replies' = replies /\ at \in 1 .. Len(E) + 1 /\ at <= Len(E)
                        BY <1>4, <4>1
                  <4>4. CalledUpTo(E, at', called') /\ RepliedTo(E, at' - 1, replies')
                        BY <3>3, <4>2, <4>3
                  <4>5. MayBeCalled(E[at'])
                        BY <1>2, <3>2, <4>3
                  <4>6. at' \in 1 .. Len(E) + 1 /\ at' <= Len(E)
                        BY <4>3
                  <4> HIDE DEF MayBeCalled
                  <4> QED
                      BY <1>3, <1>4, <4>1, <4>2, <4>4, <4>5, <4>6 DEF ProcessorOK
            <3>5. CASE e.method # "delayed"
                  <4>1. PICK outcome \in Outcomes :
                          /\ raised' = Raises(e, outcome)
                          /\ IF Raises(e, outcome)
                               THEN CaughtParseError
                               ELSE RespondWith(MakeResponse(e, outcome))
                        BY <3>1, <3>5, Zenon DEF CallMethod
                  <4>2. CASE Raises(e, outcome)
                        <5>1. raised'
                              BY <4>1, <4>2, Zenon
                        <5>2. state' = "done"
                              BY <4>1, <4>2 DEF CaughtParseError, Answer
                        <5> QED
                            BY <1>4, <5>1, <5>2 DEF ProcessorOK
                  <4>3. CASE ~Raises(e, outcome)
                        <5>1. ~raised' /\ RespondWith(MakeResponse(e, outcome))
                              BY <4>1, <4>3, Zenon
                        <5>2. IsReply(e, MakeResponse(e, outcome))
                              BY <2>1, <4>3, IsReplyMade
                        <5> QED
                            BY <1>10, <3>3, <5>1, <5>2
                  <4> QED
                      BY <4>2, <4>3
            <3> QED
                BY <3>4, <3>5
      <2> QED
          BY <2>3, <2>5, <2>6, <2>7
<1> QED
    BY <1>11, <1>12

LEMMA ReplyKeeps ==
  ASSUME ProcessorOK, Reply
  PROVE  ProcessorOK'
<1>1. PICK E : E = Entries
      OBVIOUS
<1>2. PICK e : e = E[at]
      OBVIOUS
<1>3. /\ at <= Len(E) /\ MayBeCalled(e) /\ CalledUpTo(E, at, called)
      /\ state = "waiting" /\ UNCHANGED <<document, called>>
      /\ E \in Seq(BatchEntry) /\ at \in 1 .. Len(E)
      /\ document \in Document
      BY <1>1, <1>2, EntriesAreEntries DEF ProcessorOK, Reply
<1>4. e \in Object
      BY <1>2, <1>3 DEF MayBeCalled, BatchEntry
<1>5. PICK outcome \in Outcomes :
        /\ raised' = Raises(e, outcome)
        /\ IF Raises(e, outcome)
             THEN Throw ELSE RespondWith(MakeResponse(e, outcome))
      BY <1>1, <1>2, Zenon DEF Reply
<1>6. CASE Raises(e, outcome)
      <2>1. state' = "thrown"
            BY <1>5, <1>6 DEF Throw
      <2> QED
          BY <1>3, <2>1 DEF ProcessorOK
<1>7. CASE ~Raises(e, outcome)
      <2>1. ~raised' /\ RespondWith(MakeResponse(e, outcome))
            BY <1>5, <1>7, Zenon
      <2>2. IsReply(e, MakeResponse(e, outcome))
            BY <1>4, <1>7, IsReplyMade
      <2>3. CalledUpTo(E, at, called')
            BY <1>3
      <2> QED
          BY <1>1, <1>2, <1>3, <2>1, <2>2, <2>3, RespondKeeps
<1> QED
    BY <1>6, <1>7

LEMMA EndOfBatchKeeps ==
  ASSUME ProcessorOK, EndOfBatch
  PROVE  ProcessorOK'
<1>1. PICK E : E = Entries
      OBVIOUS
<1>2. /\ Entries' = E /\ state' = "done" /\ answers' = <<replies>>
      /\ UNCHANGED <<document, called>> /\ document \in Document
      BY <1>1 DEF Entries, EndOfBatch, Answer, ProcessorOK
<1>3. /\ at - 1 = Len(E) /\ RepliedTo(E, at - 1, replies) /\ CalledUpTo(E, at - 1, called)
      <2>1. Len(E) \in Nat /\ at \in 1 .. Len(E) + 1 /\ at > Len(E)
            BY <1>1, EntriesAreEntries DEF ProcessorOK, EndOfBatch
      <2> QED
          BY <1>1, <2>1 DEF ProcessorOK, EndOfBatch
<1>4. RepliedTo(E, Len(E), answers'[1]) /\ CalledUpTo(E, Len(E), called')
      BY <1>2, <1>3
<1> QED
    BY <1>2, <1>4 DEF ProcessorOK

\* An entry is in a strictly increasing sequence once, if it is in it.
LEMMA OnceInOrder ==
  ASSUME NEW c, NEW i, Len(c) \in Nat,
         \A j \in 1 .. Len(c) : c[j] \in Nat,
         \A j, k \in 1 .. Len(c) : j < k => c[j] < c[k]
  PROVE  Cardinality({k \in 1 .. Len(c) : c[k] = i}) =
           IF \E k \in 1 .. Len(c) : c[k] = i THEN 1 ELSE 0
<1> DEFINE K == {k \in 1 .. Len(c) : c[k] = i}
<1>1. CASE \E k \in 1 .. Len(c) : c[k] = i
      <2>1. PICK k \in 1 .. Len(c) : c[k] = i
            BY <1>1
      <2>2. ASSUME NEW j \in K PROVE j = k
            <3>1. j \in 1 .. Len(c) /\ c[j] = c[k] /\ c[k] \in Nat
                  BY <2>1
            <3>2. ~(j < k) /\ ~(k < j)
                  BY <3>1
            <3> QED
                BY <3>1, <3>2
      <2>3. K = {k}
            BY <2>1, <2>2
      <2> QED
          BY <1>1, <2>3, FS_Singleton
<1>2. CASE ~\E k \in 1 .. Len(c) : c[k] = i
      <2>1. K = {}
            BY <1>2
      <2> QED
          BY <1>2, <2>1, FS_EmptySet
<1> QED
    BY <1>1, <1>2

LEMMA ProcessorInvariant == ProcessorSpec => []ProcessorOK
<1>1. ProcessorInit => ProcessorOK
      BY DEF ProcessorInit, ProcessorOK
<1>2. ProcessorOK /\ [ProcessorNext]_processorVars => ProcessorOK'
      <2>1. SUFFICES ASSUME ProcessorOK, [ProcessorNext]_processorVars
                     PROVE  ProcessorOK'
            OBVIOUS
      <2>2. CASE Process
            BY <2>1, <2>2, ProcessKeeps
      <2>3. CASE ProcessEntry
            BY <2>1, <2>3, ProcessEntryKeeps
      <2>4. CASE Reply
            BY <2>1, <2>4, ReplyKeeps
      <2>5. CASE EndOfBatch
            BY <2>1, <2>5, EndOfBatchKeeps
      <2>6. CASE UNCHANGED processorVars
            <3>1. UNCHANGED <<document, state, at, replies, called, answers, raised>>
                  BY <2>6 DEF processorVars
            <3>2. Entries' = Entries
                  BY <3>1 DEF Entries
            <3> HIDE DEF Entries, MayBeCalled
            <3> QED
                BY <2>1, <3>1, <3>2 DEF ProcessorOK
      <2> QED
          BY <2>1, <2>2, <2>3, <2>4, <2>5, <2>6 DEF ProcessorNext
<1> QED
    BY <1>1, <1>2, PTL DEF ProcessorSpec

\* requestProcessor.cpp:103: the answer to a batch of any size, and to a
\* request, has a reply for each request of it under its id, in the order of
\* the batch, and none for notifications; unless a method has returned an error
\* whose data is not JSON, of which utils.h:49 makes a parse error of the whole
\* message.
THEOREM RepliesInOrder == ProcessorSpec => []OneReplyEach
<1>1. ProcessorOK => OneReplyEach
      <2>1. SUFFICES ASSUME ProcessorOK, state = "done",
                            document.kind \in {"object", "array"}, ~raised
                     PROVE  /\ Len(answers[1]) = Asked(Len(Entries))
                            /\ \A i \in DOMAIN Entries :
                                 Expects(Entries[i]) =>
                                   answers[1][Asked(i)].id
                                     = ReplyId(Entries[i])
            BY DEF OneReplyEach
      <2>2. DOMAIN Entries = 1 .. Len(Entries)
            BY <2>1, EntriesAreEntries DEF ProcessorOK
      <2>3. RepliedTo(Entries, Len(Entries), answers[1])
            BY <2>1 DEF ProcessorOK
      <2>4. \A i : Asked(i) = AskedOf(Entries, i)
            BY DEF AskedOf, Asked
      <2> QED
          BY <2>2, <2>3, <2>4 DEF RepliedTo
<1>2. ProcessorSpec => []ProcessorOK
      BY ProcessorInvariant
<1> QED
    BY <1>1, <1>2, PTL

\* requestProcessor.cpp:45: when the answer is given each valid request of a
\* registered method has been called once, in the order of the batch, and
\* nothing else has; unless one has returned such an error, and ended the batch.
THEOREM CalledOncePerRequest == ProcessorSpec => []CalledAsAsked
<1>1. ProcessorOK => CalledAsAsked
      <2>1. SUFFICES ASSUME ProcessorOK, state = "done",
                            document.kind \in {"object", "array"}, ~raised
                     PROVE  /\ \A i \in DOMAIN Entries :
                                 Cardinality({k \in DOMAIN called : called[k] = i}) =
                                   IF MayBeCalled(Entries[i])
                                     THEN 1 ELSE 0
                            /\ \A j, k \in DOMAIN called : j < k => called[j] < called[k]
            BY DEF CalledAsAsked
      <2>2. PICK E : E = Entries
            OBVIOUS
      <2>3. E \in Seq(BatchEntry) /\ DOMAIN E = 1 .. Len(E)
            BY <2>1, <2>2, EntriesAreEntries DEF ProcessorOK
      <2>4. CalledUpTo(E, Len(E), called)
            BY <2>1, <2>2 DEF ProcessorOK
      <2>5. /\ DOMAIN called = 1 .. Len(called) /\ Len(called) \in Nat
            /\ \A j \in 1 .. Len(called) : called[j] \in Nat
            BY <2>3, <2>4 DEF CalledUpTo
      <2>6. \A j, k \in 1 .. Len(called) : j < k => called[j] < called[k]
            BY <2>4 DEF CalledUpTo
      <2>7. ASSUME NEW i \in 1 .. Len(E)
            PROVE  Cardinality({k \in 1 .. Len(called) : called[k] = i}) =
                     IF MayBeCalled(E[i]) THEN 1 ELSE 0
            <3>1. MayBeCalled(E[i]) <=> \E k \in 1 .. Len(called) : called[k] = i
                  BY <2>4 DEF CalledUpTo
            <3>2. Cardinality({k \in 1 .. Len(called) : called[k] = i}) =
                    IF \E k \in 1 .. Len(called) : called[k] = i THEN 1 ELSE 0
                  BY <2>5, <2>6, OnceInOrder
            <3> HIDE DEF MayBeCalled
            <3> QED
                BY <3>1, <3>2
      <2> QED
          BY <2>2, <2>3, <2>5, <2>6, <2>7
<1>2. ProcessorSpec => []ProcessorOK
      BY ProcessorInvariant
<1> QED
    BY <1>1, <1>2, PTL
=============================================================================
