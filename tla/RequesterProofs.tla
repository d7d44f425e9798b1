--------------------------- MODULE RequesterProofs ---------------------------
(***************************************************************************)
(* Proofs about Requester: for any number of requests, and calls nested as *)
(* deeply as one likes, every callback runs once and with the response to  *)
(* its own request.                                                        *)
(***************************************************************************)
EXTENDS Requester, TLAPS

\* The calls in progress after one more, or one less, as a function of those
\* before.
Pushed(call, r) ==
  /\ DOMAIN stack = 1 .. Len(stack) /\ Len(stack) \in Nat
  /\ DOMAIN stack' = 1 .. Len(stack) + 1
  /\ stack'[1].call = call /\ stack'[1].req = r
  /\ stack'[1] = [call |-> call, req |-> r]
  /\ \A i \in DOMAIN stack : stack'[i + 1] = stack[i]
  /\ \A i \in DOMAIN stack' : i # 1 => /\ i - 1 \in DOMAIN stack
                                       /\ stack'[i] = stack[i - 1]

Popped ==
  /\ 1 \in DOMAIN stack
  /\ DOMAIN stack = 1 .. Len(stack) /\ Len(stack) \in Nat
  /\ DOMAIN stack' = 1 .. Len(stack) - 1
  /\ \A i \in DOMAIN stack' : i + 1 \in DOMAIN stack /\ stack'[i] = stack[i + 1]
  /\ \A i \in DOMAIN stack : i # 1 => /\ i - 1 \in DOMAIN stack'
                                      /\ stack'[i - 1] = stack[i]

LEMMA Push ==
  ASSUME stack \in Seq(Frame), NEW call \in {"send", "reject", "respond", "destroy"},
         NEW r \in Requests, Call(call, r)
  PROVE  stack' \in Seq(Frame) /\ Pushed(call, r)
<1> DEFINE f == [call |-> call, req |-> r]
<1>1. f \in Frame /\ f.call = call /\ f.req = r
      BY DEF Frame
<1>2. <<f>> \in Seq(Frame) /\ Len(<<f>>) = 1 /\ <<f>>[1] = f
      BY <1>1
<1>3. stack' = <<f>> \o stack
      BY DEF Call
<1> HIDE DEF f
<1>4. /\ stack' \in Seq(Frame)
      /\ Len(stack') = Len(stack) + 1
      /\ stack'[1] = f
      /\ \A i \in 1 .. Len(stack) : stack'[i + 1] = stack[i]
      /\ \A i \in 2 .. Len(stack) + 1 : stack'[i] = stack[i - 1]
      BY <1>2, <1>3
<1> QED
    BY <1>1, <1>4 DEF Pushed, f

LEMMA Pop ==
  ASSUME stack \in Seq(Frame), stack # <<>>, stack' = Tail(stack)
  PROVE  stack' \in Seq(Frame) /\ Popped
<1>1. /\ stack' \in Seq(Frame)
      /\ Len(stack') = Len(stack) - 1 /\ Len(stack) >= 1
      /\ \A i \in 1 .. Len(stack) - 1 : stack'[i] = stack[i + 1]
      OBVIOUS
<1> QED
    BY <1>1 DEF Popped

LEMMA TypeInit == Init => TypeOK
BY DEF Init, TypeOK

LEMMA TypeNext == TypeOK /\ [Next]_vars => TypeOK'
<1> SUFFICES ASSUME TypeOK, [Next]_vars PROVE TypeOK'
    OBVIOUS
<1> USE RequesterAssumption DEF TypeOK
<1>1. ASSUME NEW r \in Requests, Request(r) PROVE TypeOK'
      <2>1. stack' \in Seq(Frame)
            BY <1>1, Push DEF Request
      <2> QED
          BY <1>1, <2>1 DEF Request
<1>2. ASSUME NEW r \in Requests, Reject(r) PROVE TypeOK'
      <2>1. stack' \in Seq(Frame)
            BY <1>2, Push DEF Reject
      <2> QED
          BY <1>2, <2>1 DEF Reject
<1>3. ASSUME NEW r \in Requests, RequestReturns(r) PROVE TypeOK'
      BY <1>3, Pop DEF RequestReturns, Running, LastMade
<1>4. ASSUME NEW r \in Requests, Respond(r) PROVE TypeOK'
      <2>1. stack' \in Seq(Frame)
            BY <1>4, Push DEF Respond
      <2> QED
          BY <1>4, <2>1 DEF Respond
<1>5. ASSUME NEW r \in Requests, CallbackReturns(r) PROVE TypeOK'
      BY <1>5, Pop DEF CallbackReturns, Running
<1>6. ASSUME NEW r \in Requests, Cancel(r) PROVE TypeOK'
      BY <1>6 DEF Cancel
<1>7. ASSUME NEW r \in Requests, SendThrows(r) PROVE TypeOK'
      BY <1>7, Pop DEF SendThrows, Running
<1>8. ASSUME NEW r \in Requests, DestructorCalls(r) PROVE TypeOK'
      <2>1. stack' \in Seq(Frame)
            BY <1>8, Push DEF DestructorCalls
      <2>2. at' \in Int
            BY <1>8 DEF DestructorCalls, Left
      <2> QED
          BY <1>8, <2>1, <2>2 DEF DestructorCalls
<1>9. ASSUME NEW r \in Requests, DestructorGoesOn(r) PROVE TypeOK'
      BY <1>9, Pop DEF DestructorGoesOn, Running
<1>10. CASE Destroy
      BY <1>10 DEF Destroy
<1>11. CASE DestructorReturns
      BY <1>11 DEF DestructorReturns
<1>12. CASE PureVirtualSend
      BY <1>12 DEF PureVirtualSend
<1>13. CASE UNCHANGED vars
      BY <1>13 DEF vars
<1> QED
    BY <1>1, <1>2, <1>3, <1>4, <1>5, <1>6, <1>7, <1>8, <1>9, <1>10, <1>11, <1>12, <1>13
    DEF Next

\* Every variable of the requester has its type.
THEOREM TypeCorrect == Spec => []TypeOK
BY TypeInit, TypeNext, PTL DEF Spec

-----------------------------------------------------------------------------
(***************************************************************************)
(* The inductive invariant.                                                *)
(***************************************************************************)
Responding(r) ==
  \E i \in DOMAIN stack : stack[i].call = "respond" /\ stack[i].req = r

\* The calls in progress for one request are processResponse() inside of the
\* _send() it was called from, never the other way round and never one twice.
Nesting ==
  \A i, j \in DOMAIN stack :
    i < j /\ stack[i].req = stack[j].req =>
      stack[i].call = "respond" /\ stack[j].call = "send"

\* A request that was not made has left no trace.
Unmade == \A r \in Requests : ~Made(r) => calls[r] = 0

\* Ids are taken from a counter; only what has an id is sent and pending, and the
\* destructor has begun with the first id.
Ids ==
  /\ \A r \in Requests : idOf[r] # None => idOf[r] < lastId
  /\ \A r \in pending : idOf[r] # None
  /\ \A i \in DOMAIN stack : stack[i].call = "send" => idOf[stack[i].req] # None
  /\ life = "alive" => at = -1

\* A callback that has run belongs to no pending entry, save the one that
\* processResponse() is about to erase and those the destructor has come to.
Once ==
  /\ \A r \in Requests : calls[r] <= 1
  /\ \A r \in pending : life = "alive" /\ calls[r] > 0 => Responding(r)
  /\ \A r \in pending : life # "alive" => (calls[r] > 0 <=> idOf[r] <= at)
  /\ \A i \in DOMAIN stack : stack[i].call \in {"respond", "destroy"} =>
       stack[i].req \in pending /\ calls[stack[i].req] > 0

IInv ==
  TypeOK /\ Nesting /\ Unmade /\ Ids /\ Once /\ IdsUnique /\ NoneForgotten

LEMMA IInvInit == Init => IInv
<1> SUFFICES ASSUME Init PROVE IInv
    OBVIOUS
<1>1. TypeOK
      BY TypeInit
<1> QED
    BY <1>1, RequesterAssumption
       DEF Init, IInv, Nesting, Unmade, Ids, Once, IdsUnique, NoneForgotten

\* What is common to the steps: the parts of the invariant and the types.
Facts ==
  /\ lastId \in Nat
  /\ idOf \in [Requests -> Nat \cup {None}]
  /\ pending \subseteq Requests
  /\ handle \in [Requests -> Nat \cup {None}]
  /\ calls \in [Requests -> Nat]
  /\ at \in Int
  /\ \A i \in DOMAIN stack : stack[i].req \in Requests
  /\ \A n \in Int : n # None

LEMMA InvFacts == IInv => Facts
<1> SUFFICES ASSUME IInv PROVE Facts
    OBVIOUS
<1>1. \A i \in DOMAIN stack : stack[i] \in Frame
      BY DEF IInv, TypeOK
<1> QED
    BY <1>1, RequesterAssumption DEF IInv, TypeOK, Frame, Facts

\* Calls that are entered with a request nothing is in progress for.
LEMMA PushedInv ==
  ASSUME IInv, NEW r \in Requests, NEW call \in {"send", "reject", "respond", "destroy"},
         Pushed(call, r),
         \A i \in DOMAIN stack : stack[i].req = r => call = "respond" /\ stack[i].call = "send",
         UNCHANGED handle, \A s \in Requests \ {r} : idOf'[s] = idOf[s],
         \A s \in Requests \ {r} : calls'[s] = calls[s]
  PROVE  /\ Nesting' /\ Unmade'
         /\ \A s \in Requests : Responding(s) => Responding(s)'
         /\ call = "respond" => Responding(r)'
<1>0. Facts
      BY InvFacts
<1>1. Nesting'
      <2> SUFFICES ASSUME NEW i \in DOMAIN stack', NEW j \in DOMAIN stack',
                          i < j, stack'[i].req = stack'[j].req
                   PROVE  stack'[i].call = "respond" /\ stack'[j].call = "send"
          BY DEF Nesting
      <2>1. CASE i = 1
            <3>1. j # 1 /\ j - 1 \in DOMAIN stack /\ stack'[j] = stack[j - 1]
                  BY <2>1 DEF Pushed
            <3> QED
                BY <2>1, <3>1 DEF Pushed
      <2>2. CASE i # 1
            BY <2>2 DEF Pushed, IInv, Nesting
      <2> QED
          BY <2>1, <2>2
<1>2. \A s \in Requests \ {r} : Made(s) => Made(s)'
      BY DEF Pushed, Made
<1>3. Made(r)'
      BY DEF Pushed, Made
<1>4. Unmade'
      BY <1>2, <1>3 DEF IInv, Unmade
<1>5. \A s \in Requests : Responding(s) => Responding(s)'
      BY DEF Pushed, Responding
<1>6. call = "respond" => Responding(r)'
      BY DEF Pushed, Responding
<1> QED
    BY <1>1, <1>4, <1>5, <1>6

LEMMA RequestInv ==
  ASSUME IInv, NEW r \in Requests, Request(r)
  PROVE  IInv'
<1>0. Facts /\ TypeOK /\ TypeOK'
      BY InvFacts, TypeNext DEF IInv, Next
<1>1. Pushed("send", r)
      BY <1>0, Push DEF Request, TypeOK
<1>2. /\ life = "alive" /\ idOf[r] = None /\ calls[r] = 0 /\ r \notin pending
      /\ \A i \in DOMAIN stack : stack[i].req # r
      BY DEF Request, Made, IInv, Unmade, Ids
<1>3. /\ idOf' = [idOf EXCEPT ![r] = lastId] /\ lastId' = lastId + 1
      /\ pending' = pending \cup {r}
      /\ UNCHANGED <<handle, calls, life, at>>
      BY DEF Request
<1>4. idOf'[r] = lastId /\ \A s \in Requests \ {r} : idOf'[s] = idOf[s]
      BY <1>0, <1>3 DEF Facts
<1>5. Nesting' /\ Unmade' /\ \A s \in Requests : Responding(s) => Responding(s)'
      BY <1>1, <1>2, <1>3, <1>4, PushedInv
<1>6. Ids'
      BY <1>0, <1>1, <1>2, <1>3, <1>4 DEF Pushed, Facts, IInv, Ids
<1>7. Once'
      <2>1. \A i \in DOMAIN stack' : stack'[i].call \in {"respond", "destroy"} =>
              stack'[i].req \in pending /\ stack'[i].req # r /\ calls[stack'[i].req] > 0
            BY <1>1, <1>2 DEF Pushed, IInv, Once
      <2>2. \A i \in DOMAIN stack' : stack'[i].call \in {"respond", "destroy"} =>
              stack'[i].req \in pending' /\ calls'[stack'[i].req] > 0
            BY <1>0, <1>3, <1>4, <2>1 DEF Facts
      <2>3. \A s \in Requests : calls'[s] <= 1
            BY <1>0, <1>2, <1>3, <1>4 DEF Facts, IInv, Once
      <2>4. \A s \in pending' : life' = "alive" /\ calls'[s] > 0 => Responding(s)'
            BY <1>0, <1>2, <1>3, <1>4, <1>5 DEF Facts, IInv, Once
      <2>5. \A s \in pending' : life' # "alive" => (calls'[s] > 0 <=> idOf'[s] <= at')
            BY <1>0, <1>2, <1>3, <1>4 DEF Facts, IInv, Once
      <2> QED
          BY <2>2, <2>3, <2>4, <2>5 DEF Once
<1>8. IdsUnique' /\ NoneForgotten'
      BY <1>0, <1>2, <1>3, <1>4 DEF Facts, IInv, Ids, IdsUnique, NoneForgotten
<1> QED
    BY <1>0, <1>5, <1>6, <1>7, <1>8 DEF IInv

LEMMA RejectInv ==
  ASSUME IInv, NEW r \in Requests, Reject(r)
  PROVE  IInv'
<1>0. Facts /\ TypeOK /\ TypeOK'
      BY InvFacts, TypeNext DEF IInv, Next
<1>1. Pushed("reject", r)
      BY <1>0, Push DEF Reject, TypeOK
<1>2. /\ idOf[r] = None /\ calls[r] = 0 /\ r \notin pending
      /\ \A i \in DOMAIN stack : stack[i].req # r
      BY DEF Reject, Made, IInv, Unmade, Ids
<1>3. /\ calls' = [calls EXCEPT ![r] = @ + 1]
      /\ UNCHANGED <<lastId, idOf, pending, handle, life, at>>
      BY DEF Reject
<1>4. calls'[r] = 1 /\ \A s \in Requests \ {r} : calls'[s] = calls[s]
      BY <1>0, <1>2, <1>3 DEF Facts
<1>5. Nesting' /\ Unmade' /\ \A s \in Requests : Responding(s) => Responding(s)'
      BY <1>1, <1>2, <1>3, <1>4, PushedInv
<1>6. Ids'
      BY <1>0, <1>1, <1>2, <1>3 DEF Pushed, Facts, IInv, Ids
<1>7. Once'
      <2>1. \A i \in DOMAIN stack' : stack'[i].call \in {"respond", "destroy"} =>
              stack'[i].req \in pending /\ stack'[i].req # r /\ calls[stack'[i].req] > 0
            BY <1>1, <1>2 DEF Pushed, IInv, Once
      <2>2. \A i \in DOMAIN stack' : stack'[i].call \in {"respond", "destroy"} =>
              stack'[i].req \in pending' /\ calls'[stack'[i].req] > 0
            BY <1>0, <1>3, <1>4, <2>1 DEF Facts
      <2>3. \A s \in Requests : calls'[s] <= 1
            BY <1>0, <1>2, <1>3, <1>4 DEF Facts, IInv, Once
      <2>4. \A s \in pending' : life' = "alive" /\ calls'[s] > 0 => Responding(s)'
            BY <1>0, <1>2, <1>3, <1>4, <1>5 DEF Facts, IInv, Once
      <2>5. \A s \in pending' : life' # "alive" => (calls'[s] > 0 <=> idOf'[s] <= at')
            BY <1>0, <1>2, <1>3, <1>4 DEF Facts, IInv, Once
      <2> QED
          BY <2>2, <2>3, <2>4, <2>5 DEF Once
<1>8. IdsUnique' /\ NoneForgotten'
      BY <1>0, <1>2, <1>3, <1>4 DEF Facts, IInv, IdsUnique, NoneForgotten
<1> QED
    BY <1>0, <1>5, <1>6, <1>7, <1>8 DEF IInv

LEMMA RespondInv ==
  ASSUME IInv, NEW r \in Requests, Respond(r)
  PROVE  IInv'
<1>0. Facts /\ TypeOK /\ TypeOK'
      BY InvFacts, TypeNext DEF IInv, Next
<1>1. Pushed("respond", r)
      BY <1>0, Push DEF Respond, TypeOK
<1>2. \A i \in DOMAIN stack : stack[i].req = r => stack[i].call = "send"
      <2>1. CASE stack = <<>>
            BY <2>1
      <2>2. CASE Running("send", r)
            <3>1. /\ stack[1].req = r /\ stack[1].call = "send"
                  /\ 1 \in DOMAIN stack
                  /\ \A i \in DOMAIN stack : i = 1 \/ 1 < i
                  BY <1>0, <2>2 DEF Running, TypeOK
            <3> QED
                BY <3>1 DEF IInv, Nesting
      <2> QED
          BY <2>1, <2>2 DEF Respond
<1>3. /\ life = "alive" /\ r \in pending /\ idOf[r] # None /\ calls[r] = 0
      /\ calls' = [calls EXCEPT ![r] = @ + 1]
      /\ UNCHANGED <<lastId, idOf, pending, handle, life, at>>
      BY <1>0, <1>2 DEF Respond, Facts, IInv, Once, Responding, Ids
<1>4. calls'[r] = 1 /\ \A s \in Requests \ {r} : calls'[s] = calls[s]
      BY <1>0, <1>3 DEF Facts
<1>5. /\ Nesting' /\ Unmade' /\ \A s \in Requests : Responding(s) => Responding(s)'
      /\ Responding(r)'
      BY <1>1, <1>2, <1>3, <1>4, PushedInv
<1>6. Ids'
      BY <1>0, <1>1, <1>3 DEF Pushed, Facts, IInv, Ids
<1>7. Once'
      BY <1>0, <1>1, <1>3, <1>4, <1>5 DEF Pushed, Facts, IInv, Once
<1>8. IdsUnique' /\ NoneForgotten'
      BY <1>0, <1>3, <1>4 DEF Facts, IInv, IdsUnique, NoneForgotten
<1> QED
    BY <1>0, <1>5, <1>6, <1>7, <1>8 DEF IInv

\* The destructor comes to the entry with the next id.
LEMMA DestructorCallsInv ==
  ASSUME IInv, NEW r \in Requests, DestructorCalls(r)
  PROVE  IInv'
<1>0. Facts /\ TypeOK /\ TypeOK'
      BY InvFacts, TypeNext DEF IInv, Next
<1>1. Pushed("destroy", r)
      BY <1>0, Push DEF DestructorCalls, TypeOK
<1>2. /\ life = "destroying" /\ stack = <<>>
      /\ r \in pending /\ idOf[r] > at /\ calls[r] = 0 /\ at' = idOf[r]
      /\ \A s \in pending : idOf[s] > at => idOf[r] <= idOf[s]
      /\ calls' = [calls EXCEPT ![r] = @ + 1]
      /\ UNCHANGED <<lastId, idOf, pending, handle, life>>
      BY <1>0 DEF DestructorCalls, Left, Facts, IInv, Ids, Once
<1>3. calls'[r] = 1 /\ \A s \in Requests \ {r} : calls'[s] = calls[s]
      BY <1>0, <1>2 DEF Facts
<1>4. DOMAIN stack = {}
      BY <1>2
<1>5. Nesting' /\ Unmade'
      BY <1>1, <1>2, <1>3, <1>4, PushedInv
<1>6. Ids'
      BY <1>0, <1>1, <1>2, <1>4 DEF Pushed, Facts, IInv, Ids
<1>7. ASSUME NEW s \in pending, s # r PROVE idOf[s] <= at <=> idOf[s] <= idOf[r]
      <2>1. idOf[s] \in Nat /\ idOf[r] \in Nat /\ idOf[s] # idOf[r]
            BY <1>0, <1>2, <1>7 DEF Facts, IInv, Ids, IdsUnique
      <2> QED
          BY <1>0, <1>2, <2>1 DEF Facts
<1>8. Once'
      <2>1. \A s \in pending : calls'[s] > 0 <=> idOf[s] <= idOf[r]
            <3>1. ASSUME NEW s \in pending PROVE calls'[s] > 0 <=> idOf[s] <= idOf[r]
                  <4>1. CASE s = r
                        BY <1>0, <1>2, <1>3, <4>1 DEF Facts, IInv, Ids
                  <4>2. CASE s # r
                        BY <1>0, <1>2, <1>3, <1>7, <4>2 DEF Facts, IInv, Once
                  <4> QED
                      BY <4>1, <4>2
            <3> QED
                BY <3>1
      <2> QED
          BY <1>0, <1>1, <1>2, <1>3, <1>4, <2>1 DEF Pushed, Facts, IInv, Once
<1>9. IdsUnique' /\ NoneForgotten'
      BY <1>0, <1>2, <1>3 DEF Facts, IInv, IdsUnique, NoneForgotten
<1> QED
    BY <1>0, <1>5, <1>6, <1>8, <1>9 DEF IInv

\* A call returns that keeps what is pending.
LEMMA ReturnsInv ==
  ASSUME IInv, NEW r \in Requests,
         RequestReturns(r) \/ SendThrows(r) \/ DestructorGoesOn(r)
  PROVE  IInv'
<1>0. Facts /\ TypeOK /\ TypeOK'
      BY InvFacts, TypeNext DEF IInv, Next
<1>1. Popped
      BY <1>0, Pop DEF RequestReturns, SendThrows, DestructorGoesOn, Running, TypeOK
<1>2. /\ stack[1].req = r /\ stack[1].call # "respond"
      /\ UNCHANGED <<lastId, idOf, pending, calls, life, at>>
      BY DEF RequestReturns, SendThrows, DestructorGoesOn, Running
<1>3. /\ \A s \in Requests \ {r} : handle'[s] = handle[s]
      /\ handle'[r] # None \/ idOf[r] # None
      <2>1. CASE RequestReturns(r)
            <3>1. LastMade \in Nat
                  BY <1>0, RequesterAssumption DEF LastMade, Facts
            <3> QED
                BY <1>0, <2>1, <3>1 DEF RequestReturns, Facts
      <2>2. CASE SendThrows(r)
            BY <1>1, <2>2 DEF SendThrows, Running, Popped, IInv, Ids
      <2>3. CASE DestructorGoesOn(r)
            BY <1>1, <2>3 DEF DestructorGoesOn, Running, Popped, IInv, Once, Ids
      <2> QED
          BY <2>1, <2>2, <2>3
<1>4. Nesting'
      BY <1>1 DEF Popped, IInv, Nesting
<1>5. Unmade'
      <2>1. \A s \in Requests \ {r} : Made(s) => Made(s)'
            BY <1>1, <1>2, <1>3 DEF Popped, Made
      <2>2. Made(r)'
            BY <1>2, <1>3 DEF Made
      <2> QED
          BY <1>2, <2>1, <2>2 DEF IInv, Unmade
<1>6. Ids'
      BY <1>1, <1>2 DEF Popped, IInv, Ids
<1>7. \A s \in Requests : Responding(s) => Responding(s)'
      BY <1>1, <1>2 DEF Popped, Responding
<1>8. Once'
      BY <1>0, <1>1, <1>2, <1>7 DEF Popped, Facts, IInv, Once
<1>9. IdsUnique' /\ NoneForgotten'
      BY <1>2 DEF IInv, IdsUnique, NoneForgotten
<1> QED
    BY <1>0, <1>4, <1>5, <1>6, <1>8, <1>9 DEF IInv

\* The callback of a response returns and its entry is erased.
LEMMA CallbackReturnsInv ==
  ASSUME IInv, NEW r \in Requests, CallbackReturns(r)
  PROVE  IInv'
<1>0. Facts /\ TypeOK /\ TypeOK'
      BY InvFacts, TypeNext DEF IInv, Next
<1>1. Popped
      BY <1>0, Pop DEF CallbackReturns, Running, TypeOK
<1>2. /\ stack[1].req = r /\ stack[1].call = "respond"
      /\ pending' = pending \ {r}
      /\ UNCHANGED <<lastId, idOf, handle, calls, life, at>>
      BY DEF CallbackReturns, Running
<1>3. r \in pending /\ calls[r] > 0 /\ idOf[r] # None
      BY <1>1, <1>2 DEF Popped, IInv, Once, Ids
<1>4. Nesting'
      BY <1>1 DEF Popped, IInv, Nesting
<1>5. Unmade'
      <2>1. \A s \in Requests \ {r} : Made(s) => Made(s)'
            BY <1>1, <1>2 DEF Popped, Made
      <2>2. Made(r)'
            BY <1>2, <1>3 DEF Made
      <2> QED
          BY <1>2, <2>1, <2>2 DEF IInv, Unmade
<1>6. Ids'
      BY <1>1, <1>2 DEF Popped, IInv, Ids
<1>7. \A s \in Requests \ {r} : Responding(s) => Responding(s)'
      BY <1>1, <1>2 DEF Popped, Responding
<1>8. \A i \in DOMAIN stack' : stack'[i].call \in {"respond", "destroy"} => stack'[i].req # r
      <2>1. ASSUME NEW i \in DOMAIN stack', stack'[i].req = r PROVE stack'[i].call = "send"
            <3>1. i + 1 \in DOMAIN stack /\ stack'[i] = stack[i + 1] /\ 1 \in DOMAIN stack
                  BY <1>1 DEF Popped
            <3>2. 1 < i + 1
                  BY <1>1 DEF Popped
            <3> QED
                BY <1>2, <2>1, <3>1, <3>2 DEF IInv, Nesting
      <2> QED
          BY <2>1
<1>9. Once'
      BY <1>0, <1>1, <1>2, <1>7, <1>8 DEF Popped, Facts, IInv, Once
<1>10. IdsUnique' /\ NoneForgotten'
      BY <1>0, <1>2, <1>3 DEF Facts, IInv, IdsUnique, NoneForgotten
<1> QED
    BY <1>0, <1>4, <1>5, <1>6, <1>9, <1>10 DEF IInv

\* The destructor begins, returns or ends the program.
LEMMA DestroyInv ==
  ASSUME IInv, Destroy \/ DestructorReturns \/ PureVirtualSend
  PROVE  IInv'
<1>0. Facts /\ TypeOK /\ TypeOK'
      BY InvFacts, TypeNext DEF IInv, Next
<1>1. UNCHANGED <<lastId, idOf, pending, stack, handle, calls, at>> /\ life' # "alive"
      BY DEF Destroy, DestructorReturns, PureVirtualSend
<1>2. Nesting' /\ Unmade' /\ Ids' /\ IdsUnique'
      BY <1>1 DEF IInv, Nesting, Unmade, Made, Ids, IdsUnique
<1>3. \A r \in pending : calls[r] > 0 <=> idOf[r] <= at
      <2>1. CASE Destroy
            <3>1. /\ life = "alive" /\ at = -1 /\ \A r \in pending : ~Responding(r)
                  BY <2>1 DEF Destroy, IInv, Ids, Responding
            <3>2. \A r \in pending : ~(calls[r] > 0) /\ idOf[r] \in Nat
                  BY <1>0, <3>1 DEF Facts, IInv, Ids, Once
            <3> QED
                BY <3>1, <3>2
      <2>2. CASE DestructorReturns \/ PureVirtualSend
            BY <2>2 DEF DestructorReturns, PureVirtualSend, IInv, Once
      <2> QED
          BY <2>1, <2>2
<1>4. Once'
      BY <1>1, <1>3 DEF IInv, Once
<1>5. NoneForgotten'
      <2>1. life' = "destroyed" => \A r \in pending : calls[r] > 0
            <3>1. ASSUME life' = "destroyed", NEW r \in pending PROVE calls[r] > 0
                  <4>1. idOf[r] \in Nat /\ ~(idOf[r] > at)
                        BY <1>0, <3>1 DEF Destroy, DestructorReturns, PureVirtualSend, Left,
                                         Facts, IInv, Ids
                  <4> QED
                      BY <1>0, <1>3, <4>1 DEF Facts
            <3> QED
                BY <3>1
      <2> QED
          BY <1>1, <2>1 DEF IInv, NoneForgotten
<1> QED
    BY <1>0, <1>2, <1>4, <1>5 DEF IInv

LEMMA IInvNext == IInv /\ [Next]_vars => IInv'
<1> SUFFICES ASSUME IInv, [Next]_vars PROVE IInv'
    OBVIOUS
<1>1. TypeOK'
      BY TypeNext DEF IInv
<1>2. ASSUME NEW r \in Requests, Cancel(r) PROVE IInv'
      BY <1>1, <1>2
      DEF IInv, Cancel, Nesting, Unmade, Made, Ids, Once, Responding, IdsUnique, NoneForgotten
<1>3. CASE UNCHANGED vars
      BY <1>1, <1>3
      DEF IInv, vars, Nesting, Unmade, Made, Ids, Once, Responding, IdsUnique, NoneForgotten
<1> QED
    BY <1>2, <1>3, RequestInv, RejectInv, RespondInv, DestructorCallsInv, ReturnsInv,
       CallbackReturnsInv, DestroyInv
    DEF Next

\* requester.cpp:151: however calls nest, and however often a response arrives,
\* a callback is called at most once.
THEOREM CalledOnce == Spec => []CallbackOnce
<1>1. IInv => CallbackOnce
      BY DEF IInv, Once, CallbackOnce
<1> QED
    BY IInvInit, IInvNext, <1>1, PTL DEF Spec

\* requester.cpp:100: a request that was sent is answered or still can be, and
\* none waits when the destructor has returned.
THEOREM AllAnswered == Spec => []NoneForgotten
<1>1. IInv => NoneForgotten
      BY DEF IInv
<1> QED
    BY IInvInit, IInvNext, <1>1, PTL DEF Spec

\* requester.cpp:127: no id is given out twice, so that a response finds the
\* callback of its own request.
THEOREM OwnResponse == Spec => []IdsUnique
<1>1. IInv => IdsUnique
      BY DEF IInv
<1> QED
    BY IInvInit, IInvNext, <1>1, PTL DEF Spec

\* requester.cpp:152: the entry that processResponse() erases after a callback
\* is still there, whatever the callback has done.
THEOREM IteratorsValid == Spec => []IteratorValid
<1>1. ASSUME IInv PROVE IteratorValid
      <2>1. \A i, j \in DOMAIN stack : i < j \/ j < i \/ i = j
            BY <1>1 DEF IInv, TypeOK
      <2> QED
          BY <1>1, <2>1 DEF IInv, Once, Nesting, IteratorValid
<1> QED
    BY IInvInit, IInvNext, <1>1, PTL DEF Spec
=============================================================================
