---------------------------- MODULE WsClientProofs ----------------------------
(***************************************************************************)
(* Proofs about WsClient, for any number of connects, messages and         *)
(* fragments: as long as connect() was called once, nothing is thrown by   *)
(* the promise, callbacks find the connection they are about and messages  *)
(* arrive whole, whenever the connection breaks and whatever is sent.      *)
(***************************************************************************)
EXTENDS WsClient, TLAPS

Progress == {"none", "connecting", "refused", "open", "gone"}

\* What the promise tells of the connection, which is the first and only one: it
\* is set by the first who reports.
PromiseOK ==
  /\ connection \in {0, 1}
  /\ \A k \in Calls : k # 1 => wsi[k] = "none"
  /\ \A k \in Calls : wsi[k] \in {"connecting", "refused", "open"} => connection = k
  /\ connects = 0 => wsi = [k \in Calls |-> "none"] /\ promise = "unset"
  /\ 1 \in Calls /\ wsi[1] = "connecting" => promise = "unset"
  /\ errors \cap {"future_error", "stale"} = {}

\* Fragment i of message m of n, and the buffer when it holds i of them.
Begun(s, m, i, n) ==
  /\ s \in Seq([msg : Nat, part : Nat, parts : Nat])
  /\ Len(s) = i
  /\ \A j \in 1 .. i : s[j] = [msg |-> m, part |-> j, parts |-> n]

Arriving(f) ==
  /\ f \in [msg : Nat, part : Nat, parts : Nat]
  /\ f.part < f.parts
  /\ Begun(buffer, f.msg, f.part, f.parts)

\* What the buffer holds belongs to the message that arrives, and there is
\* nothing in it before a connection is made and between messages.
BufferOK ==
  /\ \A k \in Calls : wsi[k] # "open" => arriving[k] = None
  /\ (\A k \in Calls : wsi[k] \in {"none", "connecting"}) => buffer = <<>>
  /\ \A k \in Calls : wsi[k] = "open" =>
       \/ arriving[k] = None /\ buffer = <<>>
       \/ arriving[k] # None /\ Arriving(arriving[k])

\* The types, and what holds while there is one connection at most.
Typed ==
  /\ connects \in 0 .. MaxConnects
  /\ wsi \in [Calls -> Progress]
  /\ DOMAIN arriving = Calls
  /\ messages \in Nat

Single == PromiseOK /\ BufferOK /\ Handler!WholeMessages

IInv == Typed /\ (connects <= 1 => Single)

\* A fragment that is appended goes on with what has begun.
LEMMA AppendBegun ==
  ASSUME NEW s, NEW m \in Nat, NEW i \in Nat, NEW n \in Nat, Begun(s, m, i, n)
  PROVE  Begun(Append(s, [msg |-> m, part |-> i + 1, parts |-> n]), m, i + 1, n)
BY DEF Begun

\* What has all its fragments is whole.
LEMMA BegunWhole ==
  ASSUME NEW s, NEW m \in Nat, NEW n \in Nat \ {0}, Begun(s, m, n, n)
  PROVE  Handler!Whole(s)
BY DEF Begun, Handler!Whole, Handler!Part

LEMMA InvInit == Init => IInv
<1> SUFFICES ASSUME Init PROVE IInv
    OBVIOUS
<1>1. Typed
      BY WsClientAssumption DEF Init, Typed, Progress
<1>2. PromiseOK
      BY DEF Init, PromiseOK
<1>3. BufferOK
      BY DEF Init, BufferOK
<1>4. Handler!WholeMessages
      BY DEF Init, Handler!WholeMessages, Handler!Whole
<1> QED
    BY <1>1, <1>2, <1>3, <1>4 DEF IInv, Single

\* handleMessage() with a fragment that goes on with what is in the buffer.
LEMMA HandleMessageWhole ==
  ASSUME Typed, Single, NEW k \in Calls, wsi[k] = "open", UNCHANGED wsi,
         NEW m \in Nat, NEW i \in Nat, NEW n \in Nat, i < n,
         Begun(buffer, m, i, n), NEW handled \in BOOLEAN,
         Handler!HandleMessage(k, [msg |-> m, part |-> i + 1, parts |-> n], handled)
  PROVE  BufferOK' /\ Handler!WholeMessages'
<1> DEFINE f == [msg |-> m, part |-> i + 1, parts |-> n]
           s == Append(buffer, f)
<1>1. Begun(s, m, i + 1, n)
      BY AppendBegun
<1>2. f \in [msg : Nat, part : Nat, parts : Nat] /\ f.part = i + 1 /\ f.parts = n /\ f.msg = m
      OBVIOUS
<1>3. f # None
      BY WsClientAssumption
<1>4. \A c \in Calls : c # k => wsi[c] # "open"
      BY DEF Single, PromiseOK
<1>5. CASE i + 1 < n
      <2>1. /\ arriving' = [arriving EXCEPT ![k] = f]
            /\ buffer' = s /\ given' = given
            BY <1>2, <1>5 DEF Handler!HandleMessage
      <2>2. arriving'[k] = f /\ \A c \in Calls : c # k => arriving'[c] = arriving[c]
            BY <2>1 DEF Typed
      <2>3. Arriving(arriving[k])'
            BY <1>1, <1>2, <1>5, <2>1, <2>2 DEF Arriving
      <2>4. BufferOK'
            BY <1>3, <1>4, <2>2, <2>3 DEF Single, BufferOK
      <2> QED
          BY <2>1, <2>4 DEF Single, Handler!WholeMessages
<1>6. CASE i + 1 = n
      <2>1. /\ arriving' = [arriving EXCEPT ![k] = None]
            /\ buffer' = <<>>
            /\ given' = s \/ given' = given
            BY <1>2, <1>6 DEF Handler!HandleMessage, Handler!Emptied
      <2>2. arriving'[k] = None /\ \A c \in Calls : c # k => arriving'[c] = arriving[c]
            BY <2>1 DEF Typed
      <2>3. Handler!Whole(s)
            BY <1>1, <1>6, BegunWhole
      <2>4. Handler!WholeMessages'
            BY <2>1, <2>3 DEF Single, Handler!WholeMessages
      <2>5. BufferOK'
            BY <1>4, <2>1, <2>2 DEF Single, BufferOK
      <2> QED
          BY <2>4, <2>5
<1> QED
    BY <1>5, <1>6

\* CLIENT_RECEIVE
LEMMA ReceiveInv ==
  ASSUME IInv, NEW k \in Calls, Receive(k)
  PROVE  IInv'
<1>1. wsi[k] = "open" /\ UNCHANGED <<connects, wsi, connection, promise, errors>>
      BY DEF Receive
<1>2. Typed'
      BY <1>1 DEF Receive, IInv, Typed, Handler!FirstFragment, Handler!NextFragment,
                  Handler!HandleMessage
<1> SUFFICES ASSUME connects <= 1 PROVE Single'
    BY <1>1, <1>2 DEF IInv
<1>3. Typed /\ Single
      BY DEF IInv
<1>4. PromiseOK'
      BY <1>1, <1>3 DEF Single, PromiseOK
<1>5. ASSUME Handler!FirstFragment(k) PROVE BufferOK' /\ Handler!WholeMessages'
      <2>1. arriving[k] = None /\ messages \in Nat
            BY <1>3, <1>5 DEF Handler!FirstFragment, Typed
      <2>2. buffer = <<>>
            BY <1>1, <1>3, <2>1 DEF Single, BufferOK
      <2>3. PICK n \in 1 .. MaxParts, handled \in BOOLEAN :
              Handler!HandleMessage(k, Handler!Part(messages + 1, 1, n), handled)
            BY <1>5 DEF Handler!FirstFragment
      <2>4. n \in Nat /\ 0 < n
            BY WsClientAssumption
      <2>5. Begun(buffer, messages + 1, 0, n)
            BY <2>2 DEF Begun
      <2>6. Handler!Part(messages + 1, 1, n) = [msg |-> messages + 1, part |-> 0 + 1, parts |-> n]
            BY DEF Handler!Part
      <2> QED
          BY <1>1, <1>3, <2>1, <2>3, <2>4, <2>5, <2>6, HandleMessageWhole
<1>6. ASSUME Handler!NextFragment(k) PROVE BufferOK' /\ Handler!WholeMessages'
      <2>1. arriving[k] # None
            BY <1>6 DEF Handler!NextFragment
      <2>2. Arriving(arriving[k])
            BY <1>1, <1>3, <2>1 DEF Single, BufferOK
      <2> DEFINE m == arriving[k].msg  i == arriving[k].part  n == arriving[k].parts
      <2>3. m \in Nat /\ i \in Nat /\ n \in Nat /\ i < n /\ Begun(buffer, m, i, n)
            BY <2>2 DEF Arriving
      <2>4. [arriving[k] EXCEPT !.part = @ + 1] = [msg |-> m, part |-> i + 1, parts |-> n]
            BY <2>2 DEF Arriving
      <2>5. PICK handled \in BOOLEAN :
              Handler!HandleMessage(k, [arriving[k] EXCEPT !.part = @ + 1], handled)
            BY <1>6 DEF Handler!NextFragment
      <2>6. Handler!HandleMessage(k, [msg |-> m, part |-> i + 1, parts |-> n], handled)
            BY <2>4, <2>5
      <2> HIDE DEF m, i, n
      <2> QED
          BY <1>1, <1>3, <2>3, <2>6, HandleMessageWhole
<1>7. Handler!FirstFragment(k) \/ Handler!NextFragment(k)
      BY DEF Receive
<1> QED
    BY <1>4, <1>5, <1>6, <1>7 DEF Single

\* Steps that leave the MessageHandler alone and keep what is said of the promise,
\* and close no connection.
LEMMA PromiseStep ==
  ASSUME IInv, UNCHANGED receiving,
         connects' \in 0 .. MaxConnects, wsi' \in [Calls -> Progress], connects <= connects',
         connects' <= 1 =>
           /\ PromiseOK'
           /\ \A k \in Calls :
                /\ wsi[k] = "open" => wsi'[k] = "open"
                /\ wsi'[k] = "open" => wsi[k] \in {"connecting", "open"}
                /\ wsi'[k] \in {"none", "connecting"} => wsi[k] \in {"none", "connecting"}
  PROVE  IInv'
<1>1. /\ messages' = messages /\ arriving' = arriving
      /\ buffer' = buffer /\ given' = given
      BY DEF receiving
<1>2. Typed'
      BY <1>1 DEF IInv, Typed
<1>3. ASSUME connects' <= 1 PROVE Single'
      <2>1. Single
            BY <1>3 DEF IInv, Typed
      <2>2. BufferOK'
            BY <1>1, <1>3, <2>1 DEF Single, PromiseOK, BufferOK, Arriving
      <2> QED
          BY <1>1, <1>3, <2>1, <2>2 DEF Single, Handler!WholeMessages
<1> QED
    BY <1>2, <1>3 DEF IInv

LEMMA ClosedInv ==
  ASSUME IInv, NEW k \in Calls, Closed(k)
  PROVE  IInv'
<1>1. /\ wsi[k] = "open" /\ wsi' = [wsi EXCEPT ![k] = "gone"]
      /\ arriving' = [arriving EXCEPT ![k] = None]
      /\ UNCHANGED <<connects, connection, promise, errors, messages, buffer, given>>
      BY DEF Closed
<1>2. Typed'
      BY <1>1 DEF IInv, Typed, Progress
<1>3. ASSUME connects <= 1 PROVE Single'
      <2>1. Typed /\ Single
            BY <1>3 DEF IInv
      <2>2. PromiseOK'
            BY <1>1, <2>1 DEF Single, PromiseOK, Typed
      <2>3. BufferOK'
            BY <1>1, <2>1 DEF Single, PromiseOK, BufferOK, Typed
      <2> QED
          BY <1>1, <2>1, <2>2, <2>3 DEF Single, Handler!WholeMessages
<1> QED
    BY <1>1, <1>2, <1>3 DEF IInv

LEMMA InvNext == IInv /\ [Next]_vars => IInv'
<1> SUFFICES ASSUME IInv, [Next]_vars PROVE IInv'
    OBVIOUS
<1>1. connects \in 0 .. MaxConnects /\ MaxConnects \in Nat /\ wsi \in [Calls -> Progress]
      BY WsClientAssumption DEF IInv, Typed
<1>2. connects <= 1 => PromiseOK
      BY DEF IInv, Single
<1>3. ASSUME Connect PROVE IInv'
      BY <1>1, <1>2, <1>3, PromiseStep DEF Connect, PromiseOK, GetFuture, Calls, Progress
<1>4. ASSUME ConnectFails PROVE IInv'
      BY <1>1, <1>2, <1>4, PromiseStep DEF ConnectFails, PromiseOK, GetFuture, Calls, Progress
<1>5. ASSUME Send PROVE IInv'
      <2>1. UNCHANGED <<connects, wsi, connection, promise, receiving>>
            BY <1>5 DEF Send
      <2>2. errors' \cap {"future_error", "stale"} = errors \cap {"future_error", "stale"}
            BY <1>5 DEF Send
      <2> QED
          BY <1>1, <1>2, <2>1, <2>2, PromiseStep DEF PromiseOK
<1>6. ASSUME NEW k \in Calls, Established(k) PROVE IInv'
      BY <1>1, <1>2, <1>6, PromiseStep DEF Established, Set, PromiseOK, Progress
<1>7. ASSUME NEW k \in Calls, ProxyError(k) PROVE IInv'
      BY <1>1, <1>2, <1>7, PromiseStep DEF ProxyError, TryToSetException, PromiseOK, Progress
<1>8. ASSUME NEW k \in Calls, ConnectionError(k) PROVE IInv'
      BY <1>1, <1>2, <1>8, PromiseStep DEF ConnectionError, TryToSetException, PromiseOK, Progress
<1>9. ASSUME NEW k \in Calls, Write(k) PROVE IInv'
      BY <1>1, <1>2, <1>9, PromiseStep DEF Write, PromiseOK
<1>10. ASSUME NEW k \in Calls, ReceiveStale(k) PROVE IInv'
      BY <1>1, <1>2, <1>10, PromiseStep DEF ReceiveStale, PromiseOK
<1>11. CASE UNCHANGED vars
      BY <1>1, <1>2, <1>11, PromiseStep DEF vars, sending, PromiseOK
<1> QED
    BY <1>3, <1>4, <1>5, <1>6, <1>7, <1>8, <1>9, <1>10, <1>11, ReceiveInv, ClosedInv DEF Next

LEMMA Invariant == Spec => []IInv
BY InvInit, InvNext, PTL DEF Spec

\* client.cpp:40: by a client that connects once, whoever sets the promise first,
\* nothing is thrown at those who come later, and each callback finds the
\* connection it is about, whatever the application sends.
THEOREM NothingIsThrown == Spec => []NothingThrown
<1>1. IInv => NothingThrown
      BY DEF IInv, Typed, Single, PromiseOK, NothingThrown
<1> QED
    BY <1>1, Invariant, PTL

\* messageHandler.cpp:41: a client that connects once is given messages as they
\* were sent, however they were cut, whenever the connection breaks.
THEOREM MessagesWhole == Spec => []WholeMessages
<1>1. IInv => WholeMessages
      BY DEF IInv, Single, WholeMessages
<1> QED
    BY <1>1, Invariant, PTL
===============================================================================
