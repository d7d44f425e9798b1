---------------------------- MODULE RpcSystemProofs ----------------------------
(***************************************************************************)
(* Proofs about RpcSystem, for any number of clients and calls: what a     *)
(* client hears of a call is about that call, while that call is not       *)
(* answered, and clients and server together implement RemoteCall.         *)
(***************************************************************************)
EXTENDS RpcSystem, TLAPS, FiniteSetTheorems

\* The server's table goes by id only: of the clients one has calls that can be
\* cancelled, or cancels any.
OneClientCancels ==
  \A c, d \in Cancellable \cup Cancelling : ClientOf[c] = ClientOf[d]

\* Ids of a client are counted.
IdsOK ==
  /\ \A c \in Calls : id[c] # None => id[c] < LastId(ClientOf[c])
  /\ \A c, d \in Calls :
       ClientOf[c] = ClientOf[d] /\ id[c] # None /\ id[c] = id[d] => c = d

\* What is on its way from client a.
UpMessage(m, a) ==
  /\ ClientOf[m.call] = a
  /\ id[m.call] = m.id
  /\ m.kind = "request" => executed[m.call] = 0
  /\ m.kind = "cancel" => m.call \in asked

RequestsOnce(s) ==
  \A i, j \in DOMAIN s :
    s[i].kind = "request" /\ s[j].kind = "request" /\ s[i].call = s[j].call => i = j

UpOK ==
  \A a \in Clients :
    /\ \A i \in DOMAIN up[a] : UpMessage(up[a][i], a)
    /\ RequestsOnce(up[a])

\* What is on its way to client a.
DownMessage(m, a) ==
  /\ id[m.call] = m.id
  /\ m.kind = "progress" => \/ ClientOf[m.call] = a
                            \/ m.call \in finished /\ Moved(m.call, a)
  /\ m.kind # "progress" => ClientOf[m.call] = a
  /\ m.kind \in {"answer", "abort", "progress"}
  /\ m.kind = "answer" => m.call \in finished
  /\ m.kind = "abort" => (OneClientCancels => m.call \in asked)

DownOK == \A a \in Clients : \A i \in DOMAIN down[a] : DownMessage(down[a][i], a)

\* How far a call has come.
CallsOK ==
  \A c \in Calls :
    /\ c \in pending => id[c] # None /\ result[c] = "none"
    /\ result[c] # "none" => id[c] # None
    /\ executed[c] \in {0, 1}
    /\ executed[c] = 1 => id[c] # None
    /\ c \in working => executed[c] = 1
    /\ c \in asked => c \in Cancelling /\ id[c] # None

\* Nobody has a connection where that of a method is which has not answered.
AddressesOK ==
  /\ \A a \in Clients : /\ link[a] = "none" => conn[a] = "none" /\ address[a] = None
                        /\ conn[a] # "none" => address[a] # None
  /\ \A a, b \in Clients : conn[a] = "open" /\ conn[b] = "open" /\ address[a] = address[b] =>
                           a = b
  /\ \A c \in working : \A a \in Clients \ {ClientOf[c]} :
       conn[a] = "open" => address[a] # address[ClientOf[c]]
  /\ \A c \in Calls : executed[c] = 1 => /\ conn[ClientOf[c]] # "none"
                                         /\ c \in working \cup finished

TableOK ==
  \A i \in Ids : table[i] # None => table[i] \in Cancellable /\ id[table[i]] = i

IInv ==
  /\ TypeOK
  /\ IdsOK
  /\ UpOK
  /\ DownOK
  /\ CallsOK
  /\ TableOK
  /\ AddressesOK
  /\ ProgressOwn

-----------------------------------------------------------------------------
(***************************************************************************)
(* Facts about ids and queues.                                             *)
(***************************************************************************)
Messages == [kind : Kinds, id : Ids, call : Calls]

LEMMA IdsAreNumbers ==
  /\ Ids \subseteq Nat
  /\ None \notin Ids /\ None \notin Calls
BY FS_CardinalityType, RpcAssumption DEF Ids

\* While a call has not been made there is an id for it.
LEMMA NextId ==
  ASSUME TypeOK, NEW c \in Calls, id[c] = None
  PROVE  /\ LastId(ClientOf[c]) \in Ids
         /\ \A d \in Calls \ {c} : LastId(ClientOf[d]) \in Nat
<1> DEFINE Made(a) == {d \in Calls : ClientOf[d] = a /\ id[d] # None}
<1>1. \A a : Made(a) \subseteq Calls
      OBVIOUS
<1>2. \A a : IsFiniteSet(Made(a)) /\ Cardinality(Made(a)) \in Nat
      BY <1>1, FS_Subset, FS_CardinalityType, RpcAssumption
<1>3. Cardinality(Calls) \in Nat
      BY FS_CardinalityType, RpcAssumption
<1>4. \A a : Made(a) # Calls
      OBVIOUS
<1>5. \A a : Cardinality(Made(a)) < Cardinality(Calls)
      <2> SUFFICES ASSUME NEW a PROVE Cardinality(Made(a)) < Cardinality(Calls)
          OBVIOUS
      <2>1. /\ Cardinality(Made(a)) <= Cardinality(Calls)
            /\ Cardinality(Calls) = Cardinality(Made(a)) => Calls = Made(a)
            BY <1>1, FS_Subset, RpcAssumption
      <2> QED
          BY <1>2, <1>3, <1>4, <2>1
<1>6. \A a : LastId(a) = Cardinality(Made(a))
      BY DEF LastId
<1> HIDE DEF Made
<1>7. \A a : LastId(a) \in Nat /\ LastId(a) < Cardinality(Calls)
      BY <1>2, <1>5, <1>6
<1> QED
    BY <1>3, <1>7 DEF Ids

\* Another call of the client, and there is another id.
LEMMA NextIdTaken ==
  ASSUME TypeOK, NEW c \in Calls, id[c] = None,
         NEW i \in Ids, id' = [id EXCEPT ![c] = i]
  PROVE  /\ LastId(ClientOf[c])' = LastId(ClientOf[c]) + 1
         /\ \A d \in Calls : ClientOf[d] # ClientOf[c] =>
              LastId(ClientOf[d])' = LastId(ClientOf[d])
<1> DEFINE a == ClientOf[c]
           Made(b) == {d \in Calls : ClientOf[d] = b /\ id[d] # None}
<1>1. id'[c] # None /\ \A d \in Calls \ {c} : id'[d] = id[d]
      BY IdsAreNumbers DEF TypeOK
<1>2. Made(a)' = Made(a) \cup {c}
      BY <1>1
<1>3. c \notin Made(a)
      OBVIOUS
<1>4. IsFiniteSet(Made(a))
      BY FS_Subset, RpcAssumption
<1>5. Cardinality(Made(a) \cup {c}) = Cardinality(Made(a)) + 1
      BY <1>3, <1>4, FS_AddElement
<1>6. ASSUME NEW d \in Calls, ClientOf[d] # a
      PROVE  Made(ClientOf[d])' = Made(ClientOf[d])
      BY <1>1, <1>6
<1> QED
    BY <1>2, <1>5, <1>6 DEF LastId

LEMMA MessageIs ==
  ASSUME NEW kind \in Kinds, NEW i \in Ids, NEW c \in Calls
  PROVE  \E m \in Messages : /\ m = Message(kind, i, c)
                             /\ m.kind = kind /\ m.id = i /\ m.call = c
<1> DEFINE m == [kind |-> kind, id |-> i, call |-> c]
<1>1. m \in Messages /\ m.kind = kind /\ m.id = i /\ m.call = c
      BY DEF Messages
<1> QED
    BY <1>1 DEF Message

\* What is sent is the last of what is on its way.
LEMMA Appended ==
  ASSUME NEW S, NEW s \in Seq(S), NEW m \in S
  PROVE  /\ Append(s, m) \in Seq(S)
         /\ DOMAIN Append(s, m) = DOMAIN s \cup {Len(s) + 1}
         /\ Len(s) + 1 \notin DOMAIN s
         /\ Append(s, m)[Len(s) + 1] = m
         /\ \A i \in DOMAIN s : Append(s, m)[i] = s[i] /\ s[i] \in S
OBVIOUS

\* What is received is the first of it.
LEMMA Received ==
  ASSUME NEW S, NEW s \in Seq(S), s # <<>>
  PROVE  /\ Tail(s) \in Seq(S)
         /\ 1 \in DOMAIN s /\ Head(s) = s[1] /\ Head(s) \in S
         /\ \A i \in DOMAIN Tail(s) : i + 1 \in DOMAIN s /\ i + 1 # 1 /\ Tail(s)[i] = s[i + 1]
         /\ \A i \in DOMAIN Tail(s) : i \in Nat
OBVIOUS

\* Nothing that holds of a message ends with the steps of others.
Kept ==
  /\ \A c \in Calls : id[c] # None => id'[c] = id[c]
  /\ finished \subseteq finished' /\ asked \subseteq asked'
  /\ \A c \in Calls, a \in Clients : Moved(c, a) => Moved(c, a)'

LEMMA StillMoved ==
  UNCHANGED <<conn, address>> => \A c \in Calls, a \in Clients : Moved(c, a) => Moved(c, a)'
BY DEF Moved

LEMMA ProgressKept ==
  ASSUME TypeOK, Kept, ProgressOwn, UNCHANGED heard
  PROVE  ProgressOwn'
BY RpcAssumption DEF Kept, ProgressOwn, TypeOK

LEMMA AddressesKept ==
  ASSUME IInv, Kept, UNCHANGED <<link, conn, address, executed, heard>>,
         working' \subseteq working, working \cup finished \subseteq working' \cup finished'
  PROVE  AddressesOK' /\ ProgressOwn'
<1>1. AddressesOK'
      BY DEF IInv, AddressesOK
<1> QED
    BY <1>1, ProgressKept DEF IInv

LEMMA QueueTypes ==
  ASSUME TypeOK, NEW a \in Clients
  PROVE  /\ up \in [Clients -> Seq(Messages)] /\ down \in [Clients -> Seq(Messages)]
         /\ up[a] \in Seq(Messages) /\ down[a] \in Seq(Messages)
         /\ \A i \in DOMAIN up[a] : up[a][i] \in Messages
         /\ \A i \in DOMAIN down[a] : down[a][i] \in Messages
<1>1. up \in [Clients -> Seq(Messages)] /\ down \in [Clients -> Seq(Messages)]
      BY DEF TypeOK, Messages
<1>2. up[a] \in Seq(Messages) /\ down[a] \in Seq(Messages)
      BY <1>1
<1> QED
    BY <1>1, <1>2

LEMMA DownMessageKept ==
  ASSUME Kept, NEW a \in Clients, NEW m \in Messages, DownMessage(m, a)
  PROVE  DownMessage(m, a)'
<1>1. id[m.call] # None /\ id'[m.call] = id[m.call]
      BY IdsAreNumbers DEF Kept, DownMessage, Messages
<1>2. m.call \in Calls
      BY DEF Messages
<1> QED
    BY <1>1, <1>2 DEF Kept, DownMessage

LEMMA UpMessageKept ==
  ASSUME Kept, NEW a \in Clients, NEW m \in Messages, UpMessage(m, a),
         m.kind = "request" => executed'[m.call] = executed[m.call]
  PROVE  UpMessage(m, a)'
<1>1. id[m.call] # None /\ id'[m.call] = id[m.call]
      BY IdsAreNumbers DEF Kept, UpMessage, Messages
<1> QED
    BY <1>1 DEF Kept, UpMessage

\* Messages on their way stay what they are, arrive, or are lost.
LEMMA DownKept ==
  ASSUME TypeOK, Kept, NEW a \in Clients,
         \A i \in DOMAIN down[a] : DownMessage(down[a][i], a),
         \/ down'[a] = down[a]
         \/ down'[a] = <<>>
         \/ down[a] # <<>> /\ down'[a] = Tail(down[a])
  PROVE  \A i \in DOMAIN down'[a] : DownMessage(down[a][i], a)'
<1>1. CASE down'[a] = down[a]
      <2>1. ASSUME NEW i \in DOMAIN down[a] PROVE DownMessage(down[a][i], a)'
            BY <1>1, QueueTypes, DownMessageKept
      <2> QED
          BY <1>1, <2>1
<1>2. CASE down'[a] = <<>>
      BY <1>2
<1>3. CASE down[a] # <<>> /\ down'[a] = Tail(down[a])
      BY <1>3, QueueTypes, Received, DownMessageKept
<1> QED
    BY <1>1, <1>2, <1>3

LEMMA UpKept ==
  ASSUME TypeOK, Kept, NEW a \in Clients,
         \A i \in DOMAIN up[a] : UpMessage(up[a][i], a),
         RequestsOnce(up[a]), executed' = executed,
         \/ up'[a] = up[a]
         \/ up'[a] = <<>>
         \/ up[a] # <<>> /\ up'[a] = Tail(up[a])
  PROVE  /\ \A i \in DOMAIN up'[a] : UpMessage(up[a][i], a)'
         /\ RequestsOnce(up'[a])
<1>1. CASE up'[a] = up[a]
      <2>1. ASSUME NEW i \in DOMAIN up[a] PROVE UpMessage(up[a][i], a)'
            BY <1>1, QueueTypes, UpMessageKept
      <2> QED
          BY <1>1, <2>1
<1>2. CASE up'[a] = <<>>
      BY <1>2 DEF RequestsOnce
<1>3. CASE up[a] # <<>> /\ up'[a] = Tail(up[a])
      <2>1. \A i \in DOMAIN up'[a] : /\ i \in Nat
                                     /\ i + 1 \in DOMAIN up[a] /\ up'[a][i] = up[a][i + 1]
            BY <1>3, QueueTypes, Received
      <2>2. \A i \in DOMAIN up'[a] : UpMessage(up[a][i], a)'
            BY <2>1, QueueTypes, UpMessageKept
      <2>3. RequestsOnce(up'[a])
            BY <2>1 DEF RequestsOnce
      <2> QED
          BY <2>2, <2>3
<1> QED
    BY <1>1, <1>2, <1>3

LEMMA QueuesKept ==
  ASSUME TypeOK, Kept, UpOK, DownOK, executed' = executed,
         \A a \in Clients : \/ up'[a] = up[a]
                            \/ up'[a] = <<>>
                            \/ up[a] # <<>> /\ up'[a] = Tail(up[a]),
         \A a \in Clients : \/ down'[a] = down[a]
                            \/ down'[a] = <<>>
                            \/ down[a] # <<>> /\ down'[a] = Tail(down[a])
  PROVE  UpOK' /\ DownOK'
<1>1. ASSUME NEW a \in Clients
      PROVE  /\ \A i \in DOMAIN up'[a] : UpMessage(up[a][i], a)'
             /\ RequestsOnce(up'[a])
      BY UpKept DEF UpOK
<1>2. ASSUME NEW a \in Clients
      PROVE  \A i \in DOMAIN down'[a] : DownMessage(down[a][i], a)'
      BY DownKept DEF DownOK
<1> QED
    BY <1>1, <1>2 DEF UpOK, DownOK

\* A message of which all holds that must is sent to one client or several.
LEMMA DownSent ==
  ASSUME TypeOK, Kept, DownOK, NEW m \in Messages, NEW A \in SUBSET Clients,
         down' = [a \in Clients |-> IF a \in A THEN Append(down[a], m) ELSE down[a]],
         \A a \in A : DownMessage(m, a)'
  PROVE  down' \in [Clients -> Seq(Messages)] /\ DownOK'
<1>1. ASSUME NEW a \in Clients
      PROVE  down'[a] \in Seq(Messages) /\ \A i \in DOMAIN down'[a] : DownMessage(down[a][i], a)'
      <2>1. CASE a \notin A
            <3>1. down'[a] = down[a]
                  BY <2>1
            <3> QED
                BY <3>1, QueueTypes, DownKept DEF DownOK
      <2>2. CASE a \in A
            <3>1. down'[a] = Append(down[a], m) /\ down[a] \in Seq(Messages)
                  BY <2>2, QueueTypes
            <3>2. down'[a] \in Seq(Messages)
                  BY <3>1, Appended
            <3>3. ASSUME NEW i \in DOMAIN down'[a] PROVE DownMessage(down[a][i], a)'
                  <4>1. CASE i \in DOMAIN down[a]
                        <5>1. down'[a][i] = down[a][i] /\ down[a][i] \in Messages
                              BY <3>1, <4>1, Appended
                        <5>2. DownMessage(down[a][i], a)
                              BY <4>1 DEF DownOK
                        <5>3. down[a][i] \in Messages /\ DownMessage(down[a][i], a)
                              BY <5>1, <5>2
                        <5> DEFINE n == down[a][i]
                        <5>4. ASSUME NEW k \in Messages, k = n PROVE DownMessage(k, a)'
                              BY <5>3, <5>4, DownMessageKept
                        <5> QED
                            BY <5>1, <5>4
                  <4>2. CASE i \notin DOMAIN down[a]
                        <5>1. down'[a][i] = m
                              BY <3>1, <3>3, <4>2, Appended
                        <5> QED
                            BY <2>2, <5>1
                  <4> QED
                      BY <4>1, <4>2
            <3> QED
                BY <3>2, <3>3
      <2> QED
          BY <2>1, <2>2
<1> QED
    BY <1>1 DEF DownOK

\* Client a sends: a request no other message of which is on its way.
LEMMA UpSent ==
  ASSUME TypeOK, Kept, UpOK, executed' = executed, NEW b \in Clients, NEW m \in Messages,
         up' = [up EXCEPT ![b] = Append(@, m)],
         UpMessage(m, b)',
         m.kind = "request" => \A i \in DOMAIN up[b] : up[b][i].call # m.call
  PROVE  up' \in [Clients -> Seq(Messages)] /\ UpOK'
<1>1. up \in [Clients -> Seq(Messages)]
      BY DEF TypeOK, Messages
<1>2. ASSUME NEW a \in Clients \ {b}
      PROVE  /\ up'[a] = up[a] /\ RequestsOnce(up'[a])
             /\ \A i \in DOMAIN up'[a] : UpMessage(up[a][i], a)'
      <2>1. up'[a] = up[a]
            BY <1>1
      <2> QED
          BY <2>1, UpKept DEF UpOK
<1>3. up'[b] = Append(up[b], m) /\ up[b] \in Seq(Messages)
      BY <1>1
<1>4. up' \in [Clients -> Seq(Messages)]
      BY <1>1, <1>3, Appended
<1>5. ASSUME NEW i \in DOMAIN up'[b] PROVE UpMessage(up[b][i], b)'
      <2>1. CASE i \in DOMAIN up[b]
            <3>1. up'[b][i] = up[b][i] /\ up[b][i] \in Messages
                  BY <1>3, <2>1, Appended
            <3>2. UpMessage(up[b][i], b)
                  BY <2>1 DEF UpOK
            <3>3. ASSUME NEW k \in Messages, k = up[b][i] PROVE UpMessage(k, b)'
                  BY <3>1, <3>2, <3>3, UpMessageKept
            <3> QED
                BY <3>1, <3>3
      <2>2. CASE i \notin DOMAIN up[b]
            <3>1. up'[b][i] = m
                  BY <1>3, <1>5, <2>2, Appended
            <3> QED
                BY <3>1
      <2> QED
          BY <2>1, <2>2
<1>6. RequestsOnce(up'[b])
      <2>1. /\ DOMAIN up'[b] = DOMAIN up[b] \cup {Len(up[b]) + 1}
            /\ up'[b][Len(up[b]) + 1] = m
            /\ \A i \in DOMAIN up[b] : up'[b][i] = up[b][i]
            BY <1>3, Appended
      <2>2. RequestsOnce(up[b])
            BY DEF UpOK
      <2> QED
          BY <2>1, <2>2 DEF RequestsOnce
<1> QED
    BY <1>2, <1>4, <1>5, <1>6 DEF UpOK

LEMMA IdsKept == IdsOK /\ id' = id => IdsOK'
BY DEF IdsOK, LastId

-----------------------------------------------------------------------------
(***************************************************************************)
(* Connections and clients.                                                *)
(***************************************************************************)
LEMMA InvInit == Init => IInv
<1> SUFFICES ASSUME Init PROVE IInv
    OBVIOUS
<1>1. TypeOK
      BY DEF Init, TypeOK
<1>2. IdsOK
      BY DEF Init, IdsOK
<1>3. UpOK /\ DownOK
      BY DEF Init, UpOK, DownOK, RequestsOnce
<1>4. CallsOK /\ TableOK /\ AddressesOK /\ ProgressOwn
      BY DEF Init, CallsOK, TableOK, AddressesOK, ProgressOwn
<1> QED
    BY <1>1, <1>2, <1>3, <1>4 DEF IInv

LEMMA ConnectInv ==
  ASSUME IInv, NEW a \in Clients, Connect(a)
  PROVE  AddressesOK' /\ \A c \in Calls, b \in Clients : Moved(c, b) => Moved(c, b)'
<1>1. /\ TypeOK /\ AddressesOK /\ link[a] = "none"
      /\ link' = [link EXCEPT ![a] = "open"] /\ conn' = [conn EXCEPT ![a] = "open"]
      /\ UNCHANGED <<working, executed, finished>>
      BY DEF IInv, Connect, serverVars
<1>2. PICK p \in Addresses : ~Taken(p) /\ address' = [address EXCEPT ![a] = p]
      BY DEF Connect
<1>3. /\ p # None /\ conn[a] = "none" /\ address[a] = None
      /\ address'[a] = p /\ conn'[a] = "open" /\ link'[a] = "open"
      /\ \A b \in Clients \ {a} : /\ address'[b] = address[b] /\ conn'[b] = conn[b]
                                  /\ link'[b] = link[b]
      BY <1>1, <1>2, RpcAssumption DEF AddressesOK, TypeOK
<1>4. \A b \in Clients : address[b] = p => conn[b] # "open"
      BY <1>2 DEF Taken
<1>5. \A c \in working : address[ClientOf[c]] # p
      BY <1>1, <1>2, RpcAssumption DEF Taken, Responding, TypeOK
<1>6. \A c \in Calls : ClientOf[c] \in Clients
      BY RpcAssumption
<1>7. \A c \in working : c \in Calls /\ executed[c] = 1
      BY <1>1 DEF IInv, CallsOK, TypeOK
<1>8. \A c \in working : ClientOf[c] # a
      BY <1>1, <1>3, <1>7 DEF AddressesOK
<1>9. AddressesOK'
      <2>1. \A b \in Clients : /\ link'[b] = "none" => conn'[b] = "none" /\ address'[b] = None
                               /\ conn'[b] # "none" => address'[b] # None
            BY <1>1, <1>3 DEF AddressesOK
      <2>2. \A b, d \in Clients :
              conn'[b] = "open" /\ conn'[d] = "open" /\ address'[b] = address'[d] => b = d
            BY <1>1, <1>3, <1>4 DEF AddressesOK
      <2>3. \A c \in working : \A b \in Clients \ {ClientOf[c]} :
              conn'[b] = "open" => address'[b] # address'[ClientOf[c]]
            BY <1>1, <1>3, <1>5, <1>6, <1>7, <1>8 DEF AddressesOK
      <2>4. \A c \in Calls : executed[c] = 1 => conn'[ClientOf[c]] # "none"
            BY <1>1, <1>3, <1>6 DEF AddressesOK
      <2> QED
          BY <1>1, <2>1, <2>2, <2>3, <2>4 DEF AddressesOK
<1>10. ASSUME NEW c \in Calls, NEW b \in Clients, Moved(c, b) PROVE Moved(c, b)'
      <2>1. /\ ClientOf[c] \in Clients /\ conn[ClientOf[c]] = "closed"
            /\ address[b] = address[ClientOf[c]]
            BY <1>6, <1>10 DEF Moved
      <2>2. ClientOf[c] # a /\ address[ClientOf[c]] # None
            BY <1>1, <1>3, <2>1 DEF AddressesOK
      <2>3. b # a
            BY <1>3, <2>1, <2>2
      <2> QED
          BY <1>3, <2>1, <2>2, <2>3 DEF Moved
<1> QED
    BY <1>9, <1>10

LEMMA CloseInv ==
  ASSUME IInv, NEW a \in Clients, ClientCloses(a) \/ ServerCloses(a)
  PROVE  AddressesOK' /\ \A c \in Calls, b \in Clients : Moved(c, b) => Moved(c, b)'
<1>1. /\ TypeOK /\ AddressesOK
      /\ UNCHANGED <<address, working, executed, finished>>
      BY DEF IInv, ClientCloses, ServerCloses, serverVars
<1>2. \A b \in Clients :
        /\ link'[b] = link[b] \/ (link[b] = "open" /\ link'[b] = "closed")
        /\ conn'[b] = conn[b] \/ (conn[b] = "open" /\ conn'[b] = "closed")
      <2>1. CASE ClientCloses(a)
            <3>1. link[a] = "open" /\ link' = [link EXCEPT ![a] = "closed"] /\ conn' = conn
                  BY <2>1 DEF ClientCloses
            <3>2. \A b \in Clients : link'[b] = IF b = a THEN "closed" ELSE link[b]
                  BY <1>1, <3>1 DEF TypeOK
            <3> QED
                BY <3>1, <3>2
      <2>2. CASE ServerCloses(a)
            <3>1. conn[a] = "open" /\ conn' = [conn EXCEPT ![a] = "closed"] /\ link' = link
                  BY <2>2 DEF ServerCloses
            <3>2. \A b \in Clients : conn'[b] = IF b = a THEN "closed" ELSE conn[b]
                  BY <1>1, <3>1 DEF TypeOK
            <3> QED
                BY <3>1, <3>2
      <2> QED
          BY <2>1, <2>2
<1>3. \A c \in Calls : ClientOf[c] \in Clients
      BY RpcAssumption
<1> QED
    BY <1>1, <1>2, <1>3 DEF AddressesOK, Moved

LEMMA ConnectionInv ==
  ASSUME IInv, NEW a \in Clients, Connect(a) \/ ClientCloses(a) \/ ServerCloses(a)
  PROVE  IInv'
<1>1. /\ UNCHANGED <<clientVars, serverVars>>
      /\ \A b \in Clients : up'[b] = up[b] \/ up'[b] = <<>>
      /\ \A b \in Clients : down'[b] = down[b] \/ down'[b] = <<>>
      BY DEF Connect, ClientCloses, ServerCloses, IInv, TypeOK
<1>2. TypeOK'
      <2>1. /\ link' \in [Clients -> {"none", "open", "closed"}]
            /\ conn' \in [Clients -> {"none", "open", "closed"}]
            /\ address' \in [Clients -> Addresses \cup {None}]
            <3>1. CASE Connect(a)
                  BY <3>1 DEF Connect, IInv, TypeOK
            <3>2. CASE ClientCloses(a) \/ ServerCloses(a)
                  BY <3>2 DEF ClientCloses, ServerCloses, IInv, TypeOK
            <3> QED
                BY <3>1, <3>2
      <2>2. /\ up \in [Clients -> Seq(Messages)] /\ down \in [Clients -> Seq(Messages)]
            /\ <<>> \in Seq(Messages)
            BY QueueTypes DEF IInv
      <2>3. up' \in [Clients -> Seq(Messages)] /\ down' \in [Clients -> Seq(Messages)]
            BY <2>2 DEF Connect, ClientCloses, ServerCloses
      <2> QED
          BY <1>1, <2>1, <2>3 DEF clientVars, serverVars, IInv, TypeOK, Messages
<1>3. AddressesOK' /\ \A c \in Calls, b \in Clients : Moved(c, b) => Moved(c, b)'
      BY ConnectInv, CloseInv
<1>4. Kept /\ executed' = executed
      BY <1>1, <1>3 DEF Kept, clientVars, serverVars
<1>5. UpOK' /\ DownOK'
      BY <1>1, <1>4, QueuesKept DEF IInv
<1>6. IdsOK' /\ CallsOK' /\ TableOK'
      BY <1>1, IdsKept DEF IInv, CallsOK, TableOK, clientVars, serverVars
<1>7. ProgressOwn'
      BY <1>1, <1>4, ProgressKept DEF IInv, clientVars
<1> QED
    BY <1>2, <1>3, <1>5, <1>6, <1>7 DEF IInv

LEMMA RequestInv ==
  ASSUME IInv, NEW c \in Calls, Request(c)
  PROVE  IInv'
<1> DEFINE a == ClientOf[c]
<1>0. /\ TypeOK /\ IdsOK /\ UpOK /\ DownOK /\ CallsOK /\ TableOK /\ AddressesOK /\ id[c] = None
      /\ a \in Clients
      BY RpcAssumption DEF IInv, Request
<1>2. PICK i \in Ids : i = LastId(a) /\ i # None
      BY <1>0, NextId, IdsAreNumbers
<1>3. PICK m \in Messages : /\ m = Message("request", i, c)
                            /\ m.kind = "request" /\ m.id = i /\ m.call = c
      BY <1>2, MessageIs DEF Kinds
<1>1. /\ id' = [id EXCEPT ![c] = i] /\ pending' = pending \cup {c}
      /\ up' = [up EXCEPT ![a] = Append(@, m)]
      /\ UNCHANGED <<serverVars, alive, link, conn, address, asked, down, heard, result>>
      BY <1>2, <1>3 DEF Request
<1>4. /\ id' \in [Calls -> Ids \cup {None}] /\ id'[c] = i
      /\ \A d \in Calls \ {c} : id'[d] = id[d]
      BY <1>0, <1>1 DEF TypeOK
<1>5. Kept /\ executed' = executed
      BY <1>0, <1>1, <1>4, StillMoved DEF Kept, serverVars
<1>6. DownOK'
      BY <1>0, <1>1, <1>5, DownKept DEF DownOK
<1>7. up' \in [Clients -> Seq(Messages)] /\ UpOK'
      <2>1. executed[c] = 0
            BY <1>0, <1>1 DEF CallsOK
      <2>2. UpMessage(m, a)'
            BY <1>1, <1>3, <1>4, <1>5, <2>1 DEF UpMessage
      <2>3. \A j \in DOMAIN up[a] : up[a][j].call # c
            BY <1>0, QueueTypes, IdsAreNumbers DEF UpOK, UpMessage, Messages
      <2> QED
          BY <1>0, <1>1, <1>3, <1>5, <2>2, <2>3, UpSent
<1>8. TypeOK'
      <2>1. {up', down'} \subseteq [Clients -> Seq([kind : Kinds, id : Ids, call : Calls])]
            BY <1>0, <1>1, <1>7 DEF TypeOK, Messages
      <2>2. pending' \cup asked \cup working \cup finished \cup dropped \cup reported \subseteq Calls
            BY <1>0, <1>1 DEF TypeOK
      <2> QED
          BY <1>0, <1>1, <1>4, <2>1, <2>2 DEF TypeOK, serverVars
<1>9. IdsOK'
      <2>1. /\ LastId(a)' = i + 1 /\ i \in Nat
            /\ \A d \in Calls : ClientOf[d] # a => LastId(ClientOf[d])' = LastId(ClientOf[d])
            BY <1>0, <1>1, <1>2, NextIdTaken, IdsAreNumbers
      <2>2. \A d \in Calls : id[d] # None => id[d] \in Nat
            BY <1>0, IdsAreNumbers DEF TypeOK
      <2>3. \A d \in Calls : id[d] # None /\ ClientOf[d] = a => id[d] < i
            BY <1>0, <1>2 DEF IdsOK
      <2>4. \A d \in Calls : id'[d] # None => id'[d] < LastId(ClientOf[d])'
            <3> TAKE d \in Calls
            <3>1. CASE d = c
                  BY <1>4, <2>1, <3>1
            <3>2. CASE d # c /\ ClientOf[d] = a
                  BY <1>4, <2>1, <2>2, <2>3, <3>2
            <3>3. CASE ClientOf[d] # a
                  BY <1>0, <1>4, <2>1, <3>3 DEF IdsOK
            <3> QED
                BY <3>1, <3>2, <3>3
      <2>5. \A d, e \in Calls :
              ClientOf[d] = ClientOf[e] /\ id'[d] # None /\ id'[d] = id'[e] => d = e
            <3>1. ASSUME NEW d \in Calls \ {c}, ClientOf[d] = a PROVE id'[d] # i
                  <4>1. id'[d] = id[d] /\ (id[d] # None => id[d] \in Nat /\ id[d] < i)
                        BY <1>4, <2>2, <2>3, <3>1
                  <4> QED
                      BY <1>2, <2>1, <4>1
            <3> QED
                BY <1>0, <1>4, <3>1 DEF IdsOK
      <2> QED
          BY <2>4, <2>5 DEF IdsOK
<1>10. CallsOK'
      <2>1. result[c] = "none"
            BY <1>0 DEF CallsOK
      <2> QED
          BY <1>0, <1>1, <1>2, <1>4, <2>1 DEF CallsOK, serverVars
<1>11. TableOK'
      <2>1. ASSUME NEW j \in Ids, table[j] # None
            PROVE  table[j] \in Cancellable /\ id'[table[j]] = j
            BY <1>0, <1>4, <2>1, IdsAreNumbers, RpcAssumption DEF TableOK
      <2> QED
          BY <1>1, <2>1 DEF TableOK, serverVars
<1>12. AddressesOK' /\ ProgressOwn'
      BY <1>1, <1>5, AddressesKept DEF serverVars
<1> QED
    BY <1>6, <1>7, <1>8, <1>9, <1>10, <1>11, <1>12 DEF IInv

LEMMA CancelInv ==
  ASSUME IInv, NEW c \in Calls, Cancel(c)
  PROVE  IInv'
<1> DEFINE a == ClientOf[c]
<1>1. /\ TypeOK /\ IdsOK /\ UpOK /\ DownOK /\ CallsOK /\ TableOK /\ AddressesOK /\ a \in Clients
      /\ id[c] \in Ids /\ c \in Cancelling
      BY RpcAssumption DEF IInv, Cancel, TypeOK
<1>2. PICK m \in Messages : /\ m = Message("cancel", id[c], c)
                            /\ m.kind = "cancel" /\ m.id = id[c] /\ m.call = c
      BY <1>1, MessageIs DEF Kinds
<1>3. /\ asked' = asked \cup {c}
      /\ up' = [up EXCEPT ![a] = Append(@, m)]
      /\ UNCHANGED <<serverVars, alive, link, conn, address, id, pending, down, heard, result>>
      BY <1>2 DEF Cancel
<1>4. Kept /\ executed' = executed
      BY <1>3, StillMoved DEF Kept, serverVars
<1>5. UpMessage(m, a)'
      BY <1>2, <1>3 DEF UpMessage
<1>6. up' \in [Clients -> Seq(Messages)] /\ UpOK'
      BY <1>1, <1>2, <1>3, <1>4, <1>5, UpSent
<1>7. DownOK'
      BY <1>1, <1>3, <1>4, DownKept DEF DownOK
<1>8. TypeOK'
      <2>1. {up', down'} \subseteq [Clients -> Seq([kind : Kinds, id : Ids, call : Calls])]
            BY <1>1, <1>3, <1>6 DEF TypeOK, Messages
      <2>2. pending \cup asked' \cup working \cup finished \cup dropped \cup reported \subseteq Calls
            BY <1>1, <1>3 DEF TypeOK
      <2> QED
          BY <1>1, <1>3, <2>1, <2>2 DEF TypeOK, serverVars
<1>9. IdsOK' /\ CallsOK' /\ TableOK'
      BY <1>1, <1>3, IdsKept, IdsAreNumbers DEF CallsOK, TableOK, serverVars
<1>10. AddressesOK' /\ ProgressOwn'
      BY <1>3, <1>4, AddressesKept DEF serverVars
<1> QED
    BY <1>6, <1>7, <1>8, <1>9, <1>10 DEF IInv

\* Of the calls of a client a message has the id of at most one.
LEMMA NamedOnce ==
  ASSUME IdsOK, NEW a \in Clients, NEW m \in Messages, id[m.call] = m.id
  PROVE  \A c \in Calls : ClientOf[m.call] = a /\ ClientOf[c] = a /\ id[c] = m.id => c = m.call
BY IdsAreNumbers DEF IdsOK, Messages

LEMMA DeliverInv ==
  ASSUME IInv, NEW a \in Clients, Deliver(a)
  PROVE  IInv'
<1>1. /\ TypeOK /\ IdsOK /\ UpOK /\ DownOK /\ CallsOK /\ TableOK /\ AddressesOK
      /\ down[a] # <<>> /\ down' = [down EXCEPT ![a] = Tail(@)]
      /\ UNCHANGED <<serverVars, alive, link, conn, address, id, asked, up>>
      BY DEF IInv, Deliver
<1>2. PICK m \in Messages : m = Head(down[a]) /\ DownMessage(m, a)
      BY <1>1, QueueTypes, Received DEF DownOK
<1> DEFINE Named == {c \in Calls : ClientOf[c] = a /\ id[c] = m.id}
           Found == Named \cap pending
<1>3. \/ /\ m.kind = "progress"
         /\ heard' = [c \in Calls |-> IF c \in Named THEN heard[c] \cup {m.call} ELSE heard[c]]
         /\ UNCHANGED <<pending, result>>
      \/ /\ m.kind \in {"answer", "abort"}
         /\ result' = [c \in Calls |-> IF c \in Found THEN m.kind ELSE result[c]]
         /\ pending' = pending \ Found
         /\ UNCHANGED heard
      \/ UNCHANGED <<pending, result, heard>>
      BY <1>2 DEF Deliver, DownMessage
<1>4. Kept /\ executed' = executed
      BY <1>1, StillMoved DEF Kept, serverVars
<1>5. UpOK' /\ DownOK'
      <2>1. \A b \in Clients : \/ down'[b] = down[b]
                               \/ down[b] # <<>> /\ down'[b] = Tail(down[b])
            BY <1>1, QueueTypes
      <2> QED
          BY <1>1, <1>4, <2>1, QueuesKept
<1>6. TypeOK'
      <2>1. down' \in [Clients -> Seq(Messages)]
            <3>1. down \in [Clients -> Seq(Messages)] /\ Tail(down[a]) \in Seq(Messages)
                  BY <1>1, QueueTypes, Received
            <3> QED
                BY <1>1, <3>1
      <2>2. /\ heard' \in [Calls -> SUBSET Calls]
            /\ result' \in [Calls -> {"none", "answer", "abort", "destroyed"}]
            /\ pending' \subseteq Calls
            <3>1. m.call \in Calls
                  BY DEF Messages
            <3>2. heard' \in [Calls -> SUBSET Calls]
                  <4>1. heard \in [Calls -> SUBSET Calls]
                        BY <1>1 DEF TypeOK
                  <4> QED
                      BY <1>3, <3>1, <4>1
            <3>3. result' \in [Calls -> {"none", "answer", "abort", "destroyed"}]
                  <4>1. result \in [Calls -> {"none", "answer", "abort", "destroyed"}]
                        BY <1>1 DEF TypeOK
                  <4> QED
                      BY <1>3, <4>1
            <3>4. pending' \subseteq Calls
                  BY <1>1, <1>3 DEF TypeOK
            <3> QED
                BY <3>2, <3>3, <3>4
      <2> QED
          BY <1>1, <2>1, <2>2 DEF TypeOK, serverVars, Messages
<1>7. IdsOK' /\ TableOK'
      BY <1>1, IdsKept DEF TableOK, serverVars
<1>8. CallsOK'
      <2>1. \A c \in Found : id[c] # None
            BY <1>1 DEF CallsOK
      <2>2. \A c \in pending' : c \in pending /\ result'[c] = result[c]
            BY <1>1, <1>3 DEF TypeOK
      <2>3. \A c \in Calls : result'[c] # "none" => c \in Found \/ result[c] # "none"
            BY <1>1, <1>3 DEF TypeOK
      <2> QED
          BY <1>1, <2>1, <2>2, <2>3 DEF CallsOK, serverVars
<1>9. AddressesOK'
      BY <1>1 DEF AddressesOK, serverVars
<1>10. ProgressOwn'
      <2>1. CASE UNCHANGED heard
            BY <1>1, <1>4, <2>1, ProgressKept DEF IInv
      <2>2. CASE heard # heard'
            <3>0. m.kind = "progress"
                  BY <1>3, <2>2
            <3>1. /\ m.call \in Calls
                  /\ heard' = [c \in Calls |-> IF c \in Named THEN heard[c] \cup {m.call}
                                                             ELSE heard[c]]
                  BY <1>3, <2>2 DEF Messages
            <3>2. \A c \in Named : c = m.call \/ (m.call \in finished /\ Moved(m.call, a))
                  <4>1. /\ id[m.call] = m.id
                        /\ \/ ClientOf[m.call] = a
                           \/ m.call \in finished /\ Moved(m.call, a)
                        BY <1>2, <3>0 DEF DownMessage
                  <4>2. ClientOf[m.call] = a => \A c \in Named : c = m.call
                        BY <1>1, <4>1, NamedOnce
                  <4> QED
                      BY <4>1, <4>2
            <3>3. UNCHANGED <<finished, conn, address>> /\ ProgressOwn
                  BY <1>1 DEF IInv, serverVars
            <3> QED
                BY <3>1, <3>2, <3>3 DEF ProgressOwn, Moved
      <2> QED
          BY <2>1, <2>2
<1> QED
    BY <1>5, <1>6, <1>7, <1>8, <1>9, <1>10 DEF IInv

LEMMA DestroyInv ==
  ASSUME IInv, NEW a \in Clients, Destroy(a)
  PROVE  IInv'
<1> DEFINE mine == {c \in pending : ClientOf[c] = a}
<1>1. /\ TypeOK /\ IdsOK /\ UpOK /\ DownOK /\ CallsOK /\ TableOK /\ AddressesOK
      /\ alive' = alive \ {a} /\ pending' = pending \ mine
      /\ result' = [c \in Calls |-> IF c \in mine THEN "destroyed" ELSE result[c]]
      /\ UNCHANGED <<serverVars, link, conn, address, id, asked, up, down, heard>>
      BY DEF IInv, Destroy
<1>2. Kept /\ executed' = executed
      BY <1>1, StillMoved DEF Kept, serverVars
<1>3. UpOK' /\ DownOK'
      BY <1>1, <1>2, QueuesKept
<1>4. TypeOK'
      BY <1>1 DEF TypeOK, serverVars
<1>5. IdsOK' /\ TableOK' /\ AddressesOK' /\ ProgressOwn'
      BY <1>1, <1>2, IdsKept, AddressesKept DEF TableOK, serverVars
<1>6. CallsOK'
      BY <1>1 DEF CallsOK, serverVars
<1> QED
    BY <1>3, <1>4, <1>5, <1>6 DEF IInv

-----------------------------------------------------------------------------
(***************************************************************************)
(* The server.                                                             *)
(***************************************************************************)

\* respond() of a call that was made, with what may be sent of it.
LEMMA RespondInv ==
  ASSUME TypeOK, Kept, DownOK, NEW c \in Calls, NEW kind \in {"answer", "abort"},
         UNCHANGED id, id[c] # None, Respond(c, kind),
         kind = "answer" => c \in finished',
         kind = "abort" => (OneClientCancels => c \in asked')
  PROVE  down' \in [Clients -> Seq(Messages)] /\ DownOK'
<1> DEFINE a == ClientOf[c]
<1>1. id[c] \in Ids /\ a \in Clients /\ down \in [Clients -> Seq(Messages)]
      BY RpcAssumption, QueueTypes DEF TypeOK
<1>2. PICK m \in Messages : /\ m = Message(kind, id[c], c)
                            /\ m.kind = kind /\ m.id = id[c] /\ m.call = c
      BY <1>1, MessageIs DEF Kinds
<1>3. DownMessage(m, a)'
      BY <1>2 DEF DownMessage
<1>4. CASE conn[a] = "open" /\ link[a] = "open"
      <2>1. down' = [down EXCEPT ![a] = Append(@, m)]
            BY <1>2, <1>4 DEF Respond
      <2>2. down' = [b \in Clients |-> IF b \in {a} THEN Append(down[b], m) ELSE down[b]]
            BY <1>1, <2>1
      <2>3. {a} \in SUBSET Clients /\ \A b \in {a} : DownMessage(m, b)'
            BY <1>1, <1>3
      <2> QED
          BY <2>2, <2>3, DownSent
<1>5. CASE ~(conn[a] = "open" /\ link[a] = "open")
      <2>1. down' = down
            BY <1>5 DEF Respond
      <2> QED
          BY <1>1, <2>1, DownKept DEF DownOK
<1> QED
    BY <1>4, <1>5

\* The first message from a client is taken off the queue.
LEMMA UpReceived ==
  ASSUME TypeOK, NEW a \in Clients, up[a] # <<>>, up' = [up EXCEPT ![a] = Tail(@)]
  PROVE  /\ up' \in [Clients -> Seq(Messages)]
         /\ \A b \in Clients : \/ up'[b] = up[b]
                               \/ up[b] # <<>> /\ up'[b] = Tail(up[b])
<1>1. up \in [Clients -> Seq(Messages)] /\ Tail(up[a]) \in Seq(Messages)
      BY QueueTypes, Received
<1> QED
    BY <1>1

LEMMA ReceiveRequestInv ==
  ASSUME IInv, NEW a \in Clients, ReceiveRequest(a)
  PROVE  IInv'
<1>1. /\ TypeOK /\ IdsOK /\ UpOK /\ DownOK /\ CallsOK /\ TableOK /\ AddressesOK
      /\ up[a] # <<>> /\ up' = [up EXCEPT ![a] = Tail(@)]
      /\ UNCHANGED <<clientVars, link, conn, address, down, finished, dropped, reported>>
      BY DEF IInv, ReceiveRequest
<1>2. PICK m \in Messages : m = Head(up[a]) /\ m = up[a][1] /\ 1 \in DOMAIN up[a]
      BY <1>1, QueueTypes, Received
<1> DEFINE c == m.call
<1>3. /\ m.kind = "request" /\ c \in Calls /\ m.id \in Ids
      /\ id[c] = m.id /\ ClientOf[c] = a /\ executed[c] = 0
      BY <1>1, <1>2 DEF ReceiveRequest, UpOK, UpMessage, Messages
<1>4. /\ executed' = [executed EXCEPT ![c] = @ + 1]
      /\ working' = working \cup {c}
      /\ table' = IF c \in Cancellable THEN [table EXCEPT ![m.id] = c] ELSE table
      BY <1>2 DEF ReceiveRequest, Register
<1>5. /\ executed' \in [Calls -> Nat] /\ executed'[c] = 1
      /\ \A d \in Calls \ {c} : executed'[d] = executed[d]
      BY <1>1, <1>3, <1>4 DEF TypeOK
<1>6. Kept
      BY <1>1, StillMoved DEF Kept, clientVars
<1>7. DownOK'
      BY <1>1, <1>6, DownKept DEF DownOK
<1>8. UpOK'
      <2>1. ASSUME NEW b \in Clients, NEW i \in DOMAIN up[b]
            PROVE  UpMessage(up[b][i], b) /\ up[b][i] \in Messages
            BY <1>1, QueueTypes DEF UpOK
      <2>2. ASSUME NEW b \in Clients \ {a}
            PROVE  /\ \A i \in DOMAIN up'[b] : UpMessage(up[b][i], b)'
                   /\ RequestsOnce(up'[b])
            <3>1. up'[b] = up[b] /\ RequestsOnce(up[b])
                  BY <1>1, QueueTypes DEF UpOK
            <3>2. ASSUME NEW i \in DOMAIN up[b] PROVE UpMessage(up[b][i], b)'
                  <4>1. PICK n \in Messages : n = up[b][i] /\ UpMessage(n, b)
                        BY <2>1
                  <4>2. n.call # c /\ n.call \in Calls
                        BY <1>3, <4>1 DEF UpMessage, Messages
                  <4>3. UpMessage(n, b)'
                        BY <1>5, <1>6, <4>1, <4>2, UpMessageKept
                  <4> QED
                      BY <3>1, <4>1, <4>3
            <3> QED
                BY <3>1, <3>2
      <2>3. \A i \in DOMAIN up'[a] : /\ i \in Nat /\ i + 1 \in DOMAIN up[a] /\ i + 1 # 1
                                     /\ up'[a][i] = up[a][i + 1]
            BY <1>1, QueueTypes, Received
      <2>4. RequestsOnce(up[a])
            BY <1>1 DEF UpOK
      <2>5. RequestsOnce(up'[a])
            BY <2>3, <2>4 DEF RequestsOnce
      <2>6. ASSUME NEW i \in DOMAIN up'[a] PROVE UpMessage(up[a][i], a)'
            <3>1. PICK n \in Messages : n = up[a][i + 1] /\ UpMessage(n, a)
                  BY <1>1, <2>3, QueueTypes DEF UpOK
            <3>2. n.kind = "request" => n.call # c /\ n.call \in Calls
                  BY <1>2, <1>3, <2>3, <2>4, <3>1 DEF RequestsOnce, Messages
            <3>3. UpMessage(n, a)'
                  BY <1>5, <1>6, <3>1, <3>2, UpMessageKept
            <3> QED
                BY <2>3, <3>1, <3>3
      <2> QED
          BY <2>2, <2>5, <2>6 DEF UpOK
<1>9. TypeOK'
      <2>1. up' \in [Clients -> Seq(Messages)]
            BY <1>1, UpReceived
      <2>2. table' \in [Ids -> Calls \cup {None}]
            BY <1>1, <1>3, <1>4 DEF TypeOK
      <2>3. pending \cup asked \cup working' \cup finished \cup dropped \cup reported \subseteq Calls
            BY <1>1, <1>3, <1>4 DEF TypeOK
      <2>4. {up', down} \subseteq [Clients -> Seq(Messages)]
            BY <1>1, <2>1, QueueTypes
      <2> QED
          BY <1>1, <1>5, <2>2, <2>3, <2>4 DEF TypeOK, clientVars, Messages
<1>10. IdsOK' /\ ProgressOwn'
      BY <1>1, <1>6, IdsKept, ProgressKept DEF IInv, clientVars
<1>11. CallsOK'
      BY <1>1, <1>3, <1>4, <1>5, IdsAreNumbers DEF CallsOK, clientVars
<1>12. TableOK'
      BY <1>1, <1>3, <1>4 DEF TableOK, clientVars, TypeOK
<1>13. AddressesOK'
      <2>1. conn[a] = "open" /\ \A d \in Calls : ClientOf[d] \in Clients
            BY RpcAssumption DEF ReceiveRequest
      <2>2. \A d \in working : d \in Calls
            BY <1>1 DEF TypeOK
      <2> QED
          BY <1>1, <1>3, <1>4, <1>5, <2>1, <2>2 DEF AddressesOK
<1> QED
    BY <1>7, <1>8, <1>9, <1>10, <1>11, <1>12, <1>13 DEF IInv

\* A cancel that has come was asked for, and it names the entry by its id.
LEMMA ReceiveCancelInv ==
  ASSUME IInv, NEW a \in Clients, ReceiveCancel(a)
  PROVE  IInv'
<1>1. /\ TypeOK /\ IdsOK /\ UpOK /\ DownOK /\ CallsOK /\ TableOK /\ AddressesOK
      /\ up[a] # <<>> /\ up' = [up EXCEPT ![a] = Tail(@)]
      /\ UNCHANGED <<clientVars, link, conn, address, working, executed, finished,
                   dropped, reported>>
      BY DEF IInv, ReceiveCancel
<1>2. PICK m \in Messages : m = Head(up[a]) /\ m = up[a][1] /\ 1 \in DOMAIN up[a]
      BY <1>1, QueueTypes, Received
<1>3. /\ m.kind = "cancel" /\ m.call \in Calls /\ m.id \in Ids
      /\ id[m.call] = m.id /\ ClientOf[m.call] = a /\ m.call \in asked
      BY <1>1, <1>2 DEF ReceiveCancel, UpOK, UpMessage, Messages
<1>4. PICK c : c = table[m.id]
      OBVIOUS
<1>5. /\ table' = [table EXCEPT ![m.id] = None]
      /\ c # None => Respond(c, "abort")
      /\ c = None => UNCHANGED down
      BY <1>2, <1>4 DEF ReceiveCancel
<1>6. Kept
      BY <1>1, StillMoved DEF Kept, clientVars
<1>7. down' \in [Clients -> Seq(Messages)] /\ DownOK'
      <2>1. CASE c = None
            BY <1>1, <1>5, <1>6, <2>1, QueueTypes, DownKept DEF DownOK
      <2>2. CASE c # None
            <3>1. c \in Calls /\ c \in Cancellable /\ id[c] = m.id
                  BY <1>1, <1>3, <1>4, <2>2, RpcAssumption DEF TableOK
            <3>2. m.call \in Cancelling
                  BY <1>1, <1>3 DEF CallsOK
            <3>3. OneClientCancels => c = m.call
                  BY <1>1, <1>3, <3>1, <3>2, IdsAreNumbers DEF OneClientCancels, IdsOK
            <3>4. OneClientCancels => c \in asked'
                  BY <1>1, <1>3, <3>3 DEF clientVars
            <3> QED
                BY <1>1, <1>3, <1>5, <1>6, <2>2, <3>1, <3>4, RespondInv, IdsAreNumbers
                DEF clientVars
      <2> QED
          BY <2>1, <2>2
<1>8. up' \in [Clients -> Seq(Messages)] /\ UpOK'
      BY <1>1, <1>6, UpReceived, UpKept DEF UpOK
<1>9. TypeOK'
      <2>1. table' \in [Ids -> Calls \cup {None}]
            BY <1>1, <1>3, <1>5 DEF TypeOK
      <2> QED
          BY <1>1, <1>7, <1>8, <2>1 DEF TypeOK, clientVars, Messages
<1>10. IdsOK' /\ CallsOK' /\ AddressesOK' /\ ProgressOwn'
      BY <1>1, <1>6, IdsKept, AddressesKept DEF CallsOK, clientVars
<1>11. TableOK'
      BY <1>1, <1>3, <1>5 DEF TableOK, clientVars, TypeOK
<1> QED
    BY <1>7, <1>8, <1>9, <1>10, <1>11 DEF IInv

LEMMA AnswerInv ==
  ASSUME IInv, NEW c \in Calls, Answer(c)
  PROVE  IInv'
<1>1. /\ TypeOK /\ IdsOK /\ UpOK /\ DownOK /\ CallsOK /\ TableOK /\ AddressesOK
      /\ c \in working /\ working' = working \ {c} /\ finished' = finished \cup {c}
      /\ table' = table \/ table' = [table EXCEPT ![id[c]] = None]
      /\ dropped' \subseteq dropped \cup {c}
      /\ Respond(c, "answer") \/ UNCHANGED down
      /\ UNCHANGED <<clientVars, link, conn, address, up, executed, reported>>
      BY DEF IInv, Answer
<1>2. id[c] \in Ids /\ id[c] # None
      BY <1>1 DEF CallsOK, TypeOK
<1>3. Kept
      BY <1>1, StillMoved DEF Kept, clientVars
<1>4. down' \in [Clients -> Seq(Messages)] /\ DownOK'
      <2>1. CASE Respond(c, "answer")
            BY <1>1, <1>2, <1>3, <2>1, RespondInv DEF clientVars
      <2>2. CASE UNCHANGED down
            <3>1. ASSUME NEW a \in Clients
                  PROVE  \A i \in DOMAIN down'[a] : DownMessage(down[a][i], a)'
                  BY <1>1, <1>3, <2>2, DownKept DEF DownOK
            <3> QED
                BY <1>1, <2>2, <3>1, RpcAssumption DEF DownOK, TypeOK, Messages
      <2> QED
          BY <1>1, <2>1, <2>2
<1>5. UpOK'
      BY <1>1, <1>3, UpKept DEF UpOK
<1>6. TypeOK'
      <2>1. table' \in [Ids -> Calls \cup {None}]
            BY <1>1, <1>2 DEF TypeOK
      <2>2. pending \cup asked \cup working' \cup finished' \cup dropped' \cup reported \subseteq Calls
            BY <1>1 DEF TypeOK
      <2>3. {up, down'} \subseteq [Clients -> Seq(Messages)]
            BY <1>1, <1>4 DEF TypeOK, Messages
      <2> QED
          BY <1>1, <2>1, <2>2, <2>3 DEF TypeOK, clientVars, Messages
<1>7. IdsOK' /\ CallsOK' /\ AddressesOK' /\ ProgressOwn'
      <2>1. IdsOK' /\ CallsOK'
            BY <1>1, IdsKept DEF CallsOK, clientVars
      <2>2. working' \subseteq working /\ working \cup finished \subseteq working' \cup finished'
            BY <1>1
      <2> QED
          BY <1>1, <1>3, <2>1, <2>2, AddressesKept DEF clientVars
<1>8. TableOK'
      BY <1>1, <1>2 DEF TableOK, clientVars, TypeOK
<1> QED
    BY <1>4, <1>5, <1>6, <1>7, <1>8 DEF IInv

\* Nobody else is where the connection is of a method that has not answered.
LEMMA ProgressInv ==
  ASSUME IInv, NEW c \in Calls, Progress(c)
  PROVE  IInv'
<1>1. /\ TypeOK /\ IdsOK /\ UpOK /\ DownOK /\ CallsOK /\ TableOK /\ AddressesOK
      /\ executed[c] = 1 /\ reported' = reported \cup {c}
      /\ UNCHANGED <<clientVars, link, conn, address, up, table, working, executed, finished, dropped>>
      BY DEF IInv, CallsOK, Progress
<1>2. id[c] \in Ids /\ id[c] # None
      BY <1>1 DEF CallsOK, TypeOK
<1>3. PICK m \in Messages : /\ m = Message("progress", id[c], c)
                            /\ m.kind = "progress" /\ m.id = id[c] /\ m.call = c
      BY <1>2, MessageIs DEF Kinds
<1>4. Kept
      BY <1>1, StillMoved DEF Kept, clientVars
<1>5. PICK A \in SUBSET Clients : A = {a \in Receiver(c) : link[a] = "open"}
      BY DEF Receiver
<1>6. down' = [a \in Clients |-> IF a \in A THEN Append(down[a], m) ELSE down[a]]
      BY <1>3, <1>5 DEF Progress
<1>7. ASSUME NEW a \in A PROVE DownMessage(m, a)'
      <2>1. a \in Clients /\ conn[a] = "open" /\ address[a] = address[ClientOf[c]]
            BY <1>5 DEF Receiver
      <2>2. ClientOf[c] \in Clients
            BY RpcAssumption
      <2>3. ClientOf[c] # a => c \in finished /\ conn[ClientOf[c]] = "closed"
            BY <1>1, <2>1, <2>2 DEF AddressesOK, TypeOK
      <2> QED
          BY <1>1, <1>3, <2>1, <2>3 DEF DownMessage, Moved, clientVars
<1>8. down' \in [Clients -> Seq(Messages)] /\ DownOK'
      BY <1>1, <1>4, <1>6, <1>7, DownSent
<1>9. UpOK'
      BY <1>1, <1>4, UpKept DEF UpOK
<1>10. TypeOK'
      <2>1. pending \cup asked \cup working \cup finished \cup dropped \cup reported' \subseteq Calls
            BY <1>1 DEF TypeOK
      <2>2. {up, down'} \subseteq [Clients -> Seq(Messages)]
            BY <1>1, <1>8 DEF TypeOK, Messages
      <2> QED
          BY <1>1, <2>1, <2>2 DEF TypeOK, clientVars, Messages
<1>11. IdsOK' /\ CallsOK' /\ TableOK' /\ AddressesOK' /\ ProgressOwn'
      BY <1>1, <1>4, IdsKept, AddressesKept DEF CallsOK, TableOK, clientVars
<1> QED
    BY <1>8, <1>9, <1>10, <1>11 DEF IInv

LEMMA InvNext == IInv /\ [Next]_vars => IInv'
<1> SUFFICES ASSUME IInv, [Next]_vars PROVE IInv'
    OBVIOUS
<1>1. CASE UNCHANGED vars
      <2>1. /\ UNCHANGED <<alive, link, conn, address, id, pending, asked, up, down, table>>
            /\ UNCHANGED <<working, executed, finished, dropped, reported, heard, result>>
            BY <1>1 DEF vars
      <2>2. Kept
            BY <2>1, StillMoved DEF Kept
      <2>3. UpOK' /\ DownOK'
            BY <2>1, <2>2, QueuesKept DEF IInv
      <2> QED
          BY <2>1, <2>2, <2>3, IdsKept, AddressesKept DEF IInv, TypeOK, CallsOK, TableOK
<1> QED
    BY <1>1, ConnectionInv, DeliverInv, DestroyInv, ReceiveRequestInv, ReceiveCancelInv,
       RequestInv, CancelInv, AnswerInv, ProgressInv
    DEF Next, Receive

LEMMA Invariant == Spec => []IInv
BY InvInit, InvNext, PTL DEF Spec

-----------------------------------------------------------------------------
(***************************************************************************)
(* Every step is one of RemoteCall, or none.                               *)
(***************************************************************************)
LEMMA RequestCalls ==
  ASSUME IInv, NEW c \in Calls, Request(c)
  PROVE  Remote!Call(c)
<1> DEFINE Called == {d \in Calls : id[d] # None}
<1>1. TypeOK /\ id[c] = None /\ id' = [id EXCEPT ![c] = LastId(ClientOf[c])]
      BY DEF IInv, Request
<1>2. LastId(ClientOf[c]) # None
      BY <1>1, NextId, IdsAreNumbers
<1>3. Called' = Called \cup {c} /\ c \notin Called
      <2>1. id'[c] # None /\ \A d \in Calls \ {c} : id'[d] = id[d]
            BY <1>1, <1>2 DEF TypeOK
      <2> QED
          BY <1>1, <2>1
<1>4. UNCHANGED <<executed, finished, asked, result>>
      BY DEF Request, serverVars
<1> QED
    BY <1>3, <1>4 DEF Remote!Call

LEMMA CancelAsks ==
  ASSUME IInv, NEW c \in Calls, Cancel(c)
  PROVE  Remote!Ask(c)
BY DEF Cancel, serverVars, Remote!Ask

LEMMA ReceiveRequestExecutes ==
  ASSUME IInv, NEW a \in Clients, ReceiveRequest(a)
  PROVE  \E c \in Calls : Remote!Execute(c)
<1>1. /\ TypeOK /\ UpOK /\ up[a] # <<>>
      /\ UNCHANGED <<clientVars, finished>>
      BY DEF IInv, ReceiveRequest
<1>2. PICK m \in Messages : m = Head(up[a]) /\ m = up[a][1] /\ 1 \in DOMAIN up[a]
      BY <1>1, QueueTypes, Received
<1>3. /\ m.call \in Calls /\ m.id \in Ids
      /\ id[m.call] = m.id /\ executed[m.call] = 0
      BY <1>1, <1>2 DEF ReceiveRequest, UpOK, UpMessage, Messages
<1>4. executed' = [executed EXCEPT ![m.call] = 1]
      <2>1. executed' = [executed EXCEPT ![m.call] = @ + 1]
            BY <1>2 DEF ReceiveRequest
      <2>2. executed[m.call] + 1 = 1
            BY <1>3
      <2> QED
          BY <2>1, <2>2
<1>5. Remote!Execute(m.call)
      BY <1>1, <1>3, <1>4, IdsAreNumbers DEF Remote!Execute, clientVars
<1> QED
    BY <1>3, <1>5

LEMMA AnswerFinishes ==
  ASSUME IInv, NEW c \in Calls, Answer(c)
  PROVE  Remote!Finish(c)
<1>1. executed[c] = 1
      BY DEF Answer, IInv, CallsOK
<1> QED
    BY <1>1 DEF Answer, clientVars, Remote!Finish

LEMMA DeliverReturns ==
  ASSUME OneClientCancels, IInv, NEW a \in Clients, Deliver(a)
  PROVE  (\E c \in Calls : Remote!Return(c)) \/ UNCHANGED Remote!vars
<1>1. /\ TypeOK /\ IdsOK /\ DownOK /\ CallsOK /\ down[a] # <<>>
      /\ UNCHANGED <<serverVars, id, asked>>
      BY DEF IInv, Deliver
<1>2. PICK m \in Messages : m = Head(down[a]) /\ DownMessage(m, a)
      BY <1>1, QueueTypes, Received DEF DownOK
<1> DEFINE Named == {c \in Calls : ClientOf[c] = a /\ id[c] = m.id}
           Found == Named \cap pending
<1>3. \/ /\ m.kind \in {"answer", "abort"}
         /\ result' = [c \in Calls |-> IF c \in Found THEN m.kind ELSE result[c]]
      \/ UNCHANGED result
      BY <1>2 DEF Deliver, DownMessage
<1>4. UNCHANGED <<id, executed, finished, asked>>
      BY <1>1 DEF serverVars
<1>5. CASE UNCHANGED result
      BY <1>4, <1>5 DEF Remote!vars
<1>6. ASSUME m.kind \in {"answer", "abort"},
             result' = [c \in Calls |-> IF c \in Found THEN m.kind ELSE result[c]]
      PROVE  (\E c \in Calls : Remote!Return(c)) \/ UNCHANGED result
      <2>1. m.call \in Calls /\ ClientOf[m.call] = a /\ \A c \in Found : c = m.call
            BY <1>1, <1>2, <1>6, NamedOnce DEF DownMessage, Messages
      <2>2. CASE m.call \in Found
            <3>1. result[m.call] = "none"
                  BY <1>1, <2>2 DEF CallsOK
            <3>2. result' = [result EXCEPT ![m.call] = m.kind]
                  BY <1>1, <1>6, <2>1, <2>2 DEF TypeOK
            <3>3. \/ m.kind = "answer" /\ m.call \in finished
                  \/ m.kind = "abort" /\ m.call \in asked
                  BY <1>2, <1>6 DEF DownMessage
            <3>4. Remote!Return(m.call)
                  BY <1>4, <3>1, <3>2, <3>3 DEF Remote!Return
            <3> QED
                BY <2>1, <3>4
      <2>3. CASE m.call \notin Found
            BY <1>1, <1>6, <2>1, <2>3 DEF TypeOK
      <2> QED
          BY <2>2, <2>3
<1> QED
    BY <1>3, <1>5, <1>6

LEMMA DestroyDestroys ==
  ASSUME IInv, NEW a \in Clients, Destroy(a)
  PROVE  \E C \in SUBSET Calls : Remote!Destroy(C)
<1> DEFINE C == {c \in pending : ClientOf[c] = a}
<1>1. C \in SUBSET Calls /\ \A c \in C : id[c] # None /\ result[c] = "none"
      BY DEF IInv, TypeOK, CallsOK
<1>2. Remote!Destroy(C)
      BY <1>1 DEF Destroy, serverVars, Remote!Destroy
<1> QED
    BY <1>1, <1>2

LEMMA RemoteNext == OneClientCancels /\ IInv /\ [Next]_vars => [Remote!Next]_(Remote!vars)
<1> SUFFICES ASSUME OneClientCancels, IInv, [Next]_vars
             PROVE  [Remote!Next]_(Remote!vars)
    OBVIOUS
<1>1. ASSUME UNCHANGED <<id, executed, finished, asked, result>>
      PROVE  UNCHANGED Remote!vars
      BY <1>1 DEF Remote!vars
<1>2. ASSUME NEW a \in Clients,
             \/ Connect(a) \/ ClientCloses(a) \/ ServerCloses(a) \/ ReceiveCancel(a)
      PROVE  UNCHANGED Remote!vars
      BY <1>1, <1>2
      DEF Connect, ClientCloses, ServerCloses, ReceiveCancel, clientVars, serverVars
<1>3. ASSUME NEW c \in Calls, Progress(c)
      PROVE  UNCHANGED Remote!vars
      BY <1>1, <1>3 DEF Progress, clientVars
<1>4. ASSUME UNCHANGED vars
      PROVE  UNCHANGED Remote!vars
      BY <1>1, <1>4 DEF vars
<1> QED
    BY <1>2, <1>3, <1>4, RequestCalls, CancelAsks, ReceiveRequestExecutes, AnswerFinishes,
       DeliverReturns, DestroyDestroys
    DEF Next, Receive, Remote!Next

-----------------------------------------------------------------------------
(***************************************************************************)
(* The theorems.                                                           *)
(***************************************************************************)

\* Every variable keeps its type.
THEOREM TypeCorrect == Spec => []TypeOK
<1>1. IInv => TypeOK
      BY DEF IInv
<1> QED
    BY <1>1, Invariant, PTL

\* requester.cpp:88-134: however many calls a client makes, whichever of them are
\* answered when, no two of them have the same id.
THEOREM IdsUnique == Spec => []IdsOK
<1>1. IInv => IdsOK
      BY DEF IInv
<1> QED
    BY <1>1, Invariant, PTL

\* cancellableReceiverImpl.h:119, server.cpp:224: whatever becomes of connections
\* and of their addresses, what a client hears of a call is the progress of that
\* call; or of one that was answered already, with the same id, and of a client
\* whose connection is gone and was where that of this one is.
THEOREM ProgressHeardByCaller == Spec => []ProgressOwn
<1>1. IInv => ProgressOwn
      BY DEF IInv
<1> QED
    BY <1>1, Invariant, PTL

\* requester.h:61, clientRequest.h:47: clients and server together implement
\* RemoteCall: a method runs once, a call returns once, what the method answered
\* to it, that it was aborted, which was asked for, or that the client was
\* destroyed; when one client cancels, since the server knows calls by id.
THEOREM Implements == OneClientCancels => (Spec => KeepsCall)
<1>1. SUFFICES ASSUME OneClientCancels PROVE Spec => KeepsCall
      OBVIOUS
<1>2. Init => Remote!Init
      BY DEF Init, Remote!Init
<1>3. IInv /\ [Next]_vars => [Remote!Next]_(Remote!vars)
      BY <1>1, RemoteNext
<1> QED
    BY <1>2, <1>3, Invariant, PTL DEF Spec, KeepsCall, Remote!Spec
================================================================================
