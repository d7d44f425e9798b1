--------------------------- MODULE HttpClientProofs ---------------------------
(***************************************************************************)
(* Proofs about HttpClient: each request is called back once, by a         *)
(* callback of libwebsockets or by the destructor, and with its whole      *)
(* body, for any number of requests, connections and pieces.               *)
(***************************************************************************)
EXTENDS HttpClient, TLAPS, WellFoundedInduction

Held(w) == requests[w] # None

\* The callback of the entry has been called: it is running, or the destructor
\* has come to it.
Ended(w) == IF at = Open THEN running = w ELSE w <= at

Busy == {"connecting", "posting", "waiting", "body"}

\* An entry is there until its callback has been called.
EntryUntilCalled ==
  \A w \in Wsis : Held(w) =>
    /\ requests[w] \in asked
    /\ called[requests[w]] = <<>> <=> ~Ended(w)

\* No two entries are of the same request.
OneEntryEach ==
  \A v, w \in Wsis : Held(v) /\ requests[v] = requests[w] => v = w

\* A request without an entry has been called back.
CalledOrHeld ==
  \A r \in Requests :
    /\ Len(called[r]) <= 1
    /\ r \notin asked => called[r] = <<>>
    /\ r \in asked /\ called[r] = <<>> => \E w \in Wsis : requests[w] = r

EntriesOK == EntryUntilCalled /\ OneEntryEach /\ CalledOrHeld

\* A connection that libwebsockets is busy with has an entry.
ConnectionsOK ==
  /\ running # None => Held(running)
  /\ \A w \in Wsis : phase[w] \in Busy => Held(w) /\ running # w
  /\ \A w \in Wsis : phase[w] = "free" /\ running # w => ~Held(w)

\* How much of the answer to a connection's request has come.
ReceivedOK(w) ==
  /\ phase[w] \in {"connecting", "posting", "waiting"} =>
       requests[w] \notin unread /\ body[requests[w]] = 0 /\ size[requests[w]] = 0
  /\ phase[w] = "body" =>
       requests[w] \notin unread /\ body[requests[w]] + left[w] = size[requests[w]]

BodiesOK ==
  /\ \A r \in Requests \ asked : r \notin unread /\ body[r] = 0 /\ size[r] = 0
  /\ \A w \in Wsis : ReceivedOK(w)

ServiceOK == ConnectionsOK /\ BodiesOK

\* Where the destructor is.
DestructorOK ==
  \/ running # None /\ at \in Wsis
  \/ running = None /\ at = Destroyed

IInv ==
  /\ TypeOK
  /\ at = Open => EntriesOK /\ ServiceOK
  /\ at # Open => DestructorOK /\ (~LateRequests => EntriesOK)
  /\ WholeBody

-----------------------------------------------------------------------------
(***************************************************************************)
(* Facts about the operators of the model.                                 *)
(***************************************************************************)

\* Of entries there is a first one.
LEMMA FirstEntry ==
  ASSUME NEW S, S \subseteq Nat, S # {}
  PROVE  Min(S) \in S /\ \A x \in S : Min(S) <= x
<1> DEFINE R == OpToRel(<, Nat)
<1>1. \A x, y \in Nat : y < x => <<y, x>> \in R
      BY DEF OpToRel
<1>2. IsWellFoundedOn(R, Nat)
      BY NatLessThanWellFounded
<1> HIDE DEF R
<1>3. PICK x \in S : \A y \in S : ~(<<y, x>> \in R)
      BY <1>2, WFMin
<1>4. ASSUME NEW y \in S PROVE x <= y
      <2>1. x \in Nat /\ y \in Nat /\ (y < x => <<y, x>> \in R) /\ <<y, x>> \notin R
            BY <1>1, <1>3
      <2> QED
          BY <2>1
<1> QED
    BY <1>4 DEF Min

\* A callback is appended to those of one request.
LEMMA CallOnce ==
  ASSUME TypeOK, NEW r \in Requests, NEW callback \in {"callback", "error"},
         Call(r, callback)
  PROVE  /\ called' \in [Requests -> Seq({"callback", "error"})]
         /\ called'[r] # <<>> /\ (callback = "error" => called'[r] # <<"callback">>)
         /\ called[r] = <<>> => called'[r] = <<callback>> /\ Len(called'[r]) = 1
         /\ \A q \in Requests \ {r} : called'[q] = called[q]
<1>1. called'[r] = Append(called[r], callback) /\ called[r] \in Seq({"callback", "error"})
      BY DEF Call, TypeOK
<1>2. /\ Len(called[r]) \in Nat /\ Len(called'[r]) = Len(called[r]) + 1
      /\ called'[r][Len(called[r]) + 1] = callback
      BY <1>1
<1>3. called'[r] # <<>> /\ (callback = "error" => called'[r] # <<"callback">>)
      <2>1. Len(<<>>) = 0 /\ Len(<<"callback">>) = 1 /\ <<"callback">>[1] = "callback"
            OBVIOUS
      <2> QED
          BY <1>2, <2>1
<1>4. called[r] = <<>> => called'[r] = <<callback>> /\ Len(called'[r]) = 1
      BY <1>1
<1>5. called' \in [Requests -> Seq({"callback", "error"})]
      BY <1>1 DEF Call, TypeOK
<1>6. \A q \in Requests \ {r} : called'[q] = called[q]
      BY DEF Call, TypeOK
<1> QED
    BY <1>3, <1>4, <1>5, <1>6

LEMMA Numbers ==
  /\ Wsis \subseteq Nat /\ None \notin Wsis
  /\ Open \notin Wsis /\ Destroyed \notin Wsis /\ Open # Destroyed
BY HttpClientAssumption DEF Wsis, Open, Destroyed

LEMMA InvInit == Init => IInv
<1> SUFFICES ASSUME Init PROVE IInv
    OBVIOUS
<1> USE HttpClientAssumption
<1>1. TypeOK
      BY DEF Init, TypeOK, Wsis, Open, Destroyed, Phases
<1>2. EntriesOK
      BY DEF Init, EntriesOK, EntryUntilCalled, OneEntryEach, CalledOrHeld, Held
<1>3. ServiceOK
      BY DEF Init, ServiceOK, ConnectionsOK, BodiesOK, ReceivedOK, Held, Busy
<1>4. WholeBody
      BY DEF Init, WholeBody
<1> QED
    BY <1>1, <1>2, <1>3, <1>4 DEF IInv, Init

-----------------------------------------------------------------------------
(***************************************************************************)
(* Requests that are started.                                              *)
(***************************************************************************)
LEMMA StartRequestInv ==
  ASSUME IInv, NEW r \in Requests, NEW w \in Wsis, StartRequest(r, w)
  PROVE  IInv'
<1> USE HttpClientAssumption, Numbers
<1>0. TypeOK
      BY DEF IInv
<1>1. /\ r \notin asked /\ asked' = asked \cup {r}
      /\ phase[w] = "free" /\ running # w
      /\ Emplace(w, r) /\ Goto(w, "connecting")
      /\ UNCHANGED <<left, size, body, unread, called, running, at>>
      BY DEF StartRequest, MayRequest
<1>2. /\ requests' \in [Wsis -> Requests \cup {None}]
      /\ phase' = [phase EXCEPT ![w] = "connecting"]
      /\ \A v \in Wsis \ {w} : requests'[v] = requests[v]
      /\ requests[w] = None => requests'[w] = r
      BY <1>0, <1>1 DEF Emplace, Goto, TypeOK
<1>3. TypeOK'
      BY <1>0, <1>1, <1>2 DEF TypeOK, Phases
<1>4. ASSUME at = Open PROVE EntriesOK' /\ ServiceOK'
      <2>1. EntriesOK /\ ServiceOK /\ requests[w] = None
            BY <1>1, <1>4 DEF IInv, ServiceOK, ConnectionsOK, BodiesOK, ReceivedOK, Held
      <2>2. requests'[w] = r
            BY <1>2, <2>1
      <2>3. EntriesOK'
            <3>1. EntryUntilCalled'
                  BY <1>0, <1>1, <1>2, <1>4, <2>1, <2>2
                  DEF EntriesOK, EntryUntilCalled, CalledOrHeld, Held, Ended, TypeOK
            <3>2. OneEntryEach'
                  BY <1>0, <1>1, <1>2, <2>1, <2>2
                  DEF EntriesOK, EntryUntilCalled, OneEntryEach, Held, TypeOK
            <3>3. ASSUME NEW q \in asked' , called'[q] = <<>>
                  PROVE  \E v \in Wsis : requests'[v] = q
                  <4>1. CASE q = r
                        BY <2>2, <4>1
                  <4>2. CASE q # r
                        BY <1>0, <1>1, <1>2, <2>1, <3>3, <4>2
                        DEF EntriesOK, CalledOrHeld, TypeOK
                  <4> QED
                      BY <4>1, <4>2
            <3>4. CalledOrHeld'
                  BY <1>1, <2>1, <3>3 DEF EntriesOK, CalledOrHeld
            <3> QED
                BY <3>1, <3>2, <3>4 DEF EntriesOK
      <2>4. ServiceOK'
            BY <1>0, <1>1, <1>2, <1>4, <2>1, <2>2
            DEF EntriesOK, EntryUntilCalled, ServiceOK, ConnectionsOK, BodiesOK,
                ReceivedOK, Held, Busy, TypeOK
      <2> QED
          BY <2>3, <2>4
<1>5. at # Open => LateRequests
      BY DEF StartRequest, MayRequest
<1>6. WholeBody => WholeBody'
      BY <1>1 DEF WholeBody
<1> QED
    BY <1>1, <1>3, <1>4, <1>5, <1>6 DEF IInv, DestructorOK

LEMMA StartRequestFailsInv ==
  ASSUME IInv, NEW r \in Requests, StartRequestFails(r)
  PROVE  IInv'
<1> USE HttpClientAssumption, Numbers
<1>0. TypeOK
      BY DEF IInv
<1>1. /\ r \notin asked /\ asked' = asked \cup {r}
      /\ Call(r, "error")
      /\ UNCHANGED <<requests, phase, left, size, body, unread, running, at>>
      /\ at # Open => LateRequests
      BY DEF StartRequestFails, MayRequest
<1>2. /\ called' \in [Requests -> Seq({"callback", "error"})]
      /\ called'[r] # <<>> /\ called'[r] # <<"callback">>
      /\ called[r] = <<>> => called'[r] = <<"error">> /\ Len(called'[r]) = 1
      /\ \A q \in Requests \ {r} : called'[q] = called[q]
      BY <1>0, <1>1, CallOnce
<1>3. TypeOK'
      BY <1>0, <1>1, <1>2 DEF TypeOK
<1>4. EntriesOK => EntriesOK'
      <2> SUFFICES ASSUME EntriesOK PROVE EntriesOK'
          OBVIOUS
      <2>1. EntryUntilCalled'
            BY <1>0, <1>1, <1>2 DEF EntriesOK, EntryUntilCalled, Held, Ended, TypeOK
      <2>2. OneEntryEach'
            BY <1>1 DEF EntriesOK, OneEntryEach, Held
      <2>3. called[r] = <<>>
            BY <1>1 DEF EntriesOK, CalledOrHeld
      <2>4. \A q \in Requests : q \in asked' /\ called'[q] = <<>> =>
              q # r /\ q \in asked /\ called[q] = <<>>
            BY <1>1, <1>2
      <2>5. ASSUME NEW q \in Requests
            PROVE  Len(called'[q]) <= 1 /\ (q \notin asked' => called'[q] = <<>>)
            <3>1. CASE q = r
                  <4>1. Len(called'[r]) = 1
                        BY <1>2, <2>3
                  <4>2. r \in asked'
                        BY <1>1
                  <4> QED
                      BY <3>1, <4>1, <4>2
            <3>2. CASE q # r
                  BY <1>1, <1>2, <3>2 DEF EntriesOK, CalledOrHeld
            <3> QED
                BY <3>1, <3>2
      <2>6. CalledOrHeld'
            BY <1>1, <2>4, <2>5 DEF EntriesOK, CalledOrHeld
      <2> QED
          BY <2>1, <2>2, <2>6 DEF EntriesOK
<1>5. ServiceOK => ServiceOK'
      BY <1>1 DEF ServiceOK, ConnectionsOK, BodiesOK, ReceivedOK, Held
<1>6. WholeBody => WholeBody'
      BY <1>1, <1>2 DEF WholeBody
<1> QED
    BY <1>1, <1>3, <1>4, <1>5, <1>6 DEF IInv, DestructorOK

-----------------------------------------------------------------------------
(***************************************************************************)
(* The callbacks of libwebsockets.                                         *)
(***************************************************************************)

\* finishRequest() and abortRequest() keep the entries in order.
LEMMA EndRequestInv ==
  ASSUME TypeOK, EntriesOK, at = Open, running = None,
         NEW w \in Wsis, NEW callback \in {"callback", "error"},
         EndRequest(w, callback), UNCHANGED <<requests, asked, at>>
  PROVE  /\ EntriesOK'
         /\ called' \in [Requests -> Seq({"callback", "error"})]
         /\ running' = IF Held(w) THEN w ELSE None
         /\ \A r \in Requests : called'[r] = <<"callback">> =>
              \/ called[r] = <<"callback">>
              \/ Held(w) /\ r = requests[w] /\ callback = "callback"
<1> USE HttpClientAssumption, Numbers
<1>1. CASE ~Held(w)
      <2>1. UNCHANGED <<called, running>>
            BY <1>1 DEF EndRequest, Held
      <2>2. EntriesOK'
            BY <2>1 DEF EntriesOK, EntryUntilCalled, OneEntryEach, CalledOrHeld, Held, Ended
      <2> QED
          BY <1>1, <2>1, <2>2 DEF TypeOK
<1>2. CASE Held(w)
      <2> DEFINE r == requests[w]
      <2>1. r \in Requests /\ r \in asked /\ called[r] = <<>>
            BY <1>2 DEF TypeOK, EntriesOK, EntryUntilCalled, Ended, Held
      <2>2. Call(r, callback) /\ running' = w
            BY <1>2 DEF EndRequest, Held
      <2>3. /\ called' \in [Requests -> Seq({"callback", "error"})]
            /\ called'[r] = <<callback>> /\ Len(called'[r]) = 1
            /\ called'[r] # <<>>
            /\ \A q \in Requests \ {r} : called'[q] = called[q]
            BY <2>1, <2>2, CallOnce
      <2>4. EntryUntilCalled'
            BY <2>1, <2>2, <2>3
            DEF EntriesOK, EntryUntilCalled, OneEntryEach, Held, Ended, TypeOK
      <2>5. OneEntryEach'
            BY DEF EntriesOK, OneEntryEach, Held
      <2>6. ASSUME NEW q \in Requests
            PROVE  /\ Len(called'[q]) <= 1
                   /\ q \notin asked' => called'[q] = <<>>
                   /\ q \in asked' /\ called'[q] = <<>> => \E v \in Wsis : requests'[v] = q
            <3>1. CASE q = r
                  <4>1. q \in asked' /\ called'[q] # <<>>
                        BY <2>1, <2>3, <3>1
                  <4>2. Len(called'[q]) = 1
                        BY <2>3, <3>1
                  <4> QED
                      BY <4>1, <4>2
            <3>2. CASE q # r
                  BY <2>3, <3>2 DEF EntriesOK, CalledOrHeld
            <3> QED
                BY <3>1, <3>2
      <2>7. EntriesOK'
            BY <2>4, <2>5, <2>6 DEF EntriesOK, CalledOrHeld
      <2>8. ASSUME NEW q \in Requests, called'[q] = <<"callback">>
            PROVE  called[q] = <<"callback">> \/ (q = r /\ callback = "callback")
            <3>1. CASE q = r
                  <4>1. <<callback>> = <<"callback">>
                        BY <2>3, <2>8, <3>1
                  <4>2. <<callback>>[1] = callback /\ <<"callback">>[1] = "callback"
                        OBVIOUS
                  <4> QED
                      BY <3>1, <4>1, <4>2
            <3>2. CASE q # r
                  BY <2>3, <2>8, <3>2
            <3> QED
                BY <3>1, <3>2
      <2> QED
          BY <1>2, <2>2, <2>3, <2>7, <2>8
<1> QED
    BY <1>1, <1>2

\* A callback of libwebsockets after which nothing more comes of the answer.
LEMMA LastCallbackInv ==
  ASSUME IInv, NEW w \in Wsis, NEW callback \in {"callback", "error"},
         NEW label \in {"over", "free"},
         Service(w, Phases), EndRequest(w, callback), Goto(w, label),
         UNCHANGED <<requests, left, size, body, unread, asked, at>>,
         callback = "callback" /\ Held(w) =>
           requests[w] \notin unread /\ body[requests[w]] = size[requests[w]]
  PROVE  IInv'
<1> USE HttpClientAssumption, Numbers
<1>1. at = Open /\ running = None /\ TypeOK /\ EntriesOK /\ ServiceOK
      BY DEF Service, IInv
<1>2. /\ EntriesOK'
      /\ called' \in [Requests -> Seq({"callback", "error"})]
      /\ running' = IF Held(w) THEN w ELSE None
      /\ \A r \in Requests : called'[r] = <<"callback">> =>
           \/ called[r] = <<"callback">>
           \/ Held(w) /\ r = requests[w] /\ callback = "callback"
      BY <1>1, EndRequestInv
<1>3. /\ phase' \in [Wsis -> Phases] /\ phase'[w] = label
      /\ \A v \in Wsis \ {w} : phase'[v] = phase[v]
      BY <1>1 DEF Goto, TypeOK, Phases
<1>4. TypeOK'
      BY <1>1, <1>2, <1>3 DEF TypeOK
<1>5. ServiceOK'
      BY <1>1, <1>2, <1>3 DEF ServiceOK, ConnectionsOK, BodiesOK, ReceivedOK, Held, Busy
<1>6. WholeBody => WholeBody'
      BY <1>2 DEF WholeBody
<1> QED
    BY <1>1, <1>2, <1>4, <1>5, <1>6 DEF IInv

\* A callback that goes on with a request.
LEMMA NextPhaseInv ==
  ASSUME IInv, NEW w \in Wsis, NEW label \in {"posting", "waiting", "over"},
         Service(w, {"connecting", "posting"}), Goto(w, label),
         UNCHANGED <<requests, left, size, body, unread, asked, called, running, at>>
  PROVE  IInv'
<1> USE HttpClientAssumption, Numbers
<1>1. at = Open /\ running = None /\ TypeOK /\ EntriesOK /\ ServiceOK
      BY DEF Service, IInv
<1>2. /\ phase' \in [Wsis -> Phases] /\ phase'[w] = label
      /\ \A v \in Wsis \ {w} : phase'[v] = phase[v]
      BY <1>1 DEF Goto, TypeOK, Phases
<1>3. TypeOK'
      BY <1>1, <1>2 DEF TypeOK
<1>4. EntriesOK'
      BY <1>1 DEF EntriesOK, EntryUntilCalled, OneEntryEach, CalledOrHeld, Held, Ended
<1>5. ServiceOK'
      BY <1>1, <1>2 DEF ServiceOK, ConnectionsOK, BodiesOK, ReceivedOK, Held, Busy, Service
<1>6. WholeBody => WholeBody'
      BY DEF WholeBody
<1> QED
    BY <1>1, <1>3, <1>4, <1>5, <1>6 DEF IInv

\* readResponseHeaders() of a connection that waits for them.
LEMMA HeadersRead ==
  ASSUME IInv, NEW w \in Wsis, NEW pieces \in 0 .. MaxPieces, NEW length \in BOOLEAN,
         NEW recognized \in BOOLEAN, Service(w, {"waiting"}),
         ReadResponseHeaders(w, pieces, length, recognized)
  PROVE  LET r == requests[w] IN
         /\ Held(w) /\ r \in Requests /\ r \in asked /\ called[r] = <<>> /\ body[r] = 0
         /\ size' \in [Requests -> 0 .. MaxPieces] /\ unread' \subseteq Requests
         /\ size'[r] = pieces
         /\ r \in unread' <=> ~(length /\ recognized)
         /\ \A q \in Requests \ {r} : size'[q] = size[q] /\ (q \in unread' <=> q \in unread)
         /\ \A v \in Wsis \ {w} : Held(v) => requests[v] # r
<1> USE HttpClientAssumption, Numbers
<1> DEFINE r == requests[w]
<1>1. /\ at = Open /\ running = None /\ TypeOK /\ EntriesOK /\ ServiceOK
      /\ phase[w] = "waiting"
      BY DEF Service, IInv
<1>2. /\ Held(w) /\ r \in Requests /\ r \in asked /\ called[r] = <<>>
      /\ body[r] = 0 /\ r \notin unread
      BY <1>1
      DEF ServiceOK, ConnectionsOK, BodiesOK, ReceivedOK, EntriesOK, EntryUntilCalled,
          Held, Ended, Busy, TypeOK
<1>3. /\ size' = [size EXCEPT ![r] = pieces]
      /\ unread' = IF length /\ recognized THEN unread ELSE unread \cup {r}
      BY <1>2 DEF ReadResponseHeaders, Held
<1>4. /\ size' \in [Requests -> 0 .. MaxPieces] /\ size'[r] = pieces
      /\ \A q \in Requests \ {r} : size'[q] = size[q]
      BY <1>1, <1>2, <1>3 DEF TypeOK
<1>5. \A v \in Wsis \ {w} : Held(v) => requests[v] # r
      BY <1>1, <1>2 DEF EntriesOK, OneEntryEach, Held
<1>6. unread' \subseteq Requests
      BY <1>1, <1>2, <1>3 DEF TypeOK
<1>7. /\ r \in unread' <=> ~(length /\ recognized)
      /\ \A q \in Requests \ {r} : q \in unread' <=> q \in unread
      BY <1>2, <1>3
<1> QED
    BY <1>2, <1>4, <1>5, <1>6, <1>7

\* An answer that is given to the callback with its headers.
LEMMA WithoutBodyInv ==
  ASSUME IInv, NEW w \in Wsis, NEW pieces \in 0 .. MaxPieces, NEW length \in BOOLEAN,
         NEW recognized \in BOOLEAN, NEW label \in {"over", "free"},
         Service(w, {"waiting"}), ReadResponseHeaders(w, pieces, length, recognized),
         length /\ recognized => pieces = 0,
         Goto(w, label), EndRequest(w, "callback"),
         left' \in [Wsis -> 0 .. MaxPieces], \A v \in Wsis \ {w} : left'[v] = left[v],
         UNCHANGED <<requests, body, asked, at>>
  PROVE  IInv'
<1> USE HttpClientAssumption, Numbers
<1> DEFINE r == requests[w]
<1>1. at = Open /\ running = None /\ TypeOK /\ EntriesOK /\ ServiceOK
      BY DEF Service, IInv
<1>2. /\ Held(w) /\ r \in Requests /\ r \in asked /\ called[r] = <<>> /\ body[r] = 0
      /\ size' \in [Requests -> 0 .. MaxPieces] /\ unread' \subseteq Requests
      /\ size'[r] = pieces
      /\ r \in unread' <=> ~(length /\ recognized)
      /\ \A q \in Requests \ {r} : size'[q] = size[q] /\ (q \in unread' <=> q \in unread)
      /\ \A v \in Wsis \ {w} : Held(v) => requests[v] # r
      BY HeadersRead
<1>3. /\ phase' \in [Wsis -> Phases] /\ phase'[w] = label
      /\ \A v \in Wsis \ {w} : phase'[v] = phase[v]
      BY <1>1 DEF Goto, TypeOK, Phases
<1>4. /\ EntriesOK'
      /\ called' \in [Requests -> Seq({"callback", "error"})]
      /\ running' = IF Held(w) THEN w ELSE None
      /\ \A q \in Requests : called'[q] = <<"callback">> =>
           called[q] = <<"callback">> \/ q = r
      BY <1>1, EndRequestInv
<1>5. TypeOK'
      BY <1>1, <1>2, <1>3, <1>4 DEF TypeOK
<1>6. ConnectionsOK'
      BY <1>1, <1>2, <1>3, <1>4 DEF ServiceOK, ConnectionsOK, Held, Busy
<1>7. ASSUME NEW v \in Wsis PROVE ReceivedOK(v)'
      <2>1. CASE v = w
            BY <1>3, <2>1 DEF ReceivedOK
      <2>2. CASE v # w
            <3>1. phase'[v] = phase[v] /\ left'[v] = left[v] /\ requests'[v] = requests[v]
                  BY <1>3, <2>2
            <3>2. ASSUME phase[v] \in Busy
                  PROVE  /\ size'[requests[v]] = size[requests[v]]
                         /\ requests[v] \in unread' <=> requests[v] \in unread
                  <4>1. Held(v) /\ requests[v] \in Requests
                        BY <1>1, <3>2 DEF ServiceOK, ConnectionsOK, Held, TypeOK
                  <4> QED
                      BY <1>2, <2>2, <4>1
            <3> QED
                BY <1>1, <3>1, <3>2 DEF ServiceOK, BodiesOK, ReceivedOK, Busy
      <2> QED
          BY <2>1, <2>2
<1>8. ServiceOK'
      BY <1>1, <1>2, <1>6, <1>7 DEF ServiceOK, BodiesOK
<1>9. WholeBody'
      <2>1. SUFFICES ASSUME NEW q \in Requests, called'[q] = <<"callback">>
                     PROVE  body[q] = IF q \in unread' THEN 0 ELSE size'[q]
            BY DEF WholeBody
      <2>2. CASE q = r
            BY <1>2, <2>2
      <2>3. CASE q # r
            BY <1>2, <1>4, <2>1, <2>3 DEF IInv, WholeBody
      <2> QED
          BY <2>2, <2>3
<1> QED
    BY <1>1, <1>4, <1>5, <1>8, <1>9 DEF IInv

\* LWS_CALLBACK_ESTABLISHED_CLIENT_HTTP
LEMMA EstablishedInv ==
  ASSUME IInv, NEW w \in Wsis, NEW pieces \in 0 .. MaxPieces, NEW length \in BOOLEAN,
         Established(w, pieces, length)
  PROVE  IInv'
<1> USE HttpClientAssumption, Numbers
<1> DEFINE r == requests[w]
<1>1. /\ at = Open /\ running = None /\ TypeOK /\ EntriesOK /\ ServiceOK
      /\ Service(w, {"waiting"}) /\ phase[w] = "waiting"
      /\ ReadResponseHeaders(w, pieces, length, TRUE)
      /\ UNCHANGED <<requests, body, asked, at>>
      BY DEF Established, Service, IInv
<1>2. /\ left' \in [Wsis -> 0 .. MaxPieces] /\ left'[w] = pieces
      /\ \A v \in Wsis \ {w} : left'[v] = left[v]
      BY <1>1 DEF Established, TypeOK
<1>3. CASE HasResponseBody(pieces, length)
      <2>1. Goto(w, "body") /\ UNCHANGED <<called, running>>
            BY <1>3 DEF Established
      <2>2. /\ phase' \in [Wsis -> Phases] /\ phase'[w] = "body"
            /\ \A v \in Wsis \ {w} : phase'[v] = phase[v]
            BY <1>1, <2>1 DEF Goto, TypeOK, Phases
      <2>3. /\ Held(w) /\ r \in Requests /\ r \in asked /\ called[r] = <<>> /\ body[r] = 0
            /\ size' \in [Requests -> 0 .. MaxPieces] /\ unread' \subseteq Requests
            /\ size'[r] = pieces /\ r \notin unread'
            /\ \A q \in Requests \ {r} : size'[q] = size[q] /\ (q \in unread' <=> q \in unread)
            /\ \A v \in Wsis \ {w} : Held(v) => requests[v] # r
            <3>1. PICK recognized \in BOOLEAN :
                    recognized /\ ReadResponseHeaders(w, pieces, length, recognized)
                  BY <1>1
            <3>2. length
                  BY <1>3 DEF HasResponseBody
            <3> QED
                BY <1>1, <3>1, <3>2, HeadersRead
      <2>4. TypeOK'
            BY <1>1, <1>2, <2>1, <2>2, <2>3 DEF TypeOK
      <2>5. EntriesOK'
            BY <1>1, <2>1
            DEF EntriesOK, EntryUntilCalled, OneEntryEach, CalledOrHeld, Held, Ended
      <2>6. ConnectionsOK'
            BY <1>1, <2>1, <2>2, <2>3 DEF ServiceOK, ConnectionsOK, Held, Busy
      <2>7. ASSUME NEW v \in Wsis PROVE ReceivedOK(v)'
            <3>1. CASE v = w
                  BY <1>1, <1>2, <2>2, <2>3, <3>1 DEF ReceivedOK
            <3>2. CASE v # w
                  <4>1. phase'[v] = phase[v] /\ left'[v] = left[v]
                        BY <1>2, <2>2, <3>2
                  <4>2. ASSUME phase[v] \in Busy
                        PROVE  /\ size'[requests[v]] = size[requests[v]]
                               /\ requests[v] \in unread' <=> requests[v] \in unread
                        <5>1. Held(v) /\ requests[v] \in Requests
                              BY <1>1, <4>2 DEF ServiceOK, ConnectionsOK, Held, TypeOK
                        <5> QED
                            BY <2>3, <3>2, <5>1
                  <4> QED
                      BY <1>1, <4>1, <4>2 DEF ServiceOK, BodiesOK, ReceivedOK, Busy
            <3> QED
                BY <3>1, <3>2
      <2>8. ServiceOK'
            BY <1>1, <2>3, <2>6, <2>7 DEF ServiceOK, BodiesOK
      <2>9. WholeBody'
            <3>1. called[r] # <<"callback">>
                  BY <2>3
            <3> QED
                BY <1>1, <2>1, <2>3, <3>1 DEF IInv, WholeBody
      <2> QED
          BY <1>1, <2>4, <2>5, <2>8, <2>9 DEF IInv
<1>4. CASE ~HasResponseBody(pieces, length)
      <2>1. Goto(w, "over") /\ EndRequest(w, "callback")
            BY <1>4 DEF Established
      <2>2. length => pieces = 0
            BY <1>4 DEF HasResponseBody
      <2> QED
          BY <1>1, <1>2, <2>1, <2>2, WithoutBodyInv
<1> QED
    BY <1>3, <1>4

\* LWS_CALLBACK_CLIENT_CONNECTION_ERROR of an answer.
LEMMA UnrecognizedCodeInv ==
  ASSUME IInv, NEW w \in Wsis, NEW pieces \in 0 .. MaxPieces, NEW length \in BOOLEAN,
         NEW label \in {"over", "free"}, UnrecognizedCode(w, pieces, length, label)
  PROVE  IInv'
<1>1. left' = left /\ left \in [Wsis -> 0 .. MaxPieces]
      BY DEF UnrecognizedCode, IInv, TypeOK
<1> QED
    BY <1>1, WithoutBodyInv DEF UnrecognizedCode

\* LWS_CALLBACK_RECEIVE_CLIENT_HTTP_READ
LEMMA ReceiveReadInv ==
  ASSUME IInv, NEW w \in Wsis, ReceiveRead(w)
  PROVE  IInv'
<1> USE HttpClientAssumption, Numbers
<1> DEFINE r == requests[w]
<1>1. /\ at = Open /\ running = None /\ TypeOK /\ EntriesOK /\ ServiceOK
      /\ phase[w] = "body" /\ left[w] > 0
      /\ UNCHANGED <<requests, phase, size, unread, asked, called, running, at>>
      BY DEF ReceiveRead, Service, IInv
<1>2. /\ Held(w) /\ r \in Requests /\ r \in asked /\ called[r] = <<>>
      /\ r \notin unread /\ body[r] + left[w] = size[r]
      BY <1>1
      DEF ServiceOK, ConnectionsOK, BodiesOK, ReceivedOK, EntriesOK, EntryUntilCalled,
          Held, Ended, Busy, TypeOK
<1>3. \A v \in Wsis \ {w} : Held(v) => requests[v] # r
      BY <1>1, <1>2 DEF EntriesOK, OneEntryEach, Held
<1>4. /\ left' \in [Wsis -> 0 .. MaxPieces] /\ left'[w] = left[w] - 1
      /\ \A v \in Wsis \ {w} : left'[v] = left[v]
      BY <1>1 DEF ReceiveRead, TypeOK
<1>5. /\ body' \in [Requests -> 0 .. MaxPieces] /\ body'[r] = body[r] + 1
      /\ \A q \in Requests \ {r} : body'[q] = body[q]
      BY <1>1, <1>2 DEF ReceiveRead, TypeOK
<1>6. TypeOK'
      BY <1>1, <1>4, <1>5 DEF TypeOK
<1>7. EntriesOK'
      BY <1>1 DEF EntriesOK, EntryUntilCalled, OneEntryEach, CalledOrHeld, Held, Ended
<1>8. ServiceOK'
      <2>1. ConnectionsOK'
            BY <1>1 DEF ServiceOK, ConnectionsOK, Held
      <2>2. ReceivedOK(w)'
            BY <1>1, <1>2, <1>4, <1>5 DEF ReceivedOK, TypeOK
      <2>3. ASSUME NEW v \in Wsis \ {w} PROVE ReceivedOK(v)'
            <3>1. UNCHANGED <<requests[v], phase[v], left[v], size>>
                  BY <1>1, <1>4
            <3>2. ASSUME phase[v] \in Busy
                  PROVE  body'[requests[v]] = body[requests[v]]
                  <4>1. Held(v) /\ requests[v] \in Requests
                        BY <1>1, <3>2 DEF ServiceOK, ConnectionsOK, Held, TypeOK
                  <4> QED
                      BY <1>3, <1>5, <4>1
            <3> QED
                BY <1>1, <3>1, <3>2 DEF ServiceOK, BodiesOK, ReceivedOK, Busy
      <2> QED
          BY <1>1, <1>2, <1>5, <2>1, <2>2, <2>3 DEF ServiceOK, BodiesOK
<1>9. WholeBody => WholeBody'
      <2>1. SUFFICES ASSUME WholeBody, NEW q \in Requests, called[q] = <<"callback">>
                     PROVE  body'[q] = IF q \in unread THEN 0 ELSE size[q]
            BY <1>1 DEF WholeBody
      <2>2. q # r
            BY <1>2, <2>1
      <2> QED
          BY <1>5, <2>1, <2>2 DEF WholeBody
<1> QED
    BY <1>1, <1>6, <1>7, <1>8, <1>9 DEF IInv

\* requests.erase(), when the callback has returned.
LEMMA ReturnInv ==
  ASSUME IInv, Return
  PROVE  IInv'
<1> USE HttpClientAssumption, Numbers
<1>1. /\ at = Open /\ running # None /\ TypeOK /\ EntriesOK /\ ServiceOK
      /\ requests' = [requests EXCEPT ![running] = None] /\ running' = None
      /\ UNCHANGED <<phase, left, size, body, unread, asked, called, at>>
      BY DEF Return, Erase, IInv
<1>2. /\ running \in Wsis /\ called[requests[running]] # <<>> /\ requests'[running] = None
      /\ requests' \in [Wsis -> Requests \cup {None}]
      /\ \A v \in Wsis \ {running} : requests'[v] = requests[v]
      BY <1>1
      DEF ServiceOK, ConnectionsOK, BodiesOK, ReceivedOK, EntriesOK, EntryUntilCalled,
          Held, Ended, TypeOK
<1>3. TypeOK'
      BY <1>1, <1>2 DEF TypeOK
<1>4. EntryUntilCalled'
      BY <1>1, <1>2 DEF EntriesOK, EntryUntilCalled, Held, Ended
<1>5. OneEntryEach'
      BY <1>1, <1>2 DEF EntriesOK, OneEntryEach, Held, TypeOK
<1>6. CalledOrHeld'
      BY <1>1, <1>2 DEF EntriesOK, CalledOrHeld
<1>7. ServiceOK'
      BY <1>1, <1>2 DEF ServiceOK, ConnectionsOK, BodiesOK, ReceivedOK, Held, Busy
<1>8. WholeBody => WholeBody'
      BY <1>1 DEF WholeBody
<1> QED
    BY <1>1, <1>3, <1>4, <1>5, <1>6, <1>7, <1>8 DEF IInv, EntriesOK

-----------------------------------------------------------------------------
(***************************************************************************)
(* The destructor.                                                         *)
(***************************************************************************)

\* abortPendingRequests() goes on with the first entry that is left.
LEMMA AbortPendingRequestsInv ==
  ASSUME TypeOK, NEW from \in Nat \ {0}, AbortPendingRequests(from),
         UNCHANGED <<phase, left, size, body, unread, asked>>,
         EntriesOK => \A w \in Wsis : Held(w) => (Ended(w) <=> w < from)
  PROVE  /\ TypeOK' /\ DestructorOK' /\ at' # Open
         /\ EntriesOK => EntriesOK'
         /\ WholeBody => WholeBody'
<1> USE HttpClientAssumption, Numbers
<1> DEFINE S == EntriesFrom(from)
<1>1. CASE S # {}
      <2> DEFINE w == Min(S)  r == requests[w]
      <2>1. w \in S /\ \A v \in S : w <= v
            <3>1. S \subseteq Nat
                  BY DEF EntriesFrom
            <3> HIDE DEF S
            <3> QED
                BY <1>1, <3>1, FirstEntry
      <2>2. Call(r, "error") /\ running' = w /\ at' = w /\ requests' = requests
            BY <1>1 DEF AbortPendingRequests
      <2> HIDE DEF w
      <2>3. w \in Wsis /\ w >= from /\ Held(w) /\ r \in Requests
            BY <2>1 DEF EntriesFrom, Held, TypeOK
      <2>4. /\ called' \in [Requests -> Seq({"callback", "error"})]
            /\ called'[r] # <<>> /\ called'[r] # <<"callback">>
            /\ called[r] = <<>> => Len(called'[r]) = 1
            /\ \A q \in Requests \ {r} : called'[q] = called[q]
            BY <2>2, <2>3, CallOnce
      <2>5. TypeOK' /\ DestructorOK' /\ at' # Open
            BY <2>2, <2>3, <2>4 DEF TypeOK, DestructorOK, Open, Destroyed, Wsis
      <2>6. WholeBody => WholeBody'
            BY <2>4 DEF WholeBody
      <2>7. ASSUME EntriesOK PROVE EntriesOK'
            <3>1. r \in asked /\ called[r] = <<>>
                  <4>1. ~(w < from)
                        BY <2>3
                  <4>2. ~Ended(w)
                        BY <2>3, <2>7, <4>1
                  <4> QED
                      BY <2>3, <2>7, <4>2 DEF EntriesOK, EntryUntilCalled
            <3>2. OneEntryEach'
                  BY <2>2, <2>7 DEF EntriesOK, OneEntryEach, Held
            <3>3. ASSUME NEW v \in Wsis, Held(v)
                  PROVE  requests[v] \in asked' /\ (called'[requests[v]] = <<>> <=> ~Ended(v)')
                  <4>1. requests[v] \in Requests /\ requests[v] \in asked
                        BY <2>7, <3>3 DEF EntriesOK, EntryUntilCalled, Held, TypeOK
                  <4>2. Ended(v)' <=> v <= w
                        BY <2>2, <2>3 DEF Ended
                  <4>3. CASE v = w
                        <5>1. v <= w
                              BY <2>3, <4>3
                        <5>2. called'[requests[v]] # <<>>
                              BY <2>4, <4>3
                        <5> QED
                            BY <4>1, <4>2, <5>1, <5>2
                  <4>4. CASE v # w
                        <5>1. requests[v] # r
                              BY <2>3, <2>7, <3>3, <4>4 DEF EntriesOK, OneEntryEach
                        <5>2. called'[requests[v]] = called[requests[v]]
                              BY <2>4, <4>1, <5>1
                        <5>3. called[requests[v]] = <<>> <=> v >= from
                              <6>1. Ended(v) <=> v < from
                                    BY <2>7, <3>3
                              <6>2. v < from <=> ~(v >= from)
                                    BY <2>3
                              <6>3. called[requests[v]] = <<>> <=> ~Ended(v)
                                    BY <2>7, <3>3 DEF EntriesOK, EntryUntilCalled
                              <6> QED
                                  BY <6>1, <6>2, <6>3
                        <5>4. v >= from => v > w
                              BY <2>1, <2>3, <3>3, <4>4 DEF EntriesFrom, Held
                        <5>5. v > w => v >= from
                              BY <2>3
                        <5>6. v > w <=> ~(v <= w)
                              BY <2>3
                        <5> QED
                            BY <4>1, <4>2, <5>2, <5>3, <5>4, <5>5, <5>6
                  <4> QED
                      BY <4>3, <4>4
            <3>4. EntryUntilCalled'
                  BY <2>2, <3>3 DEF EntryUntilCalled, Held
            <3>5. ASSUME NEW q \in Requests
                  PROVE  /\ Len(called'[q]) <= 1
                         /\ q \notin asked' => called'[q] = <<>>
                         /\ called'[q] = <<>> => q # r
                  <4>1. CASE q = r
                        <5>1. q \in asked' /\ called'[q] # <<>>
                              BY <2>4, <3>1, <4>1
                        <5>2. Len(called'[q]) = 1
                              BY <2>4, <3>1, <4>1
                        <5> QED
                            BY <5>1, <5>2
                  <4>2. CASE q # r
                        BY <2>4, <2>7, <4>2 DEF EntriesOK, CalledOrHeld
                  <4> QED
                      BY <4>1, <4>2
            <3>6. CalledOrHeld'
                  BY <2>2, <2>4, <2>7, <3>5 DEF EntriesOK, CalledOrHeld
            <3> QED
                BY <3>2, <3>4, <3>6 DEF EntriesOK
      <2> QED
          BY <2>5, <2>6, <2>7
<1>2. CASE S = {}
      <2>1. /\ requests' = [w \in Wsis |-> None] /\ at' = Destroyed /\ running' = None
            /\ called' = called
            BY <1>2 DEF AbortPendingRequests
      <2>2. TypeOK' /\ DestructorOK' /\ at' # Open
            BY <2>1 DEF TypeOK, DestructorOK, Open, Destroyed
      <2>3. WholeBody => WholeBody'
            BY <2>1 DEF WholeBody
      <2>4. ASSUME EntriesOK PROVE EntriesOK'
            <3>1. \A w \in Wsis : ~Held(w)'
                  BY <2>1 DEF Held
            <3>2. \A w \in Wsis : Held(w) => w < from
                  BY <1>2 DEF EntriesFrom, Held
            <3>3. \A w \in Wsis : Held(w) => called[requests[w]] # <<>>
                  BY <2>4, <3>2 DEF EntriesOK, EntryUntilCalled
            <3>4. \A q \in Requests \cap asked : called[q] # <<>>
                  BY <2>4, <3>3 DEF EntriesOK, CalledOrHeld, Held
            <3> QED
                BY <2>1, <2>4, <3>1, <3>4
                DEF EntriesOK, EntryUntilCalled, OneEntryEach, CalledOrHeld
      <2> QED
          BY <2>2, <2>3, <2>4
<1> QED
    BY <1>1, <1>2

LEMMA DestroyInv == IInv /\ Destroy => IInv'
<1> SUFFICES ASSUME IInv, Destroy PROVE IInv'
    OBVIOUS
<1>1. /\ TypeOK /\ EntriesOK /\ running = None /\ at = Open /\ AbortPendingRequests(1)
      /\ UNCHANGED <<phase, left, size, body, unread, asked>>
      BY DEF Destroy, IInv
<1>2. \A w \in Wsis : Ended(w) <=> w < 1
      BY <1>1, Numbers DEF Ended, Wsis
<1>3. /\ TypeOK' /\ DestructorOK' /\ at' # Open /\ EntriesOK'
      /\ WholeBody => WholeBody'
      BY <1>1, <1>2, AbortPendingRequestsInv
<1> QED
    BY <1>3 DEF IInv

LEMMA ReturnToDestructorInv == IInv /\ ReturnToDestructor => IInv'
<1> SUFFICES ASSUME IInv, ReturnToDestructor PROVE IInv'
    OBVIOUS
<1>1. /\ TypeOK /\ (~LateRequests => EntriesOK) /\ at # Open
      /\ at \in Wsis /\ AbortPendingRequests(at + 1)
      /\ UNCHANGED <<phase, left, size, body, unread, asked>>
      BY DEF ReturnToDestructor, IInv, DestructorOK
<1>2. at + 1 \in Nat \ {0} /\ \A w \in Wsis : Ended(w) <=> w < at + 1
      BY <1>1, Numbers, HttpClientAssumption DEF Ended
<1>3. /\ TypeOK' /\ DestructorOK' /\ at' # Open
      /\ EntriesOK => EntriesOK'
      /\ WholeBody => WholeBody'
      BY <1>1, <1>2, AbortPendingRequestsInv
<1> QED
    BY <1>1, <1>3 DEF IInv

-----------------------------------------------------------------------------
(***************************************************************************)
(* The theorems.                                                           *)
(***************************************************************************)
LEMMA LwsInv ==
  ASSUME IInv, NEW w \in Wsis, Lws(w)
  PROVE  IInv'
<1>1. ASSUME AppendHandshakeHeader(w) PROVE IInv'
      BY <1>1, NextPhaseInv DEF AppendHandshakeHeader, Service
<1>2. ASSUME WriteBody(w) PROVE IInv'
      BY <1>2, NextPhaseInv DEF WriteBody, Service
<1>3. ASSUME Completed(w) PROVE IInv'
      <2>1. TypeOK /\ ReceivedOK(w) /\ phase[w] = "body" /\ left[w] = 0
            BY <1>3 DEF Completed, Service, IInv, ServiceOK, BodiesOK
      <2>2. Held(w) => requests[w] \notin unread /\ body[requests[w]] = size[requests[w]]
            BY <2>1 DEF ReceivedOK, TypeOK, Held
      <2> QED
          BY <1>3, <2>2, LastCallbackInv DEF Completed, Service, Phases
<1>4. ASSUME Closed(w) PROVE IInv'
      BY <1>4, LastCallbackInv DEF Closed, Service
<1>5. ASSUME NEW label \in {"over", "free"}, ConnectionError(w, label) PROVE IInv'
      BY <1>5, LastCallbackInv DEF ConnectionError, Service, Phases
<1> QED
    BY <1>1, <1>2, <1>3, <1>4, <1>5, EstablishedInv, UnrecognizedCodeInv, ReceiveReadInv
    DEF Lws

LEMMA InvNext == IInv /\ [Next]_vars => IInv'
<1> SUFFICES ASSUME IInv, [Next]_vars PROVE IInv'
    OBVIOUS
<1>1. CASE UNCHANGED vars
      BY <1>1
      DEF vars, IInv, TypeOK, EntriesOK, EntryUntilCalled, OneEntryEach, CalledOrHeld, Held,
          Ended, ServiceOK, ConnectionsOK, BodiesOK, ReceivedOK, DestructorOK, WholeBody
<1> QED
    BY <1>1, StartRequestInv, StartRequestFailsInv, LwsInv, ReturnInv, DestroyInv,
       ReturnToDestructorInv
    DEF Next

LEMMA Invariant == Spec => []IInv
BY InvInit, InvNext, PTL DEF Spec

\* Every variable keeps its type.
THEOREM TypeCorrect == Spec => []TypeOK
<1>1. IInv => TypeOK
      BY DEF IInv
<1> QED
    BY <1>1, Invariant, PTL

\* client.cpp:67-115, 185-249: whatever libwebsockets reports in which
\* order, and however often, and whether the answer or the destructor comes
\* first, one callback of a request is called, once; unless a callback starts
\* requests while the Client is destroyed.
THEOREM CalledBackOnce == ~LateRequests => (Spec => []OneCallback)
<1>1. SUFFICES ASSUME ~LateRequests PROVE Spec => []OneCallback
      OBVIOUS
<1>2. IInv => OneCallback
      BY <1>1 DEF IInv, EntriesOK, CalledOrHeld, OneCallback
<1> QED
    BY <1>1, <1>2, Invariant, PTL

\* client.cpp:196-244: what uses the request without looking finds one.
THEOREM RequestsFound == Spec => []CallbackHasRequest
<1>1. IInv => CallbackHasRequest
      BY DEF IInv, ServiceOK, ConnectionsOK, CallbackHasRequest, Busy, Held
<1> QED
    BY <1>1, Invariant, PTL

\* requestHandler.cpp:56: the callback is given all of the body of an answer with
\* a Content-Length and a code that is recognized, and none of that of another,
\* whenever the connection breaks.
THEOREM BodiesWhole == Spec => []WholeBody
<1>1. IInv => WholeBody
      BY DEF IInv
<1> QED
    BY <1>1, Invariant, PTL
===============================================================================
