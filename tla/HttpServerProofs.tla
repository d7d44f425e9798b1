--------------------------- MODULE HttpServerProofs ---------------------------
(***************************************************************************)
(* Proofs about HttpServer, for any number of connections and bodies in    *)
(* any number of pieces: the callbacks of the server throw none of their   *)
(* errors, whatever the application puts into its promises or throws, and  *)
(* every request is answered at most once.  And about                      *)
(* HttpRouting: with a registry that changes meanwhile all of that still   *)
(* holds, and every request is served by the endpoint it is to reach.      *)
(***************************************************************************)
EXTENDS HttpRouting, TLAPS, WellFoundedInduction

\* A connection in the middle of a request has an entry; what the entry says of
\* the response agrees with what was written, and a writable callback is
\* requested only when there is something to write.
EntryOK(w) ==
  LET c == connections[w] IN
    /\ c # None
    /\ c.set => calls[w] <= 1
    /\ ~c.set => calls[w] = 0
    /\ c.headersSent => c.finalized
    /\ c.finalized /\ c.set => c.headersSent
    /\ headers[w] = IF c.headersSent THEN 1 ELSE 0
    /\ bodies[w] = 0 /\ ~c.bodySent
    /\ wants[w] => IsResponseSet(c) /\ (c.headersSent => c.hasBody)
    /\ CanHaveHttpBody(c.request) /\ calls[w] > 0 => left[w] = 0

\* What is left of a request whose response was written, or will never be.
DoneOK(w) ==
  /\ headers[w] <= 1 /\ bodies[w] <= headers[w]
  /\ calls[w] <= 1
  /\ connections[w] # None /\ CanHaveHttpBody(connections[w].request)
       /\ calls[w] > 0 => left[w] = 0

ConnOK(w) ==
  /\ phase[w] \in {"body", "reply"} => EntryOK(w)
  /\ phase[w] = "body" =>
       (CanHaveHttpBody(connections[w].request) <=> ~IsResponseSet(connections[w]))
  /\ phase[w] \in {"idle", "closing", "closed"} => DoneOK(w) /\ ~wants[w]
  /\ phase[w] = "closed" => connections[w] = None

IInv == TypeOK /\ ~thrown /\ \A w \in Wsis : ConnOK(w)

-----------------------------------------------------------------------------
\* A step of one connection leaves the others alone.
LEMMA Others ==
  ASSUME NEW v \in Wsis, ConnOK(v),
         UNCHANGED <<connections[v], phase[v], left[v], wants[v], calls[v],
                     headers[v], bodies[v]>>
  PROVE  ConnOK(v)'
BY DEF ConnOK, EntryOK, DoneOK

\* What there may be of the answer of an application that was called.
Futures == {"pending", "value", "empty", "broken", "exception"}

LEMMA NewIsConnection ==
  ASSUME NEW r \in Request
  PROVE  New(r) \in Connection
BY DEF New, Connection

\* The connections the operations make of one another are connections.
LEMMA Answering ==
  ASSUME NEW c \in Connection, NEW f \in Futures
  PROVE  /\ [c EXCEPT !.future = f, !.set = TRUE] \in Connection
         /\ [c EXCEPT !.future = f, !.set = TRUE] # None
<1>1. [c EXCEPT !.future = f, !.set = TRUE] \in Connection
      BY DEF Connection, Futures
<1> QED
    BY <1>1, HttpAssumption

\* What prepareResponse() does to a connection without a response.
LEMMA Prepared ==
  ASSUME NEW w \in Wsis, NEW c \in Connection,
         NEW before \in Nat, ~IsResponseSet(c), PrepareResponse(w, c, before)
  PROVE  \E n \in {0, 1}, f \in Futures :
           /\ calls' = [calls EXCEPT ![w] = before + n]
           /\ connections' =
                [connections EXCEPT ![w] = [c EXCEPT !.future = f, !.set = TRUE]]
           /\ wants' = [wants EXCEPT ![w] = TRUE]
           /\ thrown' = thrown
<1>1. PICK n \in {0, 1}, f \in Outcomes \cup {"pending", "value", "empty"} :
        /\ calls' = [calls EXCEPT ![w] = before + n]
        /\ Set(w, [c EXCEPT !.future = f, !.set = TRUE])
        /\ RequestWriteCallback(w)
        /\ thrown' = thrown
      BY Zenon DEF PrepareResponse, SetResponse
<1>2. f \in Futures
      BY HttpAssumption DEF Futures
<1> QED
    BY <1>1, <1>2, Zenon DEF Set, RequestWriteCallback

LEMMA IInvInit == Init => IInv
<1> SUFFICES ASSUME Init PROVE IInv
    OBVIOUS
<1>1. TypeOK /\ ~thrown
      BY DEF Init, TypeOK, Phases
<1>2. ASSUME NEW w \in Wsis PROVE ConnOK(w)
      <2>1. /\ connections[w] = None /\ phase[w] = "closed" /\ ~wants[w]
            /\ calls[w] = 0 /\ headers[w] = 0 /\ bodies[w] = 0
            BY DEF Init
      <2> QED
          BY <2>1 DEF ConnOK, DoneOK
<1> QED
    BY <1>1, <1>2 DEF IInv

\* After a step of w that keeps the types and throws nothing, w is what there
\* is to look at.
LEMMA OneConnection ==
  ASSUME IInv, TypeOK', ~thrown', NEW w \in Wsis, ConnOK(w)',
         \A v \in Wsis \ {w} :
           UNCHANGED <<connections[v], phase[v], left[v], wants[v], calls[v],
                       headers[v], bodies[v]>>
  PROVE  IInv'
<1> SUFFICES ASSUME NEW v \in Wsis PROVE ConnOK(v)'
    BY DEF IInv
<1>1. CASE v = w
      BY <1>1
<1>2. CASE v # w
      BY <1>2, Others DEF IInv
<1> QED
    BY <1>1, <1>2

\* The process may end in the middle of any callback.
LEMMA EndStep ==
  ASSUME IInv, ended' = TRUE,
         UNCHANGED <<connections, phase, left, wants, calls, headers, bodies, thrown>>
  PROVE  IInv'
BY DEF IInv, TypeOK, ConnOK, EntryOK, DoneOK

LEMMA HttpStep ==
  ASSUME IInv, NEW w \in Wsis, NEW r \in Request,
         NEW n \in 0 .. MaxChunks, Http(w, r, n)
  PROVE  IInv'
<1> USE DEF IInv, TypeOK, Request, Phases
<1>1. /\ phase' = [phase EXCEPT ![w] = IF r.length \/ r.method = "POST"
                                         THEN "body" ELSE "reply"]
      /\ left' = [left EXCEPT ![w] = n]
      /\ headers' = [headers EXCEPT ![w] = 0]
      /\ bodies' = [bodies EXCEPT ![w] = 0]
      /\ UNCHANGED ended
      /\ HandleNewRequest(w, New(r))
      BY DEF Http, Goto
<1>2. New(r) \in Connection /\ ~IsResponseSet(New(r)) /\ New(r).request = r
      BY NewIsConnection DEF New, IsResponseSet
<1>3. n \in Nat
      BY HttpAssumption
<1> DEFINE c == connections'[w]
<1>4. CASE IsCorsPreflight(r)
      <2> DEFINE d == [New(r) EXCEPT !.finalized = TRUE]
      <2>1. d \in Connection /\ d # None
            BY <1>2, HttpAssumption DEF Connection
      <2>2. /\ connections' = [connections EXCEPT ![w] = d]
            /\ wants' = [wants EXCEPT ![w] = TRUE]
            /\ calls' = [calls EXCEPT ![w] = 0]
            /\ thrown' = thrown
            BY <1>1, <1>2, <1>4 DEF HandleNewRequest, Set, RequestWriteCallback,
                                    PrepareCorsPreflightResponse
      <2>3. TypeOK' /\ ~thrown'
            BY <1>1, <1>3, <2>1, <2>2
      <2>4. /\ d.request = r /\ ~d.set /\ d.finalized /\ ~d.headersSent
            /\ ~d.bodySent /\ d.future = "none"
            BY DEF New
      <2>5. ConnOK(w)'
            BY <1>1, <1>4, <2>1, <2>2, <2>4
               DEF ConnOK, EntryOK, IsResponseSet, CanHaveHttpBody,
                   IsCorsPreflight
      <2> QED
          BY <1>1, <2>2, <2>3, <2>5, OneConnection
<1>5. CASE ~IsCorsPreflight(r) /\ CanHaveHttpBody(r)
      <2>1. /\ connections' = [connections EXCEPT ![w] = New(r)]
            /\ wants' = wants
            /\ calls' = [calls EXCEPT ![w] = 0]
            /\ thrown' = thrown
            BY <1>1, <1>2, <1>5 DEF HandleNewRequest, Set
      <2>2. TypeOK' /\ ~thrown'
            BY <1>1, <1>2, <1>3, <2>1
      <2>3. ~wants[w]
            BY DEF Http, ConnOK
      <2>4. /\ c = New(r) /\ c # None /\ c.request = r /\ ~c.set /\ ~c.finalized
            /\ ~c.headersSent /\ ~c.bodySent /\ c.future = "none"
            BY <1>2, <2>1, HttpAssumption DEF New
      <2>5. phase'[w] = "body"
            BY <1>1, <1>5 DEF CanHaveHttpBody
      <2>6. headers'[w] = 0 /\ bodies'[w] = 0 /\ calls'[w] = 0 /\ ~wants'[w]
            BY <1>1, <2>1, <2>3
      <2>7. ConnOK(w)'
            BY <1>5, <2>4, <2>5, <2>6
               DEF ConnOK, EntryOK, IsResponseSet, CanHaveHttpBody
      <2> QED
          BY <1>1, <2>1, <2>2, <2>7, OneConnection
<1>6. CASE ~IsCorsPreflight(r) /\ ~CanHaveHttpBody(r)
      <2>1. PrepareResponse(w, New(r), 0)
            BY <1>1, <1>2, <1>6 DEF HandleNewRequest
      <2>2. PICK k \in {0, 1}, f \in Futures :
              /\ calls' = [calls EXCEPT ![w] = 0 + k]
              /\ connections' =
                   [connections EXCEPT ![w] = [New(r) EXCEPT !.future = f,
                                                             !.set = TRUE]]
              /\ wants' = [wants EXCEPT ![w] = TRUE]
              /\ thrown' = thrown
            BY <1>2, <2>1, Prepared
      <2>3. c = [New(r) EXCEPT !.future = f, !.set = TRUE] /\ calls'[w] = k
            BY <2>2
      <2>4. /\ c.request = r /\ c.set /\ ~c.finalized /\ ~c.headersSent
            /\ ~c.bodySent /\ c.future = f
            BY <2>3 DEF New
      <2> DEFINE d == [New(r) EXCEPT !.future = f, !.set = TRUE]
      <2>5. d \in Connection /\ d # None
            BY <1>2, Answering
      <2>6. TypeOK' /\ ~thrown'
            BY <1>1, <1>3, <2>2, <2>5
      <2>7. ConnOK(w)'
            BY <1>1, <1>6, <2>2, <2>3, <2>4, <2>5
               DEF ConnOK, EntryOK, IsResponseSet, CanHaveHttpBody
      <2> QED
          BY <1>1, <2>2, <2>6, <2>7, OneConnection
<1> QED
    BY <1>4, <1>5, <1>6

LEMMA HttpAgainStep ==
  ASSUME IInv, NEW w \in Wsis, HttpAgain(w)
  PROVE  IInv'
<1> USE DEF IInv, TypeOK, Phases
<1>1. /\ phase' = [phase EXCEPT ![w] = "closing"]
      /\ UNCHANGED <<connections, left, wants, calls, headers, bodies, thrown, ended>>
      BY DEF HttpAgain, Goto
<1>2. phase[w] = "idle" /\ ConnOK(w)
      BY DEF HttpAgain
<1>3. TypeOK' /\ ~thrown'
      BY <1>1
<1>4. ConnOK(w)'
      BY <1>1, <1>2 DEF ConnOK, DoneOK
<1> QED
    BY <1>1, <1>3, <1>4, OneConnection

LEMMA BodyStep ==
  ASSUME IInv, NEW w \in Wsis, Body(w)
  PROVE  IInv'
<1> USE DEF IInv, TypeOK
<1>1. /\ phase[w] = "body" /\ left[w] > 0
      /\ left' = [left EXCEPT ![w] = @ - 1]
      /\ thrown' = (connections[w] = None)
      /\ UNCHANGED <<connections, phase, wants, calls, headers, bodies, ended>>
      BY DEF Body
<1>2. ConnOK(w) /\ connections[w] # None
      BY <1>1 DEF ConnOK, EntryOK
<1>3. TypeOK' /\ ~thrown'
      BY <1>1, <1>2
<1>4. ConnOK(w)'
      BY <1>1, <1>2 DEF ConnOK, EntryOK
<1> QED
    BY <1>1, <1>3, <1>4, OneConnection

LEMMA BodyCompletionStep ==
  ASSUME IInv, NEW w \in Wsis, BodyCompletion(w)
  PROVE  IInv'
<1> USE DEF IInv, TypeOK, Phases
<1> DEFINE c == connections[w]
<1>1. /\ phase[w] = "body" /\ left[w] = 0
      /\ phase' = [phase EXCEPT ![w] = "reply"]
      /\ UNCHANGED <<left, headers, bodies, ended>>
      BY DEF BodyCompletion, Goto
<1>2. ConnOK(w) /\ EntryOK(w) /\ c # None /\ c \in Connection
      BY <1>1 DEF ConnOK, EntryOK
<1>3. PrepareResponse(w, c, calls[w])
      BY <1>2 DEF BodyCompletion
<1>4. CASE ~CanHaveHttpBody(c.request)
      <2>1. UNCHANGED <<connections, wants, calls, thrown>>
            BY <1>1, <1>2, <1>3, <1>4 DEF PrepareResponse, ConnOK
      <2>2. TypeOK' /\ ~thrown'
            BY <1>1, <2>1
      <2>3. ConnOK(w)'
            BY <1>1, <1>2, <2>1 DEF ConnOK, EntryOK
      <2> QED
          BY <1>1, <2>1, <2>2, <2>3, OneConnection
<1>5. CASE CanHaveHttpBody(c.request)
      <2>1. ~IsResponseSet(c)
            BY <1>1, <1>2, <1>5 DEF ConnOK
      <2>2. calls[w] = 0 /\ calls[w] \in Nat
            BY <1>2, <2>1 DEF EntryOK, IsResponseSet
      <2>3. PICK k \in {0, 1}, f \in Futures :
              /\ calls' = [calls EXCEPT ![w] = calls[w] + k]
              /\ connections' =
                   [connections EXCEPT ![w] = [c EXCEPT !.future = f,
                                                        !.set = TRUE]]
              /\ wants' = [wants EXCEPT ![w] = TRUE]
              /\ thrown' = thrown
            BY <1>2, <1>3, <2>1, <2>2, Prepared
      <2> DEFINE d == [c EXCEPT !.future = f, !.set = TRUE]
      <2>4. d \in Connection /\ d # None
            BY <1>2, Answering
      <2>5. /\ d.request = c.request /\ d.set /\ d.finalized = c.finalized
            /\ d.headersSent = c.headersSent /\ d.bodySent = c.bodySent
            /\ d.hasBody = c.hasBody /\ d.future = f
            BY <1>2 DEF Connection
      <2>6. TypeOK' /\ ~thrown'
            BY <1>1, <2>2, <2>3, <2>4
      <2>7. connections'[w] = d /\ calls'[w] = k
            BY <2>2, <2>3
      <2>8. ConnOK(w)'
            BY <1>1, <1>2, <2>1, <2>3, <2>4, <2>5, <2>7
               DEF ConnOK, EntryOK, IsResponseSet
      <2> QED
          BY <1>1, <2>3, <2>6, <2>8, OneConnection
<1> QED
    BY <1>4, <1>5

LEMMA OutsideSteps ==
  ASSUME IInv, NEW w \in Wsis,
         WriteableUnknown(w) \/ Open(w) \/ Closed(w) \/ Fulfil(w)
  PROVE  IInv'
<1> USE DEF IInv, TypeOK, Phases
<1>1. CASE WriteableUnknown(w)
      <2>1. /\ phase[w] # "closed" /\ connections[w] = None
            /\ wants' = [wants EXCEPT ![w] = FALSE]
            /\ UNCHANGED <<connections, phase, left, calls, headers, bodies, thrown, ended>>
            BY <1>1 DEF WriteableUnknown
      <2>2. TypeOK' /\ ~thrown'
            BY <2>1
      <2>3. ConnOK(w)'
            BY <2>1 DEF ConnOK, EntryOK, DoneOK
      <2> QED
          BY <2>1, <2>2, <2>3, OneConnection
<1>2. CASE Open(w)
      <2>1. /\ phase[w] = "closed" /\ phase' = [phase EXCEPT ![w] = "idle"]
            /\ UNCHANGED <<connections, left, wants, calls, headers, bodies, thrown, ended>>
            BY <1>2 DEF Open, Goto
      <2>2. TypeOK' /\ ~thrown'
            BY <2>1
      <2>3. ConnOK(w)'
            BY <2>1 DEF ConnOK, DoneOK
      <2> QED
          BY <2>1, <2>2, <2>3, OneConnection
<1>3. CASE Closed(w)
      <2>1. /\ phase' = [phase EXCEPT ![w] = "closed"]
            /\ connections' = [connections EXCEPT ![w] = None]
            /\ wants' = [wants EXCEPT ![w] = FALSE]
            /\ UNCHANGED <<left, calls, headers, bodies, thrown, ended>>
            BY <1>3 DEF Closed, Goto, Set
      <2>2. TypeOK' /\ ~thrown'
            BY <2>1
      <2>3. headers[w] <= 1 /\ bodies[w] <= headers[w] /\ calls[w] <= 1
            BY DEF ConnOK, EntryOK, DoneOK
      <2>4. ConnOK(w)'
            BY <2>1, <2>3 DEF ConnOK, DoneOK
      <2> QED
          BY <2>1, <2>2, <2>4, OneConnection
<1>4. CASE Fulfil(w)
      <2> DEFINE c == connections[w]
      <2>1. c # None /\ c.future = "pending" /\ c \in Connection /\ ConnOK(w)
            BY <1>4 DEF Fulfil
      <2>2. PICK o \in Outcomes :
              connections' = [connections EXCEPT ![w] = [c EXCEPT !.future = o]]
            BY <1>4 DEF Fulfil, Set
      <2>3. UNCHANGED <<phase, left, wants, calls, headers, bodies, thrown, ended>>
            BY <1>4 DEF Fulfil
      <2>4. o \in {"value", "empty", "broken", "exception"}
            BY HttpAssumption
      <2> DEFINE d == [c EXCEPT !.future = o]
      <2>5. d \in Connection
            BY <2>1, <2>4 DEF Connection
      <2>6. d # None
            BY <2>5, HttpAssumption
      <2>7. /\ d.request = c.request /\ d.set = c.set
            /\ d.finalized = c.finalized /\ d.headersSent = c.headersSent
            /\ d.bodySent = c.bodySent /\ d.hasBody = c.hasBody /\ d.future = o
            BY <2>1 DEF Connection
      <2>8. connections'[w] = d
            BY <2>2
      <2>9. TypeOK' /\ ~thrown'
            BY <2>2, <2>3, <2>5
      <2>10. ConnOK(w)'
            BY <2>1, <2>3, <2>4, <2>6, <2>7, <2>8
               DEF ConnOK, EntryOK, DoneOK, IsResponseSet, CanHaveHttpBody
      <2> QED
          BY <2>2, <2>3, <2>9, <2>10, OneConnection
<1> QED
    BY <1>1, <1>2, <1>3, <1>4

\* The response of c is over: it was written, or could not be.
LEMMA Ended ==
  ASSUME IInv, NEW w \in Wsis, NEW c \in Connection,
         Completed(w, c) \/ WriteFails(w, c),
         UNCHANGED <<left, calls, thrown, ended>>,
         headers' \in [Wsis -> Nat], bodies' \in [Wsis -> Nat],
         \A v \in Wsis \ {w} : UNCHANGED <<headers[v], bodies[v]>>,
         headers'[w] <= 1, bodies'[w] <= headers'[w], calls[w] <= 1,
         CanHaveHttpBody(c.request) /\ calls[w] > 0 => left[w] = 0
  PROVE  IInv'
<1> USE DEF IInv, TypeOK, Phases
<1>1. PICK p \in {"closing", "idle"}, e \in {None, c} :
        /\ phase' = [phase EXCEPT ![w] = p]
        /\ connections' = [connections EXCEPT ![w] = e]
        /\ wants' = [wants EXCEPT ![w] = FALSE]
      BY DEF Completed, WriteFails, Set, Goto
<1>2. TypeOK' /\ ~thrown'
      BY <1>1
<1>3. ConnOK(w)'
      BY <1>1 DEF ConnOK, DoneOK
<1> QED
    BY <1>1, <1>2, <1>3, OneConnection

\* writeResponseHeaders() throws nothing, and the entry notes what it wrote.
LEMMA HeadersStep ==
  ASSUME IInv, NEW w \in Wsis, phase[w] \in {"body", "reply"},
         UNCHANGED <<left, calls>>, IsResponseSet(connections[w]),
         ~connections[w].headersSent,
         WriteResponseHeaders(w, connections[w])
  PROVE  IInv'
<1> USE DEF IInv, TypeOK, Phases
<1> DEFINE c == connections[w]
<1>1. ConnOK(w) /\ EntryOK(w) /\ c \in Connection /\ c # None
      BY DEF ConnOK, EntryOK
<1>2. ~(c.headersSent \/ c.bodySent)
      BY <1>1 DEF EntryOK
<1>7. CASE Finalization(c) = "exception"
      <2>1. FutureThrows
            BY <1>2, <1>7 DEF WriteResponseHeaders
      <2> QED
          BY <2>1, EndStep DEF FutureThrows
<1> SUFFICES ASSUME Finalization(c) # "exception" PROVE IInv'
    BY <1>7
<1>3. PICK d \in Connection :
        /\ d.request = c.request /\ d.future = c.future /\ d.set = c.set
        /\ d.finalized /\ d.headersSent /\ d.bodySent = c.bodySent
        /\ UNCHANGED <<thrown, ended, bodies>>
        /\ \/ WriteFails(w, d) /\ UNCHANGED headers
           \/ /\ headers' = [headers EXCEPT ![w] = @ + 1]
              /\ IF d.hasBody
                   THEN Set(w, d) /\ RequestWriteCallback(w) /\ UNCHANGED phase
                   ELSE Completed(w, d)
      <2> DEFINE sent == [c EXCEPT !.headersSent = TRUE, !.finalized = TRUE,
                                   !.hasBody = (Finalization(c) = "value")]
      <2>1. /\ sent \in Connection /\ sent.request = c.request
            /\ sent.future = c.future /\ sent.set = c.set
            /\ sent.finalized /\ sent.headersSent /\ sent.bodySent = c.bodySent
            BY <1>1 DEF Connection
      <2>2. /\ UNCHANGED <<thrown, ended, bodies>>
            /\ \/ WriteFails(w, sent) /\ UNCHANGED headers
               \/ /\ headers' = [headers EXCEPT ![w] = @ + 1]
                  /\ IF sent.hasBody
                       THEN Set(w, sent) /\ RequestWriteCallback(w)
                            /\ UNCHANGED phase
                       ELSE Completed(w, sent)
            BY <1>2, Zenon DEF WriteResponseHeaders, HeadersWritten
      <2> HIDE DEF sent
      <2> QED
          BY <2>1, <2>2
<1>4. d # None
      BY HttpAssumption
<1>5. headers[w] = 0 /\ bodies[w] = 0 /\ calls[w] <= 1
      BY <1>1, <1>3 DEF EntryOK
<1>6. CanHaveHttpBody(d.request) /\ calls[w] > 0 => left[w] = 0
      BY <1>1, <1>3 DEF EntryOK
<1>8. CASE WriteFails(w, d) /\ UNCHANGED headers
      <2>1. headers'[w] = 0 /\ bodies'[w] = 0
            BY <1>3, <1>5, <1>8
      <2>2. /\ headers' \in [Wsis -> Nat] /\ bodies' \in [Wsis -> Nat]
            /\ \A v \in Wsis \ {w} : UNCHANGED <<headers[v], bodies[v]>>
            BY <1>3, <1>8
      <2> QED
          BY <1>3, <1>5, <1>6, <1>8, <2>1, <2>2, Ended
<1>9. CASE headers' = [headers EXCEPT ![w] = @ + 1] /\ Completed(w, d)
      <2>1. headers'[w] = 1 /\ bodies'[w] = 0
            BY <1>3, <1>5, <1>9
      <2>2. /\ headers' \in [Wsis -> Nat] /\ bodies' \in [Wsis -> Nat]
            /\ \A v \in Wsis \ {w} : UNCHANGED <<headers[v], bodies[v]>>
            BY <1>3, <1>9
      <2> QED
          BY <1>3, <1>5, <1>6, <1>9, <2>1, <2>2, Ended
<1>10. CASE /\ headers' = [headers EXCEPT ![w] = @ + 1] /\ d.hasBody
            /\ Set(w, d) /\ RequestWriteCallback(w) /\ UNCHANGED phase
      <2>1. /\ connections' = [connections EXCEPT ![w] = d]
            /\ wants' = [wants EXCEPT ![w] = TRUE]
            /\ UNCHANGED <<phase, bodies, thrown, ended>>
            BY <1>3, <1>10 DEF Set, RequestWriteCallback
      <2>2. TypeOK' /\ ~thrown'
            BY <1>10, <2>1
      <2>3. headers'[w] = 1 /\ connections'[w] = d
            BY <1>5, <1>10, <2>1
      <2>4. IsResponseSet(d)
            BY <1>3 DEF IsResponseSet
      <2>5. ConnOK(w)'
            BY <1>1, <1>3, <1>4, <1>10, <2>1, <2>3, <2>4
               DEF ConnOK, EntryOK
      <2> QED
          BY <1>10, <2>1, <2>2, <2>5, OneConnection
<1> QED
    BY <1>3, <1>8, <1>9, <1>10

LEMMA WriteableStep ==
  ASSUME IInv, NEW w \in Wsis, Writeable(w)
  PROVE  IInv'
<1> USE DEF IInv, TypeOK, Phases
<1> DEFINE c == connections[w]
<1>1. /\ phase[w] \in {"body", "reply"} /\ wants[w]
      /\ WriteResponse(w, c)
      /\ UNCHANGED <<left, calls>>
      BY DEF Writeable
<1>2. ConnOK(w) /\ EntryOK(w) /\ c \in Connection
      BY <1>1 DEF ConnOK, EntryOK
<1>3. IsResponseSet(c) /\ (c.headersSent => c.hasBody)
      BY <1>1, <1>2 DEF EntryOK
<1>4. CASE ~IsResponseReady(c)
      <2>1. /\ wants' = [wants EXCEPT ![w] = TRUE]
            /\ UNCHANGED <<connections, phase, headers, bodies, thrown, ended>>
            BY <1>1, <1>3, <1>4 DEF WriteResponse, KeepPolling,
                                    RequestWriteCallback
      <2>2. TypeOK' /\ ~thrown'
            BY <1>1, <2>1
      <2>3. ConnOK(w)'
            BY <1>1, <1>2, <1>3, <2>1 DEF ConnOK, EntryOK
      <2> QED
          BY <1>1, <2>1, <2>2, <2>3, OneConnection
<1>5. CASE IsResponseReady(c) /\ ~c.headersSent
      <2>1. WriteResponseHeaders(w, c)
            BY <1>1, <1>3, <1>5 DEF WriteResponse
      <2> QED
          BY <1>1, <1>3, <1>5, <2>1, HeadersStep
<1>6. CASE IsResponseReady(c) /\ c.headersSent
      <2> DEFINE sent == [c EXCEPT !.bodySent = TRUE]
      <2>1. WriteResponseBody(w, c) /\ c.hasBody /\ ~c.bodySent
            BY <1>1, <1>2, <1>3, <1>6 DEF WriteResponse, EntryOK
      <2>2. /\ UNCHANGED <<headers, thrown, ended>>
            /\ \/ WriteFails(w, sent) /\ UNCHANGED bodies
               \/ bodies' = [bodies EXCEPT ![w] = @ + 1] /\ Completed(w, sent)
            BY <2>1, Zenon DEF WriteResponseBody
      <2>3. /\ sent \in Connection /\ sent.request = c.request
            /\ sent.future = c.future
            BY <1>2 DEF Connection
      <2>4. headers[w] = 1 /\ bodies[w] = 0 /\ calls[w] <= 1
                BY <1>2, <1>6 DEF EntryOK
      <2>5. headers'[w] = 1 /\ bodies'[w] <= 1
            BY <2>2, <2>4
      <2>6. /\ UNCHANGED <<thrown, ended>>
            /\ Completed(w, sent) \/ WriteFails(w, sent)
            BY <2>2
      <2>7. /\ headers' \in [Wsis -> Nat] /\ bodies' \in [Wsis -> Nat]
            /\ \A v \in Wsis \ {w} : UNCHANGED <<headers[v], bodies[v]>>
            BY <2>2
      <2> HIDE DEF sent
      <2>9. CanHaveHttpBody(sent.request) /\ calls[w] > 0 => left[w] = 0
            BY <1>2, <2>3 DEF EntryOK
      <2> QED
          BY <1>1, <2>3, <2>4, <2>5, <2>6, <2>7, <2>9, Ended
<1> QED
    BY <1>4, <1>5, <1>6

-----------------------------------------------------------------------------
LEMMA IInvNext == IInv /\ [Next]_vars => IInv'
<1> SUFFICES ASSUME IInv, [Next]_vars
             PROVE  IInv'
    OBVIOUS
<1>1. CASE UNCHANGED vars
      BY <1>1 DEF vars, IInv, TypeOK, ConnOK, EntryOK, DoneOK
<1>2. CASE Next
      <2>1. PICK w \in Wsis :
              \/ \E r \in Request, n \in 0 .. MaxChunks : Http(w, r, n)
              \/ HttpAgain(w) \/ Body(w) \/ BodyCompletion(w)
              \/ GenerationEnds(w)
              \/ Writeable(w) \/ WriteableUnknown(w)
              \/ Open(w) \/ Closed(w) \/ Fulfil(w)
            BY <1>2, Zenon DEF Next
      <2>2. CASE \E r \in Request, n \in 0 .. MaxChunks : Http(w, r, n)
            BY <2>2, HttpStep
      <2>3. CASE HttpAgain(w)
            BY <2>3, HttpAgainStep
      <2>4. CASE Body(w)
            BY <2>4, BodyStep
      <2>5. CASE BodyCompletion(w)
            BY <2>5, BodyCompletionStep
      <2>6. CASE Writeable(w)
            BY <2>6, WriteableStep
      <2>7. CASE WriteableUnknown(w) \/ Open(w) \/ Closed(w) \/ Fulfil(w)
            BY <2>7, OutsideSteps
      <2>8. CASE GenerationEnds(w)
            BY <2>8, EndStep DEF GenerationEnds
      <2> QED
          BY <2>1, <2>2, <2>3, <2>4, <2>5, <2>6, <2>7, <2>8
<1> QED
    BY <1>1, <1>2

\* The invariant says what the properties say of every connection.
LEMMA IInvImplies ==
  IInv => TypeOK /\ NothingThrown /\ AnsweredOnce /\ CalledWithWholeBody
<1> SUFFICES ASSUME IInv
             PROVE  TypeOK /\ NothingThrown /\ AnsweredOnce /\ CalledWithWholeBody
    OBVIOUS
<1>1. TypeOK /\ NothingThrown
      BY DEF IInv, NothingThrown
<1>2. ASSUME NEW w \in Wsis PROVE DoneOK(w)
      <2>1. phase[w] \in Phases /\ ConnOK(w)
            BY DEF IInv, TypeOK
      <2>2. CASE phase[w] \in {"body", "reply"}
            BY <2>1, <2>2 DEF ConnOK, EntryOK, DoneOK
      <2> QED
          BY <2>1, <2>2 DEF Phases, ConnOK
<1> QED
    BY <1>1, <1>2 DEF DoneOK, AnsweredOnce, CalledWithWholeBody

LEMMA IInvHolds == Spec => []IInv
BY IInvInit, IInvNext, PTL DEF Spec

\* Every variable has its type.
THEOREM TypeCorrect == Spec => []TypeOK
BY IInvHolds, IInvImplies, PTL

\* connection.cpp:27-34, connectionHandler.cpp:90: none of the errors of a
\* response that is set, or written, too often or too early is thrown, whatever
\* the application answers or throws.
THEOREM NothingIsThrown == Spec => []NothingThrown
BY IInvHolds, IInvImplies, PTL

\* connectionHandler.cpp:99: a request is answered at most once, headers first.
THEOREM AnswersOnce == Spec => []AnsweredOnce
BY IInvHolds, IInvImplies, PTL

\* connectionHandler.cpp:64, :80: the application is called at most once for a
\* request, and with the whole of its body.
THEOREM CallsWithWholeBody == Spec => []CalledWithWholeBody
BY IInvHolds, IInvImplies, PTL

-----------------------------------------------------------------------------
(***************************************************************************)
(* The endpoints.  A server with endpoints is a server: what is proved of  *)
(* HttpServer holds of HttpRouting, whoever registers and removes them.    *)
(***************************************************************************)

\* server.cpp:145-225: the calls of handle() and remove() that come between the
\* callbacks change nothing of the connections, and a callback that searches the
\* registry is a callback.
THEOREM EndpointsKeepServer == RoutingSpec => Spec
<1>1. RoutingInit => Init
      BY DEF RoutingInit
<1>2. [RoutingNext]_routingVars => [Next]_vars
      BY DEF RoutingNext, Callback, AddEndpoint, RemoveEndpoint, routingVars, vars
<1> QED
    BY <1>1, <1>2, PTL DEF RoutingSpec, Spec

\* The invariant: the registry, the paths and the routes have their types.
RegistryOK ==
  /\ registry \in [Methods -> SUBSET Names]
  /\ path \in [Wsis -> Paths \cup {<<>>}]
  /\ route = [w \in Wsis |-> route[w]]

LEMMA RegistryNext ==
  ASSUME RegistryOK, [RoutingNext]_routingVars
  PROVE  RegistryOK'
<1>1. ASSUME NEW w \in Wsis, Callback(w) PROVE RegistryOK'
      <2>1. path' \in [Wsis -> Paths \cup {<<>>}]
            BY <1>1 DEF RegistryOK, Callback, KeepsPath
      <2>2. \E to : route' = [route EXCEPT ![w] = to] \/ route' = route
            BY <1>1 DEF Callback, Routes
      <2>3. route' = [v \in Wsis |-> route'[v]]
            BY <2>2 DEF RegistryOK
      <2> QED
          BY <1>1, <2>1, <2>3 DEF RegistryOK, Callback
<1>2. ASSUME NEW e \in Names, NEW m \in Methods, AddEndpoint(m, e) PROVE RegistryOK'
      BY <1>2 DEF RegistryOK, AddEndpoint
<1>3. ASSUME NEW e \in Names, RemoveEndpoint(e) PROVE RegistryOK'
      BY <1>3 DEF RegistryOK, RemoveEndpoint
<1>4. CASE UNCHANGED routingVars
      BY <1>4 DEF RegistryOK, routingVars
<1> QED
    BY <1>1, <1>2, <1>3, <1>4 DEF RoutingNext

(***************************************************************************)
(* What _find() finds.                                                     *)
(***************************************************************************)

LEMMA PathsAreSequences == Paths \cup {<<>>} \subseteq Seq(Characters)
<1>1. <<>> \in Seq(Characters)
      OBVIOUS
<1> QED
    BY <1>1, RoutingAssumption

\* What is left of a path completes the endpoint it begins with.
LEMMA RestCompletes ==
  ASSUME NEW e \in Seq(Characters), NEW p \in Seq(Characters), BeginsWith(p, e)
  PROVE  /\ e \o SubSeq(p, Len(e) + 1, Len(p)) = p
         /\ Len(e) <= Len(p)
BY DEF BeginsWith, IsPrefix

\* Of the endpoints that a path begins with there is a longest.
LEMMA LongestIsFound ==
  ASSUME RegistryOK, NEW m, NEW p \in Seq(Characters),
         NEW e \in Registered(m), BeginsWith(p, e)
  PROVE  Find(m, p) # {}
<1> DEFINE Found == {f \in Registered(m) : BeginsWith(p, f)}
           Left(f) == Len(p) - Len(f)
           Lefts == {Left(f) : f \in Found}
           R == OpToRel(<, Nat)
<1>1. \A f \in Found : f \in Seq(Characters) /\ Len(f) <= Len(p)
      BY RoutingAssumption, RestCompletes DEF RegistryOK, Registered
<1>2. Lefts \subseteq Nat /\ Left(e) \in Lefts
      BY <1>1
<1>3. \A j, k \in Nat : j < k => <<j, k>> \in R
      BY DEF OpToRel
<1>4. IsWellFoundedOn(R, Nat)
      BY NatLessThanWellFounded
<1> HIDE DEF R, Lefts
<1>5. PICK k \in Lefts : \A j \in Lefts : ~(<<j, k>> \in R)
      BY <1>2, <1>4, WFMin
<1>6. PICK f \in Found : k = Left(f)
      BY DEF Lefts
<1>7. ASSUME NEW g \in Found PROVE Len(g) <= Len(f)
      <2>1. Left(g) \in Lefts
            BY DEF Lefts
      <2>2. ~(Left(g) < Left(f))
            BY <1>2, <1>3, <1>5, <1>6, <2>1
      <2> QED
          BY <1>1, <2>2
<1> QED
    BY <1>7 DEF Find

\* A path that is registered as it is, is served.
LEMMA ExactIsServed ==
  ASSUME RegistryOK, NEW m, NEW p \in Paths \cup {<<>>}, p \in Registered(m)
  PROVE  \E e \in FindEndpoint(m, p) : Serves(e, p)
<1>1. p \in Seq(Characters) /\ p # Root
      BY PathsAreSequences, RoutingAssumption DEF Root
<1>2. BeginsWith(p, p)
      BY <1>1 DEF BeginsWith, IsPrefix
<1>3. \A f \in Registered(m) : BeginsWith(p, f) => Len(f) <= Len(p)
      BY <1>1, RoutingAssumption, RestCompletes DEF RegistryOK, Registered
<1>4. p \in FindEndpoint(m, p)
      BY <1>2, <1>3 DEF Find, FindEndpoint
<1>5. Serves(p, p)
      BY <1>1 DEF Serves, RemoveEndpointFromPath
<1> QED
    BY <1>4, <1>5

\* The endpoint that findEndpoint() finds is the most specific one, and what it
\* finds in the path is the rest of it.
LEMMA FoundIsMostSpecific ==
  ASSUME RegistryOK, NEW m, NEW p \in Paths \cup {<<>>}, NEW e \in FindEndpoint(m, p)
  PROVE  /\ e \in Registered(m)
         /\ \/ e \o RemoveEndpointFromPath(e, p) = p
            \/ e = Root /\ RemoveEndpointFromPath(e, p) = p
         /\ \A f \in Registered(m) : IsPrefix(f, p) => Len(f) <= Len(e)
<1>1. p \in Seq(Characters)
      BY PathsAreSequences
<1>2. \A f \in Registered(m) : f \in Seq(Characters)
      BY RoutingAssumption DEF RegistryOK, Registered
<1>3. ASSUME NEW f \in Registered(m), IsPrefix(f, p), ~BeginsWith(p, f)
      PROVE  Len(f) = 0
      BY <1>2, <1>3 DEF BeginsWith
<1>4. CASE e \in Find(m, p)
      <2>1. e \in Registered(m) /\ BeginsWith(p, e)
            BY <1>4 DEF Find
      <2>2. \A f \in Registered(m) : BeginsWith(p, f) => Len(f) <= Len(e)
            BY <1>4 DEF Find
      <2>3. e \o RemoveEndpointFromPath(e, p) = p \/ (e = Root /\ RemoveEndpointFromPath(e, p) = p)
            BY <1>1, <1>2, <2>1, RestCompletes DEF RemoveEndpointFromPath
      <2> QED
          BY <1>2, <1>3, <2>1, <2>2, <2>3
<1>5. CASE Find(m, p) = {} /\ e \in Registered(m) \cap {Root}
      <2>1. \A f \in Registered(m) : ~BeginsWith(p, f)
            BY <1>1, <1>5, LongestIsFound
      <2> QED
          BY <1>2, <1>3, <1>5, <2>1 DEF RemoveEndpointFromPath
<1> QED
    BY <1>4, <1>5 DEF FindEndpoint

(***************************************************************************)
(* _generateResponse().                                                    *)
(***************************************************************************)

\* WellRouted, of a request for method m and path p that is routed to this.
IsRoutedWell(m, p, to) ==
  /\ to.by = "endpoint" =>
       /\ to.endpoint \in Registered(m)
       /\ to.endpoint \o to.rest = p \/ (to.endpoint = Root /\ to.rest = p)
       /\ \A e \in Registered(m) : IsPrefix(e, p) => Len(e) <= Len(to.endpoint)
  /\ to.by \in {"not found", "not supported"} =>
       /\ p \notin Registered(m)
       /\ to.by = "not supported" <=> (\E n \in Methods : p \in Registered(n))

LEMMA RoutedWell ==
  ASSUME RegistryOK, NEW m, NEW p \in Paths \cup {<<>>}, NEW filtered \in BOOLEAN,
         NEW to, to = GenerateResponse(m, p, filtered)
  PROVE  IsRoutedWell(m, p, to)
<1> USE DEF IsRoutedWell
<1> DEFINE Serving == {e \in FindEndpoint(m, p) : Serves(e, p)}
<1>1. CASE filtered
      BY <1>1 DEF GenerateResponse, By, Unrouted
<1>2. CASE ~filtered /\ m = "GET" /\ p = Registry
      BY <1>2 DEF GenerateResponse, By, Unrouted
<1>3. CASE ~filtered /\ ~(m = "GET" /\ p = Registry) /\ Serving # {}
      <2> DEFINE e == CHOOSE x \in Serving : TRUE
      <2>1. e \in FindEndpoint(m, p)
            BY <1>3
      <2>2. to = [by |-> "endpoint", endpoint |-> e, rest |-> RemoveEndpointFromPath(e, p)]
            BY <1>3 DEF GenerateResponse
      <2> HIDE DEF e
      <2> QED
          BY <2>1, <2>2, FoundIsMostSpecific
<1>4. CASE ~filtered /\ ~(m = "GET" /\ p = Registry) /\ Serving = {}
      <2>1. p \notin Registered(m)
            BY <1>4, ExactIsServed
      <2>2. to = By(IF AllowedMethods(p) = {} THEN "not found" ELSE "not supported")
            BY <1>4 DEF GenerateResponse
      <2>3. AllowedMethods(p) # {} <=> \E n \in Methods : p \in Registered(n)
            BY DEF AllowedMethods, Registered
      <2> QED
          BY <2>1, <2>2, <2>3 DEF By, Unrouted
<1> QED
    BY <1>1, <1>2, <1>3, <1>4

\* registry.h:61, connectionHandler.cpp:129: for any set of endpoints, registered
\* and removed at any time, a request goes to the most specific one registered
\* for its method when its response is generated, or to nobody when there is
\* none, and the endpoint finds the rest of the path.
THEOREM RoutesAsRegistered == RoutingSpec => CalledAsRegistered
<1>1. RoutingInit => RegistryOK
      BY DEF RoutingInit, RegistryOK
<1>2. RegistryOK /\ [RoutingNext]_routingVars => RegistryOK'
      BY RegistryNext
<1>3. RegistryOK /\ RegistryOK' /\ [RoutingNext]_routingVars =>
        [\A w \in Wsis :
           Generates(w) /\ connections'[w].request.method # "ALL"
             => WellRouted(w)]_routingVars
      <2>1. SUFFICES ASSUME RegistryOK, RegistryOK', RoutingNext,
                            NEW w \in Wsis, Generates(w),
                            connections'[w].request.method # "ALL"
                     PROVE  WellRouted(w)
            OBVIOUS
      <2>2. connections' # connections
            BY <2>1 DEF Generates
      <2>3. PICK v \in Wsis : Callback(v)
            BY <2>1, <2>2 DEF RoutingNext, AddEndpoint, RemoveEndpoint, vars
      <2>4. v = w
            BY <2>1, <2>3 DEF Callback, Generates
      <2>5. PICK m, p : m = connections'[w].request.method /\ p = path'[w]
            OBVIOUS
      <2>6. PICK to \in Routings(m, p) : route' = [route EXCEPT ![w] = to]
            BY <2>1, <2>3, <2>4, <2>5, Zenon DEF Callback, Routes
      <2>7. PICK filtered \in BOOLEAN : to = GenerateResponse(m, p, filtered)
            BY <2>1, <2>5, <2>6, Zenon DEF Routings
      <2>10. route'[w] = to
            BY <2>1, <2>6 DEF RegistryOK
      <2>8. p \in Paths \cup {<<>>}
            BY <2>1, <2>5 DEF RegistryOK
      <2>9. IsRoutedWell(m, p, to)
            BY <2>1, <2>7, <2>8, RoutedWell, Zenon
      <2> QED
          BY <2>5, <2>9, <2>10, Zenon DEF WellRouted, IsRoutedWell
<1> QED
    BY <1>1, <1>2, <1>3, PTL DEF RoutingSpec, CalledAsRegistered
=============================================================================
