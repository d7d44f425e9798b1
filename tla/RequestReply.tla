----------------------------- MODULE RequestReply -----------------------------
(***************************************************************************)
(* What a JSON-RPC receiver with cancellable requests promises its         *)
(* clients: a request with an id gets at most one reply, the answer of the *)
(* application or the error "Request aborted", and the latter only when    *)
(* the client asked for it after sending the request.                      *)
(* CancellableReceiver implements it.                                      *)
(***************************************************************************)
EXTENDS Naturals

CONSTANT Calls    \* the requests that carry an id

VARIABLES accepted, asked, results, aborts

vars == <<accepted, asked, results, aborts>>

Init ==
  /\ accepted = {}
  /\ asked = {}
  /\ results = [c \in Calls |-> 0]
  /\ aborts = [c \in Calls |-> 0]

\* A request arrives.
Accept(c) ==
  /\ c \notin accepted
  /\ accepted' = accepted \cup {c}
  /\ UNCHANGED <<asked, results, aborts>>

\* A cancel arrives, for the requests it names among those that have arrived.
Ask(C) ==
  /\ C \subseteq accepted
  /\ asked' = asked \cup C
  /\ UNCHANGED <<accepted, results, aborts>>

Open(c) == c \in accepted /\ results[c] = 0 /\ aborts[c] = 0

Answer(c) ==
  /\ Open(c)
  /\ results' = [results EXCEPT ![c] = 1]
  /\ UNCHANGED <<accepted, asked, aborts>>

Abort(c) ==
  /\ Open(c)
  /\ c \in asked
  /\ aborts' = [aborts EXCEPT ![c] = 1]
  /\ UNCHANGED <<accepted, asked, results>>

Next ==
  \/ \E c \in Calls : Accept(c) \/ Answer(c) \/ Abort(c)
  \/ \E C \in SUBSET Calls : Ask(C)

Spec == Init /\ [][Next]_vars
=============================================================================
