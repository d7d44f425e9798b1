------------------------------ MODULE RemoteCall ------------------------------
(***************************************************************************)
(* What a JSON-RPC client of Rockets is promised of a call: the method is  *)
(* executed at most once, and the call returns at most once: what the      *)
(* method answered, that it was aborted, which somebody must have asked    *)
(* for, or that the client was destroyed.  RpcSystem implements it.        *)
(***************************************************************************)
EXTENDS Naturals

CONSTANT Calls

VARIABLES called, executed, finished, asked, result

vars == <<called, executed, finished, asked, result>>

Init ==
  /\ called = {}
  /\ executed = [c \in Calls |-> 0]
  /\ finished = {}
  /\ asked = {}
  /\ result = [c \in Calls |-> "none"]

Call(c) ==
  /\ c \notin called
  /\ called' = called \cup {c}
  /\ UNCHANGED <<executed, finished, asked, result>>

Execute(c) ==
  /\ c \in called
  /\ executed[c] = 0
  /\ executed' = [executed EXCEPT ![c] = 1]
  /\ UNCHANGED <<called, finished, asked, result>>

Finish(c) ==
  /\ executed[c] = 1
  /\ finished' = finished \cup {c}
  /\ UNCHANGED <<called, executed, asked, result>>

Ask(c) ==
  /\ c \in called
  /\ asked' = asked \cup {c}
  /\ UNCHANGED <<called, executed, finished, result>>

Return(c) ==
  /\ result[c] = "none"
  /\ \/ c \in finished /\ result' = [result EXCEPT ![c] = "answer"]
     \/ c \in asked /\ result' = [result EXCEPT ![c] = "abort"]
  /\ UNCHANGED <<called, executed, finished, asked>>

\* The destructor of a client ends the calls C.
Destroy(C) ==
  /\ \A c \in C : c \in called /\ result[c] = "none"
  /\ result' = [c \in Calls |-> IF c \in C THEN "destroyed" ELSE result[c]]
  /\ UNCHANGED <<called, executed, finished, asked>>

Next ==
  \/ \E c \in Calls : Call(c) \/ Execute(c) \/ Finish(c) \/ Ask(c) \/ Return(c)
  \/ \E C \in SUBSET Calls : Destroy(C)

Spec == Init /\ [][Next]_vars
=============================================================================
