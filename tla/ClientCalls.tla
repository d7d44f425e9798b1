------------------------------ MODULE ClientCalls ------------------------------
(***************************************************************************)
(* What the JSON-RPC clients in Python and in JavaScript have in common:   *)
(* an application makes calls, whose messages go over websockets that are  *)
(* made one after another, each of which a server answers once.            *)
(***************************************************************************)
EXTENDS Naturals

CONSTANTS
  Calls,      \* the calls of request() and batch()
  Batches,    \* which of them are batches
  Silent,     \* and which are batches of notifications, which have no answer
  Answers,    \* what a server answers: a "value", "falsy" for 0, false, null or
              \* an empty value, an "error", and what a client takes for another
  MaxSockets  \* bound: the websockets that are made

ASSUME CallsAssumption ==
  /\ Batches \subseteq Calls
  /\ Silent \subseteq Batches
  /\ MaxSockets \in Nat

VARIABLES
  socket,     \* the states of the websockets
  answered    \* what the server has answered to a call

Sockets == 1 .. MaxSockets
Unused == {k \in Sockets : socket[k] = "unused"}
===============================================================================
