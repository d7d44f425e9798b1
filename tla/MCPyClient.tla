------------------------------ MODULE MCPyClient ------------------------------
(***************************************************************************)
(* Instances of PyClient for TLC: a request and a batch.                   *)
(***************************************************************************)
EXTENDS PyClient

CONSTANTS c1, c2

TwoCalls == {c1, c2}
OneBatch == {c2}
===============================================================================
