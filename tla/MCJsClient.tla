------------------------------ MODULE MCJsClient ------------------------------
(***************************************************************************)
(* Instances of JsClient for TLC: a request, a batch and the batch that    *)
(* cancels it.                                                             *)
(***************************************************************************)
EXTENDS JsClient

CONSTANTS c1, c2, c3
===============================================================================
