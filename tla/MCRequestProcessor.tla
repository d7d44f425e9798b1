-------------------------- MODULE MCRequestProcessor --------------------------
(***************************************************************************)
(* Messages of one value or object, and batches of them, for TLC.          *)
(***************************************************************************)
EXTENDS RequestProcessor
===============================================================================
