----------------------------- MODULE MCRequester -----------------------------
(***************************************************************************)
(* Small instances of Requester.  The calls of request() are alike.        *)
(***************************************************************************)
EXTENDS Requester, TLC

CONSTANTS a, b, c, d

Symmetry == Permutations(Requests)
=============================================================================
