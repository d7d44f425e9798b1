---------------------------- MODULE MCServerLocks ----------------------------
(***************************************************************************)
(* A small instance of ServerLocks: a request that can be cancelled and    *)
(* one that cannot, in every way they can be sent and handled.             *)
(***************************************************************************)
EXTENDS ServerLocks

CONSTANTS t1, t2, r1, r2
=============================================================================
