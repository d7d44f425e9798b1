----------------------------- MODULE MCRpcSystem -----------------------------
(***************************************************************************)
(* Instances of RpcSystem for TLC: two clients, the first with two calls   *)
(* that can be cancelled and the second with one that cannot, whose        *)
(* connections may be at the same address one after the other.             *)
(***************************************************************************)
EXTENDS RpcSystem, TLC

CONSTANTS a1, a2, c1, c2, c3, p1, p2

Callers == (c1 :> a1) @@ (c2 :> a1) @@ (c3 :> a2)
==============================================================================
