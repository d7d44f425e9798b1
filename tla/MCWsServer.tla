------------------------------ MODULE MCWsServer ------------------------------
(***************************************************************************)
(* Small instances of WsServer: connections spread over service threads.   *)
(***************************************************************************)
EXTENDS WsServer, TLC

CONSTANTS c1, c2, t1, t2, a, b

TwoThreads == c1 :> t1 @@ c2 :> t2
=============================================================================
