----------------------------- MODULE MCHttpClient -----------------------------
(***************************************************************************)
(* Instances of HttpClient for TLC.                                        *)
(***************************************************************************)
EXTENDS HttpClient, TLC

CONSTANTS r1, r2, r3

ThreeRequests == {r1, r2, r3}
===============================================================================
