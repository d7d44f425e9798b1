------------------------ MODULE MCCancellableReceiver ------------------------
(***************************************************************************)
(* Small instances of CancellableReceiver: which request carries which id, *)
(* and which ids clients cancel.                                           *)
(***************************************************************************)
EXTENDS CancellableReceiver, TLC

CONSTANTS r1, r2, n1, id1, id2, t1, t2

\* Two requests with ids of their own, and a notification.
OwnIds == r1 :> id1 @@ r2 :> id2 @@ n1 :> NoId

\* Two clients that both count their ids from zero.
SameId == r1 :> id1 @@ r2 :> id1

\* Requests of one client.
DistinctIds == r1 :> id1 @@ r2 :> id2

OneRequest == r1 :> id1
=============================================================================
