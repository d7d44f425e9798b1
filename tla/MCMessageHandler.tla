--------------------------- MODULE MCMessageHandler ---------------------------
(***************************************************************************)
(* Small instances of MessageHandler: the handler of a client, and of a    *)
(* server with two connections.                                            *)
(***************************************************************************)
EXTENDS MessageHandler

CONSTANTS c1, c2
=============================================================================
