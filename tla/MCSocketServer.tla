--------------------------- MODULE MCSocketServer ---------------------------
(***************************************************************************)
(* SocketServer for TLC.                                                   *)
(***************************************************************************)
EXTENDS SocketServer, TLC

AllFrames == [conn : Clients, n : 1 .. MaxReq, kind : Kinds]

ClientSymmetry == Permutations(Clients)
=============================================================================
