--------------------------- MODULE MCSocketClient ---------------------------
(***************************************************************************)
(* Two clients that are interchangeable.                                   *)
(***************************************************************************)
EXTENDS SocketClient, TLC

Symmetry == Permutations(Clients)
=============================================================================
