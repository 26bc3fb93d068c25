--------------------------- MODULE MCSocketServer ---------------------------
(***************************************************************************)
(* Instances of SocketServer for TLC.                                      *)
(***************************************************************************)
EXTENDS SocketServer, TLC

CONSTANTS w1, w2, acceptor, owner, other

MCWorkers == {w1, w2}
Symmetry == Permutations(MCWorkers)

\* disconnectClients() from a thread that is not the one that shuts down ...
MCOtherDisconnects == {other}
\* ... and from the same thread.
MCOwnerDisconnects == {owner}

\* The odd clients stay connected between requests.
MCKeepAlive == {k \in 1..MaxClients : k % 2 = 1}
=============================================================================
