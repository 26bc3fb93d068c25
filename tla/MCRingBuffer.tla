---------------------------- MODULE MCRingBuffer ----------------------------
(***************************************************************************)
(* An instance of RingBuffer for TLC: three elements tell every order of a *)
(* buffer of three slots apart.                                            *)
(***************************************************************************)
EXTENDS RingBuffer, TLC

CONSTANTS a, b, c

MCElements == {a, b, c}
Symmetry == Permutations(MCElements)
=============================================================================
