------------------------------- MODULE MCFile -------------------------------
(***************************************************************************)
(* Two Files that are interchangeable.                                     *)
(***************************************************************************)
EXTENDS File, TLC

Symmetry == Permutations(Files)
=============================================================================
