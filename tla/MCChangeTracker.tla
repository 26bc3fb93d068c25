-------------------------- MODULE MCChangeTracker --------------------------
(***************************************************************************)
(* An instance of ChangeTracker for TLC.                                   *)
(***************************************************************************)
EXTENDS ChangeTracker

CONSTANTS t1, t2

MCThreads == {t1, t2}
=============================================================================
