------------------------------ MODULE MCInputs ------------------------------
(***************************************************************************)
(* The state of a run that checks functions: which of them are looked at,  *)
(* and their inputs, the first one chosen before the second one.  A pair   *)
(* that was picked is let go again: the properties say of this step what   *)
(* the functions make of the pair.                                         *)
(***************************************************************************)
VARIABLES part, left, right, picked

vars == <<part, left, right, picked>>

Picked(p) == picked /\ part = p

LetGo == picked /\ picked' = FALSE /\ right' = 0 /\ UNCHANGED <<part, left>>
=============================================================================
