---------------------------- MODULE MCFunctions ----------------------------
(***************************************************************************)
(* One run for the parts of the library that compute and keep no state, or *)
(* only the variables of an evaluator: wide integers, expressions, texts   *)
(* and checksums.  A behaviour picks a part with its first input, then its *)
(* second one, and lets the pair go.                                       *)
(***************************************************************************)
EXTENDS MCWideInteger, MCMathEvaluator, MCText, MCCrc

Init == WideInit \/ MathInit \/ TextInit \/ CrcInit

Next == WideNext \/ MathNext \/ TextNext \/ CrcNext \/ LetGo

Spec == Init /\ [][Next]_vars
=============================================================================
