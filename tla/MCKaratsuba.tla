---------------------------- MODULE MCKaratsuba ----------------------------
(***************************************************************************)
(* WideInteger at a width that leads Karatsuba's recursion to an odd       *)
(* size.  In the code it ends at t = 48 limbs, and 49 * 128 bits, in limbs *)
(* of 32 bits, are 4 * (t + 1) limbs, which are halved to 2 * (t + 1) and  *)
(* to t + 1.  Here t is 2.  The factors are powers of the base of the      *)
(* limbs.                                                                  *)
(***************************************************************************)
EXTENDS Integers

VARIABLES left, right, picked

W == INSTANCE WideInteger WITH LimbBits <- 4, number_of_limbs <- 12, IsSigned <- FALSE,
        KaratsubaFrom <- 9, SchoolUpTo <- 2, Unrolled <- {4, 8}, SkipZeros <- FALSE

Exponents == 0..11

Init == left \in Exponents /\ right = 0 /\ picked = FALSE
Next ==
    /\ ~picked /\ picked' = TRUE
    /\ right' \in Exponents
    /\ UNCHANGED left
Spec == Init /\ [][Next]_<<left, right, picked>>

\* The limb at the given index is 1.
Power(e) == [k \in 0..11 |-> IF k = e THEN 1 ELSE 0]

\* "The Karatsuba multipliation computes the product of u*v" (uintwide_t.h)
\* at every width that the class admits: the halves of an odd size leave out
\* its last limb.
KaratsubaExact ==
    picked => W!eval_mul_unary(Power(left), Power(right)) = Power(left + right)
=============================================================================
