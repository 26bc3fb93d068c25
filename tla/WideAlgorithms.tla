--------------------------- MODULE WideAlgorithms ---------------------------
(***************************************************************************)
(* The functions that types/uintwide_t.h builds on its integer class:      *)
(* quotient and remainder, roots by Newton's iteration, powers, greatest   *)
(* common divisors and the test of Miller and Rabin.                       *)
(***************************************************************************)
EXTENDS WideInteger, Sequences

\* double_width_type
Double == INSTANCE WideInteger WITH number_of_limbs <- 2 * number_of_limbs

One == FromUnsigned(1)
AtLeast(a, b) == a = b \/ compare(a, b) = 1

-----------------------------------------------------------------------------
(* Quotient and remainder of a division that rounds down.                  *)

divmod(a, b) ==
    LET d == eval_divide_knuth(abs(a), abs(b))
        up == preincrement(d.quotient)
        over == Subtract(d.remainder, abs(b), FALSE)
        exact == is_zero(d.remainder)
    IN  IF is_neg(a) = is_neg(b)
        THEN [first |-> d.quotient,
              second |-> IF is_neg(a) THEN negate(d.remainder) ELSE d.remainder]
        ELSE LET r == IF exact THEN d.remainder ELSE over
             IN  [first |-> negate(IF exact THEN d.quotient ELSE up),
                  second |-> IF is_neg(b) THEN r ELSE negate(r)]

\* operator% by an unsigned limb: the complement of the remainder of the
\* magnitude, plus one, in the limb.
RemainderByLimb(u, v) ==
    LET r == eval_divide_by_single_limb(abs(u), v, 0).remainder[0]
    IN  IF is_neg(u) THEN make_lo((LimbBase - 1 - r) + 1) ELSE r

-----------------------------------------------------------------------------
(* Roots.                                                                  *)

\* A wrong one: a start that may lie below the root, from where the first
\* step goes up and ends the iteration.
NewtonStartLow(m, k) == ShiftLeft(One, msb(m) \div k)
\* 2 to the power of one more than the size of the root, rounded up.
NewtonStart(m, k) == ShiftLeft(One, 1 + (msb(m) + k - 1) \div k)

RECURSIVE DivideRepeatedly(_, _, _)
DivideRepeatedly(m, s, times) ==
    IF times = 0 THEN m ELSE DivideRepeatedly(Divide(m, s, FALSE), s, times - 1)

NewtonStep(m, k, s) ==
    IF k = 2 THEN ShiftRight(Add(s, Divide(m, s, FALSE)), 1)
    ELSE Divide(Add(eval_mul_unary(s, FromUnsigned(k - 1)), DivideRepeatedly(m, s, k - 1)),
                FromUnsigned(k), FALSE)

\* At most 64 steps, which end when the guess no longer becomes smaller; after
\* 64 of them the guess is returned as it is, be it the root or not.
RECURSIVE Newton(_, _, _, _)
Newton(m, k, s, i) ==
    LET u == NewtonStep(m, k, s)
    IN  IF AtLeast(u, s) \/ i = 63 THEN s ELSE Newton(m, k, u, i + 1)

sqrt(m) == IF is_zero(m) \/ is_neg(m) THEN Zero ELSE Newton(m, 2, NewtonStart(m, 2), 0)

\* Does not return for the smallest signed number, which negate() leaves
\* negative.
RECURSIVE cbrt(_)
cbrt(m) ==
    CASE is_neg(m) -> negate(cbrt(negate(m)))
      [] is_zero(m) -> Zero
      [] OTHER -> Newton(m, 3, NewtonStart(m, 3), 0)

rootk(m, k) ==
    CASE k < 2 -> m
      [] k = 2 -> sqrt(m)
      [] k = 3 -> cbrt(m)
      [] OTHER -> IF is_zero(m) \/ is_neg(m) THEN Zero ELSE Newton(m, k, NewtonStart(m, k), 0)

-----------------------------------------------------------------------------
(* Powers: a square and, for each bit of p that is set, a product.         *)

RECURSIVE PowLoop(_, _, _)
PowLoop(result, y, p) ==
    IF p = 0 THEN result
    ELSE PowLoop(IF p % 2 = 1 THEN eval_mul_unary(result, y) ELSE result,
                 eval_mul_unary(y, y), p \div 2)

pow(b, p) ==
    CASE p = 0 -> One
      [] p = 1 -> b
      [] p = 2 -> eval_mul_unary(b, b)
      [] OTHER -> PowLoop(One, b, p)

\* The same in the double width, with the remainder by m after each product.
Widen(x) == Double!Resize(x, number_of_limbs, IsSigned)
Narrow(x) == Resize(x, 2 * number_of_limbs, IsSigned)
MultiplyModulo(x, y, m) == Double!Remainder(Double!eval_mul_unary(x, y), m, FALSE)

RECURSIVE PowmLoop(_, _, _, _)
PowmLoop(x, y, p, m) ==
    IF is_zero(p) THEN x
    ELSE PowmLoop(IF p[0] % 2 = 1 THEN MultiplyModulo(x, y, m) ELSE x,
                  MultiplyModulo(y, y, m), ShiftRight(p, 1), m)

powm(b, p, m) ==
    CASE is_zero(p) -> IF m = One THEN Zero ELSE One
      [] p = One -> Remainder(b, m, FALSE)
      [] p = FromUnsigned(2) -> Narrow(MultiplyModulo(Widen(b), Widen(b), Widen(m)))
      [] OTHER -> Narrow(PowmLoop(Double!FromUnsigned(1), Widen(b), p, Widen(m)))

-----------------------------------------------------------------------------
(* Greatest common divisor and least common multiple.                      *)

\* Binary reduction of built-in values.
ctz_unsafe(v) == Max({i \in 0..30 : v % 2 ^ i = 0})
RECURSIVE ReduceOdd(_, _)
ReduceOdd(u, v) ==
    IF v = 0 THEN u
    ELSE LET w == v \div 2 ^ ctz_unsafe(v)
         IN  ReduceOdd(Min({u, w}), Max({u, w}) - Min({u, w}))
gcd_unsafe(u, v) ==
    CASE u = 0 -> v
      [] u # 0 /\ v = 0 -> u
      [] OTHER -> LET shift == Min({ctz_unsafe(u), ctz_unsafe(v)})
                  IN  2 ^ shift * ReduceOdd(u \div 2 ^ ctz_unsafe(u), v \div 2 ^ shift)

\* Binary reduction of odd numbers, until the larger one fits a double limb.
LowLimbs(x) == make_large(x[0], IF number_of_limbs >= 2 THEN x[1] ELSE 0)
RECURSIVE GcdLoop(_, _)
GcdLoop(a, b) ==
    LET swap == compare(a, b) = 1
        u == IF swap THEN b ELSE a
        v == IF swap THEN a ELSE b
        w == Subtract(v, u, FALSE)
    IN  CASE u = v -> u
          [] u # v /\ compare(v, FromUnsigned(LimbBase * LimbBase - 1)) <= 0 ->
                FromUnsigned(gcd_unsafe(LowLimbs(v), LowLimbs(u)))
          [] OTHER -> GcdLoop(u, ShiftRight(w, lsb(w)))

\* The result is negative when the signs differ.  Signed numbers are not the
\* smallest one: it stays negative, and the reduction ends wrong or never.
gcd(a, b) ==
    LET u == abs(a)
        v == abs(b)
        reduced == ShiftLeft(GcdLoop(ShiftRight(u, lsb(u)), ShiftRight(v, lsb(v))),
                             Min({lsb(u), lsb(v)}))
        result == CASE u = v -> u
                    [] u # v /\ is_zero(v) -> u
                    [] u # v /\ is_zero(u) -> v
                    [] OTHER -> reduced
    IN  IF is_neg(a) # is_neg(b) THEN negate(result) ELSE result

\* The quotient of the smaller magnitude comes first.
lcm(a, b) ==
    LET abs_unsafe(x) == IF compare(x, Zero) = 1 THEN x ELSE negate(x)
        larger == compare(abs_unsafe(a), abs_unsafe(b)) = 1
        factor == IF larger THEN abs_unsafe(a) ELSE abs_unsafe(b)
        other == IF larger THEN abs_unsafe(b) ELSE abs_unsafe(a)
    IN  eval_mul_unary(factor, Divide(other, gcd(a, b), FALSE))

-----------------------------------------------------------------------------
(* The test of Miller and Rabin.  The products of small primes that the    *)
(* code reduces n by are the sets of their factors.                        *)

SmallPrimes == {p \in 3..227 : \A d \in 2..15 : d < p => p % d # 0}

\* "yes", "no", or "open" when the screening by small primes does not tell.
SmallPrimeScreening(n) ==
    LET residue(p) == eval_divide_knuth(n, FromUnsigned(p)).remainder
        small == compare_ranges(n, FromUnsigned(227), number_of_limbs) <= 0
    IN  CASE n[0] % 2 = 0 -> IF n = FromUnsigned(2) THEN "yes" ELSE "no"
          [] n[0] % 2 = 1 /\ small ->
                IF \E p \in SmallPrimes : n = FromUnsigned(p) THEN "yes" ELSE "no"
          [] OTHER ->
                IF \E p \in SmallPrimes : is_zero(residue(p)) THEN "no" ELSE "open"

\* y is squared until it is n - 1, for fewer than k times.
RECURSIVE Squarings(_, _, _, _)
Squarings(y, n, k, j) ==
    LET nm1 == predecrement(n)
    IN  CASE y = nm1 -> TRUE
          [] y # nm1 /\ y = One -> j = 0
          [] OTHER -> /\ j + 1 # k
                      /\ Squarings(Narrow(MultiplyModulo(Widen(y), Widen(y), Widen(n))),
                                   n, k, j + 1)

\* witnesses: the numbers the distribution yields, one per trial.
miller_rabin(number, witnesses) ==
    LET n == abs(number)
        nm1 == predecrement(n)
        k == lsb(nm1)
        q == ShiftRight(nm1, k)
        screened == SmallPrimeScreening(n)
    IN  \/ screened = "yes"
        \/ /\ screened = "open"
           /\ powm(FromUnsigned(228), nm1, n) = One
           /\ \A t \in DOMAIN witnesses : Squarings(powm(witnesses[t], q, n), n, k, 0)
=============================================================================
