---------------------------- MODULE WideInteger ----------------------------
(***************************************************************************)
(* The integer class of types/uintwide_t.h: numbers of a fixed width that  *)
(* are stored as an array of limbs, the least significant one first, and   *)
(* the algorithms on these arrays.  A number is a function from the        *)
(* indices of the code (0 .. number_of_limbs - 1) to limbs; an operator    *)
(* that the code writes as a loop over limbs is written as its columns and *)
(* the carries between them.  Signed numbers are two's complement.         *)
(***************************************************************************)
EXTENDS Integers, FiniteSetsExt, Bitwise, TLC

CONSTANTS
    LimbBits,         \* numeric_limits<limb_type>::digits
    number_of_limbs,
    IsSigned,
    KaratsubaFrom,    \* number_of_limbs_karatsuba_threshold
    SchoolUpTo,       \* the size up to which Karatsuba's recursion ends
    Unrolled,         \* the numbers of limbs with an unrolled product
    SkipZeros         \* WIDE_INTEGER_HAS_CLZ_LIMB_OPTIMIZATIONS

LimbBase == 2 ^ LimbBits
Width == LimbBits * number_of_limbs        \* my_width2
Index == 0..number_of_limbs - 1
Top == number_of_limbs - 1

Limb == 0..LimbBase - 1
Number == [Index -> Limb]

\* The halves of a double limb; a difference that is negative wraps around.
make_lo(x) == x % LimbBase
make_hi(x) == (x \div LimbBase) % LimbBase
make_large(lo, hi) == lo + LimbBase * hi
DoubleLimb(x) == x % (LimbBase * LimbBase)

\* The array x itself, which TLC evaluates once instead of at each access.
Stored(x) == x @@ <<>>
\* n limbs of the array x, from index i on.
Part(x, i, n) == Stored([k \in 0..n - 1 |-> x[i + k]])
\* The array x with the limbs of y from index i on.
Overwrite(x, i, y) ==
    Stored([k \in DOMAIN x |-> IF k - i \in DOMAIN y THEN y[k - i] ELSE x[k]])
Zeros(n) == [k \in 0..n - 1 |-> 0]
Zero == Zeros(number_of_limbs)

\* n limbs of which the k-th is the lower half of column(k) plus the upper
\* half of the column before it, and the upper half of the last one.
Ripple(n, column(_)) ==
    LET carry[k \in 0..n] ==
            IF k = 0 THEN 0 ELSE make_hi(column(k - 1) + carry[k - 1])
    IN  [limbs |-> Stored([k \in 0..n - 1 |-> make_lo(column(k) + carry[k])]),
         carry |-> carry[n]]

eval_add_n(u, v, n) == Ripple(n, LAMBDA k : u[k] + v[k])

eval_subtract_n(u, v, n) ==
    LET borrow[k \in 0..n] ==
            IF k = 0 THEN 0
            ELSE IF make_hi(u[k - 1] - v[k - 1] - borrow[k - 1]) # 0 THEN 1 ELSE 0
    IN  [limbs |-> Stored([k \in 0..n - 1 |-> make_lo(u[k] - v[k] - borrow[k])]),
         borrow |-> borrow[n]]

eval_multiply_1d(a, b, n) == Ripple(n, LAMBDA k : a[k] * b)

-----------------------------------------------------------------------------
(* Constructors, limits and predicates.                                    *)

\* From an unsigned built-in value: the limbs of v that fit.
FromUnsigned(v) == [k \in Index |-> (v \div LimbBase ^ k) % LimbBase]

bitwise_not(x) == [k \in Index |-> LimbBase - 1 - x[k]]

\* One is added (removed) as long as the limbs below have wrapped around.
preincrement(x) ==
    [k \in Index |-> IF \A l \in 0..k - 1 : make_lo(x[l] + 1) = 0
                     THEN make_lo(x[k] + 1) ELSE x[k]]
predecrement(x) ==
    [k \in Index |-> IF \A l \in 0..k - 1 : make_lo(x[l] - 1) = LimbBase - 1
                     THEN make_lo(x[k] - 1) ELSE x[k]]

negate(x) == Stored(preincrement(bitwise_not(x)))

\* From a signed built-in value: the limbs of its magnitude, negated.
FromSigned(v) == IF v < 0 THEN negate(FromUnsigned(-v)) ELSE FromUnsigned(v)

limits_helper_max ==
    [k \in Index |-> IF IsSigned /\ k = Top THEN LimbBase \div 2 - 1
                     ELSE LimbBase - 1]
limits_helper_min ==
    [k \in Index |-> IF IsSigned /\ k = Top THEN LimbBase \div 2 ELSE 0]

is_zero(x) == \A k \in Index : x[k] = 0
\* The sign bit of an array of n limbs, when the type is signed.
SignBit(x, n) == x[n - 1] >= LimbBase \div 2
is_neg(x) == IsSigned /\ SignBit(x, number_of_limbs)

\* -1, 0 or 1: the most significant limb that differs decides.
compare_ranges(a, b, n) ==
    LET differ == {k \in 0..n - 1 : a[k] # b[k]}
    IN  IF differ = {} THEN 0
        ELSE IF a[Max(differ)] > b[Max(differ)] THEN 1 ELSE -1

compare(a, b) ==
    CASE is_neg(a) /\ ~is_neg(b) -> -1
      [] ~is_neg(a) /\ is_neg(b) -> 1
      [] OTHER -> compare_ranges(a, b, number_of_limbs)

\* The most and the least significant bit that is set; 0 if there is none.
BitsSet(x) == {i \in 0..Width - 1 : (x[i \div LimbBits] \div 2 ^ (i % LimbBits)) % 2 = 1}
msb(x) == IF is_zero(x) THEN 0 ELSE Max(BitsSet(x))
lsb(x) == IF is_zero(x) THEN 0 ELSE Min(BitsSet(x))

\* To another width: n is the number of limbs of the source x and signed
\* its signedness.  The magnitude is cut off or filled with zeros.
Magnitude(x, n, signed) ==
    IF signed /\ SignBit(x, n)
    THEN eval_subtract_n(Zeros(n), x, n).limbs
    ELSE x
\* A wrong one: the limbs as they are, the sign lost on the way to more.
ResizeUnsigned(x, n, signed) == [k \in Index |-> IF k < n THEN x[k] ELSE 0]
Resize(x, n, signed) ==
    LET m == Magnitude(x, n, signed)
        cut == [k \in Index |-> IF k < n THEN m[k] ELSE 0]
    IN  Stored(IF signed /\ SignBit(x, n) THEN negate(cut) ELSE cut)

\* To an unsigned built-in type of the given number of bits, by or-ing the
\* limbs that begin inside it; limbs are not narrower than 2 bits.
extract_builtin_integral_type(x, bits) ==
    LET used == {k \in Index : LimbBits * k < bits}
    IN  MapThenSumSet(LAMBDA k : x[k] * LimbBase ^ k, used) % 2 ^ bits
ToBuiltin(x, bits) ==
    IF is_neg(x)
    THEN (-extract_builtin_integral_type(negate(x), bits)) % 2 ^ bits
    ELSE extract_builtin_integral_type(x, bits)

-----------------------------------------------------------------------------
(* Shifts.  A shift by limbs comes first, then one by the remaining bits.  *)

right_shift_fill_value(x) == IF is_neg(x) THEN LimbBase - 1 ELSE 0

shl(x, n) ==
    LET offset == Min({n \div LimbBits, number_of_limbs})
        bits == n % LimbBits
        moved == [k \in Index |-> IF k < offset THEN 0 ELSE x[k - offset]]
        part(k) == IF k = 0 THEN 0 ELSE moved[k - 1] \div 2 ^ (LimbBits - bits)
    IN  [k \in Index |-> make_lo(moved[k] * 2 ^ bits) | part(k)]

\* The sign that fills the upper bits is read after the limbs have moved.
shr(x, n) ==
    LET offset == Min({n \div LimbBits, number_of_limbs})
        bits == n % LimbBits
        moved == [k \in Index |-> IF k + offset <= Top THEN x[k + offset]
                                  ELSE right_shift_fill_value(x)]
        above(k) == IF k < Top THEN moved[k + 1] ELSE right_shift_fill_value(moved)
    IN  [k \in Index |-> (moved[k] \div 2 ^ bits)
                            | make_lo(above(k) * 2 ^ (LimbBits - bits))]

exceeds_width(n) == n >= Width

RECURSIVE ShiftLeft(_, _), ShiftRight(_, _)
ShiftLeft(x, n) ==
    CASE n < 0 -> ShiftRight(x, -n)
      [] n = 0 -> x
      [] n > 0 /\ exceeds_width(n) -> Zero
      [] OTHER -> Stored(shl(x, n))
ShiftRight(x, n) ==
    CASE n < 0 -> ShiftLeft(x, -n)
      [] n = 0 -> x
      [] n > 0 /\ exceeds_width(n) -> [k \in Index |-> right_shift_fill_value(x)]
      [] OTHER -> Stored(shr(x, n))

\* operator|=, operator&= and operator^=
BitOr(x, y) == [k \in Index |-> x[k] | y[k]]
BitAnd(x, y) == [k \in Index |-> x[k] & y[k]]
BitXor(x, y) == [k \in Index |-> x[k] ^^ y[k]]

-----------------------------------------------------------------------------
(* Products.                                                               *)

\* The first m limbs of b, times a limb, are added to r from index i on.
AddRow(r, limb, b, i, m) ==
    LET row == Ripple(m, LAMBDA k : r[i + k] + limb * b[k])
    IN  [limbs |-> Overwrite(r, i, row.limbs), carry |-> row.carry]

\* The full product, one row per limb of a that is not zero.
eval_multiply_n_by_n_to_2n(a, b, n) ==
    LET rows[i \in 0..n] ==
            IF i = 0 THEN Zeros(2 * n)
            ELSE LET r == rows[i - 1]
                     row == AddRow(r, a[i - 1], b, i - 1, n)
                 IN  IF a[i - 1] = 0 THEN r
                     ELSE [row.limbs EXCEPT ![i - 1 + n] = row.carry]
    IN  rows[n]

\* The lower half of the product only: a row ends with the array or, when
\* leading zeros are skipped, one limb after the last one of b.
LowerProductByRows(a, b, n) ==
    LET count(x) == Max({0} \union {k \in 0..n - 1 : x[k] # 0}) + 1
        imax == IF SkipZeros THEN count(a) ELSE n
        jmax(i) == IF SkipZeros THEN Min({n - i, count(b) + 1}) ELSE n - i
        rows[i \in 0..imax] ==
            IF i = 0 THEN Zeros(n)
            ELSE LET r == rows[i - 1]
                 IN  IF a[i - 1] = 0 THEN r
                     ELSE AddRow(r, a[i - 1], b, i - 1, jmax(i - 1)).limbs
    IN  rows[imax]

\* The unrolled product: column k collects the lower halves of the products
\* of order k and the upper halves of those of order k - 1.  Only the first
\* m limbs of both factors are looked at.
LowerProductByColumns(a, b, n, m) ==
    LET orders(k) == {i \in 0..k : i < m /\ k - i < m}
        column(k) == MapThenSumSet(LAMBDA i : make_lo(a[i] * b[k - i]), orders(k))
                   + MapThenSumSet(LAMBDA i : make_hi(a[i] * b[k - 1 - i]), orders(k - 1))
    IN  Ripple(n, column).limbs

LowerProduct4(a, b) ==
    IF a[2] = 0 /\ b[2] = 0 /\ a[3] = 0 /\ b[3] = 0
    THEN LowerProductByColumns(a, b, 4, 2)
    ELSE LowerProductByColumns(a, b, 4, 4)
ShortFactors8(a, b) == \A k \in 4..7 : a[k] = 0 /\ b[k] = 0
LowerProduct8(a, b) ==
    IF ShortFactors8(a, b)
    THEN LowerProductByColumns(a, b, 8, 4)
    ELSE LowerProductByColumns(a, b, 8, 8)

eval_multiply_n_by_n_to_lo_part(a, b, n) ==
    CASE n = 4 /\ 4 \in Unrolled -> LowerProduct4(a, b)
      [] n = 8 /\ 8 \in Unrolled -> LowerProduct8(a, b)
      [] OTHER -> LowerProductByRows(a, b, n)

\* A wrong one: the carry is not propagated.
KaratsubaAddShort(r, x, n, nh) ==
    Overwrite(r, nh, eval_add_n(Part(r, nh, n), x, n).limbs)
\* n limbs x are added to (removed from) r at index nh; the carry goes on
\* into the nh limbs after them and no further.
KaratsubaAdd(r, x, n, nh) ==
    Overwrite(r, nh, Ripple(n + nh, LAMBDA k : r[nh + k]
                                        + (IF k < n THEN x[k] ELSE 0)).limbs)
KaratsubaSubtract(r, x, n, nh) ==
    Overwrite(r, nh, eval_subtract_n(Part(r, nh, n + nh), Overwrite(Zeros(n + nh), 0, x),
                                     n + nh).limbs)

\* r is what the 2n limbs of the result hold before: the recursion writes
\* 2 * nh limbs into each half of them.  t is the copy of both products.
RECURSIVE eval_multiply_kara_n_by_n_to_2n(_, _, _, _)
eval_multiply_kara_n_by_n_to_2n(r, a, b, n) ==
    IF n <= SchoolUpTo THEN eval_multiply_n_by_n_to_2n(a, b, n)
    ELSE LET nh == n \div 2
             a0 == Part(a, 0, nh)    a1 == Part(a, nh, nh)
             b0 == Part(b, 0, nh)    b1 == Part(b, nh, nh)
             upper == eval_multiply_kara_n_by_n_to_2n(Part(r, n, 2 * nh), a1, b1, nh)
             lower == eval_multiply_kara_n_by_n_to_2n(Part(r, 0, 2 * nh), a0, b0, nh)
             t == Overwrite(Overwrite(r, n, upper), 0, lower)
             sum == KaratsubaAdd(KaratsubaAdd(t, Part(t, n, n), n, nh),
                                 Part(t, 0, n), n, nh)
             a1a0 == compare_ranges(a1, a0, nh)
             b0b1 == compare_ranges(b0, b1, nh)
             da == IF a1a0 = 1 THEN eval_subtract_n(a1, a0, nh).limbs
                   ELSE eval_subtract_n(a0, a1, nh).limbs
             db == IF b0b1 = 1 THEN eval_subtract_n(b0, b1, nh).limbs
                   ELSE eval_subtract_n(b1, b0, nh).limbs
             cross == Overwrite(Part(t, n, n), 0,
                        eval_multiply_kara_n_by_n_to_2n(Part(t, n, 2 * nh), da, db, nh))
         IN  CASE a1a0 * b0b1 = 1 -> KaratsubaAdd(sum, cross, n, nh)
               [] a1a0 * b0b1 = -1 -> KaratsubaSubtract(sum, cross, n, nh)
               [] OTHER -> sum

\* operator*=
eval_mul_unary(u, v) ==
    IF number_of_limbs >= KaratsubaFrom
    THEN Part(eval_multiply_kara_n_by_n_to_2n(Zeros(2 * number_of_limbs), u, v,
                                              number_of_limbs), 0, number_of_limbs)
    ELSE eval_multiply_n_by_n_to_lo_part(u, v, number_of_limbs)

mul_by_limb(x, v) ==
    CASE v = 0 -> Zero
      [] v = 1 -> x
      [] OTHER -> eval_multiply_1d(x, v, number_of_limbs).limbs

-----------------------------------------------------------------------------
(* Quotients.                                                              *)

\* Long division by a limb, from the most significant of n limbs down.
ShortDivision(x, n, d) ==
    LET rest[k \in 0..n] ==
            IF k = n THEN 0
            ELSE LET long == make_large(x[k], rest[k + 1])
                 IN  DoubleLimb(long - d * make_lo(long \div d))
    IN  [quotient |-> Stored([k \in 0..n - 1 |-> make_lo(make_large(x[k], rest[k + 1]) \div d)]),
         rest |-> make_lo(rest[0])]

eval_divide_by_single_limb(x, d, u_offset) ==
    LET division == ShortDivision(x, number_of_limbs - u_offset, d)
    IN  [quotient |-> Overwrite(x, 0, division.quotient),
         remainder |-> [Zero EXCEPT ![0] = division.rest]]

\* Algorithm D, step D3: a guess from the leading limbs, lowered while it is
\* too large for three of them.
LeadingGuess(uu, vv, n, uj) ==
    IF uu[uj] = vv[n - 1] THEN LimbBase - 1
    ELSE make_large(uu[uj - 1], uu[uj]) \div vv[n - 1]
QHat(uu, vv, n, uj) ==
    LET u2 == make_large(uu[uj - 1], uu[uj])
        rest(q) == DoubleLimb(u2 - q * vv[n - 1])
        enough(q) == \/ make_hi(rest(q)) # 0
                     \/ DoubleLimb(vv[n - 2] * q)
                            <= DoubleLimb(LimbBase * rest(q)) + uu[uj - 2]
    IN  Max({q \in 0..LeadingGuess(uu, vv, n, uj) : enough(q)})

\* Step D6: vv is added back on a borrow.  A wrong one only lowers the digit.
DigitLowered(left, q_hat, vv, n) ==
    [digit |-> q_hat - left.borrow, limbs |-> left.limbs]
AddBack(left, q_hat, vv, n) ==
    IF left.borrow = 0 THEN [digit |-> q_hat, limbs |-> left.limbs]
    ELSE [digit |-> q_hat - 1,
          limbs |-> Overwrite(left.limbs, 0, eval_add_n(left.limbs, vv, n).limbs)]

\* Steps D4 to D6: the digit of the quotient below uu[uj] is multiplied and
\* subtracted.
DivisionStep(uu, vv, n, uj) ==
    LET q_hat == QHat(uu, vv, n, uj)
        product == eval_multiply_1d(vv, q_hat, n)
        nv == Overwrite(Zeros(n + 1), 0, product.limbs)
        left == eval_subtract_n(Part(uu, uj - n, n + 1),
                                [nv EXCEPT ![n] = product.carry], n + 1)
        done == AddBack(left, q_hat, vv, n)
    IN  [digit |-> done.digit, uu |-> Overwrite(uu, uj - n, done.limbs)]

\* u and v without their u_offset and v_offset leading zero limbs.
eval_divide_knuth_core(u, v, u_offset, v_offset) ==
    LET n == number_of_limbs - v_offset
        size == number_of_limbs - u_offset
        m == size - n
        \* Step D1: normalize, so that the leading limb of vv is large.
        d == LimbBase \div (v[n - 1] + 1)
        scaled == eval_multiply_1d(u, d, size)
        uu0 == [Overwrite(Zeros(number_of_limbs + 1), 0, scaled.limbs)
                    EXCEPT ![size] = scaled.carry]
        vv == eval_multiply_1d(v, d, n).limbs
        steps[j \in 0..m] ==
            DivisionStep(IF j = 0 THEN uu0 ELSE steps[j - 1].uu, vv, n, size - j)
        last == steps[m].uu
    IN  [quotient |-> Stored([k \in Index |-> IF k <= m THEN steps[m - k].digit ELSE 0]),
         \* Step D8: unnormalize.
         remainder |-> Overwrite(Zero, 0, ShortDivision(last, n, d).quotient)]

\* Called on numbers of the unsigned class, or on numbers that are not
\* negative: their limbs compare as they do.  The quotient by zero is the
\* largest number of the unsigned class.
eval_divide_knuth(u, v) ==
    LET offset(x) == Top - Max({k \in Index : x[k] # 0})
        order == compare_ranges(u, v, number_of_limbs)
    IN  CASE is_zero(v) -> [quotient |-> bitwise_not(Zero), remainder |-> Zero]
          [] ~is_zero(v) /\ is_zero(u) -> [quotient |-> u, remainder |-> Zero]
          [] ~is_zero(v) /\ ~is_zero(u) /\ order = -1 ->
                [quotient |-> Zero, remainder |-> u]
          [] ~is_zero(v) /\ order = 0 ->
                [quotient |-> FromUnsigned(1), remainder |-> Zero]
          [] ~is_zero(v) /\ order = 1 ->
                IF offset(v) = Top
                THEN eval_divide_by_single_limb(u, v[0], offset(u))
                ELSE eval_divide_knuth_core(u, v, offset(u), offset(v))

-----------------------------------------------------------------------------
(* The assigning operators; self tells that both operands are one object.  *)

Add(a, b) == eval_add_n(a, b, number_of_limbs).limbs
Subtract(a, b, self) == IF self THEN Zero ELSE eval_subtract_n(a, b, number_of_limbs).limbs

abs(x) == IF is_neg(x) THEN negate(x) ELSE x

Divide(a, b, self) ==
    LET q == eval_divide_knuth(abs(a), abs(b)).quotient
    IN  CASE self -> FromUnsigned(1)
          [] ~self /\ is_zero(b) -> limits_helper_max
          [] OTHER -> IF is_neg(a) # is_neg(b) THEN negate(q) ELSE q

\* The remainder has the sign of the numerator: line 2659 of uintwide_t.h tests
\* it, although the comment above it says "follows the sign of the denominator".
Remainder(a, b, self) ==
    LET r == eval_divide_knuth(abs(a), abs(b)).remainder
    IN  CASE self -> Zero
          [] OTHER -> IF is_neg(a) THEN negate(r) ELSE r
=============================================================================
