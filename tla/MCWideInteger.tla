--------------------------- MODULE MCWideInteger ---------------------------
(***************************************************************************)
(* Bounded inputs for WideInteger, WideAlgorithms and WideText.  A run     *)
(* picks a part and its first operand, then its second operand; the        *)
(* properties compare what the algorithms compute with the integers that   *)
(* the numbers stand for.                                                  *)
(***************************************************************************)
EXTENDS Integers, Sequences, FiniteSetsExt, MCInputs

\* Three limbs of two bits, unsigned and signed: every pair of numbers.
U == INSTANCE WideAlgorithms WITH LimbBits <- 2, number_of_limbs <- 3, IsSigned <- FALSE,
        KaratsubaFrom <- 129, SchoolUpTo <- 48, Unrolled <- {4}, SkipZeros <- FALSE
S == INSTANCE WideAlgorithms WITH LimbBits <- 2, number_of_limbs <- 3, IsSigned <- TRUE,
        KaratsubaFrom <- 129, SchoolUpTo <- 48, Unrolled <- {4}, SkipZeros <- TRUE
\* Four limbs of three bits, and eight of four: the unrolled products,
\* Karatsuba's recursion of two levels, and rows that skip zeros.
P4 == INSTANCE WideInteger WITH LimbBits <- 3, number_of_limbs <- 4, IsSigned <- FALSE,
        KaratsubaFrom <- 129, SchoolUpTo <- 48, Unrolled <- {4, 8}, SkipZeros <- FALSE
P8 == INSTANCE WideInteger WITH LimbBits <- 4, number_of_limbs <- 8, IsSigned <- FALSE,
        KaratsubaFrom <- 129, SchoolUpTo <- 48, Unrolled <- {4, 8}, SkipZeros <- FALSE
K8 == INSTANCE WideInteger WITH LimbBits <- 4, number_of_limbs <- 8, IsSigned <- FALSE,
        KaratsubaFrom <- 8, SchoolUpTo <- 2, Unrolled <- {4}, SkipZeros <- FALSE
R8 == INSTANCE WideInteger WITH LimbBits <- 4, number_of_limbs <- 8, IsSigned <- FALSE,
        KaratsubaFrom <- 129, SchoolUpTo <- 48, Unrolled <- {4}, SkipZeros <- TRUE
\* Two limbs of eight bits: prime numbers beyond the table.
M == INSTANCE WideAlgorithms WITH LimbBits <- 8, number_of_limbs <- 2, IsSigned <- FALSE,
        KaratsubaFrom <- 129, SchoolUpTo <- 48, Unrolled <- {4}, SkipZeros <- FALSE
\* Two limbs of four bits: texts and chunks of every number.
TU == INSTANCE WideText WITH LimbBits <- 4, number_of_limbs <- 2, IsSigned <- FALSE,
        KaratsubaFrom <- 129, SchoolUpTo <- 48, Unrolled <- {4}, SkipZeros <- FALSE
TS == INSTANCE WideText WITH LimbBits <- 4, number_of_limbs <- 2, IsSigned <- TRUE,
        KaratsubaFrom <- 129, SchoolUpTo <- 48, Unrolled <- {4}, SkipZeros <- FALSE

-----------------------------------------------------------------------------
(* The inputs.                                                             *)

Unsigned == 0..63
Signed == -32..31
Digits4 == [0..3 -> {0, 1, 7}]
Digits8 == [0..7 -> {0, 15}]
Factors8 == {[k \in 0..7 |-> d] : d \in {1, 9, 15}}
            \union {[k \in 0..7 |-> IF k \in {0, j} THEN 15 ELSE 0] : j \in 0..7}
\* Primes and composites around the table, and squares and products of the
\* primes that follow it.
Candidates == 0..32 \union 220..240 \union {561, 1021, 52441, 53357, 54289, 65521, 65533}
Witnesses == {2, 3, 150, 227}
ChunkSizes == 1..5

WideInit ==
    /\ right = 0 /\ picked = FALSE
    /\ \/ part = "unsigned" /\ left \in Unsigned
       \/ part = "signed" /\ left \in Signed
       \/ part = "product4" /\ left \in Digits4
       \/ part = "product8" /\ left \in Digits8
       \/ part = "prime" /\ left \in Candidates
       \/ part = "text" /\ left \in -128..255
       \/ part = "chunks" /\ left \in -128..255

WideNext ==
    /\ ~picked /\ picked' = TRUE
    /\ \/ part = "unsigned" /\ right' \in Unsigned
       \/ part = "signed" /\ right' \in Signed
       \/ part = "product4" /\ right' \in Digits4
       \/ part = "product8" /\ right' \in Factors8
       \/ part = "prime" /\ right' \in Witnesses
       \/ part = "text" /\ right' \in {8, 10, 16}
       \/ part = "chunks" /\ right' \in ChunkSizes
    /\ UNCHANGED <<part, left>>

\* Shifts by up to 8 bits, in both directions.
Count == (right % 16) - 8

-----------------------------------------------------------------------------
(* The integers that numbers stand for.                                    *)

UValue(x) == x[0] + 4 * x[1] + 16 * x[2]
ToSigned(v, bits) == ((v + 2 ^ (bits - 1)) % 2 ^ bits) - 2 ^ (bits - 1)
SValue(x) == ToSigned(UValue(x), 6)
Size(v) == IF v < 0 THEN -v ELSE v
Negative(v, w) == (v < 0) # (w < 0)
Signum(v, w) == IF v < w THEN -1 ELSE IF v > w THEN 1 ELSE 0
Bit(v, i) == (v \div 2 ^ i) % 2
Bitwise(op(_, _), v, w) ==
    MapThenSumSet(LAMBDA i : 2 ^ i * op(Bit(v, i), Bit(w, i)), 0..5)
Shifted(v, n) == IF n >= 0 THEN v * 2 ^ n ELSE v \div 2 ^ (-n)
Divides(d, v) == v % d = 0
Gcd(v, w) == IF v = 0 /\ w = 0 THEN 0
             ELSE Max({d \in 1..64 : Divides(d, v) /\ Divides(d, w)})
Root(v, k) == Max({r \in 0..63 : r ^ k <= v})
PowerModulo(v, p, m) ==
    LET power[i \in 0..p] == IF i = 0 THEN 1 % m ELSE (v * power[i - 1]) % m
    IN  power[p]
Prime(n) == n >= 2 /\ \A d \in 2..256 : d * d <= n => ~Divides(d, n)
\* The first n digits of a product, with carries of any size.
Product(a, b, n, base) ==
    LET column(k) == MapThenSumSet(LAMBDA i : a[i] * b[k - i], 0..k)
        carry[k \in 0..n] ==
            IF k = 0 THEN 0 ELSE (column(k - 1) + carry[k - 1]) \div base
    IN  [k \in 0..n - 1 |-> (column(k) + carry[k]) % base]

-----------------------------------------------------------------------------
(* The properties.                                                         *)

\* Sums, differences, comparisons, bits, shifts in both directions and
\* conversions of a number are those of the integer it stands for, modulo 2
\* to the width and with the sign bit of the signed class.  Every way to
\* multiply, those that look only at the lower halves, skip zeros or recurse
\* included, yields the lower digits of the product: no column overflows a
\* double limb and no carry is lost.
ArithmeticExact == [][(
    /\ Picked("unsigned") =>
        LET a == U!FromUnsigned(left)
            b == U!FromUnsigned(right)
        IN  /\ UValue(U!Add(a, b)) = (left + right) % 64
            /\ UValue(U!Subtract(a, b, FALSE)) = (left - right) % 64
            /\ UValue(U!eval_mul_unary(a, b)) = (left * right) % 64
            /\ U!compare(a, b) = Signum(left, right)
            /\ UValue(U!BitOr(a, b)) = Bitwise(LAMBDA x, y : Max({x, y}), left, right)
            /\ UValue(U!BitAnd(a, b)) = Bitwise(LAMBDA x, y : x * y, left, right)
            /\ UValue(U!BitXor(a, b)) = Bitwise(LAMBDA x, y : (x + y) % 2, left, right)
            /\ UValue(U!preincrement(a)) = (left + 1) % 64
            /\ UValue(U!predecrement(a)) = (left - 1) % 64
            /\ UValue(U!ShiftLeft(a, Count)) = Shifted(left, Count) % 64
            /\ UValue(U!ShiftRight(a, Count)) = Shifted(left, -Count) % 64
            /\ U!Narrow(U!Widen(a)) = a
            /\ U!ToBuiltin(a, 4) = left % 16 /\ U!ToBuiltin(a, 8) = left
    /\ Picked("signed") =>
        LET a == S!FromSigned(left)
            b == S!FromSigned(right)
        IN  /\ SValue(S!Add(a, b)) = ToSigned(left + right, 6)
            /\ SValue(S!Subtract(a, b, FALSE)) = ToSigned(left - right, 6)
            /\ SValue(S!eval_mul_unary(a, b)) = ToSigned(left * right, 6)
            /\ S!compare(a, b) = Signum(left, right)
            /\ SValue(S!negate(a)) = ToSigned(-left, 6)
            /\ SValue(S!ShiftLeft(a, Count)) = ToSigned(Shifted(left, Count), 6)
            /\ SValue(S!ShiftRight(a, Count)) = ToSigned(Shifted(left, -Count), 6)
            /\ S!Narrow(S!Widen(a)) = a
            /\ S!Double!is_neg(S!Widen(a)) = (left < 0)
            /\ S!ToBuiltin(a, 4) = left % 16 /\ S!ToBuiltin(a, 8) = left % 256
    /\ Picked("product4") =>
        P4!eval_mul_unary(left, right) = Product(left, right, 4, 8)
    /\ Picked("product8") =>
        LET p == Product(left, right, 8, 16)
        IN  /\ P8!eval_mul_unary(left, right) = p
            /\ K8!eval_mul_unary(left, right) = p
            /\ R8!eval_mul_unary(left, right) = p
    )]_picked

\* Quotients are rounded to zero by operator/ and down by divmod(), the
\* remainders go with them, and a division by zero yields the largest number:
\* for every pair, so that the digits of a quotient that are guessed too
\* large are lowered, and the divisor that was subtracted once too often is
\* added back.  The remainder of operator% has the sign of the numerator, as
\* that of the built-in integers, and not, as the comment at line 2658 of
\* uintwide_t.h says, the sign of the denominator.
QuotientsExact == [][(
    /\ Picked("unsigned") =>
        LET a == U!FromUnsigned(left)
            b == U!FromUnsigned(right)
            d == U!divmod(a, b)
        IN  /\ UValue(U!Divide(a, b, FALSE)) = IF right = 0 THEN 63 ELSE left \div right
            /\ right # 0 => /\ UValue(U!Remainder(a, b, FALSE)) = left % right
                            /\ UValue(d.first) = left \div right
                            /\ UValue(d.second) = left % right
            /\ right \in 1..3 => U!RemainderByLimb(a, right) = left % right
    /\ Picked("signed") =>
        LET a == S!FromSigned(left)
            b == S!FromSigned(right)
            q == Size(left) \div Size(right)
            r == Size(left) % Size(right)
            d == S!divmod(a, b)
            floor == IF right > 0 THEN left \div right ELSE (-left) \div Size(right)
        IN  /\ right = 0 => SValue(S!Divide(a, b, FALSE)) = 31
            /\ right # 0 =>
                /\ SValue(S!Divide(a, b, FALSE))
                        = ToSigned(IF Negative(left, right) THEN -q ELSE q, 6)
                /\ SValue(S!Remainder(a, b, FALSE)) = IF left < 0 THEN -r ELSE r
                /\ SValue(d.first) = ToSigned(floor, 6)
                /\ SValue(d.second) = left - floor * right
    )]_picked

\* Roots are rounded to zero, powers are exact modulo 2 to the width or the
\* given modulus, the gcd is the greatest common divisor, negative if one
\* operand is, and the smallest signed number is never one.  At this width and
\* for k below 6 Newton's iteration ends by itself; where it needs more than
\* its 64 steps (a large k, a large width) it may stop above the root, and
\* nothing is said of that.  The test of
\* Miller and Rabin accepts a prime whatever number it draws, and of the
\* composites no one that has a factor in the table.
RootsAndPowersExact == [][(
    /\ Picked("unsigned") =>
        LET a == U!FromUnsigned(left)
            b == U!FromUnsigned(right)
            modulus == ((3 * left + right) % 63) + 1
            k == right % 6
        IN  /\ UValue(U!rootk(a, k)) = IF k < 2 THEN left ELSE Root(left, k)
            /\ UValue(U!pow(a, right)) = PowerModulo(left, right, 64)
            /\ UValue(U!powm(a, b, U!FromUnsigned(modulus))) = PowerModulo(left, right, modulus)
            /\ UValue(U!gcd(a, b)) = Gcd(left, right)
            /\ left # 0 /\ right # 0 =>
                    UValue(U!lcm(a, b)) = ((left * right) \div Gcd(left, right)) % 64
    /\ Picked("signed") /\ left # -32 /\ right # -32 =>
        LET a == S!FromSigned(left)
            b == S!FromSigned(right)
            gcd == Gcd(Size(left), Size(right))
        IN  /\ SValue(S!cbrt(a)) = IF left < 0 THEN -Root(-left, 3) ELSE Root(left, 3)
            /\ SValue(S!sqrt(a)) = IF left < 0 THEN 0 ELSE Root(left, 2)
            /\ SValue(S!gcd(a, b)) = IF Negative(left, right) THEN -gcd ELSE gcd
    /\ Picked("prime") =>
        LET told == M!miller_rabin(M!FromUnsigned(left), <<M!FromUnsigned(right)>>)
        IN  /\ Prime(left) => told
            /\ told => Prime(left) \/ \A d \in 2..227 : ~Divides(d, left)
    )]_picked

\* The digits of v in a base, at least one.
Written(v, base) ==
    LET n == Max({k \in 1..8 : k = 1 \/ base ^ (k - 1) <= v})
    IN  [i \in 1..n |-> (v \div base ^ (n - i)) % base]

\* The text of a number is the one of its integer, also for the smallest
\* signed one, and reading it back yields the number, with the base told or
\* recognised from the prefix; numbers taken apart into chunks of any size,
\* in both orders, are put together again.  A negative number is exported as
\* its magnitude.
TextRoundTrips == [][(
    /\ Picked("text") /\ left >= 0 =>
        LET x == TU!FromUnsigned(left)
            shown == TU!wr_string(x, right, TRUE, FALSE, 0)
            all == TU!to_chars(99, x, right)
            chars == SubSeq(all, 1, Len(all) - 1)
        IN  /\ TU!wr_string(x, right, FALSE, FALSE, 0) = Written(left, right)
            /\ TU!rd_string(shown, 0) = [ok |-> TRUE, value |-> x]
            /\ TU!FromString(shown) = x
            /\ TU!from_chars(chars, right) = [ok |-> TRUE, value |-> x]
    /\ Picked("text") /\ left < 128 =>
        LET x == TS!FromSigned(left)
        IN  /\ TS!to_string(x) = (IF left < 0 THEN <<TS!Minus>> ELSE <<>>) \o Written(Size(left), 10)
            /\ TS!FromString(TS!wr_string(x, right, TRUE, TRUE, 0)) = x
            /\ TS!rd_string(TS!wr_string(x, right, FALSE, FALSE, 0), right).value = x
    /\ Picked("chunks") =>
        \A width \in {w \in {4, 8} : w >= right}, first \in BOOLEAN :
            /\ left >= 0 =>
                LET x == TU!FromUnsigned(left)
                IN  TU!import_bits(TU!export_bits(x, width, right, first), width, right, first) = x
            /\ left < 128 /\ (left >= 0 \/ width # 4 \/ right # 4) =>
                LET x == TS!FromSigned(left)
                IN  TS!import_bits(TS!export_bits(x, width, right, first), width, right, first)
                        = TS!abs(x)
    )]_picked
=============================================================================
