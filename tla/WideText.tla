------------------------------ MODULE WideText ------------------------------
(***************************************************************************)
(* Conversions of the integers of types/uintwide_t.h: to and from text in  *)
(* base 8, 10 and 16, and to and from arrays of chunks of bits.            *)
(*                                                                         *)
(* A text is a sequence of characters.  A digit stands for itself, in      *)
(* upper or lower case; the other characters that the code tells apart     *)
(* are numbers above the digits.                                           *)
(***************************************************************************)
EXTENDS WideInteger, Sequences, SequencesExt

X == 16              \* 'x' or 'X'
Apostrophe == 17
Plus == 18
Minus == 19
NUL == 20
Invalid == 21        \* any other character

\* uintwide_t<my_width2, limb_type, AllocatorType, false>
Plain == INSTANCE WideInteger WITH IsSigned <- FALSE

-----------------------------------------------------------------------------
(* To text.                                                                *)

RECURSIVE DigitsOf(_, _)
DigitsOf(t, base) ==
    LET tenth == eval_divide_by_single_limb(t, 10, 0).quotient
    IN  CASE is_zero(t) -> <<>>
          [] ~is_zero(t) /\ base = 8 ->
                Append(DigitsOf(Plain!ShiftRight(t, 3), base), t[0] & 7)
          [] ~is_zero(t) /\ base = 10 ->
                Append(DigitsOf(tenth, base), Subtract(t, mul_by_limb(tenth, 10), FALSE)[0])
          [] ~is_zero(t) /\ base = 16 ->
                Append(DigitsOf(Plain!ShiftRight(t, 4), base), t[0] & 15)

RoundUp(a, b) == (a + b - 1) \div b
wr_string_max_buffer_size(base) ==
    CASE base = 8 -> 8 + RoundUp(Width, 3)
      [] base = 10 -> 10 + (Width * 301) \div 1000
      [] base = 16 -> 8 + RoundUp(Width, 4)

\* Only base 10 knows signs: the other ones show the limbs.  Zeros fill the
\* field in front of everything else.
wr_string(x, base, show_base, show_pos, field_width) ==
    LET negative == base = 10 /\ is_neg(x)
        digits == IF is_zero(x) THEN <<0>>
                  ELSE DigitsOf(IF negative THEN negate(x) ELSE x, base)
        prefix == CASE show_base /\ base = 8 -> <<0>>
                    [] show_base /\ base = 16 -> <<0, X>>
                    [] OTHER -> <<>>
        sign == CASE negative -> <<Minus>>
                  [] ~negative /\ show_pos -> <<Plus>>
                  [] OTHER -> <<>>
        shown == sign \o prefix \o digits
        field == Min({field_width, wr_string_max_buffer_size(base) - 1})
    IN  [i \in 1..Max({0, field - Len(shown)}) |-> 0] \o shown

to_string(x) == wr_string(x, 10, FALSE, FALSE, 0)

\* The terminator that wr_string() stores is counted as a character, and a
\* range that is too short takes the first ones.
to_chars(room, x, base) ==
    LET stored == Append(wr_string(x, base, FALSE, FALSE, 0), NUL)
    IN  SubSeq(stored, 1, Min({room, Len(stored)}))

-----------------------------------------------------------------------------
(* From text.                                                              *)

\* The base and the number of characters in front of the digits.  Without a
\* hint, a zero before a digit means base 8 and one before an x base 16.
Prefix(text, base_hint) ==
    LET sign == IF text # <<>> /\ text[1] \in {Plus, Minus} THEN 1 ELSE 0
        at(i) == IF i <= Len(text) THEN text[i] ELSE NUL
        zero == at(sign + 1) = 0
    IN  CASE base_hint # 0 -> [base |-> base_hint, skip |-> sign]
          [] base_hint = 0 /\ zero /\ at(sign + 2) \in 0..8 -> [base |-> 8, skip |-> sign + 1]
          [] base_hint = 0 /\ zero /\ at(sign + 2) = X -> [base |-> 16, skip |-> sign + 2]
          [] OTHER -> [base |-> 10, skip |-> sign]

\* Base 8 takes the digit 8 as well.
IsDigit(c, base) ==
    CASE base = 8 -> c \in 0..8
      [] base = 10 -> c \in 0..9
      [] base = 16 -> c \in 0..15

AddDigit(x, c, base) ==
    LET shifted == ShiftLeft(x, IF base = 8 THEN 3 ELSE 4)
    IN  IF base = 10 THEN Add(mul_by_limb(x, 10), FromUnsigned(c))
        ELSE [shifted EXCEPT ![0] = @ | c]

\* Reading ends at the first character that is no digit.
RECURSIVE ReadDigits(_, _, _)
ReadDigits(x, text, base) ==
    CASE text = <<>> -> [ok |-> TRUE, value |-> x]
      [] text # <<>> /\ Head(text) = Apostrophe -> ReadDigits(x, Tail(text), base)
      [] text # <<>> /\ Head(text) # Apostrophe ->
            IF IsDigit(Head(text), base)
            THEN ReadDigits(AddDigit(x, Head(text), base), Tail(text), base)
            ELSE [ok |-> FALSE, value |-> x]

rd_string(text, base_hint) ==
    LET p == Prefix(text, base_hint)
        read == ReadDigits(Zero, SubSeq(text, p.skip + 1, Len(text)), p.base)
    IN  IF text # <<>> /\ text[1] = Minus
        THEN [read EXCEPT !.value = negate(@)]
        ELSE read

\* The constructor from a C string.
FromString(text) ==
    LET read == rd_string(text, 0)
    IN  IF read.ok THEN read.value ELSE limits_helper_max

from_chars(text, base) ==
    LET read == rd_string(text, base)
    IN  IF read.ok THEN read ELSE [read EXCEPT !.value = Zero]

-----------------------------------------------------------------------------
(* Chunks of bits, the most significant chunk first.                       *)

\* A wrong one: the last element holds fewer bits instead of the first.
HelperFromTop(in, total, size_in, size_out) ==
    LET bit(i) == (in[i \div size_in + 1] \div 2 ^ (i % size_in)) % 2
        bits(j) == {i \in 0..total - 1 : i \div size_out = j - 1}
    IN  [j \in 1..RoundUp(total, size_out) |->
            MapThenSumSet(LAMBDA i : bit(i) * 2 ^ (i % size_out), bits(j))]
\* Of the bits total - 1 .. 0, the first element of the input holds those
\* above the last multiple of size_in, and each later one size_in of them;
\* the output is the same bits in elements of size_out.
import_export_helper(in, total, size_in, size_out) ==
    LET bit(i) == (in[RoundUp(total, size_in) - i \div size_in] \div 2 ^ (i % size_in)) % 2
        bits(j) == {i \in 0..total - 1 : i \div size_out = RoundUp(total, size_out) - j}
    IN  [j \in 1..RoundUp(total, size_out) |->
            MapThenSumSet(LAMBDA i : bit(i) * 2 ^ (i % size_out), bits(j))]

\* The limbs that a sequence of them, the most significant one first, fills.
FillLimbs(s) == [k \in Index |-> IF k < Len(s) THEN s[Len(s) - k] ELSE 0]

\* in_bits is the width of an element, of which the lower chunk_size bits
\* are taken.  Chunks that do not fit are left out at the lower end.
import_bits(chunks, in_bits, chunk_size, msv_first) ==
    LET size == IF chunk_size = 0 THEN in_bits ELSE Min({in_bits, chunk_size})
        total == Min({size * Len(chunks), Width})
        ordered == IF msv_first THEN chunks ELSE Reverse(chunks)
        whole == in_bits = LimbBits /\ size = LimbBits
    IN  FillLimbs(IF whole
                  THEN SubSeq(ordered, 1, Min({number_of_limbs, Len(chunks)}))
                  ELSE import_export_helper(ordered, total, size, LimbBits))

\* The bits of the magnitude from the most significant one that is set.
\* Whole limbs are copied from the number itself, also if it is negative.
export_bits(x, out_bits, chunk_size, msv_first) ==
    LET size == Min({out_bits, chunk_size})
        total == Plain!msb(abs(x)) + 1
        limbs(y) == [j \in 1..RoundUp(total, LimbBits) |-> y[RoundUp(total, LimbBits) - j]]
        whole == out_bits = LimbBits /\ size = LimbBits
        out == IF whole THEN limbs(x)
               ELSE import_export_helper(limbs(abs(x)), total, LimbBits, size)
    IN  IF msv_first THEN out ELSE Reverse(out)
=============================================================================
