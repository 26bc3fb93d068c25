-------------------------------- MODULE Crc --------------------------------
(***************************************************************************)
(* The checksums of hash/crc.hpp.  The register m_value holds the bits in  *)
(* reflected order, whatever order input and output have.                  *)
(***************************************************************************)
EXTENDS Integers, Sequences, SequencesExt, Bitwise

CONSTANTS NumBits, polynomial, init, xorOut, reflectInput, reflectOutput

Masked(v) == v % 2 ^ NumBits

\* The lower bits in reverse order.
reflect(in, bits) ==
    FoldLeft(LAMBDA out, i : 2 * out + ((in \div 2 ^ i) % 2), 0, [i \in 1..bits |-> i - 1])
\* The same for a byte, by exchanging its halves, pairs and bits.
reflectByte(in) ==
    LET swap(v, n, mask) == ((v \div n) & mask) + (v & mask) * n
    IN  swap(swap(swap(in, 16, 15), 4, 51), 2, 85)

\* m_table[i]
TableEntry(i) ==
    LET poly == reflect(Masked(polynomial), NumBits)
        shift(c, j) == IF c % 2 = 1 THEN poly ^^ (c \div 2) ELSE c \div 2
    IN  FoldLeft(shift, i, [j \in 1..8 |-> j])

\* The value after reset() and after process().
reset == reflect(Masked(init), NumBits)
\* A wrong one: the bits of a byte are never put in reverse order.
TakenAsIs(byte) == byte
Taken(byte) == IF reflectInput THEN byte ELSE reflectByte(byte)
process(value, bytes) ==
    FoldLeft(LAMBDA v, byte : TableEntry((v ^^ Taken(byte)) % 256) ^^ (v \div 256),
             value, bytes)

getResult(value) ==
    (IF reflectOutput THEN value ELSE reflect(value, NumBits)) ^^ Masked(xorOut)
=============================================================================
