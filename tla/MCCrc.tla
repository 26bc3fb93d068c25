------------------------------- MODULE MCCrc -------------------------------
(***************************************************************************)
(* Instances of Crc for the four orders of input and output, with 8 and 16 *)
(* bits, and the definition of a checksum as a division bit by bit.        *)
(***************************************************************************)
EXTENDS Integers, Sequences, SequencesExt, MCInputs

C8(in, out) == INSTANCE Crc WITH NumBits <- 8, polynomial <- 7, init <- 255, xorOut <- 85,
                    reflectInput <- in, reflectOutput <- out
C16(in, out) == INSTANCE Crc WITH NumBits <- 16, polynomial <- 4129, init <- 29,
                    xorOut <- 65535 + 65536, reflectInput <- in, reflectOutput <- out

Bytes == {1, 128, 83, 255}
Messages == UNION {[1..n -> Bytes] : n \in 0..2}

CrcInit ==
    /\ part = "crc" /\ right = 0 /\ picked = FALSE
    /\ left \in {<<bits, in, out>> : bits \in {8, 16}, in \in BOOLEAN, out \in BOOLEAN}
CrcNext ==
    /\ ~picked /\ picked' = TRUE
    /\ part = "crc" /\ right' \in Messages \X Messages
    /\ UNCHANGED <<part, left>>

BitAt(v, i) == (v \div 2 ^ i) % 2
Reversed(v, n) == FoldLeft(LAMBDA sum, i : sum + BitAt(v, i) * 2 ^ (n - 1 - i), 0,
                           [i \in 1..n |-> i - 1])
Plus(v, w, n) == FoldLeft(LAMBDA sum, i : sum + ((BitAt(v, i) + BitAt(w, i)) % 2) * 2 ^ i, 0,
                          [i \in 1..n |-> i - 1])
\* The message's bits enter a register of n bits at its upper end.
Divided(message, n, poly, start, reversed) ==
    LET bits == FlattenSeq([k \in DOMAIN message |->
                    [i \in 1..8 |-> BitAt(message[k], IF reversed THEN i - 1 ELSE 8 - i)]])
        step(reg, b) ==
            IF BitAt(reg, n - 1) # b THEN Plus((reg * 2) % 2 ^ n, poly, n) ELSE (reg * 2) % 2 ^ n
    IN  FoldLeft(step, start, bits)

\* The table and the reflected register compute the division of the message
\* by the polynomial for every order of the bits of input and output, and a
\* message that comes in two pieces has the checksum of the whole.
ChecksumsExact == [][(
    Picked("crc") =>
        LET in == left[2]
            out == left[3]
            message == right[1] \o right[2]
            expected(n, poly, start, final) ==
                LET reg == Divided(message, n, poly, start, in)
                IN  Plus(IF out THEN Reversed(reg, n) ELSE reg, final, n)
        IN  IF left[1] = 8
            THEN C8(in, out)!getResult(
                    C8(in, out)!process(C8(in, out)!process(C8(in, out)!reset, right[1]), right[2]))
                 = expected(8, 7, 255, 85)
            ELSE C16(in, out)!getResult(
                    C16(in, out)!process(C16(in, out)!process(C16(in, out)!reset, right[1]), right[2]))
                 = expected(16, 4129, 29, 65535)
    )]_picked
=============================================================================
