------------------------ MODULE BufferedReaderProofs ------------------------
(***************************************************************************)
(* Theorems about BufferedReader, for every size of the source, of the     *)
(* window and of a read, and every width of the addresses.                 *)
(***************************************************************************)
EXTENDS BufferedReader, TLAPS

-----------------------------------------------------------------------------
(* The wrap around of addresses that are at most one round away.           *)

LEMMA WrapIs ==
    ASSUME NEW n \in (-Modulus)..(Modulus - 1)
    PROVE  /\ Wrap(n) \in Bytes
           /\ Wrap(n) = IF n < 0 THEN n + Modulus ELSE n
<1> DEFINE q == n \div Modulus
           r == n % Modulus
<1>1. Modulus \in Nat \ {0}
  BY ReaderAssumption
<1>2. /\ q \in Int /\ r \in 0..(Modulus - 1)
      /\ n = Modulus * q + r
  BY <1>1, Z3
<1>3. r = IF n < 0 THEN n + Modulus ELSE n
  <2> HIDE DEF q, r
  <2>1. CASE q >= 1
    <3>1. Modulus * q >= Modulus
      BY <1>1, <1>2, <2>1
    <3> QED
      BY <1>1, <1>2, <3>1
  <2>2. CASE q = 0
    BY <1>1, <1>2, <2>2
  <2>3. CASE q = -1
    BY <1>1, <1>2, <2>3
  <2>4. CASE q <= -2
    <3>1. Modulus * q <= Modulus * (-2)
      BY <1>1, <1>2, <2>4
    <3> QED
      BY <1>1, <1>2, <3>1
  <2> QED
    BY <1>2, <2>1, <2>2, <2>3, <2>4
<1> QED
  BY <1>2, <1>3 DEF Wrap, Bytes, r

-----------------------------------------------------------------------------
(* The window.                                                             *)

WindowTypes ==
    /\ m_bufferAddress \in Bytes
    /\ m_bufferValid \in BOOLEAN
    /\ m_startAddress \in Addresses /\ m_endAddress \in Addresses

\* A valid window holds the bytes of the source from its address on, and ends inside
\* the range of addresses that callers use.
WindowInv ==
    m_bufferValid =>
        \E n \in 1..(DataSize + 1) :
            /\ m_bufferAddress + n <= DataSize + 1
            /\ m_buffer = [i \in 1..n |-> m_bufferAddress + i - 1]

\* What the last read has left.
OutInv ==
    /\ request.address \in Addresses /\ request.size \in 0..MaxSize
    /\ out \in [1..request.size -> {Untouched} \union Bytes]

ReadInv == WindowTypes /\ WindowInv /\ OutInv /\ BytesTrue /\ ReadComplete

LEMMA EndOfWindowIs ==
    ASSUME WindowTypes, NEW n \in 0..(Modulus - 1)
    PROVE  EndOfWindow(n) = Least(n, m_endAddress + 1)
  BY WrapIs, ReaderAssumption DEF EndOfWindow, WindowTypes, Addresses

\* The window that a read asks for, when it serves the read.
LEMMA RefillServes ==
    ASSUME WindowTypes,
           NEW address \in Addresses, NEW size \in 0..MaxSize, size <= m_maxBufferSize,
           NEW dir \in Directions, NEW w, w = Refill(address, size, dir)
    PROVE  /\ w.start \in Bytes /\ w.endPlus1 \in 0..(DataSize + 1)
           /\ Serves(address, w) =>
                 /\ w.endPlus1 <= m_endAddress + 1
                 /\ dir = "forward" => w.start = address
                 /\ \A k \in 0..(size - 1) :
                       address + k <= m_endAddress => address + k < w.endPlus1
           /\ address >= m_startAddress /\ address <= m_endAddress /\ size > 0 =>
                 Serves(address, w)
<1>1. /\ m_startAddress \in 0..DataSize /\ m_endAddress \in 0..DataSize
      /\ address \in 0..DataSize
      /\ m_maxBufferSize \in Nat \ {0} /\ DataSize \in Nat /\ MaxSize \in Nat
      /\ DataSize + MaxSize + m_maxBufferSize < Modulus /\ Modulus \in Nat
  BY ReaderAssumption DEF WindowTypes, Addresses
<1>2. CASE dir = "forward"
  <2>1. /\ w.start = Greatest(address, m_startAddress)
        /\ w.endPlus1 = Least(address + m_maxBufferSize, m_endAddress + 1)
    BY <1>1, <1>2, EndOfWindowIs DEF Refill
  <2> QED
    BY <1>1, <1>2, <2>1 DEF Serves, Greatest, Least, Bytes
<1>3. CASE dir = "reverse"
  <2> DEFINE last == Least(address + size, m_endAddress + 1)
  <2>1. last \in 0..(DataSize + 1) /\ EndOfWindow(address + size) = last
    BY <1>1, EndOfWindowIs DEF Least
  <2>2. w.start = ReverseStart(last) /\ w.endPlus1 = last
    BY <1>3, <2>1 DEF Refill
  <2>3. /\ Wrap(last - m_startAddress) = IF last < m_startAddress
              THEN last - m_startAddress + Modulus ELSE last - m_startAddress
        /\ Wrap(last - m_maxBufferSize) = IF last < m_maxBufferSize
              THEN last - m_maxBufferSize + Modulus ELSE last - m_maxBufferSize
    <3> HIDE DEF last
    <3>1. /\ last - m_startAddress \in (-Modulus)..(Modulus - 1)
          /\ last - m_maxBufferSize \in (-Modulus)..(Modulus - 1)
      BY <1>1, <2>1
    <3> QED
      BY <3>1, <1>1, <2>1, WrapIs
  <2>4. w.start = IF last >= m_startAddress /\ last - m_startAddress < m_maxBufferSize
                  THEN m_startAddress
                  ELSE IF last < m_maxBufferSize
                       THEN last - m_maxBufferSize + Modulus ELSE last - m_maxBufferSize
    <3> HIDE DEF last
    <3> QED
      BY <1>1, <2>1, <2>2, <2>3 DEF ReverseStart
  <2> QED
    BY <1>1, <1>3, <2>1, <2>2, <2>4 DEF Serves, Least, Bytes
<1> QED
  BY <1>2, <1>3 DEF Directions

-----------------------------------------------------------------------------
(* A read.                                                                 *)

\* How much is copied of a window of n bytes, from the given offset on.
CopyLength(size, n, offset, dir) ==
    IF dir = "forward" THEN Least(size, n) ELSE Least(size, n - offset)

\* Both ways to limit the copy stay inside the window and reach the bytes it has.
LEMMA CopyLengthIs ==
    ASSUME NEW size \in Nat, NEW n \in Nat, NEW offset \in Nat, NEW dir,
           dir = "forward" => offset = 0 \/ offset + size <= n
    PROVE  /\ CopyLength(size, n, offset, dir) \in Int
           /\ \A i \in 1..size :
                 /\ i <= CopyLength(size, n, offset, dir) => offset + i \in 1..n
                 /\ offset + i <= n => i <= CopyLength(size, n, offset, dir)
<1>1. CASE dir = "forward"
  BY <1>1 DEF CopyLength, Least
<1>2. CASE dir # "forward"
  BY <1>2 DEF CopyLength, Least
<1> QED
  BY <1>1, <1>2

\* One byte of a copy from a window of n bytes that begins at b.
LEMMA CopiedByte ==
    ASSUME NEW b \in Nat, NEW a \in Nat, b <= a, NEW n \in Nat, NEW limit \in Int,
           NEW B, \A k \in 1..n : B[k] = b + k - 1,
           NEW i \in Nat,
           i <= limit => a - b + i \in 1..n,
           a - b + i <= n => i <= limit,
           NEW e, e = IF i > limit THEN Untouched
                      ELSE IF a - b + i <= n THEN B[a - b + i] ELSE Beyond
    PROVE  /\ e \in {Untouched, a + i - 1}
           /\ a + i - 1 < b + n => e = a + i - 1
<1>1. CASE i <= limit
  <2>1. B[a - b + i] = b + (a - b + i) - 1
    BY <1>1
  <2>2. e = B[a - b + i]
    BY <1>1
  <2>3. b + (a - b + i) - 1 = a + i - 1
    OBVIOUS
  <2> QED
    BY <2>1, <2>2, <2>3
<1>2. CASE i > limit
  <2>1. e = Untouched
    BY <1>2
  <2>2. ~(a + i - 1 < b + n)
    BY <1>2
  <2> QED
    BY <2>1, <2>2
<1> QED
  BY <1>1, <1>2

\* The copy of a read from a window B that begins at b.
CopyFrom(b, B, address, size, dir) ==
    [i \in 1..size |->
        IF i > CopyLength(size, Len(B), address - b, dir) THEN Untouched
        ELSE IF address - b + i <= Len(B) THEN B[address - b + i] ELSE Beyond]

\* What a copy o from a window of n bytes that begins at b must be.
IsTrue(o, b, n, address, size) ==
    /\ o = [i \in 1..size |-> o[i]]
    /\ \A i \in 1..size :
          /\ o[i] \in {Untouched, address + i - 1}
          /\ address + i - 1 < b + n => o[i] = address + i - 1

LEMMA CopyIsTrue ==
    ASSUME NEW b \in Nat, NEW B, NEW address \in Nat, NEW size \in Nat, NEW dir,
           b <= address, Len(B) \in Nat,
           \A k \in 1..Len(B) : B[k] = b + k - 1,
           dir = "forward" => address = b \/ address + size <= b + Len(B)
    PROVE  IsTrue(CopyFrom(b, B, address, size, dir), b, Len(B), address, size)
<1> DEFINE offset == address - b
           limit == CopyLength(size, Len(B), offset, dir)
           Byte(i) == IF i > limit THEN Untouched
                      ELSE IF offset + i <= Len(B) THEN B[offset + i] ELSE Beyond
           c == CopyFrom(b, B, address, size, dir)
<1>1. c = [i \in 1..size |-> Byte(i)]
  BY DEF CopyFrom
<1>2. offset \in Nat /\ (dir = "forward" => offset = 0 \/ offset + size <= Len(B))
  OBVIOUS
<1>3. /\ limit \in Int
      /\ \A i \in 1..size : /\ i <= limit => offset + i \in 1..Len(B)
                            /\ offset + i <= Len(B) => i <= limit
  <2> HIDE DEF offset
  <2> QED
    BY <1>2, CopyLengthIs
<1> HIDE DEF limit, c
<1>4. ASSUME NEW i \in 1..size
      PROVE  /\ Byte(i) \in {Untouched, address + i - 1}
             /\ address + i - 1 < b + Len(B) => Byte(i) = address + i - 1
  <2>1. i \in Nat
    OBVIOUS
  <2>2. /\ i <= limit => address - b + i \in 1..Len(B)
        /\ address - b + i <= Len(B) => i <= limit
    BY <1>3
  <2> QED
    BY <1>3, <2>1, <2>2, CopiedByte
<1> HIDE DEF Byte
<1>5. c = [i \in 1..size |-> c[i]]
  BY <1>1
<1>6. \A i \in 1..size : c[i] = Byte(i)
  BY <1>1
<1>7. IsTrue(c, b, Len(B), address, size)
  BY <1>4, <1>5, <1>6 DEF IsTrue
<1> QED
  BY <1>7 DEF c

\* A window that Moved() has filled.
LEMMA MovedIs ==
    ASSUME ReaderAssumption, NEW w, w.start \in Bytes, w.endPlus1 \in 0..(DataSize + 1),
           w.start < w.endPlus1, Moved(w)
    PROVE  /\ m_bufferAddress' = w.start /\ m_bufferValid'
           /\ m_buffer' = [i \in 1..(w.endPlus1 - w.start) |-> m_bufferAddress' + i - 1]
           /\ Len(m_buffer') = w.endPlus1 - w.start
           /\ \A k \in 1..(w.endPlus1 - w.start) : m_buffer'[k] = m_bufferAddress' + k - 1
<1>1. \A i \in 1..(w.endPlus1 - w.start) : Wrap(w.start + i - 1) = w.start + i - 1
  BY WrapIs DEF ReaderAssumption, Bytes
<1>2. m_bufferAddress' = w.start /\ m_bufferValid'
  BY DEF Moved
<1>3. m_buffer' = [i \in 1..(w.endPlus1 - w.start) |-> m_bufferAddress' + i - 1]
  BY <1>1, <1>2 DEF Moved, Source
<1>4. w.endPlus1 - w.start \in Nat
  BY DEF ReaderAssumption, Bytes
<1> QED
  BY <1>2, <1>3, <1>4

\* Every read keeps the window and gives what it should.
LEMMA ReadKeeps ==
    ASSUME ReadInv, NEW address \in Addresses, NEW size \in 0..MaxSize,
           NEW dir \in Directions, ReadInto(address, size, dir)
    PROVE  ReadInv' /\ request' = [address |-> address, size |-> size]
<1> DEFINE w == Refill(address, size, dir)
<1> USE ReaderAssumption
<1>1. /\ request' = [address |-> address, size |-> size]
      /\ m_startAddress' = m_startAddress /\ m_endAddress' = m_endAddress
      /\ WindowTypes
      /\ address \in 0..DataSize /\ size \in 0..MaxSize
      /\ DataSize \in Nat /\ MaxSize \in Nat /\ m_maxBufferSize \in Nat \ {0}
      /\ Modulus \in Nat /\ DataSize + MaxSize + m_maxBufferSize < Modulus
      /\ m_startAddress \in 0..DataSize /\ m_endAddress \in 0..DataSize
  BY DEF ReadInto, range, ReadInv, ReaderAssumption, Addresses, WindowTypes
<1>2. \A i \in 1..size : /\ Wrap(address + i - 1) = address + i - 1
                         /\ address + i - 1 \in Bytes
  BY <1>1, WrapIs DEF Bytes
\* What there is to show of the bytes that are read.
<1>3. ASSUME WindowTypes', WindowInv',
             out' \in [1..size -> {Untouched} \union Bytes],
             \A i \in 1..size :
                /\ out'[i] \in {Untouched, address + i - 1}
                /\ address >= m_startAddress /\ address + i - 1 <= m_endAddress =>
                      out'[i] = address + i - 1
      PROVE  ReadInv' /\ request' = [address |-> address, size |-> size]
  <2>1. Len(out') = size
    BY <1>1, <1>3
  <2>2. OutInv'
    BY <1>1, <1>3 DEF OutInv, Addresses
  <2>3. BytesTrue'
    BY <1>1, <1>2, <1>3, <2>1 DEF BytesTrue
  <2>4. ReadComplete'
    BY <1>1, <1>3, <2>1 DEF ReadComplete
  <2> QED
    BY <1>1, <1>3, <2>2, <2>3, <2>4 DEF ReadInv
<1>4. CASE size > m_maxBufferSize /\ out' = Source(address, size) /\ UNCHANGED window
  <2>1. WindowTypes' /\ WindowInv'
    BY <1>1, <1>4 DEF ReadInv, WindowTypes, WindowInv, window
  <2>2. /\ out' = [i \in 1..size |-> Wrap(address + i - 1)]
        /\ \A i \in 1..size : out'[i] = address + i - 1
    BY <1>2, <1>4 DEF Source
  <2>3. out' \in [1..size -> {Untouched} \union Bytes]
    BY <1>2, <2>2
  <2> QED
    BY <1>3, <2>1, <2>2, <2>3
<1>5. CASE /\ size <= m_maxBufferSize /\ InWindow(address, size)
           /\ UNCHANGED window
           /\ out' = Copied(address, size, Limit(address, size, dir))
  <2>1. WindowTypes' /\ WindowInv'
    BY <1>1, <1>5 DEF ReadInv, WindowTypes, WindowInv, window
  <2>2. PICK n \in 1..(DataSize + 1) :
            /\ m_bufferAddress + n <= DataSize + 1
            /\ m_buffer = [i \in 1..n |-> m_bufferAddress + i - 1]
    BY <1>5 DEF ReadInv, WindowInv, InWindow
  <2>3. Len(m_buffer) = n /\ \A k \in 1..n : m_buffer[k] = m_bufferAddress + k - 1
    BY <1>1, <2>2
  <2>4. m_bufferAddress <= address /\ address + size <= m_bufferAddress + n
    <3>1. Wrap(address + size) = address + size
      BY <1>1, WrapIs
    <3>2. Wrap(m_bufferAddress + n) = m_bufferAddress + n
      BY <1>1, <2>2, WrapIs DEF WindowTypes, Bytes
    <3> QED
      BY <1>1, <1>5, <2>2, <3>1, <3>2 DEF InWindow, WindowTypes, Bytes
  <2>5. m_bufferAddress' = m_bufferAddress /\ m_buffer' = m_buffer
    BY <1>5 DEF window
  <2>6. /\ out' = [i \in 1..size |-> out'[i]]
        /\ \A i \in 1..size :
              /\ out'[i] \in {Untouched, address + i - 1}
              /\ address + i - 1 < m_bufferAddress' + n => out'[i] = address + i - 1
    <3>1. /\ address \in Nat /\ size \in Nat /\ n \in Nat
          /\ m_bufferAddress' \in Nat /\ m_bufferAddress' <= address
          /\ address + size <= m_bufferAddress' + n
      BY <1>1, <2>2, <2>4, <2>5 DEF WindowTypes, Bytes
    <3>2. Len(m_buffer') = n /\ \A k \in 1..n : m_buffer'[k] = m_bufferAddress' + k - 1
      BY <2>3, <2>5
    <3>3. out' = CopyFrom(m_bufferAddress', m_buffer', address, size, dir)
      BY <1>5 DEF Copied, Limit, CopyLength, CopyFrom
    <3>4. IsTrue(CopyFrom(m_bufferAddress', m_buffer', address, size, dir),
                 m_bufferAddress', Len(m_buffer'), address, size)
      BY <3>1, <3>2, CopyIsTrue
    <3> QED
      BY <3>2, <3>3, <3>4 DEF IsTrue
  <2>7. \A i \in 1..size : address + i - 1 < m_bufferAddress' + n
    BY <1>1, <2>2, <2>4, <2>5 DEF WindowTypes, Bytes
  <2>8. out' \in [1..size -> {Untouched} \union Bytes]
    BY <1>2, <2>6, <2>7
  <2> QED
    BY <1>1, <1>3, <2>1, <2>6, <2>7, <2>8
<1>6. CASE /\ size <= m_maxBufferSize /\ Serves(address, w) /\ Moved(w)
           /\ out' = Copied(address, size, Limit(address, size, dir))
  <2> DEFINE n == w.endPlus1 - w.start
  <2>1. /\ w.start \in Bytes /\ w.endPlus1 \in 0..(DataSize + 1)
        /\ w.endPlus1 <= m_endAddress + 1
        /\ dir = "forward" => w.start = address
        /\ \A k \in 0..(size - 1) :
              address + k <= m_endAddress => address + k < w.endPlus1
    BY <1>1, <1>6, RefillServes
  <2> HIDE DEF w
  <2>2. /\ w.start <= address /\ address < w.endPlus1
        /\ n \in 1..(DataSize + 1) /\ w.start + n = w.endPlus1
    BY <1>1, <1>6, <2>1 DEF Serves, Bytes
  <2>3. w.start < w.endPlus1
    BY <1>1, <2>1, <2>2 DEF Bytes
  <2>4. /\ m_bufferAddress' = w.start /\ m_bufferValid'
        /\ m_buffer' = [i \in 1..n |-> m_bufferAddress' + i - 1]
        /\ Len(m_buffer') = n /\ \A k \in 1..n : m_buffer'[k] = m_bufferAddress' + k - 1
    BY <1>6, <2>1, <2>2, <2>3, MovedIs
  <2> HIDE DEF n
  <2>5. m_bufferValid' \in BOOLEAN
    BY <1>6 DEF Moved
  <2>6. WindowTypes' /\ WindowInv'
    BY <1>1, <2>1, <2>2, <2>4, <2>5 DEF WindowTypes, WindowInv, Bytes
  <2>7. /\ out' = [i \in 1..size |-> out'[i]]
        /\ \A i \in 1..size :
              /\ out'[i] \in {Untouched, address + i - 1}
              /\ address + i - 1 < m_bufferAddress' + n => out'[i] = address + i - 1
    <3>1. /\ address \in Nat /\ size \in Nat /\ n \in Nat
          /\ m_bufferAddress' \in Nat /\ m_bufferAddress' <= address
          /\ dir = "forward" => address = m_bufferAddress'
      BY <1>1, <2>1, <2>2, <2>4 DEF Bytes
    <3>2. out' = CopyFrom(m_bufferAddress', m_buffer', address, size, dir)
      BY <1>6 DEF Copied, Limit, CopyLength, CopyFrom
    <3>3. IsTrue(CopyFrom(m_bufferAddress', m_buffer', address, size, dir),
                 m_bufferAddress', Len(m_buffer'), address, size)
      BY <2>4, <3>1, CopyIsTrue
    <3> QED
      BY <2>4, <3>2, <3>3 DEF IsTrue
  <2>8. \A i \in 1..size : address + i - 1 <= m_endAddress => out'[i] = address + i - 1
    <3>1. ASSUME NEW i \in 1..size, address + i - 1 <= m_endAddress
          PROVE  address + i - 1 < w.endPlus1
      <4>1. i - 1 \in 0..(size - 1) /\ address + (i - 1) = address + i - 1
        BY <1>1, <3>1
      <4> QED
        BY <2>1, <3>1, <4>1
    <3> QED
      BY <3>1, <2>2, <2>4, <2>7
  <2>9. out' \in [1..size -> {Untouched} \union Bytes]
    BY <1>2, <2>7
  <2> QED
    BY <1>3, <2>6, <2>7, <2>8, <2>9
<1>7. CASE /\ size <= m_maxBufferSize /\ ~Serves(address, w)
           /\ out' = [i \in 1..size |-> Untouched]
           /\ UNCHANGED window
  <2>1. WindowTypes' /\ WindowInv'
    BY <1>1, <1>7 DEF ReadInv, WindowTypes, WindowInv, window
  <2>2. ~(address >= m_startAddress /\ address <= m_endAddress /\ size > 0)
    BY <1>1, <1>7, RefillServes
  <2> HIDE DEF w
  <2> QED
    BY <1>1, <1>3, <1>7, <2>1, <2>2
<1> QED
  BY <1>4, <1>5, <1>6, <1>7 DEF ReadInto

-----------------------------------------------------------------------------
(* The iterators.                                                          *)

\* The address of the k-th byte of an iteration.
Visit(dir, k) == IF dir = "forward" THEN m_startAddress + k - 1 ELSE m_endAddress - k + 1

\* What an iterator has seen after k bytes.
Visited(dir, k) == [i \in 1..k |-> Visit(dir, i)]

WalkTypes ==
    /\ position \in [Directions -> Bytes]
    /\ seen \in [Directions -> Seq(Int)]

\* Each iterator is after the k-th byte of the range, and has seen those before it.
WalkInv ==
    m_startAddress <= m_endAddress =>
        \A dir \in Directions : \E k \in 0..(m_endAddress - m_startAddress + 1) :
            /\ position[dir] = Wrap(Visit(dir, k + 1))
            /\ seen[dir] = Visited(dir, k)

ReaderInv == ReadInv /\ WalkTypes /\ WalkInv

\* The addresses of an iteration, the one behind its end included, do not wrap around
\* to each other.
LEMMA VisitIs ==
    ASSUME WindowTypes, m_startAddress <= m_endAddress, NEW dir \in Directions,
           NEW k \in 0..(m_endAddress - m_startAddress + 1)
    PROVE  /\ Wrap(Visit(dir, k + 1)) \in Bytes
           /\ Wrap(Visit(dir, k + 1)) = End(dir) <=> k = m_endAddress - m_startAddress + 1
           /\ k # m_endAddress - m_startAddress + 1 =>
                 /\ Wrap(Visit(dir, k + 1)) = Visit(dir, k + 1)
                 /\ Visit(dir, k + 1) \in m_startAddress..m_endAddress
<1>1. /\ m_startAddress \in 0..DataSize /\ m_endAddress \in 0..DataSize
      /\ DataSize \in Nat /\ Modulus \in Nat /\ DataSize + 1 < Modulus
  BY ReaderAssumption DEF WindowTypes, Addresses
<1>2. CASE dir = "forward"
  <2>1. Visit(dir, k + 1) = m_startAddress + k /\ End(dir) = Wrap(m_endAddress + 1)
    BY <1>1, <1>2 DEF Visit, End
  <2>2. m_startAddress + k \in 0..(Modulus - 1) /\ m_endAddress + 1 \in 0..(Modulus - 1)
    BY <1>1
  <2>3. Wrap(m_startAddress + k) = m_startAddress + k /\ End(dir) = m_endAddress + 1
    BY <1>1, <2>1, <2>2, WrapIs
  <2> QED
    BY <1>1, <2>1, <2>2, <2>3 DEF Bytes
<1>3. CASE dir = "reverse"
  <2>1. Visit(dir, k + 1) = m_endAddress - k /\ End(dir) = Wrap(m_startAddress - 1)
    BY <1>1, <1>3 DEF Visit, End
  <2>2. /\ m_endAddress - k \in (-Modulus)..(Modulus - 1)
        /\ m_startAddress - 1 \in (-Modulus)..(Modulus - 1)
    BY <1>1
  <2>3. /\ Wrap(m_endAddress - k) =
              IF m_endAddress - k < 0 THEN m_endAddress - k + Modulus ELSE m_endAddress - k
        /\ End(dir) = IF m_startAddress - 1 < 0
                      THEN m_startAddress - 1 + Modulus ELSE m_startAddress - 1
        /\ Wrap(m_endAddress - k) \in Bytes
    BY <2>1, <2>2, WrapIs
  <2> QED
    BY <1>1, <2>1, <2>3
<1> QED
  BY <1>2, <1>3 DEF Directions

\* One more byte.
LEMMA StepKeeps ==
    ASSUME ReaderInv, NEW dir \in Directions, Step(dir)
    PROVE  ReaderInv'
<1> DEFINE n == m_endAddress - m_startAddress + 1
<1>1. PICK k \in 0..n : /\ position[dir] = Wrap(Visit(dir, k + 1))
                        /\ seen[dir] = Visited(dir, k)
  BY DEF ReaderInv, WalkInv, Step
<1>2. /\ m_startAddress \in 0..DataSize /\ m_endAddress \in 0..DataSize
      /\ m_startAddress <= m_endAddress /\ WindowTypes
      /\ DataSize \in Nat /\ Modulus \in Nat /\ DataSize + 1 < Modulus
  BY ReaderAssumption DEF ReaderInv, ReadInv, WindowTypes, Addresses, Step
<1>3. /\ k # n /\ position[dir] = Visit(dir, k + 1)
      /\ position[dir] \in m_startAddress..m_endAddress
  BY <1>1, <1>2, VisitIs DEF Step
<1>4. /\ ReadInv' /\ request' = [address |-> position[dir], size |-> 1]
      /\ m_startAddress' = m_startAddress /\ m_endAddress' = m_endAddress
  <2>1. position[dir] \in Addresses
    BY <1>2, <1>3 DEF Addresses
  <2>2. 1 \in 0..MaxSize /\ ReadInv /\ ReadInto(position[dir], 1, dir)
    BY ReaderAssumption DEF ReaderInv, Step
  <2>3. ReadInv' /\ request' = [address |-> position[dir], size |-> 1]
    BY <2>1, <2>2, ReadKeeps
  <2> QED
    BY <2>2, <2>3 DEF ReadInto, range
<1>5. out'[1] = Visit(dir, k + 1) /\ Visit(dir, k + 1) \in Int
  <2>1. Len(out') = 1
    BY <1>4 DEF ReadInv, OutInv
  <2>2. \A i \in 1..1 :
            position[dir] + i - 1 <= m_endAddress => out'[i] = position[dir] + i - 1
    BY <1>2, <1>3, <1>4, <2>1 DEF ReadInv, ReadComplete
  <2> QED
    BY <1>2, <1>3, <2>2
<1>6. /\ position' = [position EXCEPT ![dir] = Following(dir)]
      /\ seen' = [seen EXCEPT ![dir] = Append(@, out'[1])]
      /\ position \in [Directions -> Bytes] /\ seen \in [Directions -> Seq(Int)]
  BY DEF Step, ReaderInv, WalkTypes
<1>7. Following(dir) = Wrap(Visit(dir, k + 2))
  BY <1>2, <1>3 DEF Following, Visit, Directions
<1>8. Append(Visited(dir, k), Visit(dir, k + 1)) = Visited(dir, k + 1)
  BY <1>2 DEF Visited, Visit
<1>9. k + 1 \in 0..n /\ (k + 1) + 1 = k + 2
  BY <1>2, <1>3
<1>10. Following(dir) \in Bytes
  BY <1>2, <1>7, <1>9, VisitIs
<1>11. WalkTypes'
  <2>1. Append(seen[dir], out'[1]) \in Seq(Int)
    BY <1>5, <1>6
  <2> QED
    BY <1>6, <1>10, <2>1 DEF WalkTypes
<1>12. \A d \in Directions, i \in Int : Visit(d, i)' = Visit(d, i)
  BY <1>4 DEF Visit
<1>13. ASSUME NEW d \in Directions
       PROVE  \E j \in 0..n : /\ position'[d] = Wrap(Visit(d, j + 1))
                              /\ seen'[d] = Visited(d, j)
  <2>1. CASE d = dir
    <3>1. position'[d] = Wrap(Visit(d, (k + 1) + 1)) /\ seen'[d] = Visited(d, k + 1)
      BY <1>1, <1>5, <1>6, <1>7, <1>8, <1>9, <2>1
    <3> QED
      BY <1>9, <3>1
  <2>2. CASE d # dir
    <3>1. position'[d] = position[d] /\ seen'[d] = seen[d]
      BY <1>6, <2>2
    <3> QED
      BY <1>2, <3>1 DEF ReaderInv, WalkInv
  <2> QED
    BY <2>1, <2>2
<1>14. WalkInv'
  BY <1>4, <1>13 DEF WalkInv, Visit, Visited
<1> QED
  BY <1>4, <1>11, <1>14 DEF ReaderInv

\* A new range, with both iterators at its ends.
LEMMA RestartKeeps ==
    ASSUME ReaderInv, NEW first \in Addresses, NEW last \in Addresses,
           m_startAddress' = first, m_endAddress' = last,
           UNCHANGED window, Restart
    PROVE  ReaderInv'
<1>1. WindowTypes' /\ WindowInv'
  BY DEF ReaderInv, ReadInv, WindowTypes, WindowInv, window
<1>2. OutInv' /\ Len(out') = 0
  <2>1. out' = <<>> /\ request'.size = 0 /\ request'.address = request.address
    BY DEF Restart, ReaderInv, ReadInv, OutInv
  <2>2. out' \in [1..0 -> {Untouched} \union Bytes] /\ Len(out') = 0
    BY <2>1
  <2>3. request'.size \in 0..MaxSize /\ request'.address \in Addresses
    BY <2>1, ReaderAssumption DEF ReaderInv, ReadInv, OutInv
  <2> QED
    BY <2>1, <2>2, <2>3 DEF OutInv, Addresses
<1>3. BytesTrue' /\ ReadComplete'
  BY <1>2 DEF BytesTrue, ReadComplete
<1> DEFINE begin(dir) == IF dir = "forward" THEN first ELSE last
<1>4. /\ first \in 0..(Modulus - 1) /\ last \in 0..(Modulus - 1) /\ Modulus \in Nat
      /\ \A dir \in Directions : begin(dir) \in Bytes /\ Wrap(begin(dir)) = begin(dir)
  BY ReaderAssumption, WrapIs DEF Addresses, Bytes
<1>5. /\ position' = [dir \in Directions |-> begin(dir)]
      /\ seen' = [dir \in Directions |-> <<>>]
  BY DEF Restart, Start
<1>6. WalkTypes'
  BY <1>4, <1>5 DEF WalkTypes
<1>7. ASSUME first <= last, NEW dir \in Directions
      PROVE  /\ position'[dir] = Wrap(Visit(dir, 0 + 1))' /\ seen'[dir] = Visited(dir, 0)'
             /\ 0 \in 0..(last - first + 1)
  <2>1. first + (0 + 1) - 1 = first /\ last - (0 + 1) + 1 = last
    BY <1>4
  <2>2. Wrap(Visit(dir, 0 + 1))' = Wrap(begin(dir))
    BY <2>1 DEF Visit, Wrap
  <2>3. Visited(dir, 0)' = <<>>
    BY DEF Visited
  <2> QED
    BY <1>4, <1>5, <1>7, <2>2, <2>3
<1>8. WalkInv'
  BY <1>7 DEF WalkInv
<1> QED
  BY <1>1, <1>2, <1>3, <1>6, <1>8 DEF ReaderInv, ReadInv

-----------------------------------------------------------------------------
(* The theorems.                                                           *)

LEMMA ReaderInit == Init => ReaderInv
<1> SUFFICES ASSUME Init PROVE ReaderInv
  OBVIOUS
<1>1. /\ m_startAddress \in Addresses /\ m_endAddress \in Addresses
      /\ m_startAddress \in Bytes /\ m_endAddress \in Bytes
  BY ReaderAssumption DEF Init, Addresses, Greatest, Bytes
<1>2. WindowTypes /\ WindowInv
  BY <1>1, ReaderAssumption DEF Init, WindowTypes, WindowInv, Bytes
<1>3. OutInv /\ Len(out) = 0
  <2>1. out \in [1..0 -> {Untouched} \union Bytes] /\ Len(out) = 0
    BY DEF Init
  <2>2. /\ request.size = 0 /\ request.address = 0
        /\ 0 \in 0..MaxSize /\ 0 \in Addresses
    BY ReaderAssumption DEF Init, Addresses
  <2> QED
    BY <2>1, <2>2 DEF OutInv
<1>4. BytesTrue /\ ReadComplete
  BY <1>3 DEF BytesTrue, ReadComplete
<1>5. WalkTypes
  BY <1>1 DEF Init, WalkTypes, Start
<1>6. ASSUME m_startAddress <= m_endAddress, NEW dir \in Directions
      PROVE  /\ position[dir] = Wrap(Visit(dir, 0 + 1)) /\ seen[dir] = Visited(dir, 0)
             /\ 0 \in 0..(m_endAddress - m_startAddress + 1)
  <2>1. Visit(dir, 0 + 1) = Start(dir) /\ Start(dir) \in Bytes
    BY <1>1, ReaderAssumption DEF Visit, Start, Bytes
  <2>2. Wrap(Start(dir)) = Start(dir)
    BY <2>1, WrapIs, ReaderAssumption DEF Bytes
  <2>3. Visited(dir, 0) = <<>>
    BY DEF Visited
  <2> QED
    BY <1>1, <1>6, <2>1, <2>2, <2>3 DEF Init, Bytes
<1>7. WalkInv
  BY <1>6 DEF WalkInv
<1> QED
  BY <1>2, <1>3, <1>4, <1>5, <1>7 DEF ReaderInv, ReadInv

LEMMA ReaderNext == ReaderInv /\ [Next]_vars => ReaderInv'
<1> SUFFICES ASSUME ReaderInv, [Next]_vars PROVE ReaderInv'
  OBVIOUS
<1>1. ASSUME NEW address \in Addresses, NEW size \in 0..MaxSize, NEW dir \in Directions,
             Read(address, size, dir)
      PROVE  ReaderInv'
  <2>1. ReadInv'
    BY <1>1, ReadKeeps DEF ReaderInv, Read
  <2>2. WalkTypes' /\ WalkInv'
    BY <1>1 DEF ReaderInv, WalkTypes, WalkInv, Visited, Visit, Read, ReadInto,
                iterators, range
  <2> QED
    BY <2>1, <2>2 DEF ReaderInv
<1>2. ASSUME NEW address \in Addresses, seek(address)
      PROVE  ReaderInv'
  BY <1>2, RestartKeeps DEF seek, ReaderInv, ReadInv, WindowTypes
<1>3. ASSUME NEW address \in Addresses, setEndAddress(address)
      PROVE  ReaderInv'
  BY <1>3, RestartKeeps DEF setEndAddress, ReaderInv, ReadInv, WindowTypes
<1>4. ASSUME NEW dir \in Directions, Step(dir)
      PROVE  ReaderInv'
  BY <1>4, StepKeeps
<1>5. CASE UNCHANGED vars
  BY <1>5 DEF ReaderInv, ReadInv, WindowTypes, WindowInv, OutInv, BytesTrue, ReadComplete,
              WalkTypes, WalkInv, Visited, Visit, vars, window, range, iterators
<1> QED
  BY <1>1, <1>2, <1>3, <1>4, <1>5 DEF Next

LEMMA ReaderAlways == Spec => []ReaderInv
<1> QED
  BY ReaderInit, ReaderNext, PTL DEF Spec

\* read() and readReverse() write nothing but the bytes of the source, and never copy
\* from behind the window, whatever moved the window before.
THEOREM OnlyTrueBytes == Spec => []BytesTrue
<1>1. ReaderInv => BytesTrue
  BY DEF ReaderInv, ReadInv
<1> QED
  BY <1>1, ReaderAlways, PTL

\* read() and readReverse() leave out no byte of the range.
THEOREM NoByteMissing == Spec => []ReadComplete
<1>1. ReaderInv => ReadComplete
  BY DEF ReaderInv, ReadInv
<1> QED
  BY <1>1, ReaderAlways, PTL

\* A loop over an Iterator or a ReverseIterator visits each byte of the range once and
\* in order, at every range, the one that starts at address 0 included.
THEOREM LoopsVisitAll == Spec => []WalkComplete
<1>1. ASSUME ReaderInv, m_startAddress <= m_endAddress, NEW dir \in Directions,
             position[dir] = End(dir)
      PROVE  seen[dir] = Visited(dir, m_endAddress - m_startAddress + 1)
  BY <1>1, VisitIs DEF ReaderInv, ReadInv, WalkInv
<1>2. ReaderInv => WalkComplete
  BY <1>1 DEF WalkComplete, Visited, Visit, Directions
<1> QED
  BY <1>2, ReaderAlways, PTL
=============================================================================
