--------------------------- MODULE BufferedReader ---------------------------
(***************************************************************************)
(* wolv::io::BufferedReader                                                *)
(* (libs/io/include/wolv/io/buffered_reader.hpp): one window of a data     *)
(* source is kept in m_buffer, and reads in both directions move it.       *)
(*                                                                         *)
(* The source has a byte at every address; the byte at address a is the    *)
(* number a, so that a byte tells where it was read.  Addresses and sizes  *)
(* wrap around at Modulus.  A forward and a reverse iterator, which hold   *)
(* an address and read single bytes, share the window with the other       *)
(* callers.                                                                *)
(***************************************************************************)
EXTENDS Integers, Sequences

CONSTANTS
    Modulus,            \* 2^64 in the code
    m_maxBufferSize,
    DataSize,           \* the size given to the constructor
    MaxSize             \* bound: the longest read

\* Bound: the addresses that callers use, one past the end included.
Addresses == 0..DataSize

\* Nobody reads so close to the last address that address + size wraps around, or
\* sets the last address of all as the end of the range.
ASSUME ReaderAssumption ==
    /\ m_maxBufferSize \in Nat \ {0}
    /\ DataSize \in Nat /\ MaxSize \in Nat \ {0}
    /\ Modulus \in Nat /\ DataSize + MaxSize + m_maxBufferSize < Modulus

VARIABLES
    m_bufferAddress,
    m_buffer,
    m_bufferValid,
    m_startAddress,
    m_endAddress,
    request,            \* the last read: its address and its size
    out,                \* what the last read left in the caller's zeroed buffer
    position,           \* the address of the iterator of each direction
    seen                \* history: the bytes each iterator has read

window == <<m_bufferAddress, m_buffer, m_bufferValid>>
range == <<m_startAddress, m_endAddress>>
iterators == <<position, seen>>
vars == <<window, range, request, out, iterators>>

Directions == {"forward", "reverse"}
Untouched == -1         \* a byte of the caller's buffer that was not written
Beyond == -2            \* what lies behind the end of m_buffer

Wrap(n) == n % Modulus
Least(a, b) == IF a < b THEN a ELSE b
Greatest(a, b) == IF a > b THEN a ELSE b

\* What Reader stores for size bytes from address on.
Source(address, size) == [i \in 1..size |-> Wrap(address + i - 1)]

Start(dir) == IF dir = "forward" THEN m_startAddress ELSE m_endAddress
End(dir) == IF dir = "forward" THEN Wrap(m_endAddress + 1) ELSE Wrap(m_startAddress - 1)

Init ==
    /\ m_bufferAddress = 0
    /\ m_buffer = [i \in 1..m_maxBufferSize |-> Untouched]
    /\ m_bufferValid = FALSE
    /\ m_startAddress = 0
    /\ m_endAddress = Greatest(DataSize, 1) - 1
    /\ request = [address |-> 0, size |-> 0]
    /\ out = <<>>
    /\ position = [dir \in Directions |-> Start(dir)]
    /\ seen = [dir \in Directions |-> <<>>]

-----------------------------------------------------------------------------
(* Faulty variants, for the runs to tell apart.                            *)

\* A window test that does not look at the length of the read.
InWindowAtStart(address, size) ==
    /\ m_bufferValid
    /\ address >= m_bufferAddress
    /\ address < Wrap(m_bufferAddress + Len(m_buffer))

\* A reverse window that always has its full length.
ReverseStartUnclipped(endPlus1) == Wrap(endPlus1 - m_maxBufferSize)

\* A window that ends one byte before the end of the range.
EndOfWindowShort(n) == Least(Wrap(n), Wrap(m_endAddress))

-----------------------------------------------------------------------------
(* updateBuffer()                                                          *)

InWindow(address, size) ==
    /\ m_bufferValid
    /\ address >= m_bufferAddress
    /\ Wrap(address + size) <= Wrap(m_bufferAddress + Len(m_buffer))

EndOfWindow(n) == Least(Wrap(n), Wrap(m_endAddress + 1))

\* The window of readReverse() ends with the read; it is as long as the buffer, or
\* begins at m_startAddress when there is not so much.
ReverseStart(endPlus1) ==
    IF Wrap(endPlus1 - m_startAddress) < m_maxBufferSize
    THEN m_startAddress ELSE Wrap(endPlus1 - m_maxBufferSize)

Refill(address, size, dir) ==
    IF dir = "forward"
    THEN [start    |-> Greatest(address, m_startAddress),
          endPlus1 |-> EndOfWindow(address + m_maxBufferSize)]
    ELSE [start    |-> ReverseStart(EndOfWindow(address + size)),
          endPlus1 |-> EndOfWindow(address + size)]

\* The window that serves the read, if there is one, and whether it is a new one.
Serves(address, w) == w.start <= address /\ address < w.endPlus1

Moved(w) ==
    /\ m_bufferAddress' = w.start
    /\ m_buffer' = Source(w.start, w.endPlus1 - w.start)
    /\ m_bufferValid' = TRUE

-----------------------------------------------------------------------------
(* read() and readReverse(), from the window in its new state.             *)

\* memcpy() of n bytes; what is behind m_buffer is beyond it.
Copied(address, size, n) ==
    [i \in 1..size |->
        LET k == address - m_bufferAddress' + i IN
        IF i > n THEN Untouched
        ELSE IF k <= Len(m_buffer') THEN m_buffer'[k] ELSE Beyond]

\* The two directions limit the copy differently.
Limit(address, size, dir) ==
    IF dir = "forward" THEN Least(size, Len(m_buffer'))
    ELSE Least(size, Len(m_buffer') - (address - m_bufferAddress'))

ReadInto(address, size, dir) ==
    /\ request' = [address |-> address, size |-> size]
    /\ \/ /\ size > m_maxBufferSize
          /\ out' = Source(address, size)
          /\ UNCHANGED window
       \/ /\ size <= m_maxBufferSize /\ InWindow(address, size)
          /\ UNCHANGED window
          /\ out' = Copied(address, size, Limit(address, size, dir))
       \/ /\ size <= m_maxBufferSize /\ ~InWindow(address, size)
          /\ Serves(address, Refill(address, size, dir))
          /\ Moved(Refill(address, size, dir))
          /\ out' = Copied(address, size, Limit(address, size, dir))
       \/ /\ size <= m_maxBufferSize /\ ~InWindow(address, size)
          /\ ~Serves(address, Refill(address, size, dir))
          /\ out' = [i \in 1..size |-> Untouched]
          /\ UNCHANGED window
    /\ UNCHANGED range

Read(address, size, dir) ==
    /\ ReadInto(address, size, dir)
    /\ UNCHANGED iterators

\* Whoever changes the range begins his iterations anew.
Restart ==
    /\ position' = [dir \in Directions |-> Start(dir)']
    /\ seen' = [dir \in Directions |-> <<>>]
    /\ request' = [request EXCEPT !.size = 0]
    /\ out' = <<>>

seek(address) ==
    /\ m_startAddress' = address
    /\ m_endAddress' = m_endAddress
    /\ Restart
    /\ UNCHANGED window

setEndAddress(address) ==
    /\ m_endAddress' = address
    /\ m_startAddress' = m_startAddress
    /\ Restart
    /\ UNCHANGED window

-----------------------------------------------------------------------------
(* Iterator and ReverseIterator: operator* and operator++, as a loop from  *)
(* begin to end makes them.  (Over a range that ends before it starts the  *)
(* loop would run through all addresses; nobody begins such a loop.)       *)

Following(dir) ==
    IF dir = "forward" THEN Wrap(position[dir] + 1) ELSE Wrap(position[dir] - 1)

Step(dir) ==
    /\ m_startAddress <= m_endAddress
    /\ position[dir] # End(dir)
    /\ ReadInto(position[dir], 1, dir)
    /\ seen' = [seen EXCEPT ![dir] = Append(@, out'[1])]
    /\ position' = [position EXCEPT ![dir] = Following(dir)]

Next ==
    \/ \E address \in Addresses, size \in 0..MaxSize, dir \in Directions :
          Read(address, size, dir)
    \/ \E address \in Addresses : seek(address) \/ setEndAddress(address)
    \/ \E dir \in Directions : Step(dir)

Spec == Init /\ [][Next]_vars

-----------------------------------------------------------------------------
(* Properties.                                                             *)

Bytes == 0..(Modulus - 1)

\* Whatever reads in either direction, iterators and changes of the range came
\* before, a read writes only the bytes that the source has at the addresses asked
\* for, and never copies from behind the window.
BytesTrue ==
    \A i \in 1..Len(out) :
        out[i] \in {Untouched, Wrap(request.address + i - 1)}

\* A read that starts in the range gets every byte up to the end of the range.
ReadComplete ==
    request.address >= m_startAddress =>
        \A i \in 1..Len(out) :
            request.address + i - 1 <= m_endAddress =>
                out[i] = request.address + i - 1

\* An iteration in either direction visits the bytes of the range, each once and in
\* order, while the other iterator and other reads move the window.
WalkComplete ==
    m_startAddress <= m_endAddress =>
        LET n == m_endAddress - m_startAddress + 1 IN
        /\ position["forward"] = End("forward") =>
              seen["forward"] = [i \in 1..n |-> m_startAddress + i - 1]
        /\ position["reverse"] = End("reverse") =>
              seen["reverse"] = [i \in 1..n |-> m_endAddress - i + 1]
=============================================================================
