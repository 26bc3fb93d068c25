----------------------------- MODULE RingBuffer -----------------------------
(***************************************************************************)
(* wolv::container::RingBuffer                                             *)
(* (libs/containers/include/wolv/container/ring_buffer.hpp).               *)
(***************************************************************************)
EXTENDS Integers, Sequences

CONSTANTS
    Elements,
    Nothing,        \* a slot that was never written, or was moved from
    m_capacity

\* The constructor throws on a capacity of zero.
ASSUME RingAssumption == m_capacity \in Nat \ {0}
ASSUME NothingAssumption == Nothing \notin Elements

VARIABLES
    m_buffer,
    m_head,         \* the slot the next push writes
    m_tail,         \* the slot of the oldest element
    m_size,
    out             \* what the last successful pop(out) stored

vars == <<m_buffer, m_head, m_tail, m_size, out>>

Slots == 0..(m_capacity - 1)

\* The slot n places behind i, n at most m_capacity.
Advance(i, n) == (i + n) % m_capacity

empty == m_size = 0
full == m_size = m_capacity

Init ==
    /\ m_buffer = [i \in Slots |-> Nothing]
    /\ m_head = 0 /\ m_tail = 0 /\ m_size = 0
    /\ out = Nothing

-----------------------------------------------------------------------------
(* Faulty variants, for the runs to tell apart.                            *)

\* A push that does not advance m_tail past the element it overwrites.
PushKeepsTail(item) ==
    /\ m_tail' = m_tail
    /\ m_buffer' = [m_buffer EXCEPT ![m_head] = item]
    /\ m_head' = Advance(m_head, 1)
    /\ m_size' = IF full THEN m_size ELSE m_size + 1
    /\ out' = out

\* A push that counts the element it overwrites.
PushCountsTwice(item) ==
    /\ m_tail' = IF full THEN Advance(m_tail, 1) ELSE m_tail
    /\ m_buffer' = [m_buffer EXCEPT ![m_head] = item]
    /\ m_head' = Advance(m_head, 1)
    /\ m_size' = m_size + 1
    /\ out' = out

\* A clear() that resets the size only up to m_tail.
ClearKeepsHead ==
    /\ m_tail' = 0 /\ m_size' = 0
    /\ UNCHANGED <<m_buffer, m_head, out>>

-----------------------------------------------------------------------------
(* The operations.  push() by copy and push() by move differ only in what  *)
(* becomes of the argument.                                                *)

push(item) ==
    /\ m_tail' = IF full THEN Advance(m_tail, 1) ELSE m_tail
    /\ m_buffer' = [m_buffer EXCEPT ![m_head] = item]
    /\ m_head' = Advance(m_head, 1)
    /\ m_size' = IF full THEN m_size ELSE m_size + 1
    /\ out' = out

\* The element is moved out: its slot may keep the value or lose it.
pop ==
    /\ ~empty
    /\ out' = m_buffer[m_tail]
    /\ \E left \in {m_buffer[m_tail], Nothing} :
          m_buffer' = [m_buffer EXCEPT ![m_tail] = left]
    /\ m_tail' = Advance(m_tail, 1)
    /\ m_size' = m_size - 1
    /\ m_head' = m_head

clear ==
    /\ m_head' = 0 /\ m_tail' = 0 /\ m_size' = 0
    /\ UNCHANGED <<m_buffer, out>>

Next == (\E item \in Elements : push(item)) \/ pop \/ clear

Spec == Init /\ [][Next]_vars

-----------------------------------------------------------------------------
(* What the buffer shows to its user.                                      *)

\* front() and back(), which throw when the buffer is empty.
front == m_buffer[m_tail]
back == m_buffer[Advance(m_head, m_capacity - 1)]

\* The elements visited from begin() to end().
Visited == [i \in 1..m_size |-> m_buffer[Advance(m_tail, i - 1)]]

-----------------------------------------------------------------------------
(* Properties.                                                             *)

\* The types; every element that can be visited is one that was pushed and has not
\* been moved out.
TypeOK ==
    /\ m_buffer \in [Slots -> Elements \union {Nothing}]
    /\ m_head \in Slots
    /\ m_tail \in Slots
    /\ m_size \in 0..m_capacity
    /\ out \in Elements \union {Nothing}
    /\ \A i \in 1..m_size : Visited[i] \in Elements

\* front(), which follows m_tail, and back(), which follows m_head, are the ends of
\* what the iterators visit, also after the indices have wrapped around.
EndsAgree ==
    m_size > 0 => front = Visited[1] /\ back = Visited[m_size]

\* The ring of slots with its two wrapping indices is a bounded queue.
Fifo == INSTANCE BoundedFifo WITH Capacity <- m_capacity, content <- Visited
Promise == Fifo!Spec
=============================================================================
