-------------------------- MODULE RingBufferProofs --------------------------
(***************************************************************************)
(* Theorems about RingBuffer, for every capacity and every set of          *)
(* elements.                                                               *)
(***************************************************************************)
EXTENDS RingBuffer, TLAPS, SequenceTheorems

-----------------------------------------------------------------------------
(* The arithmetic of the indices: one step past the end is a subtraction.  *)

LEMMA Wraps ==
    ASSUME NEW c \in Nat \ {0}, NEW x \in 0..(2 * c - 1)
    PROVE  x % c = IF x < c THEN x ELSE x - c
<1> DEFINE q == x \div c
           r == x % c
<1>1. /\ q \in Int /\ r \in 0..(c - 1)
      /\ x = c * q + r
  BY Z3
<1> HIDE DEF q, r
<1>2. CASE q <= 0
  <2>1. c * q <= 0
    BY <1>1, <1>2
  <2>2. q = 0
    <3>1. ASSUME q <= -1 PROVE c * q <= -c
      BY <1>1, <3>1
    <3> QED
      BY <1>1, <1>2, <3>1
  <2> QED
    BY <1>1, <2>2 DEF r
<1>3. CASE q = 1
  BY <1>1, <1>3 DEF r
<1>4. CASE q >= 2
  <2>1. c * q >= 2 * c
    BY <1>1, <1>4
  <2> QED
    BY <1>1, <2>1
<1> QED
  BY <1>1, <1>2, <1>3, <1>4

LEMMA AdvanceIs ==
    ASSUME NEW i \in Slots, NEW n \in 0..m_capacity
    PROVE  /\ Advance(i, n) = IF i + n < m_capacity THEN i + n ELSE i + n - m_capacity
           /\ Advance(i, n) \in Slots
<1>1. i + n \in 0..(2 * m_capacity - 1)
  BY RingAssumption DEF Slots
<1> DEFINE x == i + n
<1> HIDE DEF x
<1>2. x \in 0..(2 * m_capacity - 1)
  BY <1>1 DEF x
<1>3. x % m_capacity = IF x < m_capacity THEN x ELSE x - m_capacity
  BY <1>2, RingAssumption, Wraps
<1> QED
  BY <1>1, <1>2, <1>3, RingAssumption DEF Slots, Advance, x

-----------------------------------------------------------------------------
(* The two indices delimit the elements.                                   *)

IndexInv == m_head = Advance(m_tail, m_size)
Inv == TypeOK /\ IndexInv

LEMMA Bounds ==
    ASSUME Inv
    PROVE  /\ m_capacity \in Nat \ {0} /\ m_size \in 0..m_capacity
           /\ m_head \in 0..(m_capacity - 1) /\ m_tail \in 0..(m_capacity - 1)
           /\ m_head = IF m_tail + m_size < m_capacity
                       THEN m_tail + m_size ELSE m_tail + m_size - m_capacity
BY RingAssumption, AdvanceIs DEF Inv, TypeOK, IndexInv, Slots

LEMMA InitInv == Init => Inv
<1> SUFFICES ASSUME Init PROVE Inv
  OBVIOUS
<1>1. /\ 0 \in Slots /\ m_size = 0 /\ m_head = 0 /\ m_tail = 0
      /\ m_buffer \in [Slots -> Elements \union {Nothing}]
      /\ out \in Elements \union {Nothing}
  BY RingAssumption DEF Init, Slots
<1>2. Advance(0, 0) = 0
  BY <1>1, AdvanceIs, RingAssumption DEF Slots
<1> QED
  BY <1>1, <1>2, RingAssumption DEF Inv, TypeOK, IndexInv

\* What a push does to the places the iterators visit.
LEMMA PushShows ==
    ASSUME Inv, NEW item \in Elements, push(item)
    PROVE  /\ m_size' = IF m_size = m_capacity THEN m_size ELSE m_size + 1
           /\ m_size' \in 1..m_capacity
           /\ m_head' \in Slots /\ m_tail' \in Slots
           /\ m_head' = Advance(m_tail', m_size')
           /\ m_buffer' \in [Slots -> Elements \union {Nothing}]
           /\ \A i \in 1..m_size' :
                 m_buffer'[Advance(m_tail', i - 1)] =
                     IF i = m_size' THEN item
                     ELSE IF m_size = m_capacity THEN m_buffer[Advance(m_tail, i)]
                     ELSE m_buffer[Advance(m_tail, i - 1)]
<1>1. /\ m_tail' = IF m_size = m_capacity THEN Advance(m_tail, 1) ELSE m_tail
      /\ m_buffer' = [m_buffer EXCEPT ![m_head] = item]
      /\ m_head' = Advance(m_head, 1)
      /\ m_size' = IF m_size = m_capacity THEN m_size ELSE m_size + 1
  BY DEF push, full
<1>2. /\ m_capacity \in Nat \ {0} /\ m_size \in 0..m_capacity
      /\ m_head \in 0..(m_capacity - 1) /\ m_tail \in 0..(m_capacity - 1)
      /\ m_head = IF m_tail + m_size < m_capacity
                  THEN m_tail + m_size ELSE m_tail + m_size - m_capacity
  BY Bounds
<1>3. m_buffer \in [Slots -> Elements \union {Nothing}]
  BY DEF Inv, TypeOK
<1>4. \A i \in Slots, n \in 0..m_capacity :
         /\ Advance(i, n) = IF i + n < m_capacity THEN i + n ELSE i + n - m_capacity
         /\ Advance(i, n) \in Slots
  BY AdvanceIs
<1>5. m_head \in Slots /\ m_tail \in Slots /\ 1 \in 0..m_capacity
  BY <1>2 DEF Slots
<1>6. m_size' \in 1..m_capacity
  BY <1>1, <1>2
<1>7. m_head' \in Slots /\ m_tail' \in Slots
  BY <1>1, <1>4, <1>5
<1>8. m_head' = Advance(m_tail', m_size')
  <2>1. m_head' = IF m_head + 1 < m_capacity THEN m_head + 1 ELSE m_head + 1 - m_capacity
    BY <1>1, <1>4, <1>5
  <2>2. Advance(m_tail', m_size') =
           IF m_tail' + m_size' < m_capacity
           THEN m_tail' + m_size' ELSE m_tail' + m_size' - m_capacity
    BY <1>4, <1>6, <1>7
  <2>3. m_tail' = IF m_size = m_capacity
                  THEN IF m_tail + 1 < m_capacity
                       THEN m_tail + 1 ELSE m_tail + 1 - m_capacity
                  ELSE m_tail
    BY <1>1, <1>4, <1>5
  <2> QED
    BY <1>1, <1>2, <2>1, <2>2, <2>3
<1>9. ASSUME NEW i \in 1..m_size'
      PROVE  m_buffer'[Advance(m_tail', i - 1)] =
                 IF i = m_size' THEN item
                 ELSE IF m_size = m_capacity THEN m_buffer[Advance(m_tail, i)]
                 ELSE m_buffer[Advance(m_tail, i - 1)]
  <2>1. i - 1 \in 0..m_capacity /\ i \in 0..m_capacity
    BY <1>2, <1>6
  <2>2. /\ Advance(m_tail', i - 1) = IF m_tail' + (i - 1) < m_capacity
                                     THEN m_tail' + (i - 1)
                                     ELSE m_tail' + (i - 1) - m_capacity
        /\ Advance(m_tail', i - 1) \in Slots
    BY <1>4, <1>7, <2>1
  <2>3. /\ m_buffer'[m_head] = item
        /\ \A s \in Slots : s # m_head => m_buffer'[s] = m_buffer[s]
    BY <1>1, <1>3, <1>5
  <2>4. CASE m_size = m_capacity
    <3>1. m_tail' = IF m_tail + 1 < m_capacity
                    THEN m_tail + 1 ELSE m_tail + 1 - m_capacity
      BY <1>1, <1>4, <1>5, <2>4
    <3>2. Advance(m_tail, i) = IF m_tail + i < m_capacity
                               THEN m_tail + i ELSE m_tail + i - m_capacity
      BY <1>4, <1>5, <2>1
    <3>3. Advance(m_tail', i - 1) = Advance(m_tail, i)
      BY <1>2, <1>6, <2>2, <3>1, <3>2
    <3>4. i = m_size' <=> Advance(m_tail, i) = m_head
      BY <1>1, <1>2, <2>4, <3>2
    <3> QED
      BY <2>2, <2>3, <2>4, <3>3, <3>4
  <2>5. CASE m_size # m_capacity
    <3>1. m_tail' = m_tail
      BY <1>1, <2>5
    <3>2. i = m_size' <=> Advance(m_tail, i - 1) = m_head
      BY <1>1, <1>2, <2>2, <2>5, <3>1
    <3> QED
      BY <2>2, <2>3, <2>5, <3>1, <3>2
  <2> QED
    BY <2>4, <2>5
<1> QED
  BY <1>1, <1>3, <1>5, <1>6, <1>7, <1>8, <1>9

\* What a pop does to the places the iterators visit.
LEMMA PopShows ==
    ASSUME Inv, pop
    PROVE  /\ m_size \in 1..m_capacity /\ m_size' = m_size - 1
           /\ m_head' \in Slots /\ m_tail' \in Slots
           /\ m_head' = Advance(m_tail', m_size')
           /\ m_buffer' \in [Slots -> Elements \union {Nothing}]
           /\ out' = m_buffer[m_tail] /\ m_tail = Advance(m_tail, 0)
           /\ \A i \in 1..m_size' :
                 m_buffer'[Advance(m_tail', i - 1)] = m_buffer[Advance(m_tail, i)]
<1>1. /\ m_size # 0 /\ m_size' = m_size - 1
      /\ m_tail' = Advance(m_tail, 1) /\ m_head' = m_head
      /\ out' = m_buffer[m_tail]
  BY DEF pop, empty
<1>2. /\ m_capacity \in Nat \ {0} /\ m_size \in 0..m_capacity
      /\ m_head \in 0..(m_capacity - 1) /\ m_tail \in 0..(m_capacity - 1)
      /\ m_head = IF m_tail + m_size < m_capacity
                  THEN m_tail + m_size ELSE m_tail + m_size - m_capacity
  BY Bounds
<1>3. m_buffer \in [Slots -> Elements \union {Nothing}]
  BY DEF Inv, TypeOK
<1>4. m_head \in Slots /\ m_tail \in Slots /\ 1 \in 0..m_capacity /\ 0 \in 0..m_capacity
  BY <1>2 DEF Slots
<1>5. PICK left \in {m_buffer[m_tail], Nothing} :
          m_buffer' = [m_buffer EXCEPT ![m_tail] = left]
  BY DEF pop
<1>6. /\ m_buffer' \in [Slots -> Elements \union {Nothing}]
      /\ \A s \in Slots : s # m_tail => m_buffer'[s] = m_buffer[s]
  BY <1>3, <1>4, <1>5
<1>7. \A i \in Slots, n \in 0..m_capacity :
         /\ Advance(i, n) = IF i + n < m_capacity THEN i + n ELSE i + n - m_capacity
         /\ Advance(i, n) \in Slots
  BY AdvanceIs
<1>8. /\ m_size \in 1..m_capacity /\ m_size' \in 0..m_capacity
      /\ m_tail' \in Slots /\ m_tail = Advance(m_tail, 0)
  <2>1. Advance(m_tail, 0) = IF m_tail + 0 < m_capacity
                             THEN m_tail + 0 ELSE m_tail + 0 - m_capacity
    BY <1>4, <1>7
  <2> QED
    BY <1>1, <1>2, <1>4, <1>7, <2>1
<1>9. m_tail' = IF m_tail + 1 < m_capacity THEN m_tail + 1 ELSE m_tail + 1 - m_capacity
  BY <1>1, <1>4, <1>7
<1>10. m_head' = Advance(m_tail', m_size')
  <2>1. Advance(m_tail', m_size') =
           IF m_tail' + m_size' < m_capacity
           THEN m_tail' + m_size' ELSE m_tail' + m_size' - m_capacity
    BY <1>7, <1>8
  <2> QED
    BY <1>1, <1>2, <1>9, <2>1
<1>11. ASSUME NEW i \in 1..m_size'
       PROVE  m_buffer'[Advance(m_tail', i - 1)] = m_buffer[Advance(m_tail, i)]
  <2>1. i - 1 \in 0..m_capacity /\ i \in 0..m_capacity /\ i < m_capacity
    BY <1>1, <1>2, <1>8
  <2>2. Advance(m_tail', i - 1) = IF m_tail' + (i - 1) < m_capacity
                                  THEN m_tail' + (i - 1)
                                  ELSE m_tail' + (i - 1) - m_capacity
    BY <1>7, <1>8, <2>1
  <2>3. /\ Advance(m_tail, i) = IF m_tail + i < m_capacity
                                THEN m_tail + i ELSE m_tail + i - m_capacity
        /\ Advance(m_tail, i) \in Slots
    BY <1>4, <1>7, <2>1
  <2>4. Advance(m_tail', i - 1) = Advance(m_tail, i)
    BY <1>2, <1>9, <2>1, <2>2, <2>3
  <2>5. Advance(m_tail, i) # m_tail
    BY <1>2, <2>1, <2>3
  <2> QED
    BY <1>6, <2>3, <2>4, <2>5
<1> QED
  BY <1>1, <1>4, <1>6, <1>8, <1>10, <1>11

\* The elements the iterators visit, as a sequence.
LEMMA VisitedSeq ==
    ASSUME TypeOK
    PROVE  /\ Visited \in Seq(Elements) /\ Len(Visited) = m_size
           /\ \A i \in 1..m_size : Visited[i] = m_buffer[Advance(m_tail, i - 1)]
<1>1. m_size \in Nat
  BY RingAssumption DEF TypeOK
<1>2. \A i \in 1..m_size : Visited[i] \in Elements
  BY DEF TypeOK
<1>3. Visited \in [1..m_size -> Elements]
  BY <1>2 DEF Visited
<1> QED
  BY <1>1, <1>3 DEF Visited

\* The elements that can be visited after an operation were pushed.
LEMMA InvNext == Inv /\ [Next]_vars => Inv'
<1> SUFFICES ASSUME Inv, [Next]_vars PROVE Inv'
  OBVIOUS
<1>1. /\ m_capacity \in Nat \ {0} /\ m_size \in 0..m_capacity
      /\ out \in Elements \union {Nothing}
      /\ \A i \in 1..m_size : m_buffer[Advance(m_tail, i - 1)] \in Elements
  <2>1. TypeOK
    BY DEF Inv
  <2>2. \A i \in 1..m_size : Visited[i] \in Elements
    BY <2>1 DEF TypeOK
  <2> QED
    BY <2>1, <2>2, RingAssumption DEF TypeOK, Visited
<1>2. ASSUME NEW item \in Elements, push(item) PROVE Inv'
  <2>1. /\ m_size' = IF m_size = m_capacity THEN m_size ELSE m_size + 1
        /\ m_size' \in 1..m_capacity
        /\ m_head' \in Slots /\ m_tail' \in Slots
        /\ m_head' = Advance(m_tail', m_size')
        /\ m_buffer' \in [Slots -> Elements \union {Nothing}]
        /\ \A i \in 1..m_size' :
              m_buffer'[Advance(m_tail', i - 1)] =
                  IF i = m_size' THEN item
                  ELSE IF m_size = m_capacity THEN m_buffer[Advance(m_tail, i)]
                  ELSE m_buffer[Advance(m_tail, i - 1)]
    BY <1>2, PushShows
  <2>2. ASSUME NEW i \in 1..m_size'
        PROVE  m_buffer'[Advance(m_tail', i - 1)] \in Elements
    <3>1. CASE i = m_size'
      BY <2>1, <3>1
    <3>2. CASE i # m_size' /\ m_size = m_capacity
      <4>1. i + 1 \in 1..m_size /\ (i + 1) - 1 = i
        BY <1>1, <2>1, <3>2
      <4> QED
        BY <1>1, <2>1, <3>2, <4>1
    <3>3. CASE i # m_size' /\ m_size # m_capacity
      <4>1. i \in 1..m_size
        BY <1>1, <2>1, <3>3
      <4> QED
        BY <1>1, <2>1, <3>3, <4>1
    <3> QED
      BY <3>1, <3>2, <3>3
  <2>3. \A i \in 1..m_size' : Visited'[i] \in Elements
    BY <2>2 DEF Visited
  <2>4. out' = out /\ m_size' \in 0..m_capacity
    BY <1>2, <2>1, <1>1 DEF push
  <2> QED
    BY <1>1, <2>1, <2>3, <2>4 DEF Inv, TypeOK, IndexInv
<1>3. CASE pop
  <2>1. /\ m_size \in 1..m_capacity /\ m_size' = m_size - 1
        /\ m_head' \in Slots /\ m_tail' \in Slots
        /\ m_head' = Advance(m_tail', m_size')
        /\ m_buffer' \in [Slots -> Elements \union {Nothing}]
        /\ out' = m_buffer[m_tail] /\ m_tail = Advance(m_tail, 0)
        /\ \A i \in 1..m_size' :
              m_buffer'[Advance(m_tail', i - 1)] = m_buffer[Advance(m_tail, i)]
    BY <1>3, PopShows
  <2>2. ASSUME NEW i \in 1..m_size'
        PROVE  m_buffer'[Advance(m_tail', i - 1)] \in Elements
    <3>1. i + 1 \in 1..m_size /\ (i + 1) - 1 = i
      BY <1>1, <2>1
    <3> QED
      BY <1>1, <2>1, <3>1
  <2>3. \A i \in 1..m_size' : Visited'[i] \in Elements
    BY <2>2 DEF Visited
  <2>4. m_size' \in 0..m_capacity
    BY <1>1, <2>1
  <2>5. out' \in Elements
    <3>1. 1 \in 1..m_size /\ 1 - 1 = 0
      BY <1>1, <2>1
    <3> QED
      BY <1>1, <2>1, <3>1
  <2> QED
    BY <1>1, <2>1, <2>3, <2>4, <2>5 DEF Inv, TypeOK, IndexInv
<1>4. CASE clear
  <2>1. /\ m_head' = 0 /\ m_tail' = 0 /\ m_size' = 0
        /\ m_buffer' = m_buffer /\ out' = out
    BY <1>4 DEF clear
  <2>2. 0 \in Slots /\ 0 \in 0..m_capacity
    BY <1>1 DEF Slots
  <2>3. Advance(0, 0) = 0
    BY <1>1, <2>2, AdvanceIs
  <2>4. \A i \in 1..m_size' : Visited'[i] \in Elements
    BY <2>1
  <2> QED
    BY <1>1, <2>1, <2>2, <2>3, <2>4 DEF Inv, TypeOK, IndexInv
<1>5. CASE UNCHANGED vars
  BY <1>5 DEF vars, Inv, TypeOK, IndexInv, Visited
<1> QED
  BY <1>2, <1>3, <1>4, <1>5 DEF Next

LEMMA Invariance == Spec => []Inv
<1> QED
  BY InitInv, InvNext, PTL DEF Spec

\* The indices stay in the ring, and what can be visited has been pushed and not
\* moved out.
THEOREM TypeCorrect == Spec => []TypeOK
<1>1. Inv => TypeOK
  BY DEF Inv
<1> QED
  BY <1>1, Invariance, PTL

\* front() and back() are the ends of what the iterators visit.
THEOREM EndsCorrect == Spec => []EndsAgree
<1>1. Inv => EndsAgree
  <2> SUFFICES ASSUME Inv, m_size > 0
               PROVE  front = Visited[1] /\ back = Visited[m_size]
    BY DEF EndsAgree
  <2>1. /\ m_capacity \in Nat \ {0} /\ m_size \in 0..m_capacity
        /\ m_head \in 0..(m_capacity - 1) /\ m_tail \in 0..(m_capacity - 1)
        /\ m_head = IF m_tail + m_size < m_capacity
                    THEN m_tail + m_size ELSE m_tail + m_size - m_capacity
    BY Bounds
  <2>2. /\ m_head \in Slots /\ m_tail \in Slots
        /\ 1 \in 1..m_size /\ m_size \in 1..m_size
        /\ 0 \in 0..m_capacity /\ m_size - 1 \in 0..m_capacity
        /\ m_capacity - 1 \in 0..m_capacity /\ 1 - 1 = 0
    BY <2>1 DEF Slots
  <2>3. Advance(m_tail, 0) = IF m_tail + 0 < m_capacity
                             THEN m_tail + 0 ELSE m_tail + 0 - m_capacity
    BY <2>2, AdvanceIs
  <2>4. Advance(m_tail, m_size - 1) =
            IF m_tail + (m_size - 1) < m_capacity
            THEN m_tail + (m_size - 1) ELSE m_tail + (m_size - 1) - m_capacity
    BY <2>2, AdvanceIs
  <2>5. Advance(m_head, m_capacity - 1) =
            IF m_head + (m_capacity - 1) < m_capacity
            THEN m_head + (m_capacity - 1) ELSE m_head + (m_capacity - 1) - m_capacity
    BY <2>2, AdvanceIs
  <2>6. Advance(m_head, m_capacity - 1) = Advance(m_tail, m_size - 1)
    BY <2>1, <2>2, <2>4, <2>5
  <2>7. Advance(m_tail, 0) = m_tail
    BY <2>1, <2>3
  <2> QED
    BY <2>2, <2>6, <2>7 DEF front, back, Visited
<1> QED
  BY <1>1, Invariance, PTL

-----------------------------------------------------------------------------
(* The ring implements the queue.                                          *)

LEMMA AppendAgrees ==
    ASSUME NEW S, NEW s \in Seq(S), NEW t \in Seq(S), NEW e \in S,
           Len(t) = Len(s) + 1, t[Len(t)] = e,
           \A i \in 1..Len(s) : t[i] = s[i]
    PROVE  t = Append(s, e)
<1> DEFINE n == Len(s)
<1>1. /\ Append(s, e) \in Seq(S) /\ Len(Append(s, e)) = n + 1
      /\ \A i \in 1..n : Append(s, e)[i] = s[i]
      /\ Append(s, e)[n + 1] = e
  BY AppendProperties
<1>2. n \in Nat /\ Len(t) = n + 1 /\ t[n + 1] = e /\ \A i \in 1..n : t[i] = s[i]
  BY LenProperties
<1> HIDE DEF n
<1>3. ASSUME NEW i \in 1..(n + 1) PROVE t[i] = Append(s, e)[i]
  <2>1. i \in 1..n \/ i = n + 1
    BY <1>2
  <2> QED
    BY <1>1, <1>2, <2>1
<1>4. Len(t) = Len(Append(s, e)) /\ \A i \in 1..Len(t) : t[i] = Append(s, e)[i]
  BY <1>1, <1>2, <1>3
<1> QED
  BY <1>1, <1>4, SeqEqual

LEMMA RefinesInit == Init => Fifo!Init
<1> SUFFICES ASSUME Init PROVE Visited = <<>> /\ out = Nothing
  BY DEF Fifo!Init
<1>1. Visited \in Seq(Elements) /\ Len(Visited) = 0
  BY InitInv, VisitedSeq DEF Inv, Init
<1>2. Visited = <<>>
  BY <1>1, EmptySeq
<1> QED
  BY <1>2 DEF Init

LEMMA RefinesNext ==
    ASSUME Inv, Inv', [Next]_vars
    PROVE  [Fifo!Next]_(Fifo!vars)
<1>1. /\ Visited \in Seq(Elements) /\ Len(Visited) = m_size
      /\ \A i \in 1..m_size : Visited[i] = m_buffer[Advance(m_tail, i - 1)]
  BY VisitedSeq DEF Inv
<1>2. /\ Visited' \in Seq(Elements) /\ Len(Visited') = m_size'
      /\ \A i \in 1..m_size' : Visited'[i] = m_buffer'[Advance(m_tail', i - 1)]
  <2>1. \A i \in 1..m_size' : Visited'[i] \in Elements
    BY DEF Inv, TypeOK
  <2>2. m_size' \in Nat
    BY RingAssumption DEF Inv, TypeOK
  <2>3. Visited' \in [1..m_size' -> Elements]
    BY <2>1 DEF Visited
  <2> QED
    BY <2>2, <2>3 DEF Visited
<1>3. m_capacity \in Nat \ {0} /\ m_size \in 0..m_capacity
  BY Bounds
<1>4. ASSUME NEW item \in Elements, push(item) PROVE Fifo!Push(item)
  <2>1. /\ m_size' = IF m_size = m_capacity THEN m_size ELSE m_size + 1
        /\ \A i \in 1..m_size' :
              m_buffer'[Advance(m_tail', i - 1)] =
                  IF i = m_size' THEN item
                  ELSE IF m_size = m_capacity THEN m_buffer[Advance(m_tail, i)]
                  ELSE m_buffer[Advance(m_tail, i - 1)]
    BY <1>4, PushShows
  <2>a. PICK kept \in Seq(Elements) :
            kept = IF Len(Visited) = m_capacity THEN Tail(Visited) ELSE Visited
    <3>1. Len(Visited) = m_capacity => Visited # <<>>
      BY <1>1, <1>3, EmptySeq
    <3>2. Len(Visited) = m_capacity => Tail(Visited) \in Seq(Elements)
      BY <1>1, <3>1, HeadTailProperties
    <3> QED
      BY <1>1, <3>2
  <2>2. /\ m_size' = Len(kept) + 1
        /\ \A i \in 1..Len(kept) : kept[i] = Visited'[i]
    <3>1. CASE m_size = m_capacity
      <4>1. Visited # <<>>
        BY <1>1, <1>3, <3>1, EmptySeq
      <4>2. /\ Tail(Visited) \in Seq(Elements) /\ Len(Tail(Visited)) = m_size - 1
            /\ \A i \in 1..Len(Tail(Visited)) : Tail(Visited)[i] = Visited[i + 1]
        BY <1>1, <4>1, HeadTailProperties
      <4>3. kept = Tail(Visited)
        BY <1>1, <3>1, <2>a
      <4>4. ASSUME NEW i \in 1..Len(Tail(Visited))
            PROVE  Tail(Visited)[i] = Visited'[i]
        <5>1. i + 1 \in 1..m_size /\ (i + 1) - 1 = i /\ i \in 1..m_size' /\ i # m_size'
          BY <1>3, <2>1, <3>1, <4>2
        <5>2. Tail(Visited)[i] = m_buffer[Advance(m_tail, i)]
          BY <1>1, <4>2, <5>1
        <5>3. Visited'[i] = m_buffer[Advance(m_tail, i)]
          BY <1>2, <2>1, <3>1, <5>1
        <5> QED
          BY <5>2, <5>3
      <4> QED
        BY <1>3, <2>1, <3>1, <4>2, <4>3, <4>4
    <3>2. CASE m_size # m_capacity
      <4>1. kept = Visited
        BY <1>1, <3>2, <2>a
      <4>2. ASSUME NEW i \in 1..m_size PROVE Visited[i] = Visited'[i]
        <5>1. i \in 1..m_size' /\ i # m_size'
          BY <1>3, <2>1, <3>2
        <5> QED
          BY <1>1, <1>2, <2>1, <3>2, <5>1
      <4> QED
        BY <1>1, <1>3, <2>1, <3>2, <4>1, <4>2
    <3> QED
      BY <3>1, <3>2
  <2>3. m_size' \in 1..m_capacity /\ Visited'[m_size'] = item
    BY <1>2, <1>3, <2>1
  <2>4. Visited' = Append(kept, item)
    BY <1>2, <1>4, <2>2, <2>3, AppendAgrees
  <2> QED
    BY <1>4, <2>4, <2>a DEF push, Fifo!Push
<1>5. ASSUME pop PROVE Fifo!Pop
  <2>1. /\ m_size \in 1..m_capacity /\ m_size' = m_size - 1
        /\ out' = m_buffer[m_tail] /\ m_tail = Advance(m_tail, 0)
        /\ \A i \in 1..m_size' :
              m_buffer'[Advance(m_tail', i - 1)] = m_buffer[Advance(m_tail, i)]
    BY <1>5, PopShows
  <2>2. Visited # <<>>
    BY <1>1, <2>1, EmptySeq
  <2>3. /\ Tail(Visited) \in Seq(Elements) /\ Len(Tail(Visited)) = m_size'
        /\ \A i \in 1..m_size' : Tail(Visited)[i] = Visited[i + 1]
    BY <1>1, <2>1, <2>2, HeadTailProperties
  <2>4. ASSUME NEW i \in 1..m_size' PROVE Visited'[i] = Tail(Visited)[i]
    <3>1. i + 1 \in 1..m_size /\ (i + 1) - 1 = i
      BY <1>3, <2>1
    <3> QED
      BY <1>1, <1>2, <2>1, <2>3, <3>1
  <2>5. Visited' = Tail(Visited)
    BY <1>2, <2>3, <2>4, SeqEqual
  <2>6. out' = Head(Visited)
    <3>1. 1 \in 1..m_size /\ 1 - 1 = 0
      BY <1>3, <2>1
    <3>2. Visited[1] = m_buffer[m_tail]
      BY <1>1, <2>1, <3>1
    <3>3. Head(Visited) = Visited[1]
      BY <1>1
    <3> QED
      BY <2>1, <3>2, <3>3
  <2> QED
    BY <2>2, <2>5, <2>6 DEF Fifo!Pop
<1>6. ASSUME clear PROVE Fifo!Clear
  <2>1. m_size' = 0 /\ out' = out
    BY <1>6 DEF clear
  <2>2. Visited' = <<>>
    BY <1>2, <2>1, EmptySeq
  <2> QED
    BY <2>1, <2>2 DEF Fifo!Clear
<1>7. CASE UNCHANGED vars
  BY <1>7 DEF vars, Fifo!vars, Visited
<1> QED
  BY <1>4, <1>5, <1>6, <1>7 DEF Next, Fifo!Next

\* The ring of slots, of any capacity, behaves like a bounded queue that forgets its
\* oldest element to make room.
THEOREM Implements == Spec => Promise
<1>1. Inv /\ Inv' /\ [Next]_vars => [Fifo!Next]_(Fifo!vars)
  BY RefinesNext
<1> QED
  BY <1>1, RefinesInit, Invariance, PTL DEF Spec, Promise, Fifo!Spec
=============================================================================
