------------------------- MODULE IntervalTreeProofs -------------------------
(***************************************************************************)
(* IntervalTree implements IntervalQueries, for all numbers that bound     *)
(* intervals, all values, and every number of intervals.                   *)
(***************************************************************************)
EXTENDS IntervalTree, TLAPS, FiniteSetTheorems, WellFoundedInduction

-----------------------------------------------------------------------------
(* The inductive invariant.                                                *)

Pair == [interval : Interval, value : Value]

\* Position k comes before position l in a stable sort.
Before(intervals, k, l) ==
    \/ InOrder(intervals[k].interval, intervals[l].interval)
    \/ ~InOrder(intervals[l].interval, intervals[k].interval) /\ k < l

Ordered(intervals, sorted) ==
    /\ sorted \in Bijection(DOMAIN intervals, DOMAIN intervals)
    /\ \A m, n \in DOMAIN intervals : m < n => Before(intervals, sorted[m], sorted[n])

\* No interval below the node ends behind its maxEnd.
Bounded(intervals, sorted, nodes, node) ==
    /\ nodes[node] \in Scalar
    /\ \A k \in node.begin..(node.end - 1) :
          intervals[sorted[k]].interval.end <= nodes[node]

Indexed(intervals, sorted, nodes) ==
    /\ Ordered(intervals, sorted)
    /\ \A node \in Nodes(Len(intervals)) : Bounded(intervals, sorted, nodes, node)

TreeInv ==
    /\ m_intervals \in Seq(Pair)
    /\ m_indexValid => Indexed(m_intervals, m_sortedIntervals, m_nodes)

-----------------------------------------------------------------------------
(* Numbers.                                                                *)

LEMMA MinIs ==
    ASSUME NEW S \in SUBSET Nat, S # {}
    PROVE  Min(S) \in S /\ \A y \in S : Min(S) <= y
<1> DEFINE R == OpToRel(<, Nat)
<1>1. \A x, y \in Nat : y < x => <<y, x>> \in R
  BY DEF OpToRel
<1> HIDE DEF R
<1>2. PICK x \in S : \A y \in S : ~(<<y, x>> \in R)
  BY NatLessThanWellFounded, WFMin DEF R
<1>3. \A y \in S : ~(y < x)
  BY <1>1, <1>2
<1>4. \A y \in S : x <= y
  BY <1>3
<1> QED
  BY <1>4 DEF Min

LEMMA MaxIs ==
    ASSUME NEW n \in Nat, NEW S \in SUBSET (1..n), S # {}
    PROVE  Max(S) \in S /\ \A y \in S : Max(S) >= y
<1> DEFINE T == {m \in Nat : n - m \in S}
<1>1. PICK z \in S : TRUE
  OBVIOUS
<1>2. T # {}
  <2>1. n - z \in Nat /\ n - (n - z) = z
    BY <1>1
  <2> QED
    BY <1>1, <2>1
<1>3. T \in SUBSET Nat
  OBVIOUS
<1> HIDE DEF T
<1>4. Min(T) \in T /\ \A m \in T : Min(T) <= m
  BY <1>2, <1>3, MinIs
<1> DEFINE x == n - Min(T)
<1>5. x \in S /\ Min(T) \in Nat
  BY <1>4 DEF T
<1>6. ASSUME NEW y \in S PROVE x >= y
  <2>1. n - y \in Nat /\ n - (n - y) = y
    OBVIOUS
  <2>2. n - y \in T
    BY <2>1 DEF T
  <2>3. Min(T) <= n - y
    BY <1>4, <2>2
  <2> QED
    BY <1>5, <2>3
<1> HIDE DEF x
<1> QED
  BY <1>5, <1>6 DEF Max

LEMMA LargerIs ==
    ASSUME NEW a \in Int, NEW b \in Int
    PROVE  Max({a, b}) \in {a, b} /\ Max({a, b}) >= a /\ Max({a, b}) >= b
<1>1. \E x \in {a, b} : \A y \in {a, b} : x >= y
  OBVIOUS
<1> QED
  BY <1>1 DEF Max

\* A node that is no leaf falls into two shorter ones.
Size(node) == node.end - node.begin

LEMMA HalvesAre ==
    ASSUME NEW n \in Nat, NEW node \in Nodes(n)
    PROVE  /\ node.begin \in 1..n /\ node.end \in 2..(n + 1)
           /\ node.begin < node.end /\ Size(node) \in 1..n
           /\ Leaf(node) => node.end = node.begin + 1
           /\ ~Leaf(node) =>
                 /\ Left(node) \in Nodes(n) /\ Right(node) \in Nodes(n)
                 /\ Left(node).begin = node.begin /\ Left(node).end = Middle(node)
                 /\ Right(node).begin = Middle(node) /\ Right(node).end = node.end
                 /\ Middle(node) \in Int
                 /\ node.begin < Middle(node) /\ Middle(node) < node.end
                 /\ Size(Left(node)) < Size(node) /\ Size(Right(node)) < Size(node)
<1>1. /\ node.begin \in 1..n /\ node.end \in 2..(n + 1) /\ node.begin < node.end
      /\ node = [begin |-> node.begin, end |-> node.end]
  BY DEF Nodes
<1>2. Size(node) \in 1..n /\ (Leaf(node) => node.end = node.begin + 1)
  BY <1>1 DEF Size, Leaf
<1>3. ASSUME ~Leaf(node)
      PROVE  /\ Middle(node) \in Int
             /\ node.begin < Middle(node) /\ Middle(node) < node.end
  BY <1>1, <1>3 DEF Leaf, Middle
<1>4. ASSUME NEW m \in Int, node.begin < m, m < node.end
      PROVE  /\ [node EXCEPT !.end = m] = [begin |-> node.begin, end |-> m]
             /\ [node EXCEPT !.begin = m] = [begin |-> m, end |-> node.end]
             /\ [begin |-> node.begin, end |-> m] \in Nodes(n)
             /\ [begin |-> m, end |-> node.end] \in Nodes(n)
  BY <1>1, <1>4 DEF Nodes
<1>5. ~Leaf(node) =>
         /\ Left(node) = [begin |-> node.begin, end |-> Middle(node)]
         /\ Right(node) = [begin |-> Middle(node), end |-> node.end]
         /\ Left(node) \in Nodes(n) /\ Right(node) \in Nodes(n)
  BY <1>3, <1>4 DEF Left, Right
<1> QED
  BY <1>1, <1>2, <1>3, <1>5 DEF Size

-----------------------------------------------------------------------------
(* The nodes: the recursion ends, and bounds what is below.                *)

\* What buildNode() computes at a node from what g says of shorter ones.
MaxEnd(intervals, sorted, g, node) ==
    IF Leaf(node) THEN intervals[sorted[node.begin]].interval.end
    ELSE Max({g[Left(node)], g[Right(node)]})

LEMMA BuildingEnds ==
    ASSUME NEW intervals, NEW sorted, Len(intervals) \in Nat
    PROVE  \A node \in Nodes(Len(intervals)) :
              buildNode(intervals, sorted)[node]
                 = MaxEnd(intervals, sorted, buildNode(intervals, sorted), node)
<1> DEFINE n == Len(intervals)
           Body(g, node) == MaxEnd(intervals, sorted, g, node)
           Equation(g) == g = [node \in Nodes(n) |-> Body(g, node)]
           UpTo(k, g) == g = [node \in Nodes(n) |-> IF Size(node) > k THEN 0 ELSE Body(g, node)]
           Bad == {k \in Nat : ~\E g : UpTo(k, g)}
<1>1. buildNode(intervals, sorted) = CHOOSE g : Equation(g)
  BY DEF buildNode, MaxEnd
<1>2. ASSUME NEW node \in Nodes(n), NEW g, NEW h,
             ~Leaf(node) => h[Left(node)] = g[Left(node)] /\ h[Right(node)] = g[Right(node)]
      PROVE  Body(h, node) = Body(g, node)
  BY <1>2 DEF MaxEnd
<1> HIDE DEF Body
<1>3. Bad = {}
  <2> SUFFICES ASSUME Bad # {} PROVE FALSE
    OBVIOUS
  <2> DEFINE k == Min(Bad)
  <2>1. k \in Nat /\ (~\E g : UpTo(k, g)) /\ \A m \in Bad : k <= m
    BY MinIs
  <2> HIDE DEF k
  <2>2. CASE k = 0
    <3> DEFINE g == [node \in Nodes(n) |-> 0]
    <3>1. \A node \in Nodes(n) : Size(node) > 0
      BY HalvesAre
    <3>2. UpTo(0, g)
      BY <3>1
    <3> QED
      BY <2>1, <2>2, <3>2
  <2>3. CASE k # 0
    <3>1. k - 1 \in Nat /\ ~(k <= k - 1)
      BY <2>1, <2>3
    <3>2. PICK g : UpTo(k - 1, g)
      BY <2>1, <3>1
    <3> DEFINE h == [node \in Nodes(n) |-> IF Size(node) > k THEN 0 ELSE Body(g, node)]
    <3>3. ASSUME NEW node \in Nodes(n), Size(node) < k PROVE h[node] = g[node]
      <4>1. Size(node) \in Int /\ ~(Size(node) > k) /\ ~(Size(node) > k - 1)
        BY <2>1, <3>3, HalvesAre
      <4>2. g[node] = Body(g, node)
        BY <3>2, <4>1
      <4>3. h[node] = Body(g, node)
        BY <4>1
      <4> QED
        BY <4>2, <4>3
    <3> HIDE DEF h
    <3>4. ASSUME NEW node \in Nodes(n), ~(Size(node) > k) PROVE Body(h, node) = Body(g, node)
      <4>1. ~Leaf(node) => /\ Left(node) \in Nodes(n) /\ Size(Left(node)) < k
                           /\ Right(node) \in Nodes(n) /\ Size(Right(node)) < k
        <5> SUFFICES ASSUME ~Leaf(node)
                     PROVE  /\ Left(node) \in Nodes(n) /\ Size(Left(node)) < k
                            /\ Right(node) \in Nodes(n) /\ Size(Right(node)) < k
          OBVIOUS
        <5>1. /\ Left(node) \in Nodes(n) /\ Right(node) \in Nodes(n)
              /\ Size(Left(node)) < Size(node) /\ Size(Right(node)) < Size(node)
          BY HalvesAre
        <5>2. Size(node) \in Int /\ Size(Left(node)) \in Int /\ Size(Right(node)) \in Int
          BY <5>1, HalvesAre
        <5> QED
          BY <2>1, <3>4, <5>1, <5>2
      <4> QED
        BY <1>2, <3>3, <4>1
    <3>5. UpTo(k, h)
      BY <3>4 DEF h
    <3> QED
      BY <2>1, <3>5
  <2> QED
    BY <2>2, <2>3
<1>4. \E g : Equation(g)
  <2>1. PICK g : UpTo(n, g)
    BY <1>3
  <2>2. \A node \in Nodes(n) : ~(Size(node) > n)
    BY HalvesAre
  <2>3. Equation(g)
    BY <2>1, <2>2
  <2> QED
    BY <2>3
<1> HIDE DEF Equation
<1>5. Equation(buildNode(intervals, sorted))
  BY <1>1, <1>4
<1> QED
  BY <1>5 DEF Equation, Body

\* The pairs and the positions of a tree.
LEMMA PairsAre ==
    ASSUME NEW intervals \in Seq(Pair)
    PROVE  /\ Len(intervals) \in Nat /\ DOMAIN intervals = 1..Len(intervals)
           /\ \A k \in DOMAIN intervals :
                 /\ intervals[k] \in Pair
                 /\ intervals[k].interval.start \in Scalar
                 /\ intervals[k].interval.start \in Int
                 /\ intervals[k].interval.end \in Scalar
                 /\ intervals[k].interval.end \in Int
<1>1. Len(intervals) \in Nat /\ DOMAIN intervals = 1..Len(intervals)
  OBVIOUS
<1>2. \A k \in DOMAIN intervals : intervals[k] \in Pair
  OBVIOUS
<1> QED
  BY <1>1, <1>2, ScalarAssumption DEF Pair, Interval

LEMMA OrderIs ==
    ASSUME NEW S, NEW sorted \in Bijection(S, S)
    PROVE  /\ sorted \in [S -> S] /\ DOMAIN sorted = S
           /\ \A k \in S : sorted[k] \in S
           /\ \A k, l \in S : sorted[k] = sorted[l] => k = l
           /\ \A l \in S : \E k \in S : sorted[k] = l
  BY DEF Bijection, Injection, Surjection, IsInjective

LEMMA BoundsHold ==
    ASSUME NEW intervals \in Seq(Pair),
           NEW sorted \in Bijection(DOMAIN intervals, DOMAIN intervals)
    PROVE  \A node \in Nodes(Len(intervals)) :
              Bounded(intervals, sorted, buildNode(intervals, sorted), node)
<1> DEFINE n == Len(intervals)
           nodes == buildNode(intervals, sorted)
           Bad == {s \in Nat : \E node \in Nodes(n) :
                      Size(node) = s /\ ~Bounded(intervals, sorted, nodes, node)}
<1>1. n \in Nat /\ DOMAIN intervals = 1..n
  BY PairsAre
<1>2. \A k \in 1..n : /\ intervals[sorted[k]].interval.end \in Scalar
                      /\ intervals[sorted[k]].interval.end \in Int
  BY <1>1, PairsAre, OrderIs
<1>3. \A node \in Nodes(n) : nodes[node] = MaxEnd(intervals, sorted, nodes, node)
  BY <1>1, BuildingEnds
<1> HIDE DEF n, nodes
<1>4. ASSUME NEW node \in Nodes(n),
             \A shorter \in Nodes(n) : Size(shorter) < Size(node)
                 => Bounded(intervals, sorted, nodes, shorter)
      PROVE  Bounded(intervals, sorted, nodes, node)
  <2>1. /\ node.begin \in 1..n /\ node.end \in 2..(n + 1) /\ node.begin < node.end
    BY <1>1, HalvesAre
  <2>2. CASE Leaf(node)
    <3>1. nodes[node] = intervals[sorted[node.begin]].interval.end
      BY <1>3, <2>2 DEF MaxEnd
    <3>2. \A k \in node.begin..(node.end - 1) : k = node.begin
      BY <1>1, <2>1, <2>2, HalvesAre
    <3> QED
      BY <1>2, <2>1, <3>1, <3>2 DEF Bounded
  <2>3. CASE ~Leaf(node)
    <3>1. /\ Left(node) \in Nodes(n) /\ Right(node) \in Nodes(n)
          /\ Left(node).begin = node.begin /\ Left(node).end = Middle(node)
          /\ Right(node).begin = Middle(node) /\ Right(node).end = node.end
          /\ Middle(node) \in Int
          /\ Size(Left(node)) < Size(node) /\ Size(Right(node)) < Size(node)
      BY <1>1, <2>3, HalvesAre
    <3>2. /\ Bounded(intervals, sorted, nodes, Left(node))
          /\ Bounded(intervals, sorted, nodes, Right(node))
      BY <1>4, <3>1
    <3> DEFINE a == nodes[Left(node)]
               b == nodes[Right(node)]
    <3>3. a \in Scalar /\ b \in Scalar /\ a \in Int /\ b \in Int
      BY <3>2, ScalarAssumption DEF Bounded
    <3>4. nodes[node] = Max({a, b})
      BY <1>3, <2>3 DEF MaxEnd
    <3>5. /\ \A k \in node.begin..(Middle(node) - 1) :
                intervals[sorted[k]].interval.end <= a
          /\ \A k \in Middle(node)..(node.end - 1) :
                intervals[sorted[k]].interval.end <= b
      BY <3>1, <3>2 DEF Bounded
    <3> HIDE DEF a, b
    <3>6. nodes[node] \in {a, b} /\ nodes[node] >= a /\ nodes[node] >= b
      BY <3>3, <3>4, LargerIs
    <3>7. ASSUME NEW k \in node.begin..(node.end - 1)
          PROVE  intervals[sorted[k]].interval.end <= nodes[node]
      <4>1. intervals[sorted[k]].interval.end \in Int
        BY <1>1, <1>2, <2>1
      <4>2. k \in node.begin..(Middle(node) - 1) \/ k \in Middle(node)..(node.end - 1)
        BY <2>1, <3>1
      <4>3. intervals[sorted[k]].interval.end <= a \/ intervals[sorted[k]].interval.end <= b
        BY <3>5, <4>2
      <4> QED
        BY <3>3, <3>6, <4>1, <4>3
    <3> QED
      BY <3>3, <3>6, <3>7 DEF Bounded
  <2> QED
    BY <2>2, <2>3
<1>5. Bad = {}
  <2> SUFFICES ASSUME Bad # {} PROVE FALSE
    OBVIOUS
  <2>1. Min(Bad) \in Bad /\ \A s \in Bad : Min(Bad) <= s
    BY MinIs
  <2>2. PICK node \in Nodes(n) : /\ Size(node) = Min(Bad)
                                 /\ ~Bounded(intervals, sorted, nodes, node)
    BY <2>1
  <2>3. PICK shorter \in Nodes(n) : /\ Size(shorter) < Size(node)
                                    /\ ~Bounded(intervals, sorted, nodes, shorter)
    BY <1>4, <2>2
  <2>4. Size(shorter) \in Nat /\ Size(node) \in Nat
    BY <1>1, HalvesAre
  <2>5. Size(shorter) \in Bad
    BY <2>3, <2>4
  <2> QED
    BY <2>1, <2>2, <2>3, <2>4, <2>5
<1>6. \A node \in Nodes(n) : Size(node) \in Nat
  BY <1>1, HalvesAre
<1> QED
  BY <1>5, <1>6 DEF n, nodes

-----------------------------------------------------------------------------
(* The search: it finds the overlapping intervals, and each one once.      *)

\* What the search adds at a node, from what g says it adds below.
Adds(intervals, sorted, nodes, i, g, node) ==
    IF Prune(nodes, intervals, sorted, node, i) THEN <<>>
    ELSE IF ~Leaf(node) THEN g[Left(node)] \o g[Right(node)]
    ELSE IF overlaps(i, intervals[sorted[node.begin]].interval)
         THEN <<sorted[node.begin]>> ELSE <<>>

LEMMA SearchEnds ==
    ASSUME NEW intervals, NEW sorted, NEW nodes, NEW i, Len(intervals) \in Nat
    PROVE  \A node \in Nodes(Len(intervals)) :
              Search(nodes, intervals, sorted, i)[node]
                 = Adds(intervals, sorted, nodes, i, Search(nodes, intervals, sorted, i), node)
<1> DEFINE n == Len(intervals)
           found == Search(nodes, intervals, sorted, i)
           Body(g, node) == Adds(intervals, sorted, nodes, i, g, node)
           Equation(g) == g = [node \in Nodes(n) |-> Body(g, node)]
           UpTo(k, g) == g = [node \in Nodes(n) |-> IF Size(node) > k THEN 0 ELSE Body(g, node)]
           Bad == {k \in Nat : ~\E g : UpTo(k, g)}
<1>1. found = CHOOSE g : Equation(g)
  BY DEF Search, Adds
<1>2. ASSUME NEW node \in Nodes(n), NEW g, NEW h,
             ~Leaf(node) => h[Left(node)] = g[Left(node)] /\ h[Right(node)] = g[Right(node)]
      PROVE  Body(h, node) = Body(g, node)
  BY <1>2 DEF Adds
<1> HIDE DEF Body, found
<1>3. Bad = {}
  <2> SUFFICES ASSUME Bad # {} PROVE FALSE
    OBVIOUS
  <2> DEFINE k == Min(Bad)
  <2>1. k \in Nat /\ (~\E g : UpTo(k, g)) /\ \A m \in Bad : k <= m
    BY MinIs
  <2> HIDE DEF k
  <2>2. CASE k = 0
    <3> DEFINE g == [node \in Nodes(n) |-> 0]
    <3>1. \A node \in Nodes(n) : Size(node) > 0
      BY HalvesAre
    <3>2. UpTo(0, g)
      BY <3>1
    <3> QED
      BY <2>1, <2>2, <3>2
  <2>3. CASE k # 0
    <3>1. k - 1 \in Nat /\ ~(k <= k - 1)
      BY <2>1, <2>3
    <3>2. PICK g : UpTo(k - 1, g)
      BY <2>1, <3>1
    <3> DEFINE h == [node \in Nodes(n) |-> IF Size(node) > k THEN 0 ELSE Body(g, node)]
    <3>3. ASSUME NEW node \in Nodes(n), Size(node) < k PROVE h[node] = g[node]
      <4>1. Size(node) \in Int /\ ~(Size(node) > k) /\ ~(Size(node) > k - 1)
        BY <2>1, <3>3, HalvesAre
      <4>2. g[node] = Body(g, node)
        BY <3>2, <4>1
      <4>3. h[node] = Body(g, node)
        BY <4>1
      <4> QED
        BY <4>2, <4>3
    <3> HIDE DEF h
    <3>4. ASSUME NEW node \in Nodes(n), ~(Size(node) > k) PROVE Body(h, node) = Body(g, node)
      <4>1. ~Leaf(node) => /\ Left(node) \in Nodes(n) /\ Size(Left(node)) < k
                           /\ Right(node) \in Nodes(n) /\ Size(Right(node)) < k
        <5> SUFFICES ASSUME ~Leaf(node)
                     PROVE  /\ Left(node) \in Nodes(n) /\ Size(Left(node)) < k
                            /\ Right(node) \in Nodes(n) /\ Size(Right(node)) < k
          OBVIOUS
        <5>1. /\ Left(node) \in Nodes(n) /\ Right(node) \in Nodes(n)
              /\ Size(Left(node)) < Size(node) /\ Size(Right(node)) < Size(node)
          BY HalvesAre
        <5>2. Size(node) \in Int /\ Size(Left(node)) \in Int /\ Size(Right(node)) \in Int
          BY <5>1, HalvesAre
        <5> QED
          BY <2>1, <3>4, <5>1, <5>2
      <4> QED
        BY <1>2, <3>3, <4>1
    <3>5. UpTo(k, h)
      BY <3>4 DEF h
    <3> QED
      BY <2>1, <3>5
  <2> QED
    BY <2>2, <2>3
<1>4. \E g : Equation(g)
  <2>1. PICK g : UpTo(n, g)
    BY <1>3
  <2>2. \A node \in Nodes(n) : ~(Size(node) > n)
    BY HalvesAre
  <2>3. Equation(g)
    BY <2>1, <2>2
  <2> QED
    BY <2>3
<1> HIDE DEF Equation
<1>5. Equation(found)
  BY <1>1, <1>4
<1> QED
  BY <1>5 DEF Equation, Body, found

\* s has every member of S once.
Lists(s, S) ==
    /\ s \in Seq(S)
    /\ \A p, q \in DOMAIN s : s[p] = s[q] => p = q
    /\ \A x \in S : \E p \in DOMAIN s : s[p] = x

LEMMA ListsBoth ==
    ASSUME NEW S, NEW T, S \intersect T = {}, NEW s, NEW t, Lists(s, S), Lists(t, T)
    PROVE  Lists(s \o t, S \union T)
<1> DEFINE u == s \o t
           m == Len(s)
           n == Len(t)
<1>1. /\ s \in Seq(S) /\ t \in Seq(T) /\ m \in Nat /\ n \in Nat
      /\ DOMAIN s = 1..m /\ DOMAIN t = 1..n
  BY DEF Lists
<1>2. (\A p \in 1..m : s[p] \in S) /\ (\A p \in 1..n : t[p] \in T)
  BY <1>1
<1>3. /\ DOMAIN u = 1..(m + n) /\ Len(u) = m + n
      /\ \A p \in 1..m : u[p] = s[p]
      /\ \A p \in (m + 1)..(m + n) : u[p] = t[p - m]
  BY <1>1
<1>4. u \in Seq(S \union T)
  <2>1. s \in Seq(S \union T) /\ t \in Seq(S \union T)
    BY <1>1, <1>2
  <2> QED
    BY <2>1
<1> HIDE DEF u, m, n
<1>5. ASSUME NEW p \in DOMAIN u
      PROVE  \/ p \in 1..m /\ u[p] = s[p] /\ u[p] \in S
             \/ p - m \in 1..n /\ p \notin 1..m /\ u[p] = t[p - m] /\ u[p] \in T
  <2>1. p \in 1..m \/ (p \in (m + 1)..(m + n) /\ p - m \in 1..n /\ p \notin 1..m)
    BY <1>1, <1>3
  <2> QED
    BY <1>2, <1>3, <2>1
<1>6. ASSUME NEW p \in DOMAIN u, NEW q \in DOMAIN u, u[p] = u[q] PROVE p = q
  <2>1. CASE p \in 1..m
    <3>1. u[p] \in S /\ u[p] \notin T
      BY <1>5, <2>1
    <3>2. q \in 1..m /\ u[q] = s[q] /\ u[p] = s[p]
      BY <1>5, <1>6, <2>1, <3>1
    <3> QED
      BY <1>1, <1>6, <2>1, <3>2 DEF Lists
  <2>2. CASE p \notin 1..m
    <3>1. u[p] \in T /\ u[p] \notin S /\ p - m \in 1..n /\ u[p] = t[p - m]
      BY <1>5, <2>2
    <3>2. q - m \in 1..n /\ u[q] = t[q - m]
      BY <1>5, <1>6, <3>1
    <3>3. p - m = q - m
      BY <1>1, <1>6, <3>1, <3>2 DEF Lists
    <3>4. p \in Int /\ q \in Int
      BY <1>1, <1>3
    <3> QED
      BY <1>1, <3>3, <3>4
  <2> QED
    BY <2>1, <2>2
<1>7. ASSUME NEW x \in S \union T PROVE \E p \in DOMAIN u : u[p] = x
  <2>1. CASE x \in S
    <3>1. PICK p \in 1..m : s[p] = x
      BY <1>1, <2>1 DEF Lists
    <3>2. p \in DOMAIN u /\ u[p] = x
      BY <1>1, <1>3, <3>1
    <3> QED
      BY <3>2
  <2>2. CASE x \in T
    <3>1. PICK p \in 1..n : t[p] = x
      BY <1>1, <2>2 DEF Lists
    <3>2. p + m \in (m + 1)..(m + n) /\ (p + m) - m = p
      BY <1>1, <3>1
    <3>3. p + m \in DOMAIN u
      BY <1>1, <1>3, <3>2
    <3>4. u[p + m] = x
      BY <1>3, <3>1, <3>2
    <3> QED
      BY <3>3, <3>4
  <2> QED
    BY <2>1, <2>2
<1> QED
  BY <1>4, <1>6, <1>7 DEF Lists, u

\* The positions below a node whose intervals overlap i.
Hits(intervals, sorted, node, i) ==
    {sorted[k] : k \in {k \in node.begin..(node.end - 1) :
                            overlaps(i, intervals[sorted[k]].interval)}}

LEMMA PrunesNothing ==
    ASSUME NEW intervals \in Seq(Pair), NEW sorted, NEW nodes,
           Indexed(intervals, sorted, nodes), NEW i \in Interval,
           NEW node \in Nodes(Len(intervals)), Prune(nodes, intervals, sorted, node, i)
    PROVE  Hits(intervals, sorted, node, i) = {}
<1> DEFINE n == Len(intervals)
<1>1. n \in Nat /\ DOMAIN intervals = 1..n
  BY PairsAre
<1>2. /\ sorted \in Bijection(1..n, 1..n)
      /\ \A k, l \in 1..n : k < l => Before(intervals, sorted[k], sorted[l])
      /\ Bounded(intervals, sorted, nodes, node)
  BY <1>1 DEF Indexed, Ordered
<1>3. \A k \in 1..n : /\ intervals[sorted[k]].interval.start \in Int
                      /\ intervals[sorted[k]].interval.end \in Int
  BY <1>1, <1>2, PairsAre, OrderIs
<1>4. /\ node.begin \in 1..n /\ node.end \in 2..(n + 1) /\ node.begin < node.end
  BY <1>1, HalvesAre
<1>5. i.start \in Int /\ i.end \in Int
  BY ScalarAssumption DEF Interval
<1> HIDE DEF n
<1>6. SUFFICES ASSUME NEW k \in node.begin..(node.end - 1)
               PROVE  ~overlaps(i, intervals[sorted[k]].interval)
  BY DEF Hits
<1>7. k \in 1..n /\ k \in Int
  BY <1>1, <1>4
<1>8. CASE nodes[node] < i.start
  <2>1. nodes[node] \in Int /\ intervals[sorted[k]].interval.end <= nodes[node]
    BY <1>2, ScalarAssumption DEF Bounded
  <2>2. intervals[sorted[k]].interval.end < i.start
    BY <1>3, <1>5, <1>7, <1>8, <2>1
  <2> QED
    BY <1>3, <1>5, <1>7, <2>2 DEF overlaps
<1>9. CASE intervals[sorted[node.begin]].interval.start > i.end
  <2>1. intervals[sorted[node.begin]].interval.start
           <= intervals[sorted[k]].interval.start
    <3>1. CASE k = node.begin
      BY <1>3, <1>7, <3>1
    <3>2. CASE k # node.begin
      <4>1. node.begin < k
        BY <1>4, <1>7, <3>2
      <4>2. Before(intervals, sorted[node.begin], sorted[k])
        BY <1>2, <1>4, <1>7, <4>1
      <4> QED
        BY <1>3, <1>4, <1>7, <4>2 DEF Before, InOrder
    <3> QED
      BY <3>1, <3>2
  <2>2. intervals[sorted[k]].interval.start > i.end
    BY <1>3, <1>4, <1>5, <1>7, <1>9, <2>1
  <2> QED
    BY <1>3, <1>5, <1>7, <2>2 DEF overlaps
<1> QED
  BY <1>8, <1>9 DEF Prune

LEMMA SearchLists ==
    ASSUME NEW intervals \in Seq(Pair), NEW sorted, NEW nodes,
           Indexed(intervals, sorted, nodes), NEW i \in Interval
    PROVE  \A node \in Nodes(Len(intervals)) :
              Lists(Search(nodes, intervals, sorted, i)[node],
                    Hits(intervals, sorted, node, i))
<1> DEFINE n == Len(intervals)
           found == Search(nodes, intervals, sorted, i)
           hits(node) == Hits(intervals, sorted, node, i)
           Bad == {s \in Nat : \E node \in Nodes(n) :
                      Size(node) = s /\ ~Lists(found[node], hits(node))}
<1>1. n \in Nat /\ DOMAIN intervals = 1..n
  BY PairsAre
<1>2. sorted \in Bijection(1..n, 1..n)
  BY <1>1 DEF Indexed, Ordered
<1>3. \A node \in Nodes(n) : found[node] = Adds(intervals, sorted, nodes, i, found, node)
  BY <1>1, SearchEnds
<1>4. \A node \in Nodes(n) : Prune(nodes, intervals, sorted, node, i) => hits(node) = {}
  BY PrunesNothing
<1> HIDE DEF n, found
<1>5. ASSUME NEW node \in Nodes(n),
             \A shorter \in Nodes(n) : Size(shorter) < Size(node)
                 => Lists(found[shorter], hits(shorter))
      PROVE  Lists(found[node], hits(node))
  <2>1. node.begin \in 1..n /\ node.end \in 2..(n + 1) /\ node.begin < node.end
    BY <1>1, HalvesAre
  <2>2. CASE Prune(nodes, intervals, sorted, node, i)
    <3>1. found[node] = <<>>
      BY <1>3, <2>2 DEF Adds
    <3>2. hits(node) = {}
      BY <1>4, <2>2
    <3> HIDE DEF hits
    <3> QED
      BY <3>1, <3>2 DEF Lists
  <2>3. CASE ~Prune(nodes, intervals, sorted, node, i) /\ Leaf(node)
    <3> DEFINE position == sorted[node.begin]
    <3>1. found[node] = IF overlaps(i, intervals[position].interval) THEN <<position>> ELSE <<>>
      BY <1>3, <2>3 DEF Adds
    <3>2. \A k \in node.begin..(node.end - 1) : k = node.begin
      BY <1>1, <2>1, <2>3, HalvesAre
    <3>3. node.begin \in node.begin..(node.end - 1)
      BY <2>1
    <3>4. hits(node) = IF overlaps(i, intervals[position].interval) THEN {position} ELSE {}
      BY <3>2, <3>3 DEF Hits
    <3> HIDE DEF hits, position
    <3>5. Lists(<<position>>, {position}) /\ Lists(<<>>, {})
      BY DEF Lists
    <3> QED
      BY <3>1, <3>4, <3>5
  <2>4. CASE ~Prune(nodes, intervals, sorted, node, i) /\ ~Leaf(node)
    <3> DEFINE left == Left(node)
               right == Right(node)
    <3>1. /\ left \in Nodes(n) /\ right \in Nodes(n)
          /\ left.begin = node.begin /\ left.end = Middle(node)
          /\ right.begin = Middle(node) /\ right.end = node.end
          /\ Middle(node) \in Int /\ node.begin < Middle(node) /\ Middle(node) < node.end
          /\ Size(left) < Size(node) /\ Size(right) < Size(node)
      BY <1>1, <2>4, HalvesAre
    <3>2. Lists(found[left], hits(left)) /\ Lists(found[right], hits(right))
      BY <1>5, <3>1
    <3>3. found[node] = found[left] \o found[right]
      BY <1>3, <2>4 DEF Adds
    <3> HIDE DEF left, right
    <3>4. \A k \in Int : k \in node.begin..(node.end - 1)
             <=> k \in left.begin..(left.end - 1) \/ k \in right.begin..(right.end - 1)
      BY <2>1, <3>1
    <3>5. hits(node) = hits(left) \union hits(right)
      BY <3>4 DEF Hits
    <3>6. hits(left) \intersect hits(right) = {}
      <4> SUFFICES ASSUME NEW k \in left.begin..(left.end - 1),
                          NEW l \in right.begin..(right.end - 1), sorted[k] = sorted[l]
                   PROVE  FALSE
        BY DEF Hits
      <4>1. k \in 1..n /\ l \in 1..n /\ k # l
        BY <1>1, <2>1, <3>1
      <4>2. \A p, q \in 1..n : sorted[p] = sorted[q] => p = q
        BY <1>2, OrderIs
      <4> QED
        BY <4>1, <4>2
    <3> HIDE DEF hits
    <3> QED
      BY <3>2, <3>3, <3>5, <3>6, ListsBoth
  <2> QED
    BY <2>2, <2>3, <2>4
<1> HIDE DEF hits
<1>6. Bad = {}
  <2> SUFFICES ASSUME Bad # {} PROVE FALSE
    OBVIOUS
  <2>1. Min(Bad) \in Bad /\ \A s \in Bad : Min(Bad) <= s
    BY MinIs
  <2>2. PICK node \in Nodes(n) : Size(node) = Min(Bad) /\ ~Lists(found[node], hits(node))
    BY <2>1
  <2>3. PICK shorter \in Nodes(n) : /\ Size(shorter) < Size(node)
                                    /\ ~Lists(found[shorter], hits(shorter))
    BY <1>5, <2>2
  <2>4. Size(shorter) \in Nat /\ Size(node) \in Nat
    BY <1>1, HalvesAre
  <2>5. Size(shorter) \in Bad
    BY <2>3, <2>4
  <2> QED
    BY <2>1, <2>2, <2>3, <2>4, <2>5
<1>7. \A node \in Nodes(n) : Size(node) \in Nat
  BY <1>1, HalvesAre
<1>8. \A node \in Nodes(n) : Lists(found[node], hits(node))
  BY <1>6, <1>7
<1> QED
  BY <1>8 DEF n, found, hits

\* From the root, the search lists the positions of all intervals that overlap i.
LEMMA RootLists ==
    ASSUME NEW intervals \in Seq(Pair), intervals # <<>>, NEW sorted, NEW nodes,
           Indexed(intervals, sorted, nodes), NEW i \in Interval
    PROVE  Lists(Search(nodes, intervals, sorted, i)[[begin |-> 1, end |-> Len(intervals) + 1]],
                 {k \in DOMAIN intervals : overlaps(i, intervals[k].interval)})
<1> DEFINE n == Len(intervals)
           root == [begin |-> 1, end |-> n + 1]
<1>1. n \in Nat /\ DOMAIN intervals = 1..n /\ n # 0
  BY PairsAre
<1> HIDE DEF n
<1>2. root \in Nodes(n) /\ root.begin = 1 /\ root.end = n + 1
  BY <1>1 DEF Nodes
<1>3. sorted \in Bijection(1..n, 1..n)
  BY <1>1 DEF Indexed, Ordered
<1>4. root.begin..(root.end - 1) = 1..n
  BY <1>1
<1>5. Hits(intervals, sorted, root, i)
        = {k \in DOMAIN intervals : overlaps(i, intervals[k].interval)}
  <2>1. /\ \A k \in 1..n : sorted[k] \in 1..n
        /\ \A l \in 1..n : \E k \in 1..n : sorted[k] = l
    BY <1>3, OrderIs
  <2> QED
    BY <1>1, <1>4, <2>1 DEF Hits
<1>6. Lists(Search(nodes, intervals, sorted, i)[root], Hits(intervals, sorted, root, i))
  BY <1>2, SearchLists DEF n
<1> QED
  BY <1>5, <1>6 DEF n

-----------------------------------------------------------------------------
(* The index: there is a stable order, and the queries can rely on it.     *)

LEMMA BeforeIs ==
    ASSUME NEW intervals \in Seq(Pair), NEW j \in DOMAIN intervals,
           NEW k \in DOMAIN intervals, NEW l \in DOMAIN intervals
    PROVE  /\ ~Before(intervals, k, k)
           /\ Before(intervals, j, k) /\ Before(intervals, k, l) => Before(intervals, j, l)
           /\ k = l \/ Before(intervals, k, l) \/ Before(intervals, l, k)
<1> DEFINE x(m) == intervals[m].interval.start
           y(m) == intervals[m].interval.end
<1>1. \A m \in DOMAIN intervals : x(m) \in Int /\ y(m) \in Int /\ m \in Int
  BY PairsAre
<1>2. \A p, q \in DOMAIN intervals :
         Before(intervals, p, q) <=> \/ x(p) < x(q)
                                     \/ x(p) = x(q) /\ y(p) < y(q)
                                     \/ x(p) = x(q) /\ y(p) = y(q) /\ p < q
  BY <1>1 DEF Before, InOrder
<1> HIDE DEF x, y
<1> QED
  BY <1>1, <1>2

LEMMA SortedIs ==
    ASSUME NEW intervals \in Seq(Pair)
    PROVE  Ordered(intervals, Sorted(intervals))
<1> DEFINE D == DOMAIN intervals
           n == Len(intervals)
           smaller(k) == {l \in D : Before(intervals, l, k)}
           rank == [k \in D |-> Cardinality(smaller(k)) + 1]
           order == [m \in D |-> CHOOSE k \in D : rank[k] = m]
           InTurn(o) == \A p, q \in DOMAIN o : p < q => Before(intervals, o[p], o[q])
<1>1. n \in Nat /\ D = 1..n
  BY PairsAre
<1> HIDE DEF n
<1>2. IsFiniteSet(D) /\ Cardinality(D) = n
  BY <1>1, FS_Interval
<1>3. ASSUME NEW k \in D
      PROVE  IsFiniteSet(smaller(k)) /\ Cardinality(smaller(k)) \in 0..(n - 1)
  <2>1. k \notin smaller(k) /\ smaller(k) \in SUBSET (D \ {k})
    BY BeforeIs
  <2> HIDE DEF smaller
  <2>2. IsFiniteSet(D \ {k}) /\ Cardinality(D \ {k}) = n - 1
    BY <1>2, FS_RemoveElement
  <2>3. IsFiniteSet(smaller(k)) /\ Cardinality(smaller(k)) <= n - 1
    BY <2>1, <2>2, FS_Subset
  <2>4. Cardinality(smaller(k)) \in Nat
    BY <2>3, FS_CardinalityType
  <2> QED
    BY <1>1, <2>3, <2>4
<1>4. ASSUME NEW k \in D PROVE rank[k] \in 1..n
  <2> DEFINE c == Cardinality(smaller(k))
  <2>1. rank[k] = c + 1 /\ c \in 0..(n - 1)
    BY <1>3
  <2> HIDE DEF c, rank
  <2> QED
    BY <1>1, <2>1
<1>5. ASSUME NEW k \in D, NEW l \in D, Before(intervals, k, l) PROVE rank[k] < rank[l]
  <2>1. k \in smaller(l) /\ smaller(k) \in SUBSET (smaller(l) \ {k})
    BY <1>5, BeforeIs
  <2> HIDE DEF smaller
  <2>2. /\ IsFiniteSet(smaller(l) \ {k})
        /\ Cardinality(smaller(l) \ {k}) = Cardinality(smaller(l)) - 1
    BY <1>3, <2>1, FS_RemoveElement
  <2>3. Cardinality(smaller(k)) <= Cardinality(smaller(l)) - 1
    BY <2>1, <2>2, FS_Subset
  <2>4. Cardinality(smaller(k)) \in Int /\ Cardinality(smaller(l)) \in Int
    BY <1>1, <1>3
  <2>5. rank[k] = Cardinality(smaller(k)) + 1 /\ rank[l] = Cardinality(smaller(l)) + 1
    OBVIOUS
  <2> HIDE DEF rank
  <2> QED
    BY <2>3, <2>4, <2>5
<1>6. rank \in [D -> D]
  BY <1>1, <1>4
<1> HIDE DEF rank
<1>7. ASSUME NEW k \in D, NEW l \in D, rank[k] = rank[l] PROVE k = l
  <2>1. rank[k] \in Int /\ rank[l] \in Int
    BY <1>1, <1>4
  <2> QED
    BY <1>5, <1>7, <2>1, BeforeIs
<1>8. rank \in Injection(D, D)
  BY <1>6, <1>7 DEF Injection, IsInjective
<1>9. rank \in Surjection(D, D)
  BY <1>2, <1>8, FS_Injection
<1>10. \A m \in D : order[m] \in D /\ rank[order[m]] = m
  BY <1>9 DEF Surjection
<1> HIDE DEF order
<1>11. order \in [D -> D]
  BY <1>10 DEF order
<1>12. order \in Bijection(D, D)
  <2>1. \A p, q \in D : order[p] = order[q] => p = q
    BY <1>10
  <2>2. \A k \in D : \E m \in D : order[m] = k
    <3> TAKE k \in D
    <3>1. rank[k] \in D /\ order[rank[k]] \in D /\ rank[order[rank[k]]] = rank[k]
      BY <1>6, <1>10
    <3>2. order[rank[k]] = k
      BY <1>7, <3>1
    <3> QED
      BY <3>1, <3>2
  <2> QED
    BY <1>11, <2>1, <2>2 DEF Bijection, Injection, IsInjective, Surjection
<1>13. DOMAIN order = D
  BY <1>11
<1>14. ASSUME NEW p \in D, NEW q \in D, p < q
       PROVE  Before(intervals, order[p], order[q])
  <2>1. order[p] # order[q] /\ ~(rank[order[q]] < rank[order[p]])
    BY <1>1, <1>10, <1>14
  <2> QED
    BY <1>5, <1>10, <2>1, BeforeIs
<1>15. InTurn(order)
  BY <1>13, <1>14
<1>16. Sorted(intervals) = CHOOSE o \in Bijection(D, D) : InTurn(o)
  BY DEF Sorted, Before
<1> HIDE DEF InTurn, D
<1>17. Sorted(intervals) \in Bijection(D, D) /\ InTurn(Sorted(intervals))
  BY <1>12, <1>15, <1>16
<1>18. DOMAIN Sorted(intervals) = D
  BY <1>17, OrderIs
<1> QED
  BY <1>17, <1>18 DEF InTurn, D, Ordered

\* Every query works on an index of the intervals there are.
LEMMA IndexBuilt ==
    ASSUME TreeInv, ensureIndex
    PROVE  m_indexValid' /\ Indexed(m_intervals, m_sortedIntervals', m_nodes')
<1>1. CASE m_indexValid
  <2>1. m_sortedIntervals' = m_sortedIntervals /\ m_nodes' = m_nodes /\ m_indexValid'
    BY <1>1 DEF ensureIndex
  <2> QED
    BY <1>1, <2>1 DEF TreeInv
<1>2. CASE ~m_indexValid
  <2> DEFINE sorted == Sorted(m_intervals)
             nodes == buildNode(m_intervals, sorted)
  <2>1. m_sortedIntervals' = sorted /\ m_nodes' = nodes /\ m_indexValid'
    BY <1>2 DEF ensureIndex
  <2>2. m_intervals \in Seq(Pair)
    BY DEF TreeInv
  <2> HIDE DEF sorted
  <2>3. Ordered(m_intervals, sorted)
    BY <2>2, SortedIs DEF sorted
  <2>4. sorted \in Bijection(DOMAIN m_intervals, DOMAIN m_intervals)
    BY <2>3 DEF Ordered
  <2>5. \A node \in Nodes(Len(m_intervals)) : Bounded(m_intervals, sorted, nodes, node)
    BY <2>2, <2>4, BoundsHold
  <2> HIDE DEF nodes
  <2> QED
    BY <2>1, <2>3, <2>5 DEF Indexed
<1> QED
  BY <1>1, <1>2

-----------------------------------------------------------------------------
(* The operations are those of IntervalQueries.                            *)

\* What a query reads of the index.
LEMMA IndexIs ==
    ASSUME NEW intervals \in Seq(Pair), NEW sorted, NEW nodes,
           Indexed(intervals, sorted, nodes)
    PROVE  /\ Len(intervals) \in Nat
           /\ DOMAIN sorted = 1..Len(intervals) /\ DOMAIN intervals = 1..Len(intervals)
           /\ \A n \in DOMAIN sorted : sorted[n] \in DOMAIN intervals
           /\ \A k \in DOMAIN intervals : \E n \in DOMAIN sorted : sorted[n] = k
           /\ \A m, n \in DOMAIN sorted :
                 m < n => ~InOrder(intervals[sorted[n]].interval, intervals[sorted[m]].interval)
<1> DEFINE D == DOMAIN intervals
<1>1. Len(intervals) \in Nat /\ D = 1..Len(intervals)
  BY PairsAre
<1>2. \A k \in D : intervals[k].interval.start \in Int /\ intervals[k].interval.end \in Int
  BY PairsAre
<1>3. /\ sorted \in Bijection(D, D)
      /\ \A m, n \in D : m < n => Before(intervals, sorted[m], sorted[n])
  BY DEF Indexed, Ordered
<1> HIDE DEF D
<1>4. /\ DOMAIN sorted = D /\ \A k \in D : sorted[k] \in D
      /\ \A l \in D : \E k \in D : sorted[k] = l
  BY <1>3, OrderIs
<1>5. \A k, l \in D : Before(intervals, k, l)
         => ~InOrder(intervals[l].interval, intervals[k].interval)
  BY <1>2 DEF Before, InOrder
<1> QED
  BY <1>1, <1>3, <1>4, <1>5 DEF D

LEMMA NextIs ==
    ASSUME TreeInv, NEW x \in Scalar, nextInterval(x)
    PROVE  Promised!Next(x)
<1> DEFINE sorted == m_sortedIntervals'
           start(n) == m_intervals[sorted[n]].interval.start
           behind == {n \in DOMAIN sorted : x < start(n)}
           right == {k \in DOMAIN m_intervals : m_intervals[k].interval.start > x}
<1>1. /\ ensureIndex /\ m_intervals' = m_intervals
      /\ answer' = [asked |-> "next", found |-> IF behind = {} THEN <<>>
                                                ELSE <<m_intervals[sorted[Min(behind)]]>>]
  BY DEF nextInterval
<1>2. m_intervals \in Seq(Pair) /\ Indexed(m_intervals, sorted, m_nodes')
  BY <1>1, IndexBuilt DEF TreeInv
<1> HIDE DEF sorted
<1>3. /\ Len(m_intervals) \in Nat
      /\ DOMAIN sorted = 1..Len(m_intervals) /\ DOMAIN m_intervals = 1..Len(m_intervals)
      /\ \A n \in DOMAIN sorted : sorted[n] \in DOMAIN m_intervals
      /\ \A k \in DOMAIN m_intervals : \E n \in DOMAIN sorted : sorted[n] = k
      /\ \A m, n \in DOMAIN sorted : m < n
            => ~InOrder(m_intervals[sorted[n]].interval, m_intervals[sorted[m]].interval)
  BY <1>2, IndexIs
<1>4. x \in Int /\ \A k \in DOMAIN m_intervals : /\ m_intervals[k].interval.start \in Int
                                                 /\ m_intervals[k].interval.end \in Int
  BY <1>2, PairsAre, ScalarAssumption
<1>5. \A n \in DOMAIN sorted : n \in behind <=> sorted[n] \in right
  BY <1>3, <1>4
<1>6. CASE behind = {}
  <2>1. right = {}
    BY <1>3, <1>5, <1>6
  <2> HIDE DEF behind
  <2> QED
    BY <1>1, <1>6, <2>1 DEF Promised!Next, Promised!Nearest
<1>7. CASE behind # {}
  <2> DEFINE n == Min(behind)
             k == sorted[n]
  <2>1. n \in behind /\ \A m \in behind : n <= m
    <3>1. behind \in SUBSET (1..Len(m_intervals)) /\ behind \in SUBSET Nat
      BY <1>3
    <3> HIDE DEF behind
    <3> QED
      BY <1>3, <1>7, <3>1, MinIs
  <2> HIDE DEF n
  <2>2. k \in right
    BY <1>5, <2>1
  <2>3. ASSUME NEW l \in right PROVE ~InOrder(m_intervals[l].interval, m_intervals[k].interval)
    <3>1. PICK m \in DOMAIN sorted : sorted[m] = l
      BY <1>3
    <3>2. m \in behind /\ n \in DOMAIN sorted
      BY <1>5, <2>1, <3>1
    <3>3. n <= m /\ m \in Int /\ n \in Int
      <4> HIDE DEF behind
      <4> QED
        BY <1>3, <2>1, <3>2
    <3>4. CASE m = n
      <4>1. l = k
        BY <3>1, <3>4
      <4> QED
        BY <1>4, <4>1 DEF InOrder
    <3>5. CASE m # n
      <4>1. n < m
        BY <3>3, <3>5
      <4>2. ~InOrder(m_intervals[sorted[m]].interval, m_intervals[sorted[n]].interval)
        BY <1>3, <3>2, <4>1
      <4> QED
        BY <3>1, <4>2
    <3> QED
      BY <3>4, <3>5
  <2>4. answer' = [asked |-> "next", found |-> <<m_intervals[k]>>]
    BY <1>1, <1>7 DEF n
  <2> HIDE DEF behind, k
  <2> QED
    BY <1>1, <2>2, <2>3, <2>4 DEF Promised!Next, Promised!Nearest, Promised!Earlier, InOrder
<1> QED
  BY <1>6, <1>7

LEMMA PrevIs ==
    ASSUME TreeInv, NEW x \in Scalar, prevInterval(x)
    PROVE  Promised!Prev(x)
<1> DEFINE sorted == m_sortedIntervals'
           start(n) == m_intervals[sorted[n]].interval.start
           before == {n \in DOMAIN sorted : start(n) < x}
           right == {k \in DOMAIN m_intervals : m_intervals[k].interval.start < x}
<1>1. /\ ensureIndex /\ m_intervals' = m_intervals
      /\ answer' = [asked |-> "prev", found |-> IF before = {} THEN <<>>
                                                ELSE <<m_intervals[sorted[Max(before)]]>>]
  BY DEF prevInterval
<1>2. m_intervals \in Seq(Pair) /\ Indexed(m_intervals, sorted, m_nodes')
  BY <1>1, IndexBuilt DEF TreeInv
<1> HIDE DEF sorted
<1>3. /\ Len(m_intervals) \in Nat
      /\ DOMAIN sorted = 1..Len(m_intervals) /\ DOMAIN m_intervals = 1..Len(m_intervals)
      /\ \A n \in DOMAIN sorted : sorted[n] \in DOMAIN m_intervals
      /\ \A k \in DOMAIN m_intervals : \E n \in DOMAIN sorted : sorted[n] = k
      /\ \A m, n \in DOMAIN sorted : m < n
            => ~InOrder(m_intervals[sorted[n]].interval, m_intervals[sorted[m]].interval)
  BY <1>2, IndexIs
<1>4. x \in Int /\ \A k \in DOMAIN m_intervals : /\ m_intervals[k].interval.start \in Int
                                                 /\ m_intervals[k].interval.end \in Int
  BY <1>2, PairsAre, ScalarAssumption
<1>5. \A n \in DOMAIN sorted : n \in before <=> sorted[n] \in right
  BY <1>3, <1>4
<1>6. CASE before = {}
  <2>1. right = {}
    BY <1>3, <1>5, <1>6
  <2> HIDE DEF before
  <2> QED
    BY <1>1, <1>6, <2>1 DEF Promised!Prev, Promised!Nearest
<1>7. CASE before # {}
  <2> DEFINE n == Max(before)
             k == sorted[n]
  <2>1. n \in before /\ \A m \in before : n >= m
    <3>1. before \in SUBSET (1..Len(m_intervals)) /\ before \in SUBSET Nat
      BY <1>3
    <3> HIDE DEF before
    <3> QED
      BY <1>3, <1>7, <3>1, MaxIs
  <2> HIDE DEF n
  <2>2. k \in right
    BY <1>5, <2>1
  <2>3. ASSUME NEW l \in right PROVE ~InOrder(m_intervals[k].interval, m_intervals[l].interval)
    <3>1. PICK m \in DOMAIN sorted : sorted[m] = l
      BY <1>3
    <3>2. m \in before /\ n \in DOMAIN sorted
      BY <1>5, <2>1, <3>1
    <3>3. n >= m /\ m \in Int /\ n \in Int
      <4> HIDE DEF before
      <4> QED
        BY <1>3, <2>1, <3>2
    <3>4. CASE m = n
      <4>1. l = k
        BY <3>1, <3>4
      <4> QED
        BY <1>4, <4>1 DEF InOrder
    <3>5. CASE m # n
      <4>1. m < n
        BY <3>3, <3>5
      <4>2. ~InOrder(m_intervals[sorted[n]].interval, m_intervals[sorted[m]].interval)
        BY <1>3, <3>2, <4>1
      <4> QED
        BY <3>1, <4>2
    <3> QED
      BY <3>4, <3>5
  <2>4. answer' = [asked |-> "prev", found |-> <<m_intervals[k]>>]
    BY <1>1, <1>7 DEF n
  <2> HIDE DEF before, k
  <2> QED
    BY <1>1, <2>2, <2>3, <2>4 DEF Promised!Prev, Promised!Nearest, Promised!Earlier, InOrder
<1> QED
  BY <1>6, <1>7

\* The positions in the order p, and the pairs at positions.
Placed(result, p) == [n \in DOMAIN result |-> result[p[n]]]
PairsAt(intervals, order) == [n \in DOMAIN order |-> intervals[order[n]]]

\* In the order p, the result has every position of S once.
Answers(intervals, S, result, p) ==
    LET order == Placed(result, p)
        found == PairsAt(intervals, order)
    IN  /\ DOMAIN result = 1..Len(found)
        /\ order \in [1..Len(found) -> S] /\ DOMAIN order = DOMAIN result
        /\ \A k \in S : \E n \in DOMAIN order : order[n] = k
        /\ \A m, n \in DOMAIN order : m # n => order[m] # order[n]
        /\ \A n \in DOMAIN order : found[n] = intervals[order[n]]

LEMMA FoundIs ==
    ASSUME NEW intervals \in Seq(Pair), NEW S \in SUBSET (DOMAIN intervals),
           NEW result, Lists(result, S), NEW p \in Bijection(DOMAIN result, DOMAIN result)
    PROVE  Answers(intervals, S, result, p)
<1> DEFINE D == DOMAIN result
           order == Placed(result, p)
           found == PairsAt(intervals, order)
<1>1. Len(result) \in Nat /\ D = 1..Len(result) /\ \A n \in D : result[n] \in S
  BY DEF Lists
<1>2. /\ \A m, n \in D : result[m] = result[n] => m = n
      /\ \A k \in S : \E n \in D : result[n] = k
  BY DEF Lists
<1>3. /\ \A n \in D : p[n] \in D
      /\ \A m, n \in D : p[m] = p[n] => m = n
      /\ \A n \in D : \E m \in D : p[m] = n
  BY OrderIs
<1> HIDE DEF D
<1>4. \A n \in D : result[p[n]] \in S /\ intervals[result[p[n]]] \in Pair
  BY <1>1, <1>3, PairsAre
<1>5. order \in [D -> S] /\ DOMAIN order = D /\ \A n \in D : order[n] = result[p[n]]
  BY <1>4 DEF Placed, D
<1>6. found \in [1..Len(result) -> Pair] /\ \A n \in D : found[n] = intervals[order[n]]
  <2> HIDE DEF order
  <2>1. \A n \in D : intervals[order[n]] \in Pair
    BY <1>4, <1>5
  <2> QED
    BY <1>1, <1>5, <2>1 DEF PairsAt
<1> HIDE DEF found, order
<1>7. Len(found) = Len(result)
  <2>1. DOMAIN found = 1..Len(result)
    BY <1>6
  <2>2. found \in Seq(Pair)
    BY <1>1, <1>6
  <2> QED
    BY <1>1, <2>1, <2>2
<1>8. ASSUME NEW k \in S PROVE \E n \in D : order[n] = k
  <2>1. PICK m \in D : result[m] = k
    BY <1>2
  <2>2. PICK n \in D : p[n] = m
    BY <1>3
  <2>3. order[n] = k
    BY <1>5, <2>1, <2>2
  <2> QED
    BY <2>3
<1>9. ASSUME NEW m \in D, NEW n \in D, m # n PROVE order[m] # order[n]
  <2>1. p[m] \in D /\ p[n] \in D /\ p[m] # p[n]
    BY <1>3, <1>9
  <2>2. result[p[m]] # result[p[n]]
    BY <1>2, <2>1
  <2>3. order[m] = result[p[m]] /\ order[n] = result[p[n]]
    BY <1>5
  <2> QED
    BY <2>2, <2>3
<1> QED
  BY <1>1, <1>5, <1>6, <1>7, <1>8, <1>9 DEF Answers, found, order, D

LEMMA OverlappingIs ==
    ASSUME TreeInv, NEW i \in Interval, overlapping(i)
    PROVE  Promised!Overlapping(i)
<1> DEFINE hits == {k \in DOMAIN m_intervals : Promised!Overlap(m_intervals[k].interval, i)}
<1>1. m_intervals \in Seq(Pair)
  BY DEF TreeInv
<1>2. /\ Len(m_intervals) \in Nat /\ DOMAIN m_intervals = 1..Len(m_intervals)
      /\ \A k \in DOMAIN m_intervals : /\ m_intervals[k].interval.start \in Int
                                       /\ m_intervals[k].interval.end \in Int
  BY <1>1, PairsAre
<1>3. i.start \in Int /\ i.end \in Int
  BY ScalarAssumption DEF Interval
<1>4. hits = {k \in DOMAIN m_intervals : overlaps(i, m_intervals[k].interval)}
  BY <1>2, <1>3 DEF overlaps, Promised!Overlap
<1>5. m_intervals' = m_intervals
  BY DEF overlapping
<1>6. CASE m_intervals = <<>>
  <2>1. answer' = [asked |-> "overlapping", found |-> <<>>]
    BY <1>6 DEF overlapping
  <2>2. answer'.asked = "overlapping" /\ answer'.found = <<>> /\ Len(answer'.found) = 0
    BY <2>1
  <2>3. hits = {} /\ 1..0 = {}
    BY <1>6
  <2> HIDE DEF hits
  <2> DEFINE order == [n \in {} |-> 0]
  <2>4. order \in [{} -> {}] /\ DOMAIN order = {}
    OBVIOUS
  <2> HIDE DEF order
  <2> QED
    BY <1>5, <2>2, <2>3, <2>4 DEF Promised!Overlapping, hits
<1>7. CASE m_intervals # <<>>
  <2> DEFINE root == [begin |-> 1, end |-> Len(m_intervals) + 1]
             result == Search(m_nodes', m_intervals, m_sortedIntervals', i)[root]
  <2>1. ensureIndex
    BY <1>7 DEF overlapping
  <2>2. Indexed(m_intervals, m_sortedIntervals', m_nodes')
    BY <2>1, IndexBuilt
  <2>3. Lists(result, hits)
    BY <1>1, <1>4, <1>7, <2>2, RootLists
  <2>4. PICK p \in ResultOrders(result) :
           answer' = [asked |-> "overlapping",
                      found |-> [n \in DOMAIN result |-> m_intervals[result[p[n]]]]]
    BY <1>7 DEF overlapping
  <2> HIDE DEF result
  <2> DEFINE order == Placed(result, p)
             found == PairsAt(m_intervals, order)
  <2>5. /\ p \in Bijection(DOMAIN result, DOMAIN result)
        /\ \A m, n \in DOMAIN result : m < n =>
              ~ResultOrder(m_intervals[result[p[n]]].interval,
                           m_intervals[result[p[m]]].interval)
    BY <2>4 DEF ResultOrders
  <2>6. hits \in SUBSET (DOMAIN m_intervals)
    OBVIOUS
  <2>7. answer'.asked = "overlapping" /\ answer'.found = found
    BY <2>4 DEF Placed, PairsAt
  <2> HIDE DEF hits
  <2>8. /\ m_intervals \in Seq(Pair) /\ hits \in SUBSET (DOMAIN m_intervals)
        /\ Lists(result, hits) /\ p \in Bijection(DOMAIN result, DOMAIN result)
    BY <1>1, <2>3, <2>5, <2>6
  <2>9. /\ DOMAIN result = 1..Len(found)
        /\ order \in [1..Len(found) -> hits] /\ DOMAIN order = DOMAIN result
        /\ \A k \in hits : \E n \in DOMAIN order : order[n] = k
        /\ \A m, n \in DOMAIN order : m # n => order[m] # order[n]
        /\ \A n \in DOMAIN order : found[n] = m_intervals[order[n]]
    <3>1. Answers(m_intervals, hits, result, p)
      BY <2>8, FoundIs
    <3> QED
      BY <3>1 DEF Answers
  <2>10. \A m, n \in DOMAIN order : m < n =>
           ~ResultOrder(m_intervals[order[n]].interval, m_intervals[order[m]].interval)
    BY <2>5, <2>9 DEF Placed
  <2> HIDE DEF found, order
  <2> QED
    BY <1>5, <2>7, <2>9, <2>10 DEF Promised!Overlapping, ResultOrder, hits
<1> QED
  BY <1>6, <1>7

LEMMA EmptyIndex == Indexed(<<>>, <<>>, <<>>)
<1>1. DOMAIN <<>> = {} /\ Len(<<>>) = 0
  OBVIOUS
<1>2. <<>> \in Bijection({}, {})
  <2>1. <<>> \in [{} -> {}]
    OBVIOUS
  <2> QED
    BY <2>1 DEF Bijection, Injection, Surjection, IsInjective
<1>3. Nodes(0) = {}
  BY DEF Nodes
<1> QED
  BY <1>1, <1>2, <1>3 DEF Indexed, Ordered

\* A pair appended, dropped or changed.
LEMMA ChangesAre ==
    ASSUME TreeInv
    PROVE  /\ \A i \in Interval, v \in Value : insert(i, v) => Promised!Insert(i, v) /\ TreeInv'
           /\ clear => Promised!Clear /\ TreeInv'
           /\ \A k \in DOMAIN m_intervals, v \in Value :
                 Assign(k, v) => Promised!Change(k, v) /\ TreeInv'
<1>1. m_intervals \in Seq(Pair)
  BY DEF TreeInv
<1>2. ASSUME NEW i \in Interval, NEW v \in Value, insert(i, v)
      PROVE  Promised!Insert(i, v) /\ TreeInv'
  <2>1. [interval |-> i, value |-> v] \in Pair
    BY DEF Pair
  <2>2. /\ m_intervals' = Append(m_intervals, [interval |-> i, value |-> v])
        /\ ~m_indexValid'
    BY <1>2 DEF insert
  <2>3. m_intervals' \in Seq(Pair)
    BY <1>1, <2>1, <2>2
  <2>4. Promised!Insert(i, v)
    BY <1>2 DEF insert, Promised!Insert, NoAnswer, Promised!NoAnswer
  <2> QED
    BY <2>2, <2>3, <2>4 DEF TreeInv
<1>3. ASSUME clear PROVE Promised!Clear /\ TreeInv'
  <2>1. m_intervals' = <<>> /\ m_sortedIntervals' = <<>> /\ m_nodes' = <<>>
    BY <1>3 DEF clear
  <2>2. Promised!Clear
    BY <1>3 DEF clear, Promised!Clear, NoAnswer, Promised!NoAnswer
  <2> QED
    BY <2>1, <2>2, EmptyIndex DEF TreeInv
<1>4. ASSUME NEW k \in DOMAIN m_intervals, NEW v \in Value, Assign(k, v)
      PROVE  Promised!Change(k, v) /\ TreeInv'
  <2>1. /\ m_intervals' = [m_intervals EXCEPT ![k].value = v]
        /\ UNCHANGED <<m_sortedIntervals, m_nodes, m_indexValid>>
    BY <1>4 DEF Assign, index
  <2>2. Promised!Change(k, v)
    BY <1>4 DEF Assign, Promised!Change, NoAnswer, Promised!NoAnswer
  <2>3. /\ [m_intervals[k] EXCEPT !.value = v] \in Pair
        /\ [m_intervals[k] EXCEPT !.value = v].interval = m_intervals[k].interval
    <3> DEFINE pair == m_intervals[k]
    <3>1. pair \in Pair
      BY <1>1
    <3> HIDE DEF pair
    <3>2. [pair EXCEPT !.value = v] \in Pair /\ [pair EXCEPT !.value = v].interval = pair.interval
      BY <3>1 DEF Pair
    <3> QED
      BY <3>2 DEF pair
  <2>4. /\ m_intervals' \in Seq(Pair) /\ DOMAIN m_intervals' = DOMAIN m_intervals
        /\ Len(m_intervals') = Len(m_intervals)
        /\ \A l \in DOMAIN m_intervals : m_intervals'[l].interval = m_intervals[l].interval
    BY <1>1, <2>1, <2>3
  <2>5. ASSUME m_indexValid PROVE Indexed(m_intervals', m_sortedIntervals, m_nodes)
    <3>1. Indexed(m_intervals, m_sortedIntervals, m_nodes)
      BY <2>5 DEF TreeInv
    <3>2. \A l \in DOMAIN m_intervals : m_sortedIntervals[l] \in DOMAIN m_intervals
      BY <3>1, OrderIs DEF Indexed, Ordered
    <3>3. Ordered(m_intervals', m_sortedIntervals)
      BY <2>4, <3>1, <3>2 DEF Indexed, Ordered, Before
    <3>4. ASSUME NEW node \in Nodes(Len(m_intervals))
          PROVE  Bounded(m_intervals', m_sortedIntervals, m_nodes, node)
      <4>1. Bounded(m_intervals, m_sortedIntervals, m_nodes, node)
        BY <3>1 DEF Indexed
      <4>2. \A l \in node.begin..(node.end - 1) : l \in DOMAIN m_intervals
        BY <1>1, HalvesAre
      <4> QED
        BY <2>4, <3>2, <4>1, <4>2 DEF Bounded
    <3> QED
      BY <2>4, <3>3, <3>4 DEF Indexed
  <2> QED
    BY <2>1, <2>2, <2>4, <2>5 DEF TreeInv
<1> QED
  BY <1>2, <1>3, <1>4

-----------------------------------------------------------------------------
(* The refinement.                                                         *)

LEMMA QueriesAre ==
    ASSUME TreeInv
    PROVE  /\ \A x \in Scalar : nextInterval(x) => Promised!Next(x) /\ TreeInv'
           /\ \A x \in Scalar : prevInterval(x) => Promised!Prev(x) /\ TreeInv'
           /\ \A i \in Interval : overlapping(i) => Promised!Overlapping(i) /\ TreeInv'
<1>1. ASSUME m_intervals' = m_intervals, ensureIndex PROVE TreeInv'
  BY <1>1, IndexBuilt DEF TreeInv
<1>2. ASSUME m_intervals' = m_intervals, UNCHANGED index PROVE TreeInv'
  BY <1>2 DEF TreeInv, index
<1>3. ASSUME NEW x \in Scalar, nextInterval(x) PROVE Promised!Next(x) /\ TreeInv'
  BY <1>1, <1>3, NextIs DEF nextInterval
<1>4. ASSUME NEW x \in Scalar, prevInterval(x) PROVE Promised!Prev(x) /\ TreeInv'
  BY <1>1, <1>4, PrevIs DEF prevInterval
<1>5. ASSUME NEW i \in Interval, overlapping(i) PROVE Promised!Overlapping(i) /\ TreeInv'
  <2>1. m_intervals' = m_intervals /\ (ensureIndex \/ UNCHANGED index)
    BY <1>5 DEF overlapping
  <2> QED
    BY <1>1, <1>2, <1>5, <2>1, OverlappingIs
<1> QED
  BY <1>3, <1>4, <1>5

LEMMA TreeInit == Init => TreeInv /\ Promised!Init
<1> SUFFICES ASSUME Init PROVE TreeInv /\ Promised!Init
  OBVIOUS
<1>1. m_intervals = <<>> /\ m_sortedIntervals = <<>> /\ m_nodes = <<>> /\ answer = NoAnswer
  BY DEF Init
<1>2. Promised!Init
  BY <1>1 DEF Promised!Init, NoAnswer, Promised!NoAnswer
<1> QED
  BY <1>1, <1>2, EmptyIndex DEF TreeInv

LEMMA TreeNext ==
    ASSUME TreeInv, [Next]_vars
    PROVE  TreeInv' /\ [Promised!Step]_<<m_intervals, answer>>
<1>1. ASSUME NEW i \in Interval, NEW v \in Value, insert(i, v) PROVE TreeInv' /\ Promised!Step
  BY <1>1, ChangesAre DEF Promised!Step, Interval, Promised!Interval
<1>2. ASSUME clear PROVE TreeInv' /\ Promised!Step
  BY <1>2, ChangesAre DEF Promised!Step
<1>3. ASSUME NEW k \in DOMAIN m_intervals, NEW v \in Value, Assign(k, v)
      PROVE  TreeInv' /\ Promised!Step
  BY <1>3, ChangesAre DEF Promised!Step
<1>4. ASSUME NEW x \in Scalar, nextInterval(x) PROVE TreeInv' /\ Promised!Step
  BY <1>4, QueriesAre DEF Promised!Step
<1>5. ASSUME NEW x \in Scalar, prevInterval(x) PROVE TreeInv' /\ Promised!Step
  BY <1>5, QueriesAre DEF Promised!Step
<1>6. ASSUME NEW i \in Interval, overlapping(i) PROVE TreeInv' /\ Promised!Step
  BY <1>6, QueriesAre DEF Promised!Step, Interval, Promised!Interval
<1>7. CASE UNCHANGED vars
  <2>1. UNCHANGED <<m_intervals, m_sortedIntervals, m_nodes, m_indexValid, answer>>
    BY <1>7 DEF vars
  <2>2. TreeInv'
    BY <2>1 DEF TreeInv
  <2> QED
    BY <2>1, <2>2
<1>8. CASE Next
  BY <1>1, <1>2, <1>3, <1>4, <1>5, <1>6, <1>8 DEF Next
<1> QED
  BY <1>7, <1>8

\* Whenever the index is said to be valid, it is one of the intervals there are: the
\* positions in their stable order, and no interval below a node that ends behind the
\* node's maxEnd.
THEOREM IndexValid == Spec => []TreeInv
<1>1. Init => TreeInv
  BY TreeInit
<1>2. TreeInv /\ [Next]_vars => TreeInv'
  BY TreeNext
<1> QED
  BY <1>1, <1>2, PTL DEF Spec

\* The tree implements IntervalQueries: nextInterval() and prevInterval() return a nearest
\* interval, and overlapping() all that overlap, each once and in order, whatever was
\* inserted, changed, cleared and asked before.
THEOREM Implements == Spec => Promise
<1>1. Init => Promised!Init
  BY TreeInit
<1>2. TreeInv /\ [Next]_vars => [Promised!Step]_<<m_intervals, answer>>
  BY TreeNext
<1> QED
  BY <1>1, <1>2, IndexValid, PTL DEF Spec, Promise, Promised!Spec
=============================================================================
