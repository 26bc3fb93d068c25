---------------------------- MODULE IntervalTree ----------------------------
(***************************************************************************)
(* container/interval_tree.hpp: pairs of an interval and a value in the    *)
(* order of their insertion, with an index that the first query after an   *)
(* insertion builds: the positions sorted by interval, and a binary tree   *)
(* of their ranges with the largest end in each.  Positions in sequences   *)
(* count from 1; a range is begin .. end - 1, as in the code.              *)
(***************************************************************************)
EXTENDS Integers, Sequences, FiniteSetsExt, Functions

CONSTANTS
    Scalar,         \* the numbers that bound intervals
    Value,
    MaxIntervals    \* how many are inserted, a bound of the model

ASSUME ScalarAssumption == Scalar \subseteq Int

VARIABLES m_intervals, m_sortedIntervals, m_nodes, m_indexValid,
          answer    \* what the latest call has returned

vars == <<m_intervals, m_sortedIntervals, m_nodes, m_indexValid, answer>>
index == <<m_sortedIntervals, m_nodes, m_indexValid>>

\* Intervals may be inverted: nothing checks them.
Interval == [start : Scalar, end : Scalar]
NoAnswer == [asked |-> "nothing", found |-> <<>>]

Promised == INSTANCE IntervalQueries WITH stored <- m_intervals

overlaps(i, other) == i.end >= other.start /\ i.start <= other.end

-----------------------------------------------------------------------------
(* The index: built from the intervals, and read by the queries.           *)

InOrder(i, j) == i.start < j.start \/ (i.start = j.start /\ i.end < j.end)

\* The stable order of the positions 1 .. n.
Sorted(intervals) ==
    LET before(k, l) ==
            \/ InOrder(intervals[k].interval, intervals[l].interval)
            \/ ~InOrder(intervals[l].interval, intervals[k].interval) /\ k < l
    IN  CHOOSE order \in Bijection(DOMAIN intervals, DOMAIN intervals) :
            \A m, n \in DOMAIN order : m < n => before(order[m], order[n])

\* The ranges that a node may have among n intervals.  A node is known by its
\* range, so that its halves need no indices.
Nodes(n) == {node \in [begin : 1..n, end : 2..(n + 1)] : node.begin < node.end}
Leaf(node) == node.end - node.begin = 1
Middle(node) == node.begin + (node.end - node.begin) \div 2
Left(node) == [node EXCEPT !.end = Middle(node)]
Right(node) == [node EXCEPT !.begin = Middle(node)]

\* The largest end below every node.
buildNode(intervals, sorted) ==
    LET maxEnd[node \in Nodes(Len(intervals))] ==
            IF Leaf(node) THEN intervals[sorted[node.begin]].interval.end
            ELSE Max({maxEnd[Left(node)], maxEnd[Right(node)]})
    IN  maxEnd

ensureIndex ==
    /\ m_indexValid' = TRUE
    /\ IF m_indexValid THEN UNCHANGED <<m_sortedIntervals, m_nodes>>
       ELSE /\ m_sortedIntervals' = Sorted(m_intervals)
            /\ m_nodes' = buildNode(m_intervals, m_sortedIntervals')

\* Whether no interval in the range of a node can overlap i.  A wrong one
\* takes the end of the range's last interval for the largest one.
PruneByLast(nodes, intervals, sorted, node, i) ==
    \/ intervals[sorted[node.end - 1]].interval.end < i.start
    \/ intervals[sorted[node.begin]].interval.start > i.end
Prune(nodes, intervals, sorted, node, i) ==
    \/ nodes[node] < i.start
    \/ intervals[sorted[node.begin]].interval.start > i.end

\* The positions below every node that the search puts into the result.
Search(nodes, intervals, sorted, i) ==
    LET found[node \in Nodes(Len(intervals))] ==
            IF Prune(nodes, intervals, sorted, node, i) THEN <<>>
            ELSE IF ~Leaf(node) THEN found[Left(node)] \o found[Right(node)]
            ELSE IF overlaps(i, intervals[sorted[node.begin]].interval)
                 THEN <<sorted[node.begin]>> ELSE <<>>
    IN  found

\* std::ranges::sort: in whatever order equal intervals end up.
ResultOrder(i, j) == i.start > j.start \/ (i.start = j.start /\ i.end < j.end)
ResultOrders(result) ==
    {order \in Bijection(DOMAIN result, DOMAIN result) :
        \A m, n \in DOMAIN result :
            m < n => ~ResultOrder(m_intervals[result[order[n]]].interval,
                                  m_intervals[result[order[m]]].interval)}

-----------------------------------------------------------------------------
(* The operations.                                                         *)

Init ==
    /\ m_intervals = <<>> /\ m_sortedIntervals = <<>> /\ m_nodes = <<>>
    /\ m_indexValid = TRUE
    /\ answer = NoAnswer

\* insert() and emplace(), which differ in how the value gets in.
insert(interval, value) ==
    /\ Len(m_intervals) < MaxIntervals
    /\ m_intervals' = Append(m_intervals, [interval |-> interval, value |-> value])
    /\ m_indexValid' = FALSE
    /\ answer' = NoAnswer
    /\ UNCHANGED <<m_sortedIntervals, m_nodes>>

clear ==
    /\ m_intervals' = <<>> /\ m_sortedIntervals' = <<>> /\ m_nodes' = <<>>
    /\ m_indexValid' = TRUE
    /\ answer' = NoAnswer

\* Through the iterators of begin() and end(): a value is changed in place.
\* The caller leaves the intervals alone, which the index is made from.
Assign(position, value) ==
    /\ m_intervals' = [m_intervals EXCEPT ![position].value = value]
    /\ answer' = NoAnswer
    /\ UNCHANGED index

\* The first sorted interval behind searchIndex: std::upper_bound.
nextInterval(searchIndex) ==
    /\ ensureIndex
    /\ LET behind == {n \in DOMAIN m_sortedIntervals' :
                        searchIndex < m_intervals[m_sortedIntervals'[n]].interval.start}
       IN  answer' = [asked |-> "next",
                      found |-> IF behind = {} THEN <<>>
                                ELSE <<m_intervals[m_sortedIntervals'[Min(behind)]]>>]
    /\ UNCHANGED m_intervals

\* The last one before it: std::lower_bound, and one back.
prevInterval(searchIndex) ==
    /\ ensureIndex
    /\ LET before == {n \in DOMAIN m_sortedIntervals' :
                        m_intervals[m_sortedIntervals'[n]].interval.start < searchIndex}
       IN  answer' = [asked |-> "prev",
                      found |-> IF before = {} THEN <<>>
                                ELSE <<m_intervals[m_sortedIntervals'[Max(before)]]>>]
    /\ UNCHANGED m_intervals

\* An empty tree is answered for without its index.
overlapping(interval) ==
    /\ IF m_intervals = <<>>
       THEN UNCHANGED index /\ answer' = [asked |-> "overlapping", found |-> <<>>]
       ELSE /\ ensureIndex
            /\ LET root == [begin |-> 1, end |-> Len(m_intervals) + 1]
                   result == Search(m_nodes', m_intervals, m_sortedIntervals', interval)[root]
               IN  \E order \in ResultOrders(result) :
                      answer' = [asked |-> "overlapping",
                                 found |-> [n \in DOMAIN result |->
                                                m_intervals[result[order[n]]]]]
    /\ UNCHANGED m_intervals

Next ==
    \/ \E i \in Interval, v \in Value : insert(i, v)
    \/ clear
    \/ \E k \in DOMAIN m_intervals, v \in Value : Assign(k, v)
    \/ \E x \in Scalar : nextInterval(x)
    \/ \E x \in Scalar : prevInterval(x)
    \/ \E i \in Interval : overlapping(i)

Spec == Init /\ [][Next]_vars

-----------------------------------------------------------------------------
(* Properties.                                                             *)

\* The tree answers every query as IntervalQueries does, whatever insertions,
\* changes and queries came before it.
Promise == Promised!Spec
=============================================================================
