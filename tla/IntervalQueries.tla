-------------------------- MODULE IntervalQueries --------------------------
(***************************************************************************)
(* What an interval tree promises: it keeps the pairs that were inserted,  *)
(* and each query is answered from the definition of what it asks for.     *)
(***************************************************************************)
EXTENDS Integers, Sequences

CONSTANTS Scalar, Value, MaxIntervals

VARIABLES
    stored,     \* the pairs in the order of their insertion
    answer      \* of the latest call: what was asked, and the pairs found

Interval == [start : Scalar, end : Scalar]
NoAnswer == [asked |-> "nothing", found |-> <<>>]

Overlap(i, j) == i.end >= j.start /\ i.start <= j.end
Earlier(i, j) == i.start < j.start \/ (i.start = j.start /\ i.end < j.end)

Init == stored = <<>> /\ answer = NoAnswer

Insert(i, v) ==
    /\ Len(stored) < MaxIntervals
    /\ stored' = Append(stored, [interval |-> i, value |-> v])
    /\ answer' = NoAnswer

Clear == stored' = <<>> /\ answer' = NoAnswer

Change(k, v) ==
    /\ stored' = [stored EXCEPT ![k].value = v]
    /\ answer' = NoAnswer

\* One of the pairs p with Right(p) of which no other one is nearer.
Nearest(asked, Right(_), Nearer(_, _)) ==
    LET right == {k \in DOMAIN stored : Right(stored[k])}
    IN  /\ UNCHANGED stored
        /\ IF right = {} THEN answer' = [asked |-> asked, found |-> <<>>]
           ELSE \E k \in right :
                    /\ \A l \in right : ~Nearer(stored[l].interval, stored[k].interval)
                    /\ answer' = [asked |-> asked, found |-> <<stored[k]>>]
Next(x) == Nearest("next", LAMBDA p : p.interval.start > x, Earlier)
Prev(x) == Nearest("prev", LAMBDA p : p.interval.start < x, LAMBDA i, j : Earlier(j, i))

\* Every pair once whose interval overlaps, the later starts first and of
\* intervals with one start the shorter ones first.
Overlapping(i) ==
    LET hits == {k \in DOMAIN stored : Overlap(stored[k].interval, i)}
        before(p, q) == \/ p.interval.start > q.interval.start
                        \/ p.interval.start = q.interval.start /\ p.interval.end < q.interval.end
    IN  /\ UNCHANGED stored
        /\ answer'.asked = "overlapping"
        /\ \E order \in [1..Len(answer'.found) -> hits] :
            /\ \A k \in hits : \E n \in DOMAIN order : order[n] = k
            /\ \A m, n \in DOMAIN order : m # n => order[m] # order[n]
            /\ \A n \in DOMAIN order : answer'.found[n] = stored[order[n]]
            /\ \A m, n \in DOMAIN order :
                    m < n => ~before(stored[order[n]], stored[order[m]])

Step ==
    \/ \E i \in Interval, v \in Value : Insert(i, v)
    \/ Clear
    \/ \E k \in DOMAIN stored, v \in Value : Change(k, v)
    \/ \E x \in Scalar : Next(x) \/ Prev(x)
    \/ \E i \in Interval : Overlapping(i)

Spec == Init /\ [][Step]_<<stored, answer>>
=============================================================================
