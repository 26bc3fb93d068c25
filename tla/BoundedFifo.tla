---------------------------- MODULE BoundedFifo ----------------------------
(***************************************************************************)
(* What wolv::container::RingBuffer promises: a first-in first-out queue   *)
(* of at most Capacity elements that makes room for a new element by       *)
(* forgetting the oldest one.                                              *)
(***************************************************************************)
EXTENDS Naturals, Sequences

CONSTANTS
    Elements,
    Capacity,
    Nothing

VARIABLES
    content,    \* oldest element first
    out         \* what the last successful pop returned

vars == <<content, out>>

Init == content = <<>> /\ out = Nothing

Push(e) ==
    /\ content' = Append(IF Len(content) = Capacity
                         THEN Tail(content) ELSE content, e)
    /\ out' = out

Pop ==
    /\ content # <<>>
    /\ out' = Head(content)
    /\ content' = Tail(content)

Clear == content' = <<>> /\ out' = out

Next == (\E e \in Elements : Push(e)) \/ Pop \/ Clear

Spec == Init /\ [][Next]_vars
=============================================================================
