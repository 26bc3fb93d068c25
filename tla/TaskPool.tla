------------------------------ MODULE TaskPool ------------------------------
(***************************************************************************)
(* What a thread pool of libs/utils promises to its users, without any     *)
(* thread, lock or condition variable: tasks are numbered in the order in  *)
(* which enqueue() accepted them, they are started in that order, each one *)
(* once, at most one per slot, and a pool that has closed owes nobody      *)
(* anything.  ThreadPool implements it.                                    *)
(***************************************************************************)
EXTENDS Naturals

CONSTANTS
    Slots,      \* the places a task can run in: the threads of the pool
    MaxTasks    \* bound: how many tasks are ever offered

VARIABLES
    accepted,   \* tasks 1..accepted have been taken over from a caller
    taken,      \* tasks 1..taken have been given to a slot
    slot,       \* the task in each slot, 0 when the slot is free
    finished,   \* the tasks that have returned
    phase       \* "open", "stopping" (stop was asked for), "closed"

vars == <<accepted, taken, slot, finished, phase>>

Init ==
    /\ accepted = 0
    /\ taken = 0
    /\ slot = [s \in Slots |-> 0]
    /\ finished = {}
    /\ phase = "open"

\* A pool accepts tasks in every phase; a closed one never starts them.
Accept ==
    /\ accepted < MaxTasks
    /\ accepted' = accepted + 1
    /\ UNCHANGED <<taken, slot, finished, phase>>

Start(s) ==
    /\ phase # "closed"
    /\ taken < accepted
    /\ slot[s] = 0
    /\ taken' = taken + 1
    /\ slot' = [slot EXCEPT ![s] = taken + 1]
    /\ UNCHANGED <<accepted, finished, phase>>

Finish(s) ==
    /\ slot[s] # 0
    /\ finished' = finished \union {slot[s]}
    /\ slot' = [slot EXCEPT ![s] = 0]
    /\ UNCHANGED <<accepted, taken, phase>>

Stop ==
    /\ phase = "open"
    /\ phase' = "stopping"
    /\ UNCHANGED <<accepted, taken, slot, finished>>

\* Closing is only allowed when every task accepted so far has returned.
Close ==
    /\ phase = "stopping"
    /\ finished = 1..accepted
    /\ phase' = "closed"
    /\ UNCHANGED <<accepted, taken, slot, finished>>

Next ==
    \/ Accept
    \/ \E s \in Slots : Start(s) \/ Finish(s)
    \/ Stop
    \/ Close

Spec == Init /\ [][Next]_vars
=============================================================================
