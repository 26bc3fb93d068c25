------------------------ MODULE ChangeTrackerProofs ------------------------
(***************************************************************************)
(* Theorems about ChangeTracker, for every number of tracking threads, of  *)
(* changes, and every size of the queue and of a batch.                    *)
(***************************************************************************)
EXTENDS ChangeTracker, TLAPS

-----------------------------------------------------------------------------
(* The inductive invariant.                                                *)

OwnerStates == {"idle", "request", "notify", "setFlag", "join"}
ThreadStates == {"none", "starting", "sleep", "poll", "report", "exited"} \union InSleep
Owned == Threads \union {NoThread}

\* The types of the variables that the other parts speak of.
TypeOK ==
    /\ m_thread \in Owned /\ target \in Owned /\ next \in Owned
    /\ owner \in OwnerStates
    /\ pc \in [Threads -> ThreadStates]
    /\ stopRequested \in [Threads -> BOOLEAN]
    /\ registered \in [Threads -> BOOLEAN]
    /\ shouldStop \in [Threads -> BOOLEAN]
    /\ slept \in [Threads -> BOOLEAN]
    /\ latePolls \in [Threads -> 0..2]

Alive(t) == pc[t] \notin {"none", "exited"}

\* While a thread is being stopped it is the tracker's, and at most its successor
\* lives beside it.
AliveInv ==
    /\ owner = "idle" => \A t \in Threads : Alive(t) => t = m_thread
    /\ owner # "idle" =>
          /\ target \in Threads /\ target = m_thread
          /\ \A t \in Threads : Alive(t) => t \in {m_thread, next}

\* A stop_callback is registered within a sleep() only, and unregistered after it
\* has run.
CallbackInv ==
    /\ \A t \in Threads : registered[t] => pc[t] \in InSleep
    /\ \A t \in Threads : InCallback(t) => registered[t]

\* After the poll that may follow the request, the next sleep() knows of the request
\* from its beginning and the thread leaves.
PollInv ==
    \A t \in Threads : latePolls[t] # 0 =>
        /\ latePolls[t] = 1 /\ stopRequested[t]
        /\ \/ pc[t] \in {"report", "sleep", "exited"}
           \/ pc[t] \in {"awake", "result"} /\ shouldStop[t]
           \/ pc[t] = "unregister" /\ slept[t]

Inv == TypeOK /\ AliveInv /\ CallbackInv /\ PollInv

-----------------------------------------------------------------------------
(* Each part of the invariant is kept, the later ones with the help of the *)
(* earlier ones.                                                           *)

\* Every step keeps the types.
LEMMA TypeNext == TypeOK /\ [Next]_vars => TypeOK'
<1> SUFFICES ASSUME TypeOK, [Next]_vars PROVE TypeOK'
  OBVIOUS
<1> USE DEF TypeOK, Owned, OwnerStates, ThreadStates, InSleep, ownerVars, sleepVars,
          events
<1>1. CASE Change
  BY <1>1 DEF Change
<1>2. CASE StartTracking
  BY <1>2 DEF StartTracking
<1>3. CASE StopTracking
  BY <1>3 DEF StopTracking
<1>4. CASE RequestStop
  BY <1>4 DEF RequestStop
<1>5. CASE NotifySleep
  BY <1>5 DEF NotifySleep
<1>6. CASE SetShouldStop
  BY <1>6 DEF SetShouldStop
<1>7. CASE Join
  BY <1>7 DEF Join
<1>8. ASSUME NEW t \in Threads, Watch(t) PROVE TypeOK'
  BY <1>8 DEF Watch
<1>9. ASSUME NEW t \in Threads, BeginSleep(t) PROVE TypeOK'
  BY <1>9 DEF BeginSleep
<1>10. ASSUME NEW t \in Threads, CheckFlag(t) PROVE TypeOK'
  BY <1>10 DEF CheckFlag
<1>11. ASSUME NEW t \in Threads, Timeout(t) PROVE TypeOK'
  BY <1>11 DEF Timeout
<1>12. ASSUME NEW t \in Threads, ReadResult(t) PROVE TypeOK'
  BY <1>12 DEF ReadResult
<1>13. ASSUME NEW t \in Threads, EndSleep(t) PROVE TypeOK'
  BY <1>13 DEF EndSleep
<1>14. ASSUME NEW t \in Threads, Poll(t) PROVE TypeOK'
  BY <1>14 DEF Poll, CountPoll
<1>15. ASSUME NEW t \in Threads, Report(t) PROVE TypeOK'
  BY <1>15 DEF Report
<1>16. ASSUME NEW t \in Threads, SpuriousWakeup(t) PROVE TypeOK'
  BY <1>16 DEF SpuriousWakeup
<1>17. CASE UNCHANGED vars
  BY <1>17 DEF vars
<1> QED
  BY <1>1, <1>2, <1>3, <1>4, <1>5, <1>6, <1>7, <1>8, <1>9, <1>10, <1>11, <1>12,
     <1>13, <1>14, <1>15, <1>16, <1>17 DEF Next, OwnerStep, ThreadStep

\* Every step keeps AliveInv: a thread begins only when the owner is idle, and
\* Join drops m_thread only when it has exited.
LEMMA AliveNext == TypeOK /\ AliveInv /\ [Next]_vars => AliveInv'
<1> SUFFICES ASSUME TypeOK, AliveInv, [Next]_vars PROVE AliveInv'
  OBVIOUS
<1> USE DEF TypeOK, AliveInv, Alive, Owned, OwnerStates, ThreadStates, InSleep,
          ownerVars, sleepVars, events
<1>1. CASE Change
  BY <1>1 DEF Change
<1>2. CASE StartTracking
  BY <1>2, TrackerAssumption DEF StartTracking
<1>3. CASE StopTracking
  BY <1>3 DEF StopTracking
<1>4. CASE RequestStop
  BY <1>4 DEF RequestStop
<1>5. CASE NotifySleep
  BY <1>5 DEF NotifySleep
<1>6. CASE SetShouldStop
  BY <1>6 DEF SetShouldStop
<1>7. CASE Join
  BY <1>7 DEF Join
<1>8. ASSUME NEW t \in Threads, Watch(t) PROVE AliveInv'
  BY <1>8 DEF Watch
<1>9. ASSUME NEW t \in Threads, BeginSleep(t) PROVE AliveInv'
  BY <1>9 DEF BeginSleep
<1>10. ASSUME NEW t \in Threads, CheckFlag(t) PROVE AliveInv'
  BY <1>10 DEF CheckFlag
<1>11. ASSUME NEW t \in Threads, Timeout(t) PROVE AliveInv'
  BY <1>11 DEF Timeout
<1>12. ASSUME NEW t \in Threads, ReadResult(t) PROVE AliveInv'
  BY <1>12 DEF ReadResult
<1>13. ASSUME NEW t \in Threads, EndSleep(t) PROVE AliveInv'
  BY <1>13 DEF EndSleep
<1>14. ASSUME NEW t \in Threads, Poll(t) PROVE AliveInv'
  BY <1>14 DEF Poll
<1>15. ASSUME NEW t \in Threads, Report(t) PROVE AliveInv'
  BY <1>15 DEF Report
<1>16. ASSUME NEW t \in Threads, SpuriousWakeup(t) PROVE AliveInv'
  BY <1>16 DEF SpuriousWakeup
<1>17. CASE UNCHANGED vars
  BY <1>17 DEF vars
<1> QED
  BY <1>1, <1>2, <1>3, <1>4, <1>5, <1>6, <1>7, <1>8, <1>9, <1>10, <1>11, <1>12,
     <1>13, <1>14, <1>15, <1>16, <1>17 DEF Next, OwnerStep, ThreadStep

\* Every step keeps CallbackInv: EndSleep waits for the callback.
LEMMA CallbackNext == TypeOK /\ AliveInv /\ CallbackInv /\ [Next]_vars => CallbackInv'
<1> SUFFICES ASSUME TypeOK, AliveInv, CallbackInv, [Next]_vars PROVE CallbackInv'
  OBVIOUS
<1> USE DEF TypeOK, AliveInv, CallbackInv, InCallback, Owned, OwnerStates,
          ThreadStates, InSleep, ownerVars, sleepVars, events
<1>1. CASE Change
  BY <1>1 DEF Change
<1>2. CASE StartTracking
  BY <1>2 DEF StartTracking
<1>3. CASE StopTracking
  BY <1>3 DEF StopTracking
<1>4. CASE RequestStop
  BY <1>4 DEF RequestStop
<1>5. CASE NotifySleep
  BY <1>5 DEF NotifySleep
<1>6. CASE SetShouldStop
  BY <1>6 DEF SetShouldStop
<1>7. CASE Join
  BY <1>7 DEF Join
<1>8. ASSUME NEW t \in Threads, Watch(t) PROVE CallbackInv'
  BY <1>8 DEF Watch
<1>9. ASSUME NEW t \in Threads, BeginSleep(t) PROVE CallbackInv'
  BY <1>9 DEF BeginSleep
<1>10. ASSUME NEW t \in Threads, CheckFlag(t) PROVE CallbackInv'
  BY <1>10 DEF CheckFlag
<1>11. ASSUME NEW t \in Threads, Timeout(t) PROVE CallbackInv'
  BY <1>11 DEF Timeout
<1>12. ASSUME NEW t \in Threads, ReadResult(t) PROVE CallbackInv'
  BY <1>12 DEF ReadResult
<1>13. ASSUME NEW t \in Threads, EndSleep(t) PROVE CallbackInv'
  BY <1>13 DEF EndSleep
<1>14. ASSUME NEW t \in Threads, Poll(t) PROVE CallbackInv'
  BY <1>14 DEF Poll
<1>15. ASSUME NEW t \in Threads, Report(t) PROVE CallbackInv'
  BY <1>15 DEF Report
<1>16. ASSUME NEW t \in Threads, SpuriousWakeup(t) PROVE CallbackInv'
  BY <1>16 DEF SpuriousWakeup
<1>17. CASE UNCHANGED vars
  BY <1>17 DEF vars
<1> QED
  BY <1>1, <1>2, <1>3, <1>4, <1>5, <1>6, <1>7, <1>8, <1>9, <1>10, <1>11, <1>12,
     <1>13, <1>14, <1>15, <1>16, <1>17 DEF Next, OwnerStep, ThreadStep

\* Every step keeps PollInv: BeginSleep takes over the request.
LEMMA PollNext == TypeOK /\ AliveInv /\ PollInv /\ [Next]_vars => PollInv'
<1> SUFFICES ASSUME TypeOK, AliveInv, PollInv, [Next]_vars PROVE PollInv'
  OBVIOUS
<1> USE DEF TypeOK, AliveInv, PollInv, Owned, OwnerStates, ThreadStates, InSleep,
          ownerVars, sleepVars, events
<1>1. CASE Change
  BY <1>1 DEF Change
<1>2. CASE StartTracking
  BY <1>2 DEF StartTracking
<1>3. CASE StopTracking
  BY <1>3 DEF StopTracking
<1>4. CASE RequestStop
  BY <1>4 DEF RequestStop
<1>5. CASE NotifySleep
  BY <1>5 DEF NotifySleep
<1>6. CASE SetShouldStop
  BY <1>6 DEF SetShouldStop
<1>7. CASE Join
  BY <1>7 DEF Join
<1>8. ASSUME NEW t \in Threads, Watch(t) PROVE PollInv'
  BY <1>8 DEF Watch
<1>9. ASSUME NEW t \in Threads, BeginSleep(t) PROVE PollInv'
  BY <1>9 DEF BeginSleep
<1>10. ASSUME NEW t \in Threads, CheckFlag(t) PROVE PollInv'
  BY <1>10 DEF CheckFlag
<1>11. ASSUME NEW t \in Threads, Timeout(t) PROVE PollInv'
  BY <1>11 DEF Timeout
<1>12. ASSUME NEW t \in Threads, ReadResult(t) PROVE PollInv'
  BY <1>12 DEF ReadResult
<1>13. ASSUME NEW t \in Threads, EndSleep(t) PROVE PollInv'
  BY <1>13 DEF EndSleep
<1>14. ASSUME NEW t \in Threads, Poll(t) PROVE PollInv'
  BY <1>14 DEF Poll, CountPoll
<1>15. ASSUME NEW t \in Threads, Report(t) PROVE PollInv'
  BY <1>15 DEF Report
<1>16. ASSUME NEW t \in Threads, SpuriousWakeup(t) PROVE PollInv'
  BY <1>16 DEF SpuriousWakeup
<1>17. CASE UNCHANGED vars
  BY <1>17 DEF vars
<1> QED
  BY <1>1, <1>2, <1>3, <1>4, <1>5, <1>6, <1>7, <1>8, <1>9, <1>10, <1>11, <1>12,
     <1>13, <1>14, <1>15, <1>16, <1>17 DEF Next, OwnerStep, ThreadStep

-----------------------------------------------------------------------------
LEMMA InvInit == Init => Inv
  BY DEF Init, Inv, TypeOK, AliveInv, Alive, CallbackInv, InCallback, PollInv, Owned,
         OwnerStates, ThreadStates, InSleep

LEMMA InvAlways == Spec => []Inv
<1>1. Inv /\ [Next]_vars => Inv'
  BY TypeNext, AliveNext, CallbackNext, PollNext DEF Inv
<1> QED
  BY InvInit, <1>1, PTL DEF Spec

\* For any number of restarts: when startTracking() or stopTracking() has returned,
\* only the thread that the tracker owns is alive.
THEOREM OneThread == Spec => []OnlyOwnThread
<1>1. Inv => OnlyOwnThread
  BY DEF Inv, AliveInv, Alive, OnlyOwnThread
<1> QED
  BY InvAlways, <1>1, PTL

\* The callback of a stop request runs only while the sleep() it refers to, with its
\* condition variable and its local variable, is being executed.
THEOREM CallbackSafe == Spec => []CallbackWithinSleep
<1>1. Inv => CallbackWithinSleep
  BY DEF Inv, CallbackInv, CallbackWithinSleep
<1> QED
  BY InvAlways, <1>1, PTL

\* A thread polls at most once after it was asked to stop, whichever wakeup is lost.
THEOREM StopIsNoticed == Spec => []StopNoticed
<1>1. Inv => StopNoticed
  BY DEF Inv, TypeOK, PollInv, StopNoticed
<1> QED
  BY InvAlways, <1>1, PTL
=============================================================================
