--------------------------- MODULE ChangeTracker ---------------------------
(***************************************************************************)
(* wolv::io::ChangeTracker and StoppableSleep (libs/io/source/io/file.cpp) *)
(* with the Linux tracking thread (libs/io/source/io/file_unix.cpp).       *)
(*                                                                         *)
(* The program's thread starts and stops tracking; each start creates a    *)
(* thread that sleeps, polls its inotify queue, reads a bounded batch and  *)
(* calls back for the events that name the tracked file.  A request to     *)
(* stop runs the stop_callback of the sleep in the program's thread: first *)
(* notify_all(), then shouldStop = true, both without the mutex.           *)
(* The file system and inotify are external.                               *)
(***************************************************************************)
EXTENDS Integers, Sequences, FiniteSets

CONSTANTS
    Threads,        \* bound: the threads startTracking() can ever create
    NoThread,
    MaxChanges,     \* bound: how often the watched directory ever changes
    BatchSize,      \* events that fit into the 4096 bytes of buffer
    QueueLimit      \* fs.inotify.max_queued_events: more are dropped

ASSUME TrackerAssumption ==
    /\ IsFiniteSet(Threads) /\ NoThread \notin Threads
    /\ MaxChanges \in Nat
    /\ BatchSize \in Nat \ {0}
    /\ QueueLimit \in Nat \ {0}

VARIABLES
    m_thread,       \* the thread the tracker owns
    owner,          \* where the program's thread is
    target,         \* the thread it is stopping
    next,           \* the thread startTracking() is about to move into m_thread
    pc,             \* where each tracking thread is
    stopRequested,  \* the stop state of each jthread
    registered,     \* the stop_callback of the sleep is registered
    shouldStop,     \* the local variable of sleep()
    slept,          \* what sleep() returns
    queue,          \* the inotify queue of each thread
    batch,          \* the events in buffer not looked at yet
    changes,        \* history: how many changes there were
    unreported,     \* history: changes of the file queued, minus callbacks
    latePolls       \* history: polls after the request to stop, at most 2 counted

ownerVars == <<m_thread, owner, target, next>>
sleepVars == <<stopRequested, registered, shouldStop, slept>>
events == <<queue, batch, changes, unreported>>
vars == <<ownerVars, sleepVars, events, pc, latePolls>>

\* The threads whose inotify watch exists.
Watching == {t \in Threads : pc[t] \notin {"none", "starting", "exited"}}

Init ==
    /\ m_thread = NoThread
    /\ owner = "idle"
    /\ target = NoThread
    /\ next = NoThread
    /\ pc = [t \in Threads |-> "none"]
    /\ stopRequested = [t \in Threads |-> FALSE]
    /\ registered = [t \in Threads |-> FALSE]
    /\ shouldStop = [t \in Threads |-> FALSE]
    /\ slept = [t \in Threads |-> FALSE]
    /\ queue = [t \in Threads |-> <<>>]
    /\ batch = [t \in Threads |-> <<>>]
    /\ changes = 0
    /\ unreported = [t \in Threads |-> 0]
    /\ latePolls = [t \in Threads |-> 0]

-----------------------------------------------------------------------------
(* External: the directory changes; each watch queues the event.           *)

IsOurs(e) == e = "ours"

Change ==
    /\ changes < MaxChanges
    /\ changes' = changes + 1
    /\ \E e \in {"ours", "other"} :
          LET Queued == {t \in Watching : Len(queue[t]) < QueueLimit} IN
          /\ queue' = [t \in Threads |->
                          IF t \in Queued THEN Append(queue[t], e) ELSE queue[t]]
          /\ unreported' = [t \in Threads |->
                 unreported[t] + (IF t \in Queued /\ IsOurs(e) THEN 1 ELSE 0)]
    /\ UNCHANGED <<ownerVars, sleepVars, batch, pc, latePolls>>

-----------------------------------------------------------------------------
(* Faulty variants, for the runs to tell apart.                            *)

\* An assignment to m_thread that detaches the old thread.
JoinAtOnce ==
    /\ owner = "join"
    /\ m_thread' = next
    /\ owner' = "idle"
    /\ target' = NoThread
    /\ next' = NoThread
    /\ UNCHANGED <<sleepVars, events, pc, latePolls>>

\* A stop_callback that is not run when the stop has been requested before.
BeginSleepLate(t) ==
    /\ pc[t] = "sleep"
    /\ shouldStop' = [shouldStop EXCEPT ![t] = FALSE]
    /\ registered' = [registered EXCEPT ![t] = TRUE]
    /\ pc' = [pc EXCEPT ![t] = "awake"]
    /\ UNCHANGED <<ownerVars, stopRequested, slept, events, latePolls>>

\* A sleep() that returns while its callback is still being run.
EndSleepAtOnce(t) ==
    /\ pc[t] = "unregister"
    /\ registered' = [registered EXCEPT ![t] = FALSE]
    /\ pc' = [pc EXCEPT ![t] = IF slept[t] THEN "exited" ELSE "poll"]
    /\ UNCHANGED <<ownerVars, stopRequested, shouldStop, slept, events, latePolls>>

CountPoll(t) ==
    latePolls' = IF stopRequested[t] /\ latePolls[t] < 2
                 THEN [latePolls EXCEPT ![t] = @ + 1] ELSE latePolls

InCallback(t) == owner \in {"notify", "setFlag"} /\ target = t

\* A read() after which the rest of the queue is thrown away.
PollDropsRest(t) ==
    /\ pc[t] = "poll"
    /\ LET n == IF Len(queue[t]) < BatchSize THEN Len(queue[t]) ELSE BatchSize IN
       /\ batch' = [batch EXCEPT ![t] = SubSeq(queue[t], 1, n)]
       /\ queue' = [queue EXCEPT ![t] = <<>>]
       /\ pc' = [pc EXCEPT ![t] = IF n = 0 THEN "sleep" ELSE "report"]
    /\ CountPoll(t)
    /\ UNCHANGED <<ownerVars, sleepVars, changes, unreported>>

-----------------------------------------------------------------------------
(* startTracking() and stopTracking() in the program's thread.             *)

\* The new jthread runs before the assignment to m_thread stops the old one.
StartTracking ==
    /\ owner = "idle"
    /\ \E t \in Threads :
          /\ pc[t] = "none"
          /\ pc' = [pc EXCEPT ![t] = "starting"]
          /\ IF m_thread = NoThread
             THEN m_thread' = t /\ UNCHANGED <<owner, target, next>>
             ELSE /\ owner' = "request"
                  /\ target' = m_thread
                  /\ next' = t
                  /\ m_thread' = m_thread
    /\ UNCHANGED <<sleepVars, events, latePolls>>

StopTracking ==
    /\ owner = "idle"
    /\ m_thread # NoThread
    /\ owner' = "request"
    /\ target' = m_thread
    /\ next' = NoThread
    /\ UNCHANGED <<m_thread, sleepVars, events, pc, latePolls>>

\* request_stop(): the stop state is set; a registered callback runs here.
RequestStop ==
    /\ owner = "request"
    /\ stopRequested' = [stopRequested EXCEPT ![target] = TRUE]
    /\ owner' = IF registered[target] THEN "notify" ELSE "join"
    /\ UNCHANGED <<m_thread, target, next, registered, shouldStop, slept, events,
                   pc, latePolls>>

NotifySleep ==
    /\ owner = "notify"
    /\ pc' = IF pc[target] = "sleeping"
             THEN [pc EXCEPT ![target] = "awake"] ELSE pc
    /\ owner' = "setFlag"
    /\ UNCHANGED <<m_thread, target, next, sleepVars, events, latePolls>>

SetShouldStop ==
    /\ owner = "setFlag"
    /\ shouldStop' = [shouldStop EXCEPT ![target] = TRUE]
    /\ owner' = "join"
    /\ UNCHANGED <<m_thread, target, next, stopRequested, registered, slept,
                   events, pc, latePolls>>

Join ==
    /\ owner = "join"
    /\ pc[target] = "exited"
    /\ m_thread' = next
    /\ owner' = "idle"
    /\ target' = NoThread
    /\ next' = NoThread
    /\ UNCHANGED <<sleepVars, events, pc, latePolls>>

-----------------------------------------------------------------------------
(* trackImpl() and StoppableSleep::sleep() in a tracking thread.           *)

\* inotify_init() and inotify_add_watch(); earlier changes go unseen.
Watch(t) ==
    /\ pc[t] = "starting"
    /\ pc' = [pc EXCEPT ![t] = "sleep"]
    /\ UNCHANGED <<ownerVars, sleepVars, events, latePolls>>

\* The constructor of stop_callback: when the stop has been requested it runs the
\* callback itself, otherwise it registers it.
BeginSleep(t) ==
    /\ pc[t] = "sleep"
    /\ shouldStop' = [shouldStop EXCEPT ![t] = stopRequested[t]]
    /\ registered' = [registered EXCEPT ![t] = ~stopRequested[t]]
    /\ pc' = [pc EXCEPT ![t] = "awake"]
    /\ UNCHANGED <<ownerVars, stopRequested, slept, events, latePolls>>

\* The predicate of wait_for(), before waiting and after each wakeup.
CheckFlag(t) ==
    /\ pc[t] = "awake"
    /\ pc' = [pc EXCEPT ![t] = IF shouldStop[t] THEN "result" ELSE "sleeping"]
    /\ UNCHANGED <<ownerVars, sleepVars, events, latePolls>>

\* 1000 ms have passed.
Timeout(t) ==
    /\ pc[t] = "sleeping"
    /\ pc' = [pc EXCEPT ![t] = "result"]
    /\ UNCHANGED <<ownerVars, sleepVars, events, latePolls>>

SpuriousWakeup(t) ==
    /\ pc[t] = "sleeping"
    /\ pc' = [pc EXCEPT ![t] = "awake"]
    /\ UNCHANGED <<ownerVars, sleepVars, events, latePolls>>

ReadResult(t) ==
    /\ pc[t] = "result"
    /\ slept' = [slept EXCEPT ![t] = shouldStop[t]]
    /\ pc' = [pc EXCEPT ![t] = "unregister"]
    /\ UNCHANGED <<ownerVars, stopRequested, registered, shouldStop, events,
                   latePolls>>

\* The destructor of stop_callback waits for a callback that is being run.
EndSleep(t) ==
    /\ pc[t] = "unregister"
    /\ ~InCallback(t)
    /\ registered' = [registered EXCEPT ![t] = FALSE]
    /\ pc' = [pc EXCEPT ![t] = IF slept[t] THEN "exited" ELSE "poll"]
    /\ UNCHANGED <<ownerVars, stopRequested, shouldStop, slept, events, latePolls>>

\* poll() with timeout 0, then read() of as many events as fit.
Poll(t) ==
    /\ pc[t] = "poll"
    /\ LET n == IF Len(queue[t]) < BatchSize THEN Len(queue[t]) ELSE BatchSize IN
       /\ batch' = [batch EXCEPT ![t] = SubSeq(queue[t], 1, n)]
       /\ queue' = [queue EXCEPT ![t] = SubSeq(queue[t], n + 1, Len(queue[t]))]
       /\ pc' = [pc EXCEPT ![t] = IF n = 0 THEN "sleep" ELSE "report"]
    /\ CountPoll(t)
    /\ UNCHANGED <<ownerVars, sleepVars, changes, unreported>>

\* One round of the loop over the events: call back, or skip the event.
Report(t) ==
    /\ pc[t] = "report"
    /\ unreported' = [unreported EXCEPT
                         ![t] = @ - (IF IsOurs(Head(batch[t])) THEN 1 ELSE 0)]
    /\ batch' = [batch EXCEPT ![t] = Tail(@)]
    /\ pc' = [pc EXCEPT ![t] = IF Len(batch[t]) = 1 THEN "sleep" ELSE "report"]
    /\ UNCHANGED <<ownerVars, sleepVars, queue, changes, latePolls>>

-----------------------------------------------------------------------------
ThreadStep(t) ==
    \/ Watch(t)
    \/ BeginSleep(t) \/ CheckFlag(t) \/ Timeout(t) \/ ReadResult(t) \/ EndSleep(t)
    \/ Poll(t) \/ Report(t)

OwnerStep == RequestStop \/ NotifySleep \/ SetShouldStop \/ Join

Next ==
    \/ Change
    \/ StartTracking
    \/ StopTracking
    \/ OwnerStep
    \/ \E t \in Threads : ThreadStep(t) \/ SpuriousWakeup(t)

Spec == Init /\ [][Next]_vars

\* Threads are scheduled and the callback returns.  The sleep ends at a fixed point
\* of time: wakeups before it do not put it off, hence strong fairness.
FairSpec ==
    /\ Spec
    /\ WF_vars(OwnerStep)
    /\ \A t \in Threads : WF_vars(ThreadStep(t)) /\ SF_vars(Timeout(t))

-----------------------------------------------------------------------------
(* Properties.                                                             *)

InSleep == {"awake", "sleeping", "result", "unregister"}

\* When startTracking() or stopTracking() has returned, only the thread the
\* tracker owns is alive: no callback of an earlier one comes any more.
OnlyOwnThread ==
    owner = "idle" =>
        \A t \in Threads : pc[t] \notin {"none", "exited"} => t = m_thread

\* The callback that a stop request runs in another thread never touches the
\* condition variable or the local shouldStop of a sleep() that has returned.
CallbackWithinSleep ==
    \A t \in Threads : InCallback(t) => pc[t] \in InSleep /\ registered[t]

\* Although the wakeup of a stop request can be lost (notify_all() comes before the
\* flag and both without the mutex), a thread polls at most once more.
StopNoticed == \A t \in Threads : latePolls[t] <= 1

\* startTracking() and stopTracking() return.
OwnerReturns == owner # "idle" ~> owner = "idle"

\* When changes of the file are queued, callbacks catch up with them, unless
\* tracking is stopped first.
ChangesReported ==
    \A t \in Threads :
        unreported[t] # 0 ~> (unreported[t] = 0 \/ stopRequested[t])
=============================================================================
