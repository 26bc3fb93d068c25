----------------------------- MODULE ThreadPool -----------------------------
(***************************************************************************)
(* wolv::util::ThreadPool (libs/utils/include/wolv/utils/thread_pool.hpp). *)
(*                                                                         *)
(* Every critical section of m_mutex is one action: m_tasks and m_stop are *)
(* only touched inside them.  The steps outside the lock are actions of    *)
(* their own: the notifications, the window between popping a task and     *)
(* counting its worker as busy, the task body, the busy-wait of stopTasks. *)
(* The condition variable is the set of workers whose pc is "waiting".     *)
(*                                                                         *)
(* A task is its position in the order of the enqueue() calls.  A task of  *)
(* LongTasks returns only when it reads its shouldStop argument, a         *)
(* reference to m_stopTasks, as true; the others return by themselves.     *)
(***************************************************************************)
EXTENDS Integers, Sequences, FiniteSets

CONSTANTS
    Workers,        \* the elements of m_threads
    Producers,      \* threads that call enqueue()
    Interrupters,   \* threads that call stopTasks()
    Owner,          \* the thread that calls stop(), or destroys the pool
    MaxTasks,       \* bound: how many tasks are enqueued in a behaviour
    LongTasks       \* the tasks that run until they are told to stop

Callers == Producers \union Interrupters \union {Owner}

ASSUME WorkersAssumption == IsFiniteSet(Workers) /\ Workers # {}
ASSUME CallersAssumption == IsFiniteSet(Callers)
ASSUME TasksAssumption == MaxTasks \in Nat /\ LongTasks \subseteq 1..MaxTasks

VARIABLES
    m_tasks,
    m_stop,
    m_stopTasks,
    m_threadsAvailable,
    worker,         \* where each worker is in waitForTasks()
    task,           \* the local variable of waitForTasks(), 0 when empty
    caller,         \* where each caller is in enqueue(), stop(), stopTasks()
    accepted,       \* history: the number of enqueue() calls so far
    finished,       \* history: the tasks that have returned
    owed,           \* history: accepted when stop() first set m_stop
    interrupted     \* history: what ran when a stopTasks() call began

pool == <<m_tasks, m_stop, m_stopTasks, m_threadsAvailable>>
history == <<accepted, finished, owed, interrupted>>
vars == <<pool, worker, task, caller, history>>

Waiting == {w \in Workers : worker[w] = "waiting"}
Awake == {w \in Workers : worker[w] = "lock"}
\* Between fetch_sub and fetch_add.
Counted == {w \in Workers : worker[w] \in {"running", "returned"}}
Running == {w \in Workers : worker[w] = "running"}
Exited == {w \in Workers : worker[w] = "exited"}
Notifiers == {c \in Callers : caller[c] = "notify"}

\* Tasks 1..Taken have left the queue.
Taken == accepted - Len(m_tasks)

Init ==
    /\ m_tasks = <<>>
    /\ m_stop = FALSE
    /\ m_stopTasks = FALSE
    /\ m_threadsAvailable = Cardinality(Workers)
    /\ worker = [w \in Workers |-> "lock"]
    /\ task = [w \in Workers |-> 0]
    /\ caller = [c \in Callers |-> "idle"]
    /\ accepted = 0
    /\ finished = {}
    /\ owed = 0
    /\ interrupted = [c \in Callers |-> {}]

-----------------------------------------------------------------------------
(* Faulty variants of the actions below, for the runs to tell apart.       *)

\* enqueue() that pushes to the front.
EnqueueFront(c) ==
    /\ caller[c] = "idle"
    /\ accepted < MaxTasks
    /\ accepted' = accepted + 1
    /\ m_tasks' = <<accepted + 1>> \o m_tasks
    /\ caller' = [caller EXCEPT ![c] = "notify"]
    /\ UNCHANGED <<m_stop, m_stopTasks, m_threadsAvailable, worker, task,
                   finished, owed, interrupted>>

\* enqueue() that notifies only when the queue was empty before the push.
NotifyIfFirst(c) ==
    /\ caller[c] = "notify"
    /\ \/ Waiting = {} /\ worker' = worker
       \/ Len(m_tasks) > 1 /\ worker' = worker
       \/ /\ Len(m_tasks) <= 1
          /\ \E w \in Waiting : worker' = [worker EXCEPT ![w] = "lock"]
    /\ caller' = [caller EXCEPT ![c] = "idle"]
    /\ UNCHANGED <<pool, task, history>>

\* enqueue() without the notification.
NotifyNobody(c) ==
    /\ caller[c] = "notify"
    /\ caller' = [caller EXCEPT ![c] = "idle"]
    /\ UNCHANGED <<pool, worker, task, history>>

\* stop() that forgets m_stopTasks.
StopQuietly(c) ==
    /\ caller[c] = "idle"
    /\ m_stop' = TRUE
    /\ owed' = IF m_stop THEN owed ELSE accepted
    /\ caller' = [caller EXCEPT ![c] = "notifyAll"]
    /\ UNCHANGED <<m_tasks, m_stopTasks, m_threadsAvailable, worker, task,
                   accepted, finished, interrupted>>

\* stopTasks() that does not raise the flag.
StopTasksQuietly(c) ==
    /\ caller[c] = "idle"
    /\ interrupted' = [interrupted EXCEPT ![c] = {task[w] : w \in Running}]
    /\ caller' = [caller EXCEPT ![c] = "spin"]
    /\ UNCHANGED <<pool, worker, task, accepted, finished, owed>>

\* A worker that leaves on m_stop without looking at the queue.
ExitAtOnce(w) ==
    /\ worker[w] = "lock"
    /\ m_stop
    /\ worker' = [worker EXCEPT ![w] = "exited"]
    /\ UNCHANGED <<pool, task, caller, history>>

\* A worker that copies the front of the queue and leaves it there.
TakeCopy(w) ==
    /\ worker[w] = "lock"
    /\ m_tasks # <<>>
    /\ task' = [task EXCEPT ![w] = Head(m_tasks)]
    /\ worker' = [worker EXCEPT ![w] = "popped"]
    /\ UNCHANGED <<pool, caller, history>>

\* The task is called before fetch_sub has been reached.
RunUncounted(w) ==
    /\ worker[w] = "popped"
    /\ worker' = [worker EXCEPT ![w] = "running"]
    /\ UNCHANGED <<pool, task, caller, history>>

\* A worker that goes back to the loop without fetch_add.
ReleaseUncounted(w) ==
    /\ worker[w] = "returned"
    /\ worker' = [worker EXCEPT ![w] = "lock"]
    /\ UNCHANGED <<pool, task, caller, history>>

-----------------------------------------------------------------------------
(* enqueue(): the push under the lock, then notify_one() without it.       *)

Enqueue(c) ==
    /\ caller[c] = "idle"
    /\ accepted < MaxTasks
    /\ accepted' = accepted + 1
    /\ m_tasks' = Append(m_tasks, accepted + 1)
    /\ caller' = [caller EXCEPT ![c] = "notify"]
    /\ UNCHANGED <<m_stop, m_stopTasks, m_threadsAvailable, worker, task,
                   finished, owed, interrupted>>

NotifyOne(c) ==
    /\ caller[c] = "notify"
    /\ \/ Waiting = {} /\ worker' = worker
       \/ \E w \in Waiting : worker' = [worker EXCEPT ![w] = "lock"]
    /\ caller' = [caller EXCEPT ![c] = "idle"]
    /\ UNCHANGED <<pool, task, history>>

-----------------------------------------------------------------------------
(* stop(): both flags under the lock, notify_all(), then the joins.        *)

Stop(c) ==
    /\ caller[c] = "idle"
    /\ m_stop' = TRUE
    /\ m_stopTasks' = TRUE
    /\ owed' = IF m_stop THEN owed ELSE accepted
    /\ caller' = [caller EXCEPT ![c] = "notifyAll"]
    /\ UNCHANGED <<m_tasks, m_threadsAvailable, worker, task, accepted,
                   finished, interrupted>>

NotifyAll(c) ==
    /\ caller[c] = "notifyAll"
    /\ worker' = [w \in Workers |->
                     IF w \in Waiting THEN "lock" ELSE worker[w]]
    /\ caller' = [caller EXCEPT ![c] = "joining"]
    /\ UNCHANGED <<pool, task, history>>

\* The loop over m_threads is over when the last worker has exited.
Joined(c) ==
    /\ caller[c] = "joining"
    /\ Exited = Workers
    /\ caller' = [caller EXCEPT ![c] = "idle"]
    /\ UNCHANGED <<pool, worker, task, history>>

-----------------------------------------------------------------------------
(* stopTasks(): the flag under the lock, the busy-wait without it, and the *)
(* flag again under the lock.                                              *)

StopTasks(c) ==
    /\ caller[c] = "idle"
    /\ m_stopTasks' = TRUE
    /\ interrupted' = [interrupted EXCEPT ![c] = {task[w] : w \in Running}]
    /\ caller' = [caller EXCEPT ![c] = "spin"]
    /\ UNCHANGED <<m_tasks, m_stop, m_threadsAvailable, worker, task,
                   accepted, finished, owed>>

\* The load that ends the loop; the loads before it change nothing.
SpinEnds(c) ==
    /\ caller[c] = "spin"
    /\ m_threadsAvailable = Cardinality(Workers)
    /\ caller' = [caller EXCEPT ![c] = "reset"]
    /\ UNCHANGED <<pool, worker, task, history>>

ResetStopTasks(c) ==
    /\ caller[c] = "reset"
    /\ m_stopTasks' = FALSE
    /\ caller' = [caller EXCEPT ![c] = "idle"]
    /\ UNCHANGED <<m_tasks, m_stop, m_threadsAvailable, worker, task, history>>

-----------------------------------------------------------------------------
(* waitForTasks(), the body of every worker.                               *)

\* The predicate of wait() is false: release the lock and sleep, atomically.
Wait(w) ==
    /\ worker[w] = "lock"
    /\ ~m_stop /\ m_tasks = <<>>
    /\ worker' = [worker EXCEPT ![w] = "waiting"]
    /\ UNCHANGED <<pool, task, caller, history>>

\* std::condition_variable may wake a waiter that nobody notified.
SpuriousWakeup(w) ==
    /\ worker[w] = "waiting"
    /\ worker' = [worker EXCEPT ![w] = "lock"]
    /\ UNCHANGED <<pool, task, caller, history>>

Exit(w) ==
    /\ worker[w] = "lock"
    /\ m_stop /\ m_tasks = <<>>
    /\ worker' = [worker EXCEPT ![w] = "exited"]
    /\ UNCHANGED <<pool, task, caller, history>>

\* Queued tasks are taken even when m_stop is set.
Take(w) ==
    /\ worker[w] = "lock"
    /\ m_tasks # <<>>
    /\ task' = [task EXCEPT ![w] = Head(m_tasks)]
    /\ m_tasks' = Tail(m_tasks)
    /\ worker' = [worker EXCEPT ![w] = "popped"]
    /\ UNCHANGED <<m_stop, m_stopTasks, m_threadsAvailable, caller, history>>

\* fetch_sub, after the lock was released; then the task is called.
Run(w) ==
    /\ worker[w] = "popped"
    /\ m_threadsAvailable' = m_threadsAvailable - 1
    /\ worker' = [worker EXCEPT ![w] = "running"]
    /\ UNCHANGED <<m_tasks, m_stop, m_stopTasks, task, caller, history>>

\* The task returns; a long one has read shouldStop as true just before.
Return(w) ==
    /\ worker[w] = "running"
    /\ task[w] \in LongTasks => m_stopTasks
    /\ finished' = finished \union {task[w]}
    /\ task' = [task EXCEPT ![w] = 0]
    /\ worker' = [worker EXCEPT ![w] = "returned"]
    /\ UNCHANGED <<pool, caller, accepted, owed, interrupted>>

\* fetch_add, and back to the head of the loop.
Release(w) ==
    /\ worker[w] = "returned"
    /\ m_threadsAvailable' = m_threadsAvailable + 1
    /\ worker' = [worker EXCEPT ![w] = "lock"]
    /\ UNCHANGED <<m_tasks, m_stop, m_stopTasks, task, caller, history>>

-----------------------------------------------------------------------------
WorkerStep(w) ==
    Wait(w) \/ Exit(w) \/ Take(w) \/ Run(w) \/ Return(w) \/ Release(w)

\* The rest of a call that has begun.
CallerStep(c) ==
    \/ NotifyOne(c)
    \/ NotifyAll(c)
    \/ Joined(c)
    \/ SpinEnds(c)
    \/ ResetStopTasks(c)

Next ==
    \/ \E w \in Workers : WorkerStep(w) \/ SpuriousWakeup(w)
    \/ \E c \in Callers : CallerStep(c)
    \/ \E c \in Producers : Enqueue(c)
    \/ \E c \in Interrupters : StopTasks(c)
    \/ Stop(Owner)

Spec == Init /\ [][Next]_vars

\* Every thread that can go on is scheduled eventually.  Nobody has to begin a
\* call, and no wakeup is spurious by obligation.
Fairness ==
    /\ \A w \in Workers : WF_vars(WorkerStep(w))
    /\ \A c \in Callers : WF_vars(CallerStep(c))

FairSpec == Spec /\ Fairness
-----------------------------------------------------------------------------
(* Properties.                                                             *)

WorkerStates ==
    {"lock", "waiting", "popped", "running", "returned", "exited"}
CallerStates == {"idle", "notify", "notifyAll", "joining", "spin", "reset"}

\* Every variable stays in its type; the available counter (a u32 in the code)
\* never goes below zero or above the number of threads.
TypeOK ==
    /\ m_tasks \in Seq(1..MaxTasks)
    /\ m_stop \in BOOLEAN
    /\ m_stopTasks \in BOOLEAN
    /\ m_threadsAvailable \in 0..Cardinality(Workers)
    /\ worker \in [Workers -> WorkerStates]
    /\ task \in [Workers -> 0..MaxTasks]
    /\ caller \in [Callers -> CallerStates]
    /\ accepted \in 0..MaxTasks
    /\ finished \subseteq 1..MaxTasks
    /\ owed \in 0..MaxTasks
    /\ interrupted \in [Callers -> SUBSET (0..MaxTasks)]

\* Every task enqueue() accepted is in exactly one place: in m_tasks, in the
\* order of the calls, in the hands of one worker, or finished.  None is lost,
\* started twice or overtaken by a later one.
TasksConserved ==
    /\ Taken \in 0..accepted
    /\ \A i \in 1..Len(m_tasks) : m_tasks[i] = Taken + i
    /\ 1..Taken = finished \union {task[w] : w \in {v \in Workers : task[v] # 0}}
    /\ \A w \in Workers : task[w] \notin finished
    /\ \A v, w \in Workers : task[v] # 0 /\ task[v] = task[w] => v = w

\* While a worker sleeps on m_condition, every queued task has somebody on the
\* way to it (a notify_one() still to come or a worker that is awake), and
\* a stop still has its notify_all() to come: no wakeup is lost although both
\* notifications are made without the lock.
NoLostWakeup ==
    Waiting # {} =>
        /\ Len(m_tasks) <= Cardinality(Notifiers) + Cardinality(Awake)
        /\ m_stop => caller[Owner] = "notifyAll"

\* When the busy-wait of stopTasks() has ended, every task that was running when
\* the call raised m_stopTasks has returned, also when other workers have taken
\* new tasks meanwhile.  (A task that was popped and not yet counted is not
\* covered: the code does not wait for it.)
StopTasksWaits ==
    \A c \in Callers : caller[c] = "reset" => interrupted[c] \subseteq finished

\* When all workers have exited, which is what stop() joins, every task that had
\* been enqueued before stop() set m_stop has run to its end.
StopDrains ==
    Exited = Workers => m_stop /\ 1..owed \subseteq finished

\* The pool implements the abstract one: a worker is a slot from popping a task
\* to its return, and the pool is closed when the last worker has exited.
Abstract == INSTANCE TaskPool WITH
    Slots <- Workers,
    taken <- Taken,
    slot <- task,
    phase <- IF Exited = Workers THEN "closed"
             ELSE IF m_stop THEN "stopping" ELSE "open"
Promise == Abstract!Spec

\* Every task enqueued before a stop is started, as long as the tasks that wait
\* for shouldStop do not occupy all the workers.
EveryTaskStarts ==
    \A t \in 1..MaxTasks :
        (accepted >= t /\ ~m_stop) ~> (Taken >= t)

\* stop() returns: the workers drain the queue, are all woken and exit.
StopReturns == caller[Owner] = "notifyAll" ~> caller[Owner] = "idle"

\* stopTasks() returns once no more tasks arrive (MaxTasks bounds them): with an
\* endless supply its busy-wait may never see all threads available at once.
StopTasksReturns ==
    \A c \in Interrupters : caller[c] = "spin" ~> caller[c] = "idle"
=============================================================================
