-------------------------- MODULE ThreadPoolProofs --------------------------
(***************************************************************************)
(* Theorems about ThreadPool, for every set of workers and callers, every  *)
(* number of tasks and every choice of the long ones.                      *)
(***************************************************************************)
EXTENDS ThreadPool, TLAPS, FiniteSetTheorems, SequenceTheorems

-----------------------------------------------------------------------------
(* The types, together with what m_threadsAvailable counts.                *)

CounterInv ==
    m_threadsAvailable = Cardinality(Workers) - Cardinality(Counted)

\* A worker holds a task from popping it to its return.
HandsInv ==
    \A w \in Workers : task[w] # 0 <=> worker[w] \in {"popped", "running"}

TypeInv == TypeOK /\ CounterInv /\ HandsInv

LEMMA WorkersSize ==
    /\ Cardinality(Workers) \in Nat
    /\ \A S \in SUBSET Workers :
          /\ IsFiniteSet(S)
          /\ Cardinality(S) \in 0..Cardinality(Workers)
<1>1. Cardinality(Workers) \in Nat
  BY FS_CardinalityType, WorkersAssumption
<1>2. ASSUME NEW S \in SUBSET Workers
      PROVE  IsFiniteSet(S) /\ Cardinality(S) \in 0..Cardinality(Workers)
  <2>1. IsFiniteSet(S) /\ Cardinality(S) <= Cardinality(Workers)
    BY FS_Subset, WorkersAssumption
  <2>2. Cardinality(S) \in Nat
    BY <2>1, FS_CardinalityType
  <2> QED
    BY <1>1, <2>1, <2>2
<1> QED
  BY <1>1, <1>2

LEMMA CountedIsFinite ==
    /\ IsFiniteSet(Counted)
    /\ Cardinality(Counted) \in 0..Cardinality(Workers)
    /\ Cardinality(Counted') \in 0..Cardinality(Workers)
<1>1. Counted \in SUBSET Workers /\ Counted' \in SUBSET Workers
  BY DEF Counted
<1> QED
  BY <1>1, WorkersSize

\* Only Run and Release change who is counted, by one worker each.
LEMMA CountedAfterRun ==
    ASSUME TypeOK, NEW w \in Workers, Run(w)
    PROVE  Cardinality(Counted') = Cardinality(Counted) + 1
<1>1. w \notin Counted
  BY DEF Run, Counted
<1>2. Counted' = Counted \union {w}
  BY DEF Run, Counted, TypeOK
<1> QED
  BY <1>1, <1>2, CountedIsFinite, FS_AddElement

LEMMA CountedAfterRelease ==
    ASSUME TypeOK, NEW w \in Workers, Release(w)
    PROVE  Cardinality(Counted') = Cardinality(Counted) - 1
<1>1. w \in Counted
  BY DEF Release, Counted
<1>2. Counted' = Counted \ {w}
  BY DEF Release, Counted, TypeOK
<1> QED
  BY <1>1, <1>2, CountedIsFinite, FS_RemoveElement

LEMMA TypeInit == Init => TypeInv
<1> SUFFICES ASSUME Init PROVE TypeInv
  OBVIOUS
<1>1. Counted = {}
  BY DEF Init, Counted
<1>2. CounterInv
  BY <1>1, FS_EmptySet, WorkersSize DEF Init, CounterInv
<1>3. m_tasks \in Seq(1..MaxTasks) /\ m_stop \in BOOLEAN /\ m_stopTasks \in BOOLEAN
  BY EmptySeq DEF Init
<1>4. /\ m_threadsAvailable \in 0..Cardinality(Workers)
      /\ accepted \in 0..MaxTasks /\ owed \in 0..MaxTasks
      /\ finished \subseteq 1..MaxTasks
  BY WorkersSize, TasksAssumption DEF Init
<1>5. /\ worker \in [Workers -> WorkerStates]
      /\ task \in [Workers -> 0..MaxTasks]
      /\ caller \in [Callers -> CallerStates]
      /\ interrupted \in [Callers -> SUBSET (0..MaxTasks)]
  BY TasksAssumption DEF Init, WorkerStates, CallerStates
<1>6. HandsInv
  BY DEF Init, HandsInv
<1> QED
  BY <1>2, <1>3, <1>4, <1>5, <1>6 DEF TypeInv, TypeOK

\* The counter part of the induction step.
LEMMA CounterNext == TypeInv /\ [Next]_vars => CounterInv'
<1> SUFFICES ASSUME TypeOK, CounterInv, [Next]_vars PROVE CounterInv'
  BY DEF TypeInv
<1>1. ASSUME Counted' = Counted, m_threadsAvailable' = m_threadsAvailable
      PROVE  CounterInv'
  BY <1>1 DEF CounterInv
<1>2. ASSUME NEW w \in Workers, Run(w) PROVE CounterInv'
  <2>1. m_threadsAvailable' = m_threadsAvailable - 1
    BY <1>2 DEF Run
  <2>2. Cardinality(Counted') = Cardinality(Counted) + 1
    BY <1>2, CountedAfterRun
  <2> QED
    BY <2>1, <2>2, CountedIsFinite, WorkersSize DEF CounterInv
<1>3. ASSUME NEW w \in Workers, Release(w) PROVE CounterInv'
  <2>1. m_threadsAvailable' = m_threadsAvailable + 1
    BY <1>3 DEF Release
  <2>2. Cardinality(Counted') = Cardinality(Counted) - 1
    BY <1>3, CountedAfterRelease
  <2> QED
    BY <2>1, <2>2, CountedIsFinite, WorkersSize DEF CounterInv
<1>4. CASE UNCHANGED vars
  BY <1>1, <1>4 DEF vars, pool, Counted
<1>5. ASSUME NEW w \in Workers,
             Wait(w) \/ SpuriousWakeup(w) \/ Exit(w) \/ Take(w) \/ Return(w)
      PROVE  CounterInv'
  BY <1>1, <1>5
  DEF TypeOK, Wait, SpuriousWakeup, Exit, Take, Return, pool, Counted
<1>6. ASSUME NEW c \in Callers, NotifyOne(c) \/ NotifyAll(c)
      PROVE  CounterInv'
  BY <1>1, <1>6 DEF TypeOK, NotifyOne, NotifyAll, Waiting, pool, Counted
<1>7. ASSUME NEW c \in Callers,
             \/ Joined(c) \/ SpinEnds(c) \/ ResetStopTasks(c)
             \/ Enqueue(c) \/ StopTasks(c) \/ Stop(c)
      PROVE  CounterInv'
  BY <1>1, <1>7
  DEF Joined, SpinEnds, ResetStopTasks, Enqueue, StopTasks, Stop, pool, Counted
<1> QED
  BY <1>2, <1>3, <1>4, <1>5, <1>6, <1>7
  DEF Next, WorkerStep, CallerStep, Callers

\* The other parts, from the counter after the step.
LEMMA TypeNext == TypeInv /\ [Next]_vars => TypeInv'
<1> SUFFICES ASSUME TypeOK, HandsInv, CounterInv', [Next]_vars
             PROVE  TypeOK' /\ HandsInv'
  BY CounterNext DEF TypeInv
<1>1. m_threadsAvailable' \in 0..Cardinality(Workers)
  BY CountedIsFinite, WorkersSize DEF CounterInv
<1> USE <1>1, TasksAssumption DEF TypeOK, HandsInv, WorkerStates, CallerStates
<1>2. CASE UNCHANGED vars
  BY <1>2 DEF vars, pool, history
<1>3. ASSUME NEW w \in Workers, Wait(w) \/ SpuriousWakeup(w) \/ Exit(w)
      PROVE  TypeOK' /\ HandsInv'
  BY <1>3 DEF Wait, SpuriousWakeup, Exit, pool, history
<1>4. ASSUME NEW w \in Workers, Take(w) PROVE TypeOK' /\ HandsInv'
  <2>1. Head(m_tasks) \in 1..MaxTasks /\ Tail(m_tasks) \in Seq(1..MaxTasks)
    BY <1>4, HeadTailProperties DEF Take
  <2> QED
    BY <1>4, <2>1 DEF Take, history
<1>5. ASSUME NEW w \in Workers, Run(w) \/ Return(w) \/ Release(w)
      PROVE  TypeOK' /\ HandsInv'
  <2>1. CASE Run(w)
    BY <2>1 DEF Run, history
  <2>2. CASE Return(w)
    <3>1. task[w] \in 1..MaxTasks
      BY <2>2 DEF Return
    <3>2. finished' \subseteq 1..MaxTasks
      BY <2>2, <3>1 DEF Return
    <3>3. /\ worker' \in [Workers -> WorkerStates]
          /\ task' \in [Workers -> 0..MaxTasks]
      BY <2>2 DEF Return
    <3>4. HandsInv'
      BY <2>2 DEF Return
    <3> QED
      BY <2>2, <3>2, <3>3, <3>4 DEF Return, pool
  <2>3. CASE Release(w)
    BY <2>3 DEF Release, history
  <2> QED
    BY <1>5, <2>1, <2>2, <2>3
<1>6. ASSUME NEW c \in Callers, NotifyOne(c) \/ NotifyAll(c)
      PROVE  TypeOK' /\ HandsInv'
  BY <1>6 DEF NotifyOne, NotifyAll, Waiting, pool, history
<1>7. ASSUME NEW c \in Callers, Joined(c) \/ SpinEnds(c) \/ ResetStopTasks(c)
      PROVE  TypeOK' /\ HandsInv'
  BY <1>7 DEF Joined, SpinEnds, ResetStopTasks, pool, history
<1>8. ASSUME NEW c \in Callers, Enqueue(c) PROVE TypeOK' /\ HandsInv'
  <2>1. accepted + 1 \in 1..MaxTasks
    BY <1>8 DEF Enqueue
  <2> QED
    BY <1>8, <2>1 DEF Enqueue
<1>9. ASSUME NEW c \in Callers, StopTasks(c) PROVE TypeOK' /\ HandsInv'
  <2>1. {task[w] : w \in Running} \in SUBSET (0..MaxTasks)
    BY DEF Running
  <2> QED
    BY <1>9, <2>1 DEF StopTasks
<1>10. ASSUME NEW c \in Callers, Stop(c) PROVE TypeOK' /\ HandsInv'
  BY <1>10 DEF Stop
<1> QED
  BY <1>2, <1>3, <1>4, <1>5, <1>6, <1>7, <1>8, <1>9, <1>10
  DEF Next, WorkerStep, CallerStep, Callers

\* Every reachable state is well typed; in particular the counter of available
\* threads neither underflows nor exceeds the number of threads.
THEOREM TypeCorrect == Spec => []TypeOK
<1>1. Spec => []TypeInv
  BY TypeInit, TypeNext, PTL DEF Spec
<1>2. TypeInv => TypeOK
  BY DEF TypeInv
<1> QED
  BY <1>1, <1>2, PTL

-----------------------------------------------------------------------------
(* Where the tasks are.                                                    *)

LEMMA TakenNat ==
    ASSUME TypeOK
    PROVE  /\ accepted \in Nat /\ Len(m_tasks) \in Nat
           /\ m_tasks \in Seq(1..MaxTasks)
           /\ Taken \in Int /\ accepted = Taken + Len(m_tasks)
BY LenProperties, TasksAssumption DEF TypeOK, Taken

LEMMA ConservedInit == Init => TasksConserved
<1> SUFFICES ASSUME Init PROVE TasksConserved
  OBVIOUS
<1>1. Len(m_tasks) = 0 /\ Taken = 0
  <2>1. accepted = 0
    BY DEF Init
  <2>2. Len(m_tasks) = 0
    BY DEF Init
  <2> QED
    BY <2>1, <2>2 DEF Taken
<1>2. /\ finished = {} /\ accepted = 0
      /\ \A w \in Workers : task[w] = 0
  BY DEF Init
<1>3. 1..0 = {}
  OBVIOUS
<1>4. {task[w] : w \in {v \in Workers : task[v] # 0}} = {}
  BY <1>2
<1>5. 1..Taken = finished \union {task[w] : w \in {v \in Workers : task[v] # 0}}
  BY <1>1, <1>2, <1>3, <1>4
<1> QED
  BY <1>1, <1>2, <1>5 DEF TasksConserved

\* enqueue(): the new task is the last one of the queue.
LEMMA ConservedEnqueue ==
    ASSUME TypeInv, TypeInv', TasksConserved, NEW c \in Callers, Enqueue(c)
    PROVE  TasksConserved'
<1>1. /\ accepted' = accepted + 1 /\ m_tasks' = Append(m_tasks, accepted + 1)
      /\ task' = task /\ finished' = finished
  BY DEF Enqueue
<1>2. accepted + 1 \in 1..MaxTasks
  BY <1>1 DEF TypeInv, TypeOK
<1>3. /\ Len(m_tasks') = Len(m_tasks) + 1
      /\ \A i \in 1..Len(m_tasks) : m_tasks'[i] = m_tasks[i]
      /\ m_tasks'[Len(m_tasks) + 1] = accepted + 1
  BY <1>1, <1>2, TakenNat DEF TypeInv
<1>4. Taken' = Taken
  <2>1. /\ Len(m_tasks) \in Nat /\ accepted \in Nat
        /\ accepted' = accepted + 1 /\ Len(m_tasks') = Len(m_tasks) + 1
    BY <1>1, <1>3, TakenNat DEF TypeInv
  <2> QED
    BY <2>1 DEF Taken
<1>5. \A i \in 1..Len(m_tasks') : m_tasks'[i] = Taken' + i
  <2>1. /\ Len(m_tasks) \in Nat /\ Taken \in Int
        /\ accepted = Taken + Len(m_tasks)
    BY TakenNat DEF TypeInv
  <2>2. \A i \in 1..Len(m_tasks) : m_tasks[i] = Taken + i
    BY DEF TasksConserved
  <2>3. accepted + 1 = Taken + (Len(m_tasks) + 1)
    BY <2>1
  <2> QED
    BY <1>3, <1>4, <2>1, <2>2, <2>3
<1>6. Taken' \in 0..accepted'
  BY <1>1, <1>4, TakenNat DEF TasksConserved, TypeInv
<1> QED
  BY <1>1, <1>4, <1>5, <1>6 DEF TasksConserved

\* A worker pops task number Taken + 1.
LEMMA TakeFacts ==
    ASSUME TypeInv, TasksConserved, NEW w \in Workers, Take(w)
    PROVE  /\ accepted' = accepted /\ finished' = finished
           /\ Taken' = Taken + 1
           /\ Len(m_tasks') = Len(m_tasks) - 1
           /\ \A i \in 1..Len(m_tasks') : m_tasks'[i] = m_tasks[i + 1]
           /\ task[w] = 0
           /\ task' = [task EXCEPT ![w] = Taken + 1]
<1>1. /\ accepted' = accepted /\ finished' = finished
      /\ m_tasks # <<>> /\ m_tasks' = Tail(m_tasks)
      /\ task' = [task EXCEPT ![w] = Head(m_tasks)]
  BY DEF Take, history
<1>2. /\ Len(m_tasks') = Len(m_tasks) - 1
      /\ \A i \in 1..Len(m_tasks') : m_tasks'[i] = m_tasks[i + 1]
  BY <1>1, TakenNat, HeadTailProperties DEF TypeInv
<1>3. Len(m_tasks) \in Nat \ {0}
  BY <1>1, TakenNat, EmptySeq DEF TypeInv
<1>4. Head(m_tasks) = Taken + 1
  <2>1. Head(m_tasks) = m_tasks[1]
    BY <1>1, TakenNat DEF TypeInv
  <2> QED
    BY <2>1, <1>3 DEF TasksConserved
<1>5. Taken' = Taken + 1
  BY <1>1, <1>2, TakenNat DEF TypeInv, Taken
<1>6. task[w] = 0
  BY DEF Take, TypeInv, HandsInv
<1> QED
  BY <1>1, <1>2, <1>4, <1>5, <1>6

LEMMA ConservedTake ==
    ASSUME TypeInv, TypeInv', TasksConserved, NEW w \in Workers, Take(w)
    PROVE  TasksConserved'
<1> DEFINE Held == {task[v] : v \in {u \in Workers : task[u] # 0}}
<1>1. /\ accepted' = accepted /\ finished' = finished
      /\ Taken' = Taken + 1
      /\ Len(m_tasks') = Len(m_tasks) - 1
      /\ \A i \in 1..Len(m_tasks') : m_tasks'[i] = m_tasks[i + 1]
      /\ task[w] = 0
      /\ task' = [task EXCEPT ![w] = Taken + 1]
  BY TakeFacts
<1>2. /\ task \in [Workers -> 0..MaxTasks] /\ MaxTasks \in Nat
      /\ Len(m_tasks) \in Nat /\ accepted \in Nat
      /\ accepted = Taken + Len(m_tasks)
  BY TakenNat, TasksAssumption DEF TypeInv, TypeOK
<1>3. Len(m_tasks') \in Nat
  <2>1. TypeOK'
    BY DEF TypeInv
  <2> QED
    BY <2>1, LenProperties DEF TypeOK
<1>4. /\ Taken \in Nat
      /\ \A i \in 1..Len(m_tasks) : m_tasks[i] = Taken + i
      /\ 1..Taken = finished \union Held
      /\ \A v \in Workers : task[v] \notin finished
      /\ \A u, v \in Workers : task[u] # 0 /\ task[u] = task[v] => u = v
  BY <1>2 DEF TasksConserved
<1>5. Taken' \in 0..accepted'
  BY <1>1, <1>2, <1>3, <1>4
<1>6. \A i \in 1..Len(m_tasks') : m_tasks'[i] = Taken' + i
  BY <1>1, <1>2, <1>3, <1>4
<1>7. \A v \in Workers : task'[v] = IF v = w THEN Taken + 1 ELSE task[v]
  BY <1>1, <1>2
<1>8. Held' = Held \union {Taken + 1}
  BY <1>1, <1>4, <1>7
<1>9. 1..(Taken + 1) = (1..Taken) \union {Taken + 1}
  BY <1>4
<1>10. 1..Taken' = finished' \union Held'
  <2>1. 1..Taken' = (finished \union Held) \union {Taken + 1}
    BY <1>1, <1>4, <1>9
  <2> QED
    BY <1>1, <1>8, <2>1
<1>11. Taken + 1 \notin finished \union Held
  BY <1>4
<1>12. \A v \in Workers : task[v] # Taken + 1
  BY <1>4, <1>11
<1>13. \A v \in Workers : task'[v] \notin finished'
  BY <1>1, <1>4, <1>7, <1>11
<1>14. \A u, v \in Workers : task'[u] # 0 /\ task'[u] = task'[v] => u = v
  BY <1>4, <1>7, <1>12
<1> QED
  BY <1>5, <1>6, <1>10, <1>13, <1>14 DEF TasksConserved

LEMMA ConservedReturn ==
    ASSUME TypeInv, TasksConserved, NEW w \in Workers, Return(w)
    PROVE  TasksConserved'
<1> DEFINE Held == {task[v] : v \in {u \in Workers : task[u] # 0}}
<1>1. /\ task \in [Workers -> 0..MaxTasks]
      /\ task[w] # 0
      /\ task' = [task EXCEPT ![w] = 0]
      /\ finished' = finished \union {task[w]}
      /\ m_tasks' = m_tasks /\ accepted' = accepted /\ Taken' = Taken
  BY DEF Return, pool, Taken, TypeInv, TypeOK, HandsInv
<1>2. Held' = Held \ {task[w]}
  BY <1>1 DEF TasksConserved
<1>3. task[w] \in Held
  BY <1>1
<1>4. \A v \in Workers : task'[v] \notin finished'
  <2>1. 0 \notin finished'
    BY <1>1 DEF TypeInv, TypeOK
  <2> QED
    BY <1>1, <2>1 DEF TasksConserved
<1>5. 1..Taken' = finished' \union Held'
  BY <1>1, <1>2, <1>3 DEF TasksConserved
<1>6. \A u, v \in Workers : task'[u] # 0 /\ task'[u] = task'[v] => u = v
  BY <1>1 DEF TasksConserved
<1> QED
  BY <1>1, <1>4, <1>5, <1>6 DEF TasksConserved

LEMMA ConservedNext ==
    TypeInv /\ TypeInv' /\ TasksConserved /\ [Next]_vars => TasksConserved'
<1> SUFFICES ASSUME TypeInv, TypeInv', TasksConserved, [Next]_vars
             PROVE  TasksConserved'
  OBVIOUS
<1>1. ASSUME UNCHANGED <<m_tasks, accepted, task, finished>>
      PROVE  TasksConserved'
  BY <1>1 DEF TasksConserved, Taken
<1>2. CASE UNCHANGED vars
  BY <1>1, <1>2 DEF vars, pool, history
<1>3. ASSUME NEW w \in Workers, WorkerStep(w) \/ SpuriousWakeup(w)
      PROVE  TasksConserved'
  <2>1. CASE Take(w)
    BY <2>1, ConservedTake
  <2>2. CASE Return(w)
    BY <2>2, ConservedReturn
  <2> QED
    BY <1>1, <1>3, <2>1, <2>2
    DEF WorkerStep, Wait, SpuriousWakeup, Exit, Run, Release, pool, history
<1>4. ASSUME NEW c \in Callers,
             CallerStep(c) \/ Enqueue(c) \/ StopTasks(c) \/ Stop(c)
      PROVE  TasksConserved'
  <2>1. CASE Enqueue(c)
    BY <2>1, ConservedEnqueue
  <2> QED
    BY <1>1, <1>4, <2>1
    DEF CallerStep, NotifyOne, NotifyAll, Joined, SpinEnds, ResetStopTasks,
        StopTasks, Stop, pool, history
<1> QED
  BY <1>2, <1>3, <1>4 DEF Next, Callers

\* No task is lost, duplicated or overtaken, in any interleaving of any number
\* of workers and callers.
THEOREM Conserved == Spec => []TasksConserved
<1>1. Init => TypeInv /\ TasksConserved
  BY TypeInit, ConservedInit
<1>2. TypeInv /\ TasksConserved /\ [Next]_vars => (TypeInv /\ TasksConserved)'
  BY TypeNext, ConservedNext
<1> QED
  BY <1>1, <1>2, PTL DEF Spec

-----------------------------------------------------------------------------
(* stopTasks() waits for what was running.                                 *)

RunningTasks == {task[w] : w \in Running}

SpinInv ==
    \A c \in Callers :
        /\ caller[c] = "spin" => interrupted[c] \subseteq finished \union RunningTasks
        /\ caller[c] = "reset" => interrupted[c] \subseteq finished

\* A task that is running stays so until it is finished.
LEMMA RunningKept ==
    ASSUME TypeInv, [Next]_vars
    PROVE  /\ finished \subseteq finished'
           /\ RunningTasks \subseteq finished' \union RunningTasks'
<1>1. CASE UNCHANGED <<worker, task, finished>>
  BY <1>1 DEF RunningTasks, Running
<1>2. CASE UNCHANGED vars
  BY <1>1, <1>2 DEF vars, history
<1>3. ASSUME NEW w \in Workers, WorkerStep(w) \/ SpuriousWakeup(w)
      PROVE  /\ finished \subseteq finished'
             /\ RunningTasks \subseteq finished' \union RunningTasks'
  <2>1. CASE Return(w)
    <3>1. /\ finished' = finished \union {task[w]}
          /\ \A v \in Workers \ {w} : task'[v] = task[v] /\ worker'[v] = worker[v]
      BY <2>1 DEF Return, TypeInv, TypeOK
    <3> QED
      BY <3>1 DEF RunningTasks, Running
  <2>2. CASE Take(w)
    <3>1. /\ finished' = finished /\ worker[w] = "lock"
          /\ \A v \in Workers \ {w} : task'[v] = task[v] /\ worker'[v] = worker[v]
      BY <2>2 DEF Take, history, TypeInv, TypeOK
    <3> QED
      BY <3>1 DEF RunningTasks, Running
  <2>3. CASE \/ Wait(w) \/ SpuriousWakeup(w) \/ Exit(w) \/ Run(w) \/ Release(w)
    <3>1. /\ finished' = finished /\ task' = task /\ worker[w] # "running"
          /\ \A v \in Workers \ {w} : worker'[v] = worker[v]
      BY <2>3
      DEF Wait, SpuriousWakeup, Exit, Run, Release, history, TypeInv, TypeOK
    <3> QED
      BY <3>1 DEF RunningTasks, Running
  <2> QED
    BY <1>3, <2>1, <2>2, <2>3 DEF WorkerStep
<1>4. ASSUME NEW c \in Callers,
             CallerStep(c) \/ Enqueue(c) \/ StopTasks(c) \/ Stop(c)
      PROVE  /\ finished \subseteq finished'
             /\ RunningTasks \subseteq finished' \union RunningTasks'
  <2>1. CASE NotifyOne(c) \/ NotifyAll(c)
    <3>1. /\ finished' = finished /\ task' = task
          /\ \A v \in Running : worker'[v] = worker[v]
      BY <2>1 DEF NotifyOne, NotifyAll, Waiting, Running, history, TypeInv, TypeOK
    <3> QED
      BY <3>1 DEF RunningTasks, Running
  <2> QED
    BY <1>1, <1>4, <2>1
    DEF CallerStep, Joined, SpinEnds, ResetStopTasks, Enqueue, StopTasks, Stop,
        history
<1> QED
  BY <1>2, <1>3, <1>4 DEF Next, Callers

\* When the busy-wait ends, nobody is running.
LEMMA NobodyRuns ==
    ASSUME TypeInv, NEW c \in Callers, SpinEnds(c)
    PROVE  RunningTasks = {}
<1>1. m_threadsAvailable = Cardinality(Workers)
  BY DEF SpinEnds
<1>2. Cardinality(Counted) = 0
  BY <1>1, WorkersSize, CountedIsFinite DEF TypeInv, CounterInv
<1>3. Counted = {}
  BY <1>2, CountedIsFinite, FS_EmptySet
<1> QED
  BY <1>3 DEF Counted, RunningTasks, Running

LEMMA SpinNext == TypeInv /\ SpinInv /\ [Next]_vars => SpinInv'
<1> SUFFICES ASSUME TypeInv, SpinInv, [Next]_vars, NEW c \in Callers
             PROVE  /\ caller'[c] = "spin" =>
                           interrupted'[c] \subseteq finished' \union RunningTasks'
                    /\ caller'[c] = "reset" => interrupted'[c] \subseteq finished'
  BY DEF SpinInv
<1>1. CASE caller'[c] = caller[c] /\ interrupted'[c] = interrupted[c]
  BY <1>1, RunningKept DEF SpinInv
<1>2. CASE UNCHANGED <<caller, interrupted>>
  BY <1>1, <1>2
<1>3. ASSUME NEW d \in Callers, d # c,
             CallerStep(d) \/ Enqueue(d) \/ StopTasks(d) \/ Stop(d)
      PROVE  caller'[c] = caller[c] /\ interrupted'[c] = interrupted[c]
  BY <1>3
  DEF CallerStep, NotifyOne, NotifyAll, Joined, SpinEnds, ResetStopTasks, Enqueue,
      StopTasks, Stop, history, TypeInv, TypeOK
<1>4. CASE SpinEnds(c)
  <2>1. /\ caller[c] = "spin" /\ caller'[c] = "reset"
        /\ interrupted' = interrupted /\ finished' = finished
    BY <1>4 DEF SpinEnds, history, TypeInv, TypeOK
  <2> QED
    BY <1>4, <2>1, NobodyRuns DEF SpinInv
<1>5. CASE StopTasks(c)
  <2>1. /\ caller'[c] = "spin"
        /\ interrupted'[c] = RunningTasks /\ RunningTasks' = RunningTasks
    BY <1>5 DEF StopTasks, RunningTasks, Running, TypeInv, TypeOK
  <2> QED
    BY <2>1
<1>6. CASE \/ NotifyOne(c) \/ NotifyAll(c) \/ Joined(c) \/ ResetStopTasks(c)
           \/ Enqueue(c) \/ Stop(c)
  <2>1. caller'[c] \notin {"spin", "reset"}
    BY <1>6
    DEF NotifyOne, NotifyAll, Joined, ResetStopTasks, Enqueue, Stop, TypeInv,
        TypeOK
  <2> QED
    BY <2>1
<1>7. CASE UNCHANGED vars
  BY <1>2, <1>7 DEF vars, history
<1>8. ASSUME NEW w \in Workers, WorkerStep(w) \/ SpuriousWakeup(w)
      PROVE  UNCHANGED <<caller, interrupted>>
  BY <1>8
  DEF WorkerStep, Wait, SpuriousWakeup, Exit, Take, Run, Return, Release, history
<1>9. ASSUME NEW d \in Callers,
             CallerStep(d) \/ Enqueue(d) \/ StopTasks(d) \/ Stop(d)
      PROVE  /\ caller'[c] = "spin" =>
                    interrupted'[c] \subseteq finished' \union RunningTasks'
             /\ caller'[c] = "reset" => interrupted'[c] \subseteq finished'
  <2>1. CASE d = c
    BY <1>4, <1>5, <1>6, <1>9, <2>1 DEF CallerStep
  <2>2. CASE d # c
    BY <1>1, <1>3, <1>9, <2>2
  <2> QED
    BY <2>1, <2>2
<1> QED
  BY <1>2, <1>7, <1>8, <1>9 DEF Next, Callers

\* stopTasks() does not get past its busy-wait before every task that was running
\* at the call has returned, whatever starts meanwhile.
THEOREM StopTasksCorrect == Spec => []StopTasksWaits
<1>1. Init => TypeInv /\ SpinInv
  <2>1. Init => SpinInv
    BY DEF Init, SpinInv
  <2> QED
    BY <2>1, TypeInit
<1>2. TypeInv /\ SpinInv /\ [Next]_vars => (TypeInv /\ SpinInv)'
  BY TypeNext, SpinNext
<1>3. SpinInv => StopTasksWaits
  BY DEF SpinInv, StopTasksWaits
<1> QED
  BY <1>1, <1>2, <1>3, PTL DEF Spec

-----------------------------------------------------------------------------
(* stop() drains the queue.                                                *)

DrainInv ==
    /\ owed <= accepted
    /\ \A w \in Exited : m_stop /\ owed <= Taken

Inv == TypeInv /\ TasksConserved /\ DrainInv

LEMMA DrainInit == Init => DrainInv
BY DEF Init, DrainInv, Exited

\* m_stop is never taken back, and the history numbers only grow.
LEMMA Monotonic ==
    ASSUME TypeInv, TypeInv', TasksConserved, [Next]_vars
    PROVE  /\ m_stop => m_stop'
           /\ accepted <= accepted' /\ Taken <= Taken'
<1>0. accepted \in Int /\ Taken \in Int
  BY TakenNat DEF TypeInv
<1>1. ASSUME UNCHANGED <<accepted, m_tasks>>
      PROVE  accepted <= accepted' /\ Taken <= Taken'
  BY <1>0, <1>1 DEF Taken
<1>2. ASSUME NEW w \in Workers, Take(w)
      PROVE  accepted <= accepted' /\ Taken <= Taken' /\ m_stop' = m_stop
  <2>1. accepted' = accepted /\ Taken' = Taken + 1
    BY <1>2, TakeFacts
  <2> QED
    BY <1>0, <1>2, <2>1 DEF Take
<1>3. ASSUME NEW c \in Callers, Enqueue(c)
      PROVE  accepted <= accepted' /\ Taken <= Taken' /\ m_stop' = m_stop
  <2>1. /\ accepted' = accepted + 1
        /\ Len(m_tasks') = Len(m_tasks) + 1
    BY <1>3, TakenNat DEF Enqueue, TypeInv
  <2> QED
    BY <1>0, <1>3, <2>1, TakenNat DEF Enqueue, Taken, TypeInv
<1>4. CASE UNCHANGED vars
  BY <1>1, <1>4 DEF vars, pool, history
<1>5. ASSUME NEW w \in Workers, WorkerStep(w) \/ SpuriousWakeup(w)
      PROVE  (m_stop => m_stop') /\ accepted <= accepted' /\ Taken <= Taken'
  BY <1>1, <1>2, <1>5
  DEF WorkerStep, Wait, SpuriousWakeup, Exit, Run, Return, Release, pool, history
<1>6. ASSUME NEW c \in Callers,
             CallerStep(c) \/ Enqueue(c) \/ StopTasks(c) \/ Stop(c)
      PROVE  (m_stop => m_stop') /\ accepted <= accepted' /\ Taken <= Taken'
  BY <1>1, <1>3, <1>6
  DEF CallerStep, NotifyOne, NotifyAll, Joined, SpinEnds, ResetStopTasks,
      StopTasks, Stop, pool, history
<1> QED
  BY <1>4, <1>5, <1>6 DEF Next, Callers

LEMMA DrainNext == Inv /\ TypeInv' /\ [Next]_vars => DrainInv'
<1> SUFFICES ASSUME Inv, TypeInv', [Next]_vars PROVE DrainInv'
  OBVIOUS
<1>1. /\ m_stop => m_stop'
      /\ accepted <= accepted' /\ Taken <= Taken'
      /\ accepted \in Int /\ accepted' \in Int
      /\ Taken \in Int /\ Taken' \in Int
      /\ owed \in Int /\ owed' \in Int
      /\ owed <= accepted
      /\ \A w \in Exited : m_stop /\ owed <= Taken
  <2>1. /\ m_stop => m_stop'
        /\ accepted <= accepted' /\ Taken <= Taken'
    BY Monotonic DEF Inv
  <2>2. /\ accepted \in Int /\ accepted' \in Int
        /\ owed \in Int /\ owed' \in Int
        /\ m_tasks \in Seq(1..MaxTasks) /\ m_tasks' \in Seq(1..MaxTasks)
    BY TasksAssumption DEF Inv, TypeInv, TypeOK
  <2>3. Len(m_tasks) \in Int /\ Len(m_tasks') \in Int
    BY <2>2, LenProperties
  <2> QED
    BY <2>1, <2>2, <2>3 DEF Inv, DrainInv, Taken
<1>2. ASSUME Exited' \subseteq Exited, owed' = owed PROVE DrainInv'
  BY <1>1, <1>2 DEF DrainInv
<1>3. ASSUME NEW w \in Workers, Exit(w) PROVE DrainInv'
  <2>1. m_stop /\ Len(m_tasks) = 0 /\ UNCHANGED <<m_tasks, accepted, owed, m_stop>>
    BY <1>3 DEF Exit, pool, history
  <2>2. Taken' = accepted
    BY <1>1, <2>1 DEF Taken
  <2> QED
    BY <1>1, <2>1, <2>2 DEF DrainInv
<1>4. ASSUME NEW c \in Callers, Stop(c) PROVE DrainInv'
  <2>1. /\ owed' = IF m_stop THEN owed ELSE accepted
        /\ accepted' = accepted /\ Exited' = Exited /\ Taken' = Taken
        /\ m_stop'
    BY <1>4 DEF Stop, Exited, Taken
  <2>2. CASE m_stop
    BY <1>1, <2>1, <2>2 DEF DrainInv
  <2>3. CASE ~m_stop
    BY <1>1, <2>1, <2>3 DEF DrainInv
  <2> QED
    BY <2>2, <2>3
<1>5. CASE UNCHANGED vars
  BY <1>2, <1>5 DEF vars, history, Exited
<1>6. ASSUME NEW w \in Workers, WorkerStep(w) \/ SpuriousWakeup(w)
      PROVE  DrainInv'
  <2>1. CASE Exit(w)
    BY <1>3, <2>1
  <2>2. CASE ~Exit(w)
    <3>1. Exited' \subseteq Exited /\ owed' = owed
      BY <1>6, <2>2
      DEF WorkerStep, Wait, SpuriousWakeup, Take, Run, Return, Release, history,
          Exited, Inv, TypeInv, TypeOK
    <3> QED
      BY <1>2, <3>1
  <2> QED
    BY <2>1, <2>2
<1>7. ASSUME NEW c \in Callers,
             CallerStep(c) \/ Enqueue(c) \/ StopTasks(c) \/ Stop(c)
      PROVE  DrainInv'
  <2>1. CASE CallerStep(c) \/ Enqueue(c) \/ StopTasks(c)
    <3>1. Exited' \subseteq Exited /\ owed' = owed
      BY <2>1
      DEF CallerStep, NotifyOne, NotifyAll, Joined, SpinEnds, ResetStopTasks,
          Enqueue, StopTasks, history, Waiting, Exited, Inv, TypeInv, TypeOK
    <3> QED
      BY <1>2, <3>1
  <2> QED
    BY <1>4, <1>7, <2>1
<1> QED
  BY <1>5, <1>6, <1>7 DEF Next, Callers

LEMMA Invariance == Spec => []Inv
<1>1. Init => Inv
  BY TypeInit, ConservedInit, DrainInit DEF Inv
<1>2. Inv /\ [Next]_vars => Inv'
  BY TypeNext, ConservedNext, DrainNext DEF Inv
<1> QED
  BY <1>1, <1>2, PTL DEF Spec

\* When everybody has exited, everything that was taken is finished.
LEMMA AllExited ==
    ASSUME Inv, Exited = Workers
    PROVE  m_stop /\ owed <= Taken /\ finished = 1..Taken
<1>1. m_stop /\ owed <= Taken
  BY WorkersAssumption DEF Inv, DrainInv
<1>2. \A w \in Workers : task[w] = 0
  BY DEF Inv, TypeInv, HandsInv, Exited
<1>3. {task[w] : w \in {v \in Workers : task[v] # 0}} = {}
  BY <1>2
<1> QED
  BY <1>1, <1>3 DEF Inv, TasksConserved

\* stop() joins the workers only after they have run every task that was enqueued
\* before it.
THEOREM StopDrainsQueue == Spec => []StopDrains
<1>1. ASSUME Inv PROVE StopDrains
  <2>1. owed \in Int /\ Taken \in Int
    BY <1>1, TakenNat, TasksAssumption DEF Inv, TypeInv, TypeOK
  <2> QED
    BY <1>1, <2>1, AllExited DEF StopDrains
<1> QED
  BY <1>1, Invariance, PTL

-----------------------------------------------------------------------------
(* The pool implements TaskPool.                                           *)

PhaseOf ==
    IF Exited = Workers THEN "closed" ELSE IF m_stop THEN "stopping" ELSE "open"

LEMMA RefinesInit == Init => Abstract!Init
<1> SUFFICES ASSUME Init PROVE Abstract!Init
  OBVIOUS
<1>1. Taken = 0
  <2>1. accepted = 0
    BY DEF Init
  <2>2. Len(m_tasks) = 0
    BY DEF Init
  <2> QED
    BY <2>1, <2>2 DEF Taken
<1>2. Exited # Workers
  BY WorkersAssumption DEF Init, Exited
<1> QED
  BY <1>1, <1>2 DEF Init, Abstract!Init

LEMMA RefinesNext ==
    ASSUME Inv, Inv', [Next]_vars
    PROVE  [Abstract!Next]_(Abstract!vars)
<1>0. /\ accepted \in Nat /\ Taken \in Nat /\ Len(m_tasks) \in Nat
      /\ accepted = Taken + Len(m_tasks)
  BY TakenNat DEF Inv, TypeInv, TasksConserved
<1>1. ASSUME UNCHANGED <<accepted, m_tasks, task, finished, PhaseOf>>
      PROVE  [Abstract!Next]_(Abstract!vars)
  BY <1>1 DEF Abstract!vars, Taken, PhaseOf
<1>2. ASSUME NEW w \in Workers, Take(w) PROVE Abstract!Next
  <2>1. /\ accepted' = accepted /\ finished' = finished /\ Taken' = Taken + 1
        /\ task[w] = 0 /\ task' = [task EXCEPT ![w] = Taken + 1]
    BY <1>2, TakeFacts DEF Inv
  <2>2. Taken < accepted
    <3>1. Len(m_tasks) # 0
      BY <1>2, TakenNat, EmptySeq DEF Take, Inv, TypeInv
    <3> QED
      BY <1>0, <3>1
  <2>3. w \notin Exited /\ w \notin Exited' /\ m_stop' = m_stop
    BY <1>2 DEF Take, Exited, Inv, TypeInv, TypeOK
  <2>4. Abstract!Start(w)
    BY <2>1, <2>2, <2>3 DEF Abstract!Start
  <2> QED
    BY <2>4 DEF Abstract!Next
<1>3. ASSUME NEW w \in Workers, Return(w) PROVE Abstract!Next
  <2>1. /\ finished' = finished \union {task[w]}
        /\ task' = [task EXCEPT ![w] = 0]
        /\ UNCHANGED <<m_tasks, m_stop, accepted>>
        /\ task[w] # 0
    BY <1>3 DEF Return, pool, Inv, TypeInv, HandsInv
  <2>2. w \notin Exited /\ w \notin Exited'
    BY <1>3 DEF Return, Exited, Inv, TypeInv, TypeOK
  <2>3. Abstract!Finish(w)
    BY <2>1, <2>2 DEF Abstract!Finish, Taken
  <2> QED
    BY <2>3 DEF Abstract!Next
<1>4. ASSUME NEW w \in Workers, Exit(w) PROVE [Abstract!Next]_(Abstract!vars)
  <2>1. /\ m_stop /\ Len(m_tasks) = 0 /\ w \notin Exited
        /\ UNCHANGED <<m_tasks, m_stop, task, accepted, finished>>
    BY <1>4 DEF Exit, pool, history, Exited
  <2>2. CASE Exited' = Workers
    <3>1. \A v \in Workers : task[v] = 0
      BY <2>1, <2>2 DEF Inv, TypeInv, HandsInv, Exited
    <3>2. {task[v] : v \in {u \in Workers : task[u] # 0}} = {}
      BY <3>1
    <3>3. finished = 1..Taken
      BY <3>2 DEF Inv, TasksConserved
    <3>4. accepted = Taken
      BY <1>0, <2>1
    <3>5. Abstract!Close
      BY <2>1, <2>2, <3>3, <3>4 DEF Abstract!Close, Taken
    <3> QED
      BY <3>5 DEF Abstract!Next
  <2>3. CASE Exited' # Workers
    BY <1>1, <2>1, <2>3 DEF PhaseOf
  <2> QED
    BY <2>2, <2>3
<1>5. ASSUME NEW c \in Callers, Enqueue(c) PROVE Abstract!Next
  <2>1. /\ accepted < MaxTasks /\ accepted' = accepted + 1
        /\ Len(m_tasks') = Len(m_tasks) + 1
        /\ UNCHANGED <<m_stop, task, finished, worker>>
    BY <1>5, TakenNat DEF Enqueue, Inv, TypeInv
  <2>2. Taken' = Taken /\ Exited' = Exited
    BY <1>0, <2>1 DEF Taken, Exited
  <2>3. Abstract!Accept
    BY <2>1, <2>2 DEF Abstract!Accept
  <2> QED
    BY <2>3 DEF Abstract!Next
<1>6. ASSUME NEW c \in Callers, Stop(c) PROVE [Abstract!Next]_(Abstract!vars)
  <2>1. /\ m_stop' = TRUE /\ Exited' = Exited
        /\ UNCHANGED <<m_tasks, task, accepted, finished>>
    BY <1>6 DEF Stop, Exited
  <2>2. CASE m_stop
    BY <1>1, <2>1, <2>2 DEF PhaseOf
  <2>3. CASE ~m_stop
    <3>1. Exited # Workers
      BY <2>3, AllExited
    <3>2. Abstract!Stop
      BY <2>1, <2>3, <3>1 DEF Abstract!Stop, Taken
    <3> QED
      BY <3>2 DEF Abstract!Next
  <2> QED
    BY <2>2, <2>3
<1>7. CASE UNCHANGED vars
  BY <1>1, <1>7 DEF vars, pool, history, PhaseOf, Exited
<1>8. ASSUME NEW w \in Workers,
             Wait(w) \/ SpuriousWakeup(w) \/ Run(w) \/ Release(w)
      PROVE  [Abstract!Next]_(Abstract!vars)
  <2>1. /\ UNCHANGED <<accepted, m_tasks, task, finished, m_stop>>
        /\ Exited' = Exited
    BY <1>8
    DEF Wait, SpuriousWakeup, Run, Release, pool, history, Exited, Inv, TypeInv,
        TypeOK
  <2> QED
    BY <1>1, <2>1 DEF PhaseOf
<1>9. ASSUME NEW c \in Callers, CallerStep(c) \/ StopTasks(c)
      PROVE  [Abstract!Next]_(Abstract!vars)
  <2>1. /\ UNCHANGED <<accepted, m_tasks, task, finished, m_stop>>
        /\ Exited' = Exited
    BY <1>9
    DEF CallerStep, NotifyOne, NotifyAll, Joined, SpinEnds, ResetStopTasks,
        StopTasks, pool, history, Waiting, Exited, Inv, TypeInv, TypeOK
  <2> QED
    BY <1>1, <2>1 DEF PhaseOf
<1> QED
  BY <1>2, <1>3, <1>4, <1>5, <1>6, <1>7, <1>8, <1>9
  DEF Next, WorkerStep, Callers

\* Every behaviour of the pool, with its threads, lock and condition variable, is
\* a behaviour of the abstract pool.
THEOREM Implements == Spec => Promise
<1>1. Spec => []Inv
  BY Invariance
<1>2. Inv /\ Inv' /\ [Next]_vars => [Abstract!Next]_(Abstract!vars)
  BY RefinesNext
<1> QED
  BY <1>1, <1>2, RefinesInit, PTL DEF Spec, Promise, Abstract!Spec

-----------------------------------------------------------------------------
(* No wakeup is lost.                                                      *)

LEMMA HelpersFinite ==
    /\ IsFiniteSet(Notifiers) /\ Cardinality(Notifiers) \in Nat
    /\ IsFiniteSet(Awake) /\ Cardinality(Awake) \in Nat
    /\ Cardinality(Notifiers') \in Nat /\ Cardinality(Awake') \in Nat
<1>1. /\ Notifiers \in SUBSET Callers /\ Notifiers' \in SUBSET Callers
      /\ Awake \in SUBSET Workers /\ Awake' \in SUBSET Workers
  BY DEF Notifiers, Awake
<1>2. \A S \in SUBSET Callers : IsFiniteSet(S)
  BY FS_Subset, CallersAssumption
<1> QED
  BY <1>1, <1>2, WorkersSize, FS_CardinalityType

\* A step that adds a waker, or takes one task along with its waker, keeps the
\* balance.
LEMMA WakeupWorker ==
    ASSUME TypeInv, TypeInv', NoLostWakeup, NEW w \in Workers,
           WorkerStep(w) \/ SpuriousWakeup(w)
    PROVE  NoLostWakeup'
<1>1. /\ caller' = caller /\ m_stop' = m_stop /\ Notifiers' = Notifiers
  BY DEF WorkerStep, Wait, SpuriousWakeup, Exit, Take, Run, Return, Release, pool,
         Notifiers
<1>2. Len(m_tasks) \in Nat /\ Len(m_tasks') \in Nat
  BY LenProperties DEF TypeInv, TypeOK
<1>3. CASE Wait(w)
  <2>1. Len(m_tasks') = 0 /\ ~m_stop
    BY <1>3 DEF Wait, pool
  <2> QED
    BY <1>1, <2>1, HelpersFinite DEF NoLostWakeup
<1>4. CASE SpuriousWakeup(w) \/ Release(w)
  <2>1. Awake' = Awake \union {w} /\ w \notin Awake /\ m_tasks' = m_tasks
    BY <1>4 DEF SpuriousWakeup, Release, Awake, pool, TypeInv, TypeOK
  <2>2. Waiting' \subseteq Waiting
    BY <1>4 DEF SpuriousWakeup, Release, Waiting, TypeInv, TypeOK
  <2>3. Cardinality(Awake') = Cardinality(Awake) + 1
    BY <2>1, HelpersFinite, FS_AddElement
  <2> QED
    BY <1>1, <1>2, <2>1, <2>2, <2>3, HelpersFinite DEF NoLostWakeup
<1>5. CASE Exit(w)
  <2>1. Len(m_tasks') = 0 /\ Waiting' \subseteq Waiting
    BY <1>5 DEF Exit, pool, Waiting, TypeInv, TypeOK
  <2> QED
    BY <1>1, <2>1, HelpersFinite DEF NoLostWakeup
<1>6. CASE Take(w)
  <2>1. Len(m_tasks') = Len(m_tasks) - 1
    BY <1>6, HeadTailProperties DEF Take, TypeInv, TypeOK
  <2>2. Awake' = Awake \ {w} /\ w \in Awake /\ Waiting' = Waiting
    BY <1>6 DEF Take, Awake, Waiting, TypeInv, TypeOK
  <2>3. Cardinality(Awake') = Cardinality(Awake) - 1
    BY <2>2, HelpersFinite, FS_RemoveElement
  <2> QED
    BY <1>1, <1>2, <2>1, <2>2, <2>3, HelpersFinite DEF NoLostWakeup
<1>7. CASE Run(w) \/ Return(w)
  <2>1. Awake' = Awake /\ Waiting' = Waiting /\ m_tasks' = m_tasks
    BY <1>7 DEF Run, Return, pool, Awake, Waiting, TypeInv, TypeOK
  <2> QED
    BY <1>1, <2>1 DEF NoLostWakeup
<1> QED
  BY <1>3, <1>4, <1>5, <1>6, <1>7 DEF WorkerStep

LEMMA WakeupCaller ==
    ASSUME TypeInv, TypeInv', NoLostWakeup, NEW c \in Callers,
           \/ CallerStep(c) \/ Enqueue(c) \/ StopTasks(c)
           \/ c = Owner /\ Stop(c)
    PROVE  NoLostWakeup'
<1>1. Len(m_tasks) \in Nat /\ Len(m_tasks') \in Nat
  BY LenProperties DEF TypeInv, TypeOK
<1>2. CASE NotifyOne(c)
  <2>1. /\ Notifiers' = Notifiers \ {c} /\ c \in Notifiers
        /\ m_tasks' = m_tasks /\ m_stop' = m_stop
        /\ caller[Owner] = "notifyAll" => caller'[Owner] = "notifyAll"
    BY <1>2 DEF NotifyOne, Notifiers, pool, TypeInv, TypeOK
  <2>2. Cardinality(Notifiers') = Cardinality(Notifiers) - 1
    BY <2>1, HelpersFinite, FS_RemoveElement
  <2>3. CASE Waiting = {} /\ worker' = worker
    BY <2>3 DEF NoLostWakeup, Waiting
  <2>4. ASSUME NEW w \in Waiting, worker' = [worker EXCEPT ![w] = "lock"]
        PROVE  NoLostWakeup'
    <3>1. Awake' = Awake \union {w} /\ w \notin Awake /\ Waiting # {}
      BY <2>4 DEF Awake, Waiting, TypeInv, TypeOK
    <3>2. Cardinality(Awake') = Cardinality(Awake) + 1
      BY <3>1, HelpersFinite, FS_AddElement
    <3> QED
      BY <1>1, <2>1, <2>2, <3>1, <3>2, HelpersFinite DEF NoLostWakeup
  <2> QED
    BY <1>2, <2>3, <2>4 DEF NotifyOne
<1>3. CASE NotifyAll(c)
  <2>1. Waiting' = {}
    BY <1>3 DEF NotifyAll, Waiting
  <2> QED
    BY <2>1 DEF NoLostWakeup
<1>4. CASE Enqueue(c)
  <2>1. /\ Notifiers' = Notifiers \union {c} /\ c \notin Notifiers
        /\ Awake' = Awake /\ Waiting' = Waiting /\ m_stop' = m_stop
        /\ caller[Owner] = "notifyAll" => caller'[Owner] = "notifyAll"
    BY <1>4 DEF Enqueue, Notifiers, Awake, Waiting, TypeInv, TypeOK
  <2>2. Cardinality(Notifiers') = Cardinality(Notifiers) + 1
    BY <2>1, HelpersFinite, FS_AddElement
  <2>3. Len(m_tasks') = Len(m_tasks) + 1
    BY <1>4, TakenNat DEF Enqueue, TypeInv
  <2> QED
    BY <1>1, <2>1, <2>2, <2>3, HelpersFinite DEF NoLostWakeup
<1>5. CASE \/ Joined(c) \/ SpinEnds(c) \/ ResetStopTasks(c) \/ StopTasks(c)
           \/ c = Owner /\ Stop(c)
  <2>1. /\ Notifiers' = Notifiers /\ Awake' = Awake /\ Waiting' = Waiting
        /\ m_tasks' = m_tasks
    BY <1>5
    DEF Joined, SpinEnds, ResetStopTasks, StopTasks, Stop, pool, Notifiers, Awake,
        Waiting, TypeInv, TypeOK
  <2>2. (m_stop => caller[Owner] = "notifyAll") =>
            (m_stop' => caller'[Owner] = "notifyAll")
    <3>1. CASE c = Owner /\ Stop(c)
      <4>1. caller'[Owner] = "notifyAll"
        BY <3>1 DEF Stop, TypeInv, TypeOK
      <4> QED
        BY <4>1
    <3>2. CASE Joined(c) \/ SpinEnds(c) \/ ResetStopTasks(c) \/ StopTasks(c)
      <4>1. m_stop' = m_stop
        BY <3>2 DEF Joined, SpinEnds, ResetStopTasks, StopTasks, pool
      <4>2. Owner \in Callers /\ caller[c] # "notifyAll"
        BY <3>2 DEF Joined, SpinEnds, ResetStopTasks, StopTasks, Callers
      <4>3. \A d \in Callers \ {c} : caller'[d] = caller[d]
        BY <3>2
        DEF Joined, SpinEnds, ResetStopTasks, StopTasks, TypeInv, TypeOK
      <4> QED
        BY <4>1, <4>2, <4>3
    <3> QED
      BY <1>5, <3>1, <3>2
  <2> QED
    BY <2>1, <2>2 DEF NoLostWakeup
<1> QED
  BY <1>2, <1>3, <1>4, <1>5 DEF CallerStep

LEMMA WakeupNext ==
    TypeInv /\ TypeInv' /\ NoLostWakeup /\ [Next]_vars => NoLostWakeup'
<1> SUFFICES ASSUME TypeInv, TypeInv', NoLostWakeup, [Next]_vars
             PROVE  NoLostWakeup'
  OBVIOUS
<1>1. CASE UNCHANGED vars
  BY <1>1 DEF vars, pool, NoLostWakeup, Waiting, Awake, Notifiers
<1> QED
  BY <1>1, WakeupWorker, WakeupCaller DEF Next, Callers

\* However enqueue() and its notify_one() interleave with workers that check the
\* queue, fall asleep or wake up spuriously: while anybody sleeps, each queued task
\* has a waker.
THEOREM NoWakeupLost == Spec => []NoLostWakeup
<1>1. Init => TypeInv /\ NoLostWakeup
  <2>1. Init => Waiting = {}
    BY DEF Init, Waiting
  <2> QED
    BY <2>1, TypeInit DEF NoLostWakeup
<1>2. TypeInv /\ NoLostWakeup /\ [Next]_vars => (TypeInv /\ NoLostWakeup)'
  BY TypeNext, WakeupNext
<1> QED
  BY <1>1, <1>2, PTL DEF Spec
=============================================================================
