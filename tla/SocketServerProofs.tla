------------------------- MODULE SocketServerProofs -------------------------
(***************************************************************************)
(* Theorems about SocketServer, for every number of workers, clients and   *)
(* disconnecting threads.  The server's steps are steps of the pool it     *)
(* owns, so that what ThreadPoolProofs proves about any pool holds of this *)
(* one; what is left to prove is about the sockets.                        *)
(***************************************************************************)
EXTENDS SocketServer, TLAPS, FiniteSetTheorems

\* The server's pool once more, with the theorems about it.
Threads == INSTANCE ThreadPoolProofs WITH
    Producers <- {Acceptor},
    Interrupters <- Disconnectors,
    MaxTasks <- MaxClients,
    LongTasks <- {}

-----------------------------------------------------------------------------
(* The server drives its pool as a pool may be driven.                     *)

LEMMA PoolAssumptions ==
    Threads!WorkersAssumption /\ Threads!CallersAssumption /\ Threads!TasksAssumption
<1>1. IsFiniteSet({Acceptor} \union Disconnectors \union {Owner})
  BY ServerAssumption, FS_Singleton, FS_Union
<1>2. \A S : Threads!IsFiniteSet(S) <=> IsFiniteSet(S)
  BY DEF IsFiniteSet, Threads!IsFiniteSet
<1> QED
  BY <1>1, <1>2, ServerAssumption
  DEF Threads!WorkersAssumption, Threads!CallersAssumption, Threads!TasksAssumption,
      Threads!Callers

\* Every step of the server is a step of its pool, or leaves the pool alone.
LEMMA PoolNext == [Next]_vars => [Pool!Next]_(Pool!vars)
<1> SUFFICES ASSUME [Next]_vars PROVE Pool!Next \/ UNCHANGED Pool!vars
  OBVIOUS
<1> USE DEF threadPool, Pool!vars, Pool!pool, Pool!history
<1>1. ASSUME NEW k \in Clients, PeerSends(k) \/ PeerLeaves(k) PROVE UNCHANGED Pool!vars
  BY <1>1 DEF PeerSends, PeerLeaves
<1>2. CASE AcceptConnection
  BY <1>2 DEF AcceptConnection
<1>3. CASE EnqueueHandler
  BY <1>3 DEF EnqueueHandler, Pool!Next
<1>4. ASSUME NEW w \in Workers, WorkerStep(w) PROVE Pool!Next \/ UNCHANGED Pool!vars
  <2>1. CASE PoolWorkerStep(w)
    BY <2>1 DEF PoolWorkerStep, Pool!Next, Pool!WorkerStep
  <2>2. CASE HandlerBegins(w) \/ HandlerReturns(w)
    BY <2>2 DEF HandlerBegins, HandlerReturns, Pool!Next, Pool!WorkerStep
  <2>3. CASE HandlerStep(w)
    BY <2>3 DEF HandlerStep, HandlerGoes, CheckStop, Receive, ReceiveTimeout, ReceiveEnd,
                Callback, CallbackThrows, CloseCallback, CloseSocket
  <2> QED
    BY <1>4, <2>1, <2>2, <2>3 DEF WorkerStep
<1>5. ASSUME NEW w \in Workers, SpuriousWakeup(w) PROVE Pool!Next
  BY <1>5 DEF SpuriousWakeup, Pool!Next
<1>6. ASSUME NEW c \in Pool!Callers, PoolCallerStep(c) PROVE Pool!Next
  BY <1>6 DEF PoolCallerStep, Pool!Next, Pool!CallerStep
<1>7. CASE Shutdown
  BY <1>7 DEF Shutdown, Pool!Next
<1>8. CASE ShutdownStep
  BY <1>8 DEF ShutdownStep, PoolStopped, CloseListener, Pool!Next, Pool!CallerStep,
              Pool!Callers
<1>9. ASSUME NEW c \in Disconnectors, DisconnectClients(c) PROVE Pool!Next
  BY <1>9 DEF DisconnectClients, Pool!Next
<1>10. CASE UNCHANGED vars
  BY <1>10 DEF vars
<1> QED
  BY <1>1, <1>2, <1>3, <1>4, <1>5, <1>6, <1>7, <1>8, <1>9, <1>10 DEF Next

\* The server implements the specification of its pool.
THEOREM DrivesPool == Spec => Pool!Spec
<1>1. Init => Pool!Init
  BY DEF Init
<1> QED
  BY <1>1, PoolNext, PTL DEF Spec, Pool!Spec

\* The two instances of the pool are the same.
LEMMA SamePool == Spec => Threads!Spec
<1>1. Threads!Cardinality(Workers) = Pool!Cardinality(Workers)
  BY Zenon DEF Threads!Cardinality, Pool!Cardinality
<1>2. Pool!Init => Threads!Init
  BY <1>1 DEF Pool!Init, Threads!Init, Pool!Callers, Threads!Callers
<1>3. [Pool!Next]_(Pool!vars) => [Threads!Next]_(Threads!vars)
  BY <1>1
  DEF Pool!Next, Pool!WorkerStep, Pool!CallerStep, Pool!Callers, Pool!vars, Pool!pool,
      Pool!history, Pool!Waiting, Pool!Running, Pool!Exited, Pool!Enqueue, Pool!NotifyOne,
      Pool!NotifyAll, Pool!Joined, Pool!SpinEnds, Pool!ResetStopTasks, Pool!StopTasks,
      Pool!Stop, Pool!Wait, Pool!SpuriousWakeup, Pool!Exit, Pool!Take, Pool!Run,
      Pool!Return, Pool!Release,
      Threads!Next, Threads!WorkerStep, Threads!CallerStep, Threads!Callers, Threads!vars,
      Threads!pool, Threads!history, Threads!Waiting, Threads!Running, Threads!Exited,
      Threads!Enqueue, Threads!NotifyOne, Threads!NotifyAll, Threads!Joined,
      Threads!SpinEnds, Threads!ResetStopTasks, Threads!StopTasks, Threads!Stop,
      Threads!Wait, Threads!SpuriousWakeup, Threads!Exit, Threads!Take, Threads!Run,
      Threads!Return, Threads!Release
<1> QED
  BY <1>2, <1>3, DrivesPool, PTL DEF Pool!Spec, Threads!Spec

\* What is proved about every pool holds of the server's.
PoolInv == Threads!Inv /\ Threads!StopTasksWaits /\ Threads!StopDrains

LEMMA PoolAlways == Spec => []PoolInv
<1> USE PoolAssumptions
    DEF Threads!WorkersAssumption, Threads!CallersAssumption, Threads!TasksAssumption
<1>1. Threads!Spec => []Threads!Inv
  BY Threads!Invariance
<1>2. Threads!Spec => []Threads!StopTasksWaits
  BY Threads!StopTasksCorrect
<1>3. Threads!Spec => []Threads!StopDrains
  BY Threads!StopDrainsQueue
<1> QED
  BY <1>1, <1>2, <1>3, SamePool, PTL DEF PoolInv

-----------------------------------------------------------------------------
(* The sockets.                                                            *)

HandlerStates == {"idle", "check", "recv", "callback", "lastCallback", "close",
                  "closeSocket", "done"}

\* A handler closes its socket before it returns, a socket stays closed, and the
\* joins of shutdown() are over when it closes the listening socket.
SocketInv ==
    /\ socket \in [Clients -> {"none", "open", "closed"}]
    /\ handler \in [Workers -> HandlerStates]
    /\ \A w \in Workers :
          worker[w] = "running" /\ handler[w] = "done" => socket[task[w]] = "closed"
    /\ \A k \in finished : socket[k] = "closed"
    /\ closing => \A w \in Workers : worker[w] = "exited"

\* What the sockets need to know of the pool.
LEMMA PoolFacts ==
    ASSUME PoolInv
    PROVE  /\ worker \in [Workers -> Threads!WorkerStates]
           /\ task \in [Workers -> 0..MaxClients]
           /\ accepted \in Nat
           /\ finished \subseteq 1..MaxClients
           /\ accepted + 1 \notin finished
           /\ \A w \in Workers : worker[w] \in {"popped", "running"} => task[w] \in Clients
           /\ \A w \in Workers : task[w] # accepted + 1 /\ task[w] \notin finished
           /\ \A v, w \in Workers : task[v] \in Clients /\ task[v] = task[w] => v = w
<1> USE PoolAssumptions
    DEF Threads!WorkersAssumption, Threads!CallersAssumption, Threads!TasksAssumption
<1>1. Threads!TypeOK /\ Threads!HandsInv /\ Threads!TasksConserved
  BY DEF PoolInv, Threads!Inv, Threads!TypeInv
<1>2. /\ worker \in [Workers -> Threads!WorkerStates]
      /\ task \in [Workers -> 0..MaxClients]
      /\ accepted \in Nat
      /\ finished \subseteq 1..MaxClients
  BY <1>1 DEF Threads!TypeOK
<1>3. \A w \in Workers : worker[w] \in {"popped", "running"} => task[w] \in Clients
  BY <1>1, <1>2 DEF Threads!HandsInv, Clients
<1>4. Threads!Taken \in 0..accepted
      /\ 1..Threads!Taken =
            finished \union {task[w] : w \in {v \in Workers : task[v] # 0}}
  BY <1>1 DEF Threads!TasksConserved
<1>5. accepted + 1 \notin 1..Threads!Taken /\ accepted + 1 # 0
  BY <1>2, <1>4
<1>6. accepted + 1 \notin finished
  BY <1>4, <1>5
<1>7. \A w \in Workers : task[w] # accepted + 1
  BY <1>4, <1>5
<1>8. /\ \A w \in Workers : task[w] \notin finished
      /\ \A v, w \in Workers : task[v] \in Clients /\ task[v] = task[w] => v = w
  BY <1>1 DEF Threads!TasksConserved, Clients
<1> QED
  BY <1>2, <1>3, <1>6, <1>7, <1>8

LEMMA SocketInit == Init => SocketInv
  BY DEF Init, SocketInv, HandlerStates, Pool!Init

\* The pool's own steps start and end no task, and nobody comes back from its exit.
LEMMA SocketKept ==
    ASSUME PoolInv, SocketInv,
           UNCHANGED <<socket, handler, finished, closing>>,
           \A w \in Workers : worker'[w] = "running" =>
                                  worker[w] = "running" /\ task'[w] = task[w],
           \A w \in Workers : worker[w] = "exited" => worker'[w] = "exited"
    PROVE  SocketInv'
  BY DEF SocketInv

\* A step of a handler changes its own place and may close its own socket.
LEMMA SocketHandler ==
    ASSUME PoolInv, SocketInv, NEW w \in Workers, HandlerStep(w)
    PROVE  SocketInv'
<1>1. /\ worker[w] = "running" /\ UNCHANGED <<worker, task, finished, closing>>
      /\ task[w] \in Clients
  BY PoolFacts DEF HandlerStep, HandlerGoes, CheckStop, Receive, ReceiveTimeout,
     ReceiveEnd, Callback, CallbackThrows, CloseCallback, CloseSocket, threadPool, server
<1>2. CASE CloseSocket(w)
  BY <1>1, <1>2 DEF CloseSocket, HandlerGoes, SocketInv, HandlerStates
<1>3. ASSUME UNCHANGED socket,
             NEW to \in HandlerStates \ {"done"}, handler' = [handler EXCEPT ![w] = to]
      PROVE  SocketInv'
  BY <1>1, <1>3 DEF SocketInv
<1>4. CASE ~CloseSocket(w)
  <2>1. UNCHANGED socket /\ \E to \in HandlerStates \ {"done"} :
            handler' = [handler EXCEPT ![w] = to]
    BY <1>4 DEF HandlerStep, HandlerGoes, CheckStop, Receive, ReceiveTimeout, ReceiveEnd,
       Callback, CallbackThrows, CloseCallback, HandlerStates
  <2> QED
    BY <1>3, <2>1
<1> QED
  BY <1>2, <1>4

LEMMA SocketNext == PoolInv /\ SocketInv /\ [Next]_vars => SocketInv'
<1> SUFFICES ASSUME PoolInv, SocketInv, [Next]_vars PROVE SocketInv'
  OBVIOUS
<1> USE DEF threadPool, connections, server, Pool!pool, Pool!history
<1>1. ASSUME NEW k \in Clients, PeerSends(k) \/ PeerLeaves(k) PROVE SocketInv'
  BY <1>1, SocketKept DEF PeerSends, PeerLeaves
<1>2. CASE AcceptConnection
  <2>1. /\ UNCHANGED <<worker, task, finished, closing, handler>>
        /\ socket' = [socket EXCEPT ![accepted + 1] = "open"]
    BY <1>2 DEF AcceptConnection
  <2>2. \A k \in Clients \ {accepted + 1} : socket'[k] = socket[k]
    BY <2>1 DEF SocketInv
  <2>3. \A k \in finished : socket'[k] = "closed"
    BY <2>2, PoolFacts DEF SocketInv, Clients
  <2>4. \A w \in Workers :
            worker[w] = "running" /\ handler[w] = "done" => socket'[task[w]] = "closed"
    BY <2>2, PoolFacts DEF SocketInv
  <2> QED
    BY <2>1, <2>3, <2>4 DEF SocketInv
<1>3. CASE EnqueueHandler
  BY <1>3, SocketKept DEF EnqueueHandler, Pool!Enqueue
<1>4. ASSUME NEW w \in Workers, PoolWorkerStep(w) \/ SpuriousWakeup(w) PROVE SocketInv'
  BY <1>4, SocketKept, PoolFacts
  DEF PoolWorkerStep, SpuriousWakeup, Pool!Wait, Pool!Exit, Pool!Take, Pool!Release,
      Pool!SpuriousWakeup
<1>5. ASSUME NEW w \in Workers, HandlerBegins(w) PROVE SocketInv'
  BY <1>5, PoolFacts DEF HandlerBegins, Pool!Run, SocketInv, HandlerStates
<1>6. ASSUME NEW w \in Workers, HandlerStep(w) PROVE SocketInv'
  BY <1>6, SocketHandler
<1>7. ASSUME NEW w \in Workers, HandlerReturns(w) PROVE SocketInv'
  BY <1>7, PoolFacts DEF HandlerReturns, Pool!Return, SocketInv, HandlerStates
<1>8. ASSUME NEW c \in Pool!Callers, PoolCallerStep(c) PROVE SocketInv'
  BY <1>8, SocketKept, PoolFacts
  DEF PoolCallerStep, Pool!NotifyOne, Pool!NotifyAll, Pool!SpinEnds, Pool!ResetStopTasks,
      Pool!Waiting
<1>9. CASE Shutdown
  BY <1>9, SocketKept DEF Shutdown, Pool!Stop
<1>10. CASE PoolStopped
  BY <1>10, PoolFacts DEF PoolStopped, Pool!Joined, Pool!Exited, SocketInv
<1>11. CASE CloseListener
  BY <1>11 DEF CloseListener, SocketInv
<1>12. ASSUME NEW c \in Disconnectors, DisconnectClients(c) PROVE SocketInv'
  BY <1>12, SocketKept DEF DisconnectClients, Pool!StopTasks
<1>13. CASE UNCHANGED vars
  BY <1>13, SocketKept DEF vars
<1> QED
  BY <1>1, <1>2, <1>3, <1>4, <1>5, <1>6, <1>7, <1>8, <1>9, <1>10, <1>11, <1>12, <1>13
  DEF Next, WorkerStep, ShutdownStep

LEMMA SocketAlways == Spec => []SocketInv
  BY PoolAlways, SocketInit, SocketNext, PTL DEF Spec

\* For any number of clients and workers: once the joins of shutdown() are over, the
\* clients whose handlers were enqueued before it are closed.
THEOREM ShutdownCloses == Spec => []ShutdownClosesClients
<1>1. ASSUME PoolInv, SocketInv PROVE ShutdownClosesClients
  <2>1. ASSUME closing \/ worker = [w \in Workers |-> "exited"]
        PROVE  Threads!Exited = Workers
    BY <1>1, <2>1 DEF SocketInv, Threads!Exited
  <2>2. Threads!Exited = Workers => 1..owed \subseteq finished
    BY <1>1 DEF PoolInv, Threads!StopDrains
  <2> QED
    BY <1>1, <2>1, <2>2 DEF ShutdownClosesClients, SocketInv
<1> QED
  BY <1>1, PoolAlways, SocketAlways, PTL

\* When disconnectClients() has waited, every client that was being handled when it
\* began is closed, whatever new clients the workers have taken meanwhile.
THEOREM DisconnectIsWaited == Spec => []DisconnectWaits
<1>1. ASSUME PoolInv, SocketInv PROVE DisconnectWaits
  BY <1>1
  DEF PoolInv, Threads!StopTasksWaits, Threads!Callers, SocketInv, DisconnectWaits,
      Pool!Callers
<1> QED
  BY <1>1, PoolAlways, SocketAlways, PTL

-----------------------------------------------------------------------------
(* The bytes and the callbacks.                                            *)

Endings == {"none", "told", "failed", "left", "answered", "threw"}

FlowTypes ==
    /\ data \in [Workers -> Nat]
    /\ sent \in [Clients -> Nat]
    /\ received \in [Clients -> Nat]
    /\ delivered \in [Clients -> Nat]
    /\ notified \in [Clients -> Nat]
    /\ ending \in [Clients -> Endings]
    /\ peer \in [Clients -> {"open", "closed"}]

Begun(k) == k \in finished \/ \E w \in Workers : worker[w] = "running" /\ task[w] = k

\* Where worker w is in the handler of client k tells how the connection ended and
\* how often the close callback was called; data is what is not delivered yet.
HandlerInv(w, k) ==
    /\ handler[w] \in {"check", "recv", "callback", "lastCallback", "close",
                       "closeSocket", "done"}
    /\ handler[w] \in {"check", "recv", "callback"} => ending[k] = "none"
    /\ handler[w] = "lastCallback" => ending[k] \in {"left", "failed"}
    /\ handler[w] \in {"close", "closeSocket", "done"} =>
          /\ ending[k] # "none"
          /\ ending[k] \notin {"told", "threw"} => data[w] = 0
    /\ notified[k] = IF handler[w] \in {"closeSocket", "done"} THEN 1 ELSE 0
    /\ ending[k] \notin {"told", "threw"} => data[w] = received[k] - delivered[k]

\* A client whose handler has not begun is untouched; one that has left has sent all
\* it will; one whose handler has returned got all its bytes to the callback, unless
\* the handler was told to stop or the callback threw.
FlowInv ==
    /\ FlowTypes
    /\ \A w \in Workers : worker[w] = "running" => HandlerInv(w, task[w])
    /\ \A k \in Clients : ~Begun(k) =>
          /\ received[k] = 0 /\ delivered[k] = 0
          /\ ending[k] = "none" /\ notified[k] = 0 /\ socket[k] # "closed"
    /\ \A k \in Clients : ending[k] = "left" => peer[k] = "closed" /\ received[k] = sent[k]
    /\ \A k \in finished : ending[k] \notin {"told", "threw"} => delivered[k] = received[k]
    /\ \A w \in Workers :
          worker[w] = "running" /\ socket[task[w]] = "closed" => handler[w] = "done"

LEMMA FlowInit == Init => FlowInv
  BY DEF Init, FlowInv, FlowTypes, Begun, Endings, Pool!Init

\* Whoever runs a task, and which ones are finished, is all that matters of the pool.
LEMMA FlowKept ==
    ASSUME FlowInv,
           UNCHANGED <<connections, environment, finished>>,
           \A w \in Workers : worker'[w] = "running" <=> worker[w] = "running",
           \A w \in Workers : worker[w] = "running" => task'[w] = task[w]
    PROVE  FlowInv'
  BY DEF FlowInv, FlowTypes, HandlerInv, Begun, connections, environment

\* What a step of a handler needs to keep for its own client; the others' are not
\* touched.
LEMMA FlowHandler ==
    ASSUME PoolInv, SocketInv, FlowInv, NEW w \in Workers, HandlerStep(w)
    PROVE  FlowInv'
<1> DEFINE k == task[w]
<1>1. /\ worker[w] = "running" /\ UNCHANGED <<worker, task, finished, environment>>
      /\ k \in Clients /\ k \notin finished
      /\ \A v \in Workers \ {w} : worker[v] = "running" => task[v] \in Clients \ {k}
      /\ handler \in [Workers -> HandlerStates]
  BY PoolFacts DEF HandlerStep, HandlerGoes, CheckStop, Receive, ReceiveTimeout,
     ReceiveEnd, Callback, CallbackThrows, CloseCallback, CloseSocket, threadPool, SocketInv
<1>2. HandlerInv(w, k) /\ FlowTypes /\ Begun(k)
  BY <1>1 DEF FlowInv, Begun
<1>3. \A j \in Clients : Begun(j)' <=> Begun(j)
  BY <1>1 DEF Begun
\* It suffices to look at the own client.
<1>4. ASSUME FlowTypes', HandlerInv(w, k)',
             ending'[k] = "left" => peer[k] = "closed" /\ received'[k] = sent[k],
             socket'[k] = "closed" => handler'[w] = "done",
             \A v \in Workers \ {w} : handler'[v] = handler[v] /\ data'[v] = data[v],
             \A j \in Clients \ {k} :
                /\ received'[j] = received[j] /\ delivered'[j] = delivered[j]
                /\ ending'[j] = ending[j] /\ socket'[j] = socket[j]
                /\ notified'[j] = notified[j]
      PROVE  FlowInv'
  <2>1. \A v \in Workers : worker'[v] = "running" => HandlerInv(v, task[v])'
    <3>1. ASSUME NEW v \in Workers \ {w}, worker[v] = "running"
          PROVE  HandlerInv(v, task[v])'
      <4>1. HandlerInv(v, task[v]) /\ task[v] \in Clients \ {k} /\ task'[v] = task[v]
        BY <1>1, <3>1 DEF FlowInv
      <4> QED
        BY <4>1, <1>4 DEF HandlerInv
    <3> QED
      BY <3>1, <1>1, <1>4
  <2>2. \A j \in Clients : ~Begun(j)' =>
            /\ received'[j] = 0 /\ delivered'[j] = 0
            /\ ending'[j] = "none" /\ notified'[j] = 0 /\ socket'[j] # "closed"
    BY <1>2, <1>3, <1>4 DEF FlowInv
  <2>3. \A j \in Clients :
            ending'[j] = "left" => peer'[j] = "closed" /\ received'[j] = sent'[j]
    BY <1>1, <1>4 DEF FlowInv, environment
  <2>4. \A j \in finished' :
            ending'[j] \notin {"told", "threw"} => delivered'[j] = received'[j]
    BY <1>1, <1>4, PoolFacts DEF FlowInv, Clients
  <2>5. \A v \in Workers :
            worker'[v] = "running" /\ socket'[task'[v]] = "closed" => handler'[v] = "done"
    BY <1>1, <1>4 DEF FlowInv
  <2> QED
    BY <1>1, <1>4, <2>1, <2>2, <2>3, <2>4, <2>5 DEF FlowInv
<1> USE <1>1, <1>2, <1>4 DEF FlowTypes, Endings, HandlerGoes, HandlerEnds, environment,
        HandlerStates
<1>5. /\ ending[k] = "left" => peer[k] = "closed" /\ received[k] = sent[k]
      /\ socket[k] = "closed" => handler[w] = "done"
      /\ socket \in [Clients -> {"none", "open", "closed"}]
  BY DEF FlowInv, SocketInv
<1>6. CASE CheckStop(w)
  BY <1>5, <1>6 DEF CheckStop, HandlerInv
<1>7. CASE Receive(w)
  BY <1>5, <1>7 DEF Receive, HandlerInv, Unread
<1>8. CASE ReceiveTimeout(w)
  BY <1>5, <1>8 DEF ReceiveTimeout, HandlerInv, Unread
<1>9. CASE ReceiveEnd(w)
  BY <1>5, <1>9 DEF ReceiveEnd, HandlerInv, Unread
<1>10. CASE Callback(w)
  BY <1>5, <1>10 DEF Callback, HandlerInv
<1>11. CASE CallbackThrows(w)
  BY <1>5, <1>11 DEF CallbackThrows, HandlerInv
<1>12. CASE CloseCallback(w)
  BY <1>5, <1>12 DEF CloseCallback, HandlerInv
<1>13. CASE CloseSocket(w)
  BY <1>5, <1>13 DEF CloseSocket, HandlerInv
<1> QED
  BY <1>6, <1>7, <1>8, <1>9, <1>10, <1>11, <1>12, <1>13 DEF HandlerStep

LEMMA FlowNext == PoolInv /\ SocketInv /\ FlowInv /\ [Next]_vars => FlowInv'
<1> SUFFICES ASSUME PoolInv, SocketInv, FlowInv, [Next]_vars PROVE FlowInv'
  OBVIOUS
<1> USE DEF threadPool, connections, server, environment, Pool!pool, Pool!history
<1>1. ASSUME NEW k \in Clients, PeerSends(k) \/ PeerLeaves(k) PROVE FlowInv'
  BY <1>1 DEF PeerSends, PeerLeaves, FlowInv, FlowTypes, HandlerInv, Begun
<1>2. CASE AcceptConnection
  BY <1>2 DEF AcceptConnection, FlowInv, FlowTypes, HandlerInv, Begun, SocketInv
<1>3. CASE EnqueueHandler
  BY <1>3, FlowKept DEF EnqueueHandler, Pool!Enqueue
<1>4. ASSUME NEW w \in Workers, PoolWorkerStep(w) \/ SpuriousWakeup(w) PROVE FlowInv'
  BY <1>4, FlowKept, PoolFacts
  DEF PoolWorkerStep, SpuriousWakeup, Pool!Wait, Pool!Exit, Pool!Take, Pool!Release,
      Pool!SpuriousWakeup
<1>5. ASSUME NEW w \in Workers, HandlerBegins(w) PROVE FlowInv'
  <2>1. task[w] \in Clients /\ ~Begun(task[w])
    BY <1>5, PoolFacts DEF HandlerBegins, Pool!Run, Begun
  <2>2. \A k \in Clients : Begun(k)' <=> Begun(k) \/ k = task[w]
    BY <1>5, PoolFacts DEF HandlerBegins, Pool!Run, Begun
  <2>3. HandlerInv(w, task[w])'
    BY <1>5, <2>1, PoolFacts DEF HandlerBegins, Pool!Run, HandlerInv, FlowInv, FlowTypes,
       SocketInv
  <2>4. \A v \in Workers \ {w} : worker[v] = "running" => HandlerInv(v, task[v])'
    BY <1>5 DEF HandlerBegins, Pool!Run, HandlerInv, FlowInv, FlowTypes, SocketInv
  <2> QED
    BY <1>5, <2>1, <2>2, <2>3, <2>4, PoolFacts
    DEF HandlerBegins, Pool!Run, FlowInv, FlowTypes, SocketInv
<1>6. ASSUME NEW w \in Workers, HandlerStep(w) PROVE FlowInv'
  BY <1>6, FlowHandler
<1>7. ASSUME NEW w \in Workers, HandlerReturns(w) PROVE FlowInv'
  <2>1. \A k \in Clients : Begun(k)' <=> Begun(k)
    BY <1>7, PoolFacts DEF HandlerReturns, Pool!Return, Begun
  <2>2. HandlerInv(w, task[w]) /\ task[w] \in Clients
    BY <1>7, PoolFacts DEF HandlerReturns, Pool!Return, FlowInv
  <2>3. ending[task[w]] \notin {"told", "threw"} => delivered[task[w]] = received[task[w]]
    BY <1>7, <2>2 DEF HandlerReturns, HandlerInv, FlowInv, FlowTypes
  <2>4. \A v \in Workers : worker'[v] = "running" => HandlerInv(v, task[v])'
    BY <1>7, PoolFacts DEF HandlerReturns, Pool!Return, HandlerInv, FlowInv, FlowTypes,
       SocketInv
  <2> QED
    BY <1>7, <2>1, <2>3, <2>4, PoolFacts
    DEF HandlerReturns, Pool!Return, FlowInv, FlowTypes, SocketInv
<1>8. ASSUME NEW c \in Pool!Callers, PoolCallerStep(c) PROVE FlowInv'
  BY <1>8, FlowKept, PoolFacts
  DEF PoolCallerStep, Pool!NotifyOne, Pool!NotifyAll, Pool!SpinEnds, Pool!ResetStopTasks,
      Pool!Waiting
<1>9. CASE Shutdown
  BY <1>9, FlowKept DEF Shutdown, Pool!Stop
<1>10. CASE ShutdownStep
  BY <1>10, FlowKept DEF ShutdownStep, PoolStopped, CloseListener, Pool!Joined
<1>11. ASSUME NEW c \in Disconnectors, DisconnectClients(c) PROVE FlowInv'
  BY <1>11, FlowKept DEF DisconnectClients, Pool!StopTasks
<1>12. CASE UNCHANGED vars
  BY <1>12, FlowKept DEF vars
<1> QED
  BY <1>1, <1>2, <1>3, <1>4, <1>5, <1>6, <1>7, <1>8, <1>9, <1>10, <1>11, <1>12
  DEF Next, WorkerStep

LEMMA FlowAlways == Spec => []FlowInv
  BY PoolAlways, SocketAlways, FlowInit, FlowNext, PTL DEF Spec

\* The read callback gets every byte once, for any number of clients, workers and
\* bytes, and any size of the buffer.
THEOREM NothingIsDropped == Spec => []NothingDropped
<1>1. ASSUME PoolInv, FlowInv PROVE NothingDropped
  <2>1. ASSUME NEW w \in Workers, worker[w] = "running",
               ending[task[w]] \notin {"told", "threw"}
        PROVE  data[w] = received[task[w]] - delivered[task[w]]
    BY <1>1, <2>1 DEF FlowInv, HandlerInv
  <2>2. ASSUME NEW k \in Clients, socket[k] = "closed"
        PROVE  /\ ending[k] \in {"failed", "left", "answered"} => delivered[k] = received[k]
               /\ ending[k] = "left" => delivered[k] = sent[k]
    <3>1. CASE k \in finished
      BY <1>1, <3>1 DEF FlowInv
    <3>2. ASSUME NEW w \in Workers, worker[w] = "running", task[w] = k
          PROVE  ending[k] \notin {"told", "threw"} => delivered[k] = received[k]
      <4>1. HandlerInv(w, k) /\ handler[w] = "done"
        BY <1>1, <2>2, <3>2 DEF FlowInv
      <4> QED
        BY <1>1, <4>1 DEF HandlerInv, FlowInv, FlowTypes
    <3>3. Begun(k)
      BY <1>1, <2>2 DEF FlowInv
    <3> QED
      BY <1>1, <3>1, <3>2, <3>3 DEF FlowInv, Begun
  <2> QED
    BY <2>1, <2>2 DEF NothingDropped
<1> QED
  BY <1>1, PoolAlways, FlowAlways, PTL

\* A step of one handler touches its own client, and the handler's place says how
\* often the close callback of the client was called.
CallbackStep(k) ==
    /\ notified'[k] # notified[k] => notified[k] = 0 /\ notified'[k] = 1
    /\ socket[k] = "open" /\ socket'[k] = "closed" => notified[k] = 1
    /\ delivered'[k] # delivered[k] \/ ending'[k] # ending[k] => notified[k] = 0

LEMMA CallbackOrder ==
    ASSUME PoolInv, SocketInv, FlowInv, [Next]_vars, NEW k \in Clients
    PROVE  CallbackStep(k)
<1>1. ASSUME NEW w \in Workers, HandlerStep(w) PROVE CallbackStep(k)
  <2>1. task[w] \in Clients /\ HandlerInv(w, task[w]) /\ FlowTypes
    BY <1>1, PoolFacts DEF HandlerStep, HandlerGoes, CheckStop, Receive, ReceiveTimeout,
       ReceiveEnd, Callback, CallbackThrows, CloseCallback, CloseSocket, FlowInv
  <2> USE <2>1 DEF HandlerGoes, HandlerEnds, HandlerInv, FlowTypes, CallbackStep
  <2>2. CASE CheckStop(w)
    BY <2>2 DEF CheckStop
  <2>3. CASE Receive(w) \/ ReceiveTimeout(w)
    BY <2>3 DEF Receive, ReceiveTimeout
  <2>4. CASE ReceiveEnd(w)
    BY <2>4 DEF ReceiveEnd
  <2>5. CASE Callback(w)
    BY <2>5 DEF Callback
  <2>6. CASE CallbackThrows(w)
    BY <2>6 DEF CallbackThrows
  <2>7. CASE CloseCallback(w)
    BY <2>7 DEF CloseCallback
  <2>8. CASE CloseSocket(w)
    BY <2>8 DEF CloseSocket, SocketInv
  <2> QED
    BY <1>1, <2>2, <2>3, <2>4, <2>5, <2>6, <2>7, <2>8 DEF HandlerStep
<1>2. CASE AcceptConnection
  BY <1>2 DEF AcceptConnection, SocketInv, CallbackStep
<1>3. CASE UNCHANGED <<socket, delivered, notified, ending>>
  BY <1>3 DEF CallbackStep
<1>4. ASSUME ~AcceptConnection, \A w \in Workers : ~HandlerStep(w)
      PROVE  UNCHANGED <<socket, delivered, notified, ending>>
  BY <1>4 DEF Next, PeerSends, PeerLeaves, EnqueueHandler, WorkerStep, PoolWorkerStep,
     SpuriousWakeup, HandlerBegins, HandlerReturns, PoolCallerStep, Shutdown, ShutdownStep,
     PoolStopped, CloseListener, DisconnectClients, vars, connections
<1> QED
  BY <1>1, <1>2, <1>3, <1>4

\* For any number of clients the close callback is called at most once, has been called
\* when the socket is closed, and the read callback never comes after it.
THEOREM CloseCallbackIsLast == Spec => CloseCallbackLast
<1>1. ASSUME PoolInv, SocketInv, FlowInv, [Next]_vars
      PROVE  [\A k \in Clients : CallbackStep(k)]_vars
  BY <1>1, CallbackOrder
<1>2. Spec => [][\A k \in Clients : CallbackStep(k)]_vars
  BY <1>1, PoolAlways, SocketAlways, FlowAlways, PTL DEF Spec
<1> QED
  BY <1>2 DEF CloseCallbackLast, CallbackStep
=============================================================================
