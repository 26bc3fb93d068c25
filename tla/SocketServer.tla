---------------------------- MODULE SocketServer ----------------------------
(***************************************************************************)
(* wolv::net::SocketServer (libs/net/source/net/socket_server.cpp) on top  *)
(* of the ThreadPool it owns.                                              *)
(*                                                                         *)
(* The task of the k-th enqueue() is the handler of the k-th accepted      *)
(* client; between the pool's Run and Return it takes the steps of         *)
(* handleClient() and of the lambda in accept().  Received bytes are only  *)
(* counted.  The operating system's half of a connection, the peer, is     *)
(* external.                                                               *)
(***************************************************************************)
EXTENDS Integers, Sequences, FiniteSets

CONSTANTS
    Workers,        \* the threads of m_threadPool: maxClientCount of them
    Acceptor,       \* the thread that calls accept()
    Disconnectors,  \* the threads that call disconnectClients()
    Owner,          \* the thread that calls shutdown()
    MaxClients,     \* bound: how many connections are ever accepted
    MaxBytes,       \* bound: how many bytes a peer ever sends
    BufferSize,     \* m_bufferSize
    KeepAlive       \* the clients accepted with keepAlive = true

ASSUME ServerAssumption ==
    /\ IsFiniteSet(Workers) /\ Workers # {} /\ IsFiniteSet(Disconnectors)
    /\ MaxClients \in Nat
    /\ MaxBytes \in Nat
    /\ BufferSize \in Nat \ {0}
    /\ KeepAlive \subseteq 1..MaxClients

VARIABLES
    m_tasks, m_stop, m_stopTasks, m_threadsAvailable, worker, task, caller,
    accepted, finished, owed, interrupted,      \* the pool's
    m_socket,       \* "listening", "none"
    inHand,         \* accept() has a connection that is not enqueued yet
    closing,        \* shutdown() has joined the pool, m_socket is still open
    socket,         \* the client sockets: "none", "open", "closed"
    handler,        \* where each worker is in its client's handler
    data,           \* the size of each handler's vector data
    peer,           \* "open", "closed"
    sent,           \* bytes each peer has sent
    received,       \* history: bytes read from each client
    delivered,      \* history: bytes given to the read callback
    notified,       \* history: how often each client's close callback was called
    ending          \* history: what made each client's handler end

Pool == INSTANCE ThreadPool WITH
    Producers <- {Acceptor},
    Interrupters <- Disconnectors,
    MaxTasks <- MaxClients,
    LongTasks <- {}

Clients == 1..MaxClients

threadPool == <<m_tasks, m_stop, m_stopTasks, m_threadsAvailable, worker, task,
                caller, accepted, finished, owed, interrupted>>
connections == <<socket, handler, data, received, delivered, notified, ending>>
environment == <<peer, sent>>
server == <<m_socket, inHand, closing>>
vars == <<threadPool, server, connections, environment>>

\* The constructor: it listens, or it failed and closed its socket again.
Init ==
    /\ Pool!Init
    /\ m_socket \in {"listening", "none"}
    /\ inHand = FALSE
    /\ closing = FALSE
    /\ socket = [k \in Clients |-> "none"]
    /\ handler = [w \in Workers |-> "idle"]
    /\ data = [w \in Workers |-> 0]
    /\ peer = [k \in Clients |-> "open"]
    /\ sent = [k \in Clients |-> 0]
    /\ received = [k \in Clients |-> 0]
    /\ delivered = [k \in Clients |-> 0]
    /\ notified = [k \in Clients |-> 0]
    /\ ending = [k \in Clients |-> "none"]

-----------------------------------------------------------------------------
(* The peers.                                                              *)

PeerSends(k) ==
    /\ socket[k] = "open" /\ peer[k] = "open"
    /\ sent[k] < MaxBytes
    /\ sent' = [sent EXCEPT ![k] = @ + 1]
    /\ UNCHANGED <<threadPool, server, connections, peer>>

PeerLeaves(k) ==
    /\ socket[k] = "open" /\ peer[k] = "open"
    /\ peer' = [peer EXCEPT ![k] = "closed"]
    /\ UNCHANGED <<threadPool, server, connections, sent>>

-----------------------------------------------------------------------------
(* accept(): ::accept() on the listening socket, then enqueue().  Without  *)
(* a connection (or a listening socket) it returns and changes nothing.    *)

AcceptConnection ==
    /\ caller[Acceptor] = "idle" /\ ~inHand
    /\ m_socket = "listening"
    /\ accepted < MaxClients
    /\ socket' = [socket EXCEPT ![accepted + 1] = "open"]
    /\ inHand' = TRUE
    /\ UNCHANGED <<threadPool, m_socket, closing, handler, data, received,
                   delivered, notified, ending, environment>>

EnqueueHandler ==
    /\ inHand
    /\ Pool!Enqueue(Acceptor)
    /\ inHand' = FALSE
    /\ UNCHANGED <<m_socket, closing, connections, environment>>

-----------------------------------------------------------------------------
(* The lambda of accept() and handleClient(), run by worker w.             *)

HandlerGoes(w, from, to) ==
    /\ worker[w] = "running"
    /\ handler[w] = from
    /\ handler' = [handler EXCEPT ![w] = to]
    /\ UNCHANGED <<threadPool, server, environment>>

HandlerEnds(w, how) == ending' = [ending EXCEPT ![task[w]] = how]

Unread(k) == sent[k] - received[k]

(* Faulty variants, for the runs to tell apart.                            *)

\* A handler that does not look at shouldStop.
CheckNothing(w) ==
    /\ HandlerGoes(w, "check", "recv")
    /\ UNCHANGED <<socket, data, received, delivered, notified, ending>>

\* A handler that is told to stop and leaves without closing the socket.
CheckStopLeavesOpen(w) ==
    /\ \/ ~m_stopTasks /\ HandlerGoes(w, "check", "recv") /\ ending' = ending
       \/ m_stopTasks /\ HandlerGoes(w, "check", "done") /\ HandlerEnds(w, "told")
    /\ UNCHANGED <<socket, data, received, delivered, notified>>

\* A timeout that loops before the callback had a chance.
ReceiveTimeoutLoops(w) ==
    /\ HandlerGoes(w, "recv", "check")
    /\ peer[task[w]] = "open" /\ Unread(task[w]) = 0
    /\ UNCHANGED <<socket, data, received, delivered, notified, ending>>

\* An end of the connection that forgets what is in data.
ReceiveEndDrops(w) ==
    /\ HandlerGoes(w, "recv", "close")
    /\ \/ peer[task[w]] = "closed" /\ Unread(task[w]) = 0 /\ HandlerEnds(w, "left")
       \/ HandlerEnds(w, "failed")
    /\ UNCHANGED <<socket, data, received, delivered, notified>>

\* A throwing callback whose catch block calls the close callback, too.
CallbackThrowsTwice(w) ==
    /\ \/ HandlerGoes(w, "lastCallback", "close")
       \/ HandlerGoes(w, "callback", "close")
    /\ HandlerEnds(w, "threw")
    /\ notified' = [notified EXCEPT ![task[w]] = @ + 1]
    /\ UNCHANGED <<socket, data, received, delivered>>

-----------------------------------------------------------------------------
\* The loop condition; what is in data when it ends the loop is dropped.
CheckStop(w) ==
    /\ \/ ~m_stopTasks /\ HandlerGoes(w, "check", "recv") /\ ending' = ending
       \/ m_stopTasks /\ HandlerGoes(w, "check", "close") /\ HandlerEnds(w, "told")
    /\ UNCHANGED <<socket, data, received, delivered, notified>>

\* recv() > 0: append to data and loop.
Receive(w) ==
    /\ HandlerGoes(w, "recv", "check")
    /\ \E n \in 1..BufferSize :
          /\ n <= Unread(task[w])
          /\ data' = [data EXCEPT ![w] = @ + n]
          /\ received' = [received EXCEPT ![task[w]] = @ + n]
    /\ UNCHANGED <<socket, delivered, notified, ending>>

\* recv() < 0 after the 100 ms of SO_RCVTIMEO: the client is still connected.
ReceiveTimeout(w) ==
    /\ HandlerGoes(w, "recv", IF data[w] > 0 THEN "callback" ELSE "check")
    /\ peer[task[w]] = "open" /\ Unread(task[w]) = 0
    /\ UNCHANGED <<socket, data, received, delivered, notified, ending>>

\* recv() = 0 when the peer has left, or < 0 with any other error, at any time.
ReceiveEnd(w) ==
    /\ HandlerGoes(w, "recv", IF data[w] > 0 THEN "lastCallback" ELSE "close")
    /\ \/ peer[task[w]] = "closed" /\ Unread(task[w]) = 0 /\ HandlerEnds(w, "left")
       \/ HandlerEnds(w, "failed")
    /\ UNCHANGED <<socket, data, received, delivered, notified>>

\* The read callback gets all of data; its result is sent, data is cleared.
Callback(w) ==
    /\ \/ HandlerGoes(w, "lastCallback", "close") /\ ending' = ending
       \/ /\ task[w] \in KeepAlive
          /\ HandlerGoes(w, "callback", "check") /\ ending' = ending
       \/ /\ task[w] \notin KeepAlive
          /\ HandlerGoes(w, "callback", "close") /\ HandlerEnds(w, "answered")
    /\ delivered' = [delivered EXCEPT ![task[w]] = @ + data[w]]
    /\ data' = [data EXCEPT ![w] = 0]
    /\ UNCHANGED <<socket, received, notified>>

\* The callback throws: the lambda catches, the handler is left.
CallbackThrows(w) ==
    /\ \/ HandlerGoes(w, "lastCallback", "close")
       \/ HandlerGoes(w, "callback", "close")
    /\ HandlerEnds(w, "threw")
    /\ UNCHANGED <<socket, data, received, delivered, notified>>

CloseCallback(w) ==
    /\ HandlerGoes(w, "close", "closeSocket")
    /\ notified' = [notified EXCEPT ![task[w]] = @ + 1]
    /\ UNCHANGED <<socket, data, received, delivered, ending>>

CloseSocket(w) ==
    /\ HandlerGoes(w, "closeSocket", "done")
    /\ socket' = [socket EXCEPT ![task[w]] = "closed"]
    /\ UNCHANGED <<data, received, delivered, notified, ending>>

HandlerStep(w) ==
    \/ CheckStop(w)
    \/ Receive(w) \/ ReceiveTimeout(w) \/ ReceiveEnd(w)
    \/ Callback(w) \/ CallbackThrows(w)
    \/ CloseCallback(w) \/ CloseSocket(w)

\* The pool calls the lambda; the vector data is new.
HandlerBegins(w) ==
    /\ Pool!Run(w)
    /\ handler' = [handler EXCEPT ![w] = "check"]
    /\ data' = [data EXCEPT ![w] = 0]
    /\ UNCHANGED <<server, socket, received, delivered, notified, ending,
                   environment>>

HandlerReturns(w) ==
    /\ handler[w] = "done"
    /\ Pool!Return(w)
    /\ handler' = [handler EXCEPT ![w] = "idle"]
    /\ UNCHANGED <<server, socket, data, received, delivered, notified, ending,
                   environment>>

-----------------------------------------------------------------------------
(* shutdown(): stop the pool, close the listening socket, forget it.       *)

Shutdown ==
    /\ ~closing
    /\ Pool!Stop(Owner)
    /\ UNCHANGED <<server, connections, environment>>

PoolStopped ==
    /\ Pool!Joined(Owner)
    /\ closing' = TRUE
    /\ UNCHANGED <<m_socket, inHand, connections, environment>>

CloseListener ==
    /\ closing
    /\ m_socket' = "none"
    /\ closing' = FALSE
    /\ UNCHANGED <<threadPool, inHand, connections, environment>>

DisconnectClients(c) ==
    /\ c = Owner => ~closing
    /\ Pool!StopTasks(c)
    /\ UNCHANGED <<server, connections, environment>>

-----------------------------------------------------------------------------
\* The steps of the pool that are the pool's alone.
PoolWorkerStep(w) ==
    /\ Pool!Wait(w) \/ Pool!Exit(w) \/ Pool!Take(w) \/ Pool!Release(w)
    /\ UNCHANGED <<server, connections, environment>>

PoolCallerStep(c) ==
    /\ \/ Pool!NotifyOne(c) \/ Pool!NotifyAll(c)
       \/ Pool!SpinEnds(c) \/ Pool!ResetStopTasks(c)
    /\ UNCHANGED <<server, connections, environment>>

SpuriousWakeup(w) ==
    /\ Pool!SpuriousWakeup(w)
    /\ UNCHANGED <<server, connections, environment>>

WorkerStep(w) ==
    \/ PoolWorkerStep(w)
    \/ HandlerBegins(w)
    \/ HandlerStep(w)
    \/ HandlerReturns(w)

ShutdownStep == PoolStopped \/ CloseListener

Next ==
    \/ \E k \in Clients : PeerSends(k) \/ PeerLeaves(k)
    \/ AcceptConnection
    \/ EnqueueHandler
    \/ \E w \in Workers : WorkerStep(w) \/ SpuriousWakeup(w)
    \/ \E c \in Pool!Callers : PoolCallerStep(c)
    \/ Shutdown
    \/ ShutdownStep
    \/ \E c \in Disconnectors : DisconnectClients(c)

Spec == Init /\ [][Next]_vars

\* Threads that can go on do; recv() comes back within its timeout and the
\* callbacks return.  Peers and the program owe nothing.
Fairness ==
    /\ \A w \in Workers : WF_vars(WorkerStep(w))
    /\ \A c \in Pool!Callers : WF_vars(PoolCallerStep(c))
    /\ WF_vars(ShutdownStep)
    /\ WF_vars(EnqueueHandler)

FairSpec == Spec /\ Fairness

-----------------------------------------------------------------------------
(* Properties.                                                             *)

\* The read callback gets each byte once: what a handler holds is what it received
\* and has not delivered.  When a connection ends without the server having been
\* told to stop and without an exception, nothing received is dropped, and from a
\* client that left in order everything it ever sent has been delivered.
NothingDropped ==
    /\ \A w \in Workers :
          worker[w] = "running" /\ ending[task[w]] \notin {"told", "threw"} =>
              data[w] = received[task[w]] - delivered[task[w]]
    /\ \A k \in Clients :
          socket[k] = "closed" =>
              /\ ending[k] \in {"failed", "left", "answered"} =>
                    delivered[k] = received[k]
              /\ ending[k] = "left" => delivered[k] = sent[k]

\* A client's close callback is called once, before its socket is closed, and its
\* read callback, also one that throws, never runs afterwards.
CloseCallbackLast ==
    [][\A k \in Clients :
          /\ notified'[k] # notified[k] => notified[k] = 0 /\ notified'[k] = 1
          /\ socket[k] = "open" /\ socket'[k] = "closed" => notified[k] = 1
          /\ delivered'[k] # delivered[k] \/ ending'[k] # ending[k] =>
                notified[k] = 0]_vars

\* From the joins of shutdown() on, every client whose handler was enqueued before
\* shutdown() is closed.  (A connection that accept() still has in hand, or
\* enqueues on the stopped pool, stays open: the code does not close it.)
ShutdownClosesClients ==
    (closing \/ worker = [w \in Workers |-> "exited"]) =>
        \A k \in 1..owed : socket[k] = "closed"

\* When disconnectClients() has waited, the clients that were being handled when
\* it began are disconnected.
DisconnectWaits ==
    \A c \in Pool!Callers :
        caller[c] = "reset" => \A k \in interrupted[c] : socket[k] = "closed"

\* shutdown() comes back with the listening socket closed, however many clients
\* are connected or waiting for a worker.
ShutdownReturns ==
    caller[Owner] = "notifyAll" ~> m_socket = "none" /\ caller[Owner] = "idle"

\* disconnectClients() comes back, though peers neither leave nor stay silent.
DisconnectReturns ==
    \A c \in Disconnectors : caller[c] = "spin" ~> caller[c] = "idle"

\* What a client has sent reaches the read callback (or its connection ends) once
\* a worker handles it.
Served ==
    \A k \in Clients :
        (sent[k] > 0 /\ \E w \in Workers : task[w] = k)
            ~> (delivered[k] > 0 \/ socket[k] = "closed")
=============================================================================
