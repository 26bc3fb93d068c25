---------------------------- MODULE SocketClient ----------------------------
(***************************************************************************)
(* net::SocketClient with TCP (socket_client.cpp): clients that connect,   *)
(* read, write, disconnect and are moved, the peers at the other ends, and *)
(* other threads of the process that open and close descriptors.  One      *)
(* thread calls all clients, another one may write meanwhile, which is     *)
(* when readBytesUntil() finds itself disconnected.                        *)
(***************************************************************************)
EXTENDS Integers, Sequences, FiniteSetsExt, SequencesExt

CONSTANTS
    Clients,            \* the SocketClient objects
    Data, Delimiter,    \* the bytes that readBytesUntil() tells apart
    MaxDescriptors,     \* how many descriptors the process may have
    MaxSent             \* how much a peer sends, a bound of the model

ASSUME ClientAssumption ==
    /\ "none" \notin Clients
    /\ Data # Delimiter
    /\ MaxDescriptors \in Nat /\ MaxSent \in Nat

VARIABLES
    client,     \* the members of each client
    table,      \* the descriptors of the process and what they lead to
    reading,    \* the loop of readBytesUntil() in progress, or NotReading
    answer,     \* how the latest readBytesUntil() ended
    stale,      \* the clients that have closed the socket they still hold
    robbed      \* which client has touched what was not its own

vars == <<client, table, reading, answer, stale, robbed>>

Descriptors == 1..MaxDescriptors
SocketNone == 0
NotReading == [client |-> "none", result |-> <<>>]
NoAnswer == [ended |-> "never", live |-> FALSE]
Byte == {Data, Delimiter}

Closed == [who |-> "nobody", linked |-> FALSE, peer |-> FALSE, sent |-> <<>>,
           handed |-> <<>>, wire |-> <<>>]
Free == {d \in Descriptors : table[d] = Closed}
Lowest == Min(Free)

\* m_blocking decides between waiting and failing in recv(), which may fail
\* at any time (see Received); it is left out.
Fresh == [m_socket |-> SocketNone, m_connected |-> FALSE]
socket(c) == client[c].m_socket
isConnected(c) == client[c].m_connected
Entry(c) == IF socket(c) = SocketNone THEN Closed ELSE table[socket(c)]
SetConnected(c, flag) == client' = [client EXCEPT ![c].m_connected = flag]

Idle == reading = NotReading

\* c uses its socket by number: it touches what is not its own when others
\* have that number now, which is no wonder after c has closed it.
Theirs(c) == socket(c) # SocketNone
             /\ \/ Entry(c).who = "others"
                \/ \E d \in Clients \ {c} : socket(d) = socket(c) /\ d \notin stale
                                           /\ Entry(c).who = "client"
Touch(c) == robbed' = IF Theirs(c) THEN (IF c \in stale THEN "again" ELSE "first") ELSE robbed

-----------------------------------------------------------------------------
(* Connections.                                                            *)

Init ==
    /\ client = [c \in Clients |-> Fresh]
    /\ table = [d \in Descriptors |-> Closed]
    /\ reading = NotReading /\ answer = NoAnswer
    /\ stale = {} /\ robbed = "nothing"

\* Whatever socket the client held is forgotten.  Without a descriptor left
\* m_connected stays what it was; a connection that is refused leaves the
\* new socket open.
connect(c) ==
    /\ stale' = stale \ {c}
    /\ IF Free = {}
       THEN client' = [client EXCEPT ![c].m_socket = SocketNone] /\ UNCHANGED table
       ELSE \E accepted \in BOOLEAN :
                /\ client' = [client EXCEPT ![c].m_socket = Lowest, ![c].m_connected = accepted]
                /\ table' = [table EXCEPT ![Lowest] =
                        [Closed EXCEPT !.who = "client", !.linked = accepted, !.peer = accepted]]
    /\ UNCHANGED <<reading, answer, robbed>>

\* disconnect() keeps the number of the socket that it closes, so that it
\* and the destructor close it again.
disconnect(c) ==
    /\ socket(c) # SocketNone
    /\ Touch(c)
    /\ table' = [table EXCEPT ![socket(c)] = Closed]
    /\ SetConnected(c, FALSE)
    /\ stale' = stale \union {c}
    /\ UNCHANGED <<reading, answer>>

\* The destructor, and a new object in its place.
Destroy(c) ==
    /\ Touch(c)
    /\ table' = IF socket(c) = SocketNone THEN table ELSE [table EXCEPT ![socket(c)] = Closed]
    /\ client' = [client EXCEPT ![c] = Fresh]
    /\ stale' = stale \ {c}
    /\ UNCHANGED <<reading, answer>>

\* What is left behind by moving from a client: a wrong move leaves all.
LeftAll(m) == m
Left(m) == [m EXCEPT !.m_socket = SocketNone]

\* The constructor and the operator= that move: nothing that the target had
\* is closed, and the source remains connected, without a socket.
Move(c, to) ==
    /\ c # to
    /\ client' = [client EXCEPT ![to] = client[c], ![c] = Left(client[c])]
    /\ stale' = (stale \ {c, to}) \union {d \in {to} : c \in stale}
    /\ UNCHANGED <<table, reading, answer, robbed>>

-----------------------------------------------------------------------------
(* Data.                                                                   *)

\* What recv() may return of at most n bytes: -1 without a connection, and
\* with one at any time (no data for a client that does not block, a reset,
\* a signal); 0 at the end of the stream.
Failed == -1
Received(c, n) ==
    LET e == Entry(c)
    IN  {Failed} \union
        IF ~e.linked THEN {}
        ELSE IF e.wire # <<>> THEN 1..Min({n, Len(e.wire)})
        ELSE IF e.peer THEN {} ELSE {0}

\* The first k bytes leave the wire; handed is what the caller will have.
Take(c, k) ==
    table' = [table EXCEPT ![socket(c)].wire = SubSeq(@, k + 1, Len(@)),
                           ![socket(c)].handed = @ \o SubSeq(Entry(c).wire, 1, k)]

\* readBytes() into a buffer, which does not ask whether it is connected.
readBytes(c, n) ==
    /\ Touch(c)
    /\ \E k \in Received(c, n) : IF k > 0 THEN Take(c, k) ELSE UNCHANGED table
    /\ UNCHANGED <<client, reading, answer, stale>>

\* readBytes() into a vector, and readString().
readVector(c, n) == isConnected(c) /\ readBytes(c, n)

readBytesUntil(c) ==
    /\ reading' = [client |-> c, result |-> <<>>]
    /\ UNCHANGED <<client, table, answer, stale, robbed>>

\* The call returns; what it had read so far is with the caller then, who asks
\* whether the client is still connected.
Return(c, ended, last) ==
    /\ reading' = NotReading
    /\ answer' = [ended |-> ended, live |-> client'[c].m_connected]
    /\ table' = IF reading.result = <<>> /\ last = <<>> THEN table
                ELSE [table EXCEPT ![socket(c)].handed = @ \o reading.result \o last,
                                   ![socket(c)].wire = SubSeq(@, Len(last) + 1, Len(@))]

\* At the end of the stream the loop goes on; a wrong one returns what it has.
GiveUp(c) == UNCHANGED client /\ Return(c, "end", <<>>)
Continue(c) == UNCHANGED <<client, table, reading, answer>>
AtEnd(c) == Continue(c)

\* One round of the loop.
NextByte(c) ==
    /\ reading.client = c
    /\ \/ /\ ~isConnected(c)
          /\ UNCHANGED client
          /\ Return(c, "disconnected", <<>>)
       \/ /\ isConnected(c) /\ Failed \in Received(c, 1)
          /\ SetConnected(c, FALSE)
          /\ Return(c, "failed", <<>>)
       \/ /\ isConnected(c) /\ 0 \in Received(c, 1)
          /\ AtEnd(c)
       \/ /\ isConnected(c) /\ 1 \in Received(c, 1)
          /\ UNCHANGED client
          /\ IF Head(Entry(c).wire) = Delimiter
             THEN Return(c, "delimiter", <<Delimiter>>)
             ELSE /\ reading' = [reading EXCEPT !.result = Append(@, Data)]
                  /\ table' = [table EXCEPT ![socket(c)].wire = Tail(@)]
                  /\ UNCHANGED answer
    /\ UNCHANGED <<stale, robbed>>

\* writeBytes(), also by the other thread: send() may fail at any time, and
\* fails without a connection.  Where it would raise SIGPIPE, the process is
\* taken to ignore that signal.
writeBytes(c) ==
    /\ isConnected(c)
    /\ Touch(c)
    /\ \/ Entry(c).linked /\ UNCHANGED client
       \/ SetConnected(c, FALSE)
    /\ UNCHANGED <<table, reading, answer, stale>>

-----------------------------------------------------------------------------
(* Everybody else.                                                         *)

PeerSends(d) ==
    /\ table[d].peer /\ Len(table[d].sent) < MaxSent
    /\ \E b \in Byte : table' = [table EXCEPT ![d].sent = Append(@, b), ![d].wire = Append(@, b)]
    /\ UNCHANGED <<client, reading, answer, stale, robbed>>

PeerCloses(d) ==
    /\ table[d].peer
    /\ table' = [table EXCEPT ![d].peer = FALSE]
    /\ UNCHANGED <<client, reading, answer, stale, robbed>>

OthersOpen ==
    /\ Free # {} /\ \A d \in Descriptors : table[d].who # "others"
    /\ table' = [table EXCEPT ![Lowest] = [Closed EXCEPT !.who = "others"]]
    /\ UNCHANGED <<client, reading, answer, stale, robbed>>

OthersClose(d) ==
    /\ table[d].who = "others"
    /\ table' = [table EXCEPT ![d] = Closed]
    /\ UNCHANGED <<client, reading, answer, stale, robbed>>

Call(c) ==
    \/ connect(c)
    \/ disconnect(c)
    \/ Destroy(c)
    \/ \E to \in Clients : Move(c, to)
    \/ \E n \in 1..2 : readBytes(c, n)
    \/ \E n \in 1..2 : readVector(c, n)
    \/ readBytesUntil(c)

\* What follows the use of a descriptor of others is left out.
Next ==
    /\ robbed = "nothing"
    /\ \/ \E c \in Clients : Idle /\ Call(c)
       \/ \E c \in Clients : NextByte(c) \/ writeBytes(c)
       \/ \E d \in Descriptors : PeerSends(d) \/ PeerCloses(d) \/ OthersClose(d)
       \/ OthersOpen

Spec == Init /\ [][Next]_vars

-----------------------------------------------------------------------------
(* Properties.                                                             *)

\* A client closes, reads or writes what others in the process have opened
\* only by a number that it has closed before and kept; and a connected
\* client with a socket has it open and for itself.
SocketsOwned ==
    /\ robbed # "first"
    /\ robbed = "nothing" => \A c \in Clients :
            isConnected(c) /\ socket(c) # SocketNone =>
                /\ Entry(c).who = "client" /\ Entry(c).linked
                /\ \A d \in Clients \ {c} : socket(d) = socket(c) => d \in stale

\* The bytes of a connection reach the callers in their order and completely:
\* those handed over, those in the result of the running readBytesUntil() and
\* those that wait are the ones sent, and only the last of a message is a
\* delimiter.  A message that readBytesUntil() returns without its delimiter
\* leaves the client disconnected.
MessagesWhole ==
    /\ answer.live => answer.ended = "delimiter"
    /\ ~Contains(reading.result, Delimiter)
    /\ \A d \in Descriptors :
            table[d].sent = table[d].handed
                \o (IF ~Idle /\ socket(reading.client) = d THEN reading.result ELSE <<>>)
                \o table[d].wire
=============================================================================
