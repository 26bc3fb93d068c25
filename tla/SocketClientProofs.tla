------------------------- MODULE SocketClientProofs -------------------------
(***************************************************************************)
(* Theorems about SocketClient, for every number of clients, descriptors   *)
(* and bytes.                                                              *)
(***************************************************************************)
EXTENDS SocketClient, TLAPS, SequenceTheorems, WellFoundedInduction

-----------------------------------------------------------------------------
(* The lowest free descriptor.                                             *)

LEMMA MinIs ==
    ASSUME NEW S \in SUBSET Nat, S # {}
    PROVE  Min(S) \in S /\ \A y \in S : Min(S) <= y
<1> DEFINE R == OpToRel(<, Nat)
<1>1. \A x, y \in Nat : y < x => <<y, x>> \in R
  BY DEF OpToRel
<1> HIDE DEF R
<1>2. \E x \in S : \A y \in S : ~(<<y, x>> \in R)
  BY NatLessThanWellFounded, WFMin DEF R
<1>3. \E x \in S : \A y \in S : x <= y
  <2>1. PICK x \in S : \A y \in S : ~(<<y, x>> \in R)
    BY <1>2
  <2>2. \A y \in S : ~(y < x)
    BY <1>1, <2>1
  <2>3. \A y \in S : x <= y
    BY <2>2
  <2> QED
    BY <2>3
<1> QED
  BY <1>3 DEF Min

-----------------------------------------------------------------------------
(* The inductive invariant.                                                *)

Members == [m_socket : 0..MaxDescriptors, m_connected : BOOLEAN]

Entries == [who : {"nobody", "client", "others"}, linked : BOOLEAN, peer : BOOLEAN,
            sent : Seq(Byte), handed : Seq(Byte), wire : Seq(Byte)]

TypeOK ==
    /\ client \in [Clients -> Members]
    /\ table \in [Descriptors -> Entries]
    /\ reading \in [client : Clients \union {"none"}, result : Seq({Data})]
    /\ reading.client = "none" => reading.result = <<>>
    /\ stale \in SUBSET Clients
    /\ robbed \in {"nothing", "first", "again"}
    /\ answer.live => answer.ended = "delimiter"

\* A client that has not closed its socket has it for itself, a connected one is
\* such a client, and so is the one that has begun to read a message.
OwnInv ==
    /\ robbed # "first"
    /\ robbed = "nothing" =>
          /\ \A c \in Clients \ stale :
                socket(c) # SocketNone => table[socket(c)].who = "client"
          /\ \A c, d \in Clients \ stale :
                c # d /\ socket(c) # SocketNone => socket(c) # socket(d)
          /\ \A c \in Clients :
                isConnected(c) /\ socket(c) # SocketNone =>
                    c \notin stale /\ table[socket(c)].linked
          /\ reading.result # <<>> =>
                reading.client \notin stale /\ socket(reading.client) # SocketNone

\* What readBytesUntil() has read on descriptor d and not returned yet.
Pending(d) == IF ~Idle /\ socket(reading.client) = d THEN reading.result ELSE <<>>

WholeInv ==
    \A d \in Descriptors : table[d].sent = table[d].handed \o Pending(d) \o table[d].wire

-----------------------------------------------------------------------------
(* Every step keeps the types.                                             *)

LEMMA MembersWith ==
    /\ Fresh \in Members
    /\ \A m \in Members :
          /\ Left(m) \in Members
          /\ \A n \in 0..MaxDescriptors : [m EXCEPT !.m_socket = n] \in Members
          /\ \A b \in BOOLEAN : [m EXCEPT !.m_connected = b] \in Members
<1>1. SocketNone \in 0..MaxDescriptors
  BY ClientAssumption DEF SocketNone
<1>2. Fresh \in Members
  BY <1>1 DEF Fresh, Members
<1>3. \A m \in Members : Left(m) \in Members
  BY <1>1 DEF Left, Members
<1>4. ASSUME NEW m \in Members, NEW n \in 0..MaxDescriptors
      PROVE  [m EXCEPT !.m_socket = n] \in Members
  BY DEF Members
<1>5. ASSUME NEW m \in Members, NEW b \in BOOLEAN
      PROVE  [m EXCEPT !.m_connected = b] \in Members
  BY DEF Members
<1> QED
  BY <1>2, <1>3, <1>4, <1>5

LEMMA EntriesWith ==
    \A e \in Entries :
        /\ [e EXCEPT !.who = "others"] \in Entries
        /\ \A b \in BOOLEAN :
              [e EXCEPT !.who = "client", !.linked = b, !.peer = b] \in Entries
        /\ \A s, t \in Seq(Byte) : /\ [e EXCEPT !.sent = s, !.wire = t] \in Entries
                                   /\ [e EXCEPT !.wire = t, !.handed = s] \in Entries
                                   /\ [e EXCEPT !.handed = s, !.wire = t] \in Entries
                                   /\ [e EXCEPT !.wire = t] \in Entries
<1>1. ASSUME NEW e \in Entries
      PROVE  [e EXCEPT !.who = "others"] \in Entries
  BY DEF Entries
<1>2. ASSUME NEW e \in Entries, NEW b \in BOOLEAN
      PROVE  [e EXCEPT !.who = "client", !.linked = b, !.peer = b] \in Entries
  BY DEF Entries
<1>3. ASSUME NEW e \in Entries, NEW s \in Seq(Byte), NEW t \in Seq(Byte)
      PROVE  /\ [e EXCEPT !.sent = s, !.wire = t] \in Entries
             /\ [e EXCEPT !.wire = t, !.handed = s] \in Entries
             /\ [e EXCEPT !.handed = s, !.wire = t] \in Entries
             /\ [e EXCEPT !.wire = t] \in Entries
  BY DEF Entries
<1> QED
  BY <1>1, <1>2, <1>3

LEMMA ClosedIs == Closed \in Entries /\ ~Closed.linked /\ Closed.wire = <<>>
  BY DEF Closed, Entries

LEMMA EntryIs ==
    ASSUME TypeOK, NEW c \in Clients
    PROVE  /\ socket(c) \in 0..MaxDescriptors /\ isConnected(c) \in BOOLEAN
           /\ Entry(c) \in Entries
           /\ socket(c) # SocketNone =>
                 socket(c) \in Descriptors /\ Entry(c) = table[socket(c)]
           /\ socket(c) = SocketNone => ~Entry(c).linked /\ Entry(c).wire = <<>>
<1>2. client[c] \in Members
  BY DEF TypeOK
<1>3. socket(c) \in 0..MaxDescriptors /\ isConnected(c) \in BOOLEAN
  BY <1>2 DEF Members, socket, isConnected
<1>4. socket(c) # SocketNone => socket(c) \in Descriptors
  BY <1>3, ClientAssumption DEF SocketNone, Descriptors
<1>5. /\ socket(c) # SocketNone =>
            Entry(c) = table[socket(c)] /\ table[socket(c)] \in Entries
      /\ socket(c) = SocketNone => Entry(c) = Closed
  BY <1>4 DEF Entry, TypeOK
<1> QED
  BY ClosedIs, <1>3, <1>4, <1>5

LEMMA LowestIs ==
    ASSUME Free # {}
    PROVE  Lowest \in Descriptors /\ table[Lowest] = Closed
<1>1. Free \in SUBSET Nat
  BY ClientAssumption DEF Free, Descriptors
<1>2. Lowest \in Free
  BY <1>1, MinIs DEF Lowest
<1> QED
  BY <1>2 DEF Free

\* recv() returns no more bytes than there are.
LEMMA ReceivedIs ==
    ASSUME TypeOK, NEW c \in Clients, NEW n \in Nat \ {0}, NEW k \in Received(c, n)
    PROVE  /\ k \in {-1, 0} \/ k \in 1..Len(Entry(c).wire)
           /\ k \in 1..Len(Entry(c).wire) => Entry(c).linked /\ socket(c) # SocketNone
<1>1. Entry(c).wire \in Seq(Byte)
  BY EntryIs DEF Entries
<1>2. CASE Entry(c).linked /\ Entry(c).wire # <<>>
  <2>1. {n, Len(Entry(c).wire)} \in SUBSET Nat
    BY <1>1
  <2>2. k = -1 \/ k \in 1..Min({n, Len(Entry(c).wire)})
    BY <1>2 DEF Received, Failed
  <2>3. /\ Min({n, Len(Entry(c).wire)}) <= Len(Entry(c).wire)
        /\ Min({n, Len(Entry(c).wire)}) \in Nat
    BY <2>1, MinIs
  <2>4. k = -1 \/ k \in 1..Len(Entry(c).wire)
    BY <1>1, <2>2, <2>3
  <2> QED
    BY <1>2, <2>4, EntryIs
<1>3. CASE ~Entry(c).linked
  <2>1. k = -1
    BY <1>3 DEF Received, Failed
  <2> QED
    BY <1>1, <2>1
<1>4. CASE Entry(c).linked /\ Entry(c).wire = <<>>
  <2>1. k \in {-1, 0}
    BY <1>4 DEF Received, Failed
  <2> QED
    BY <1>1, <2>1
<1> QED
  BY <1>2, <1>3, <1>4

LEMMA Cut ==
    ASSUME NEW S, NEW w \in Seq(S), NEW k \in 0..Len(w)
    PROVE  /\ SubSeq(w, 1, k) \in Seq(S) /\ SubSeq(w, k + 1, Len(w)) \in Seq(S)
           /\ SubSeq(w, 1, k) \o SubSeq(w, k + 1, Len(w)) = w
<1>1. \A i \in 1..Len(w) : w[i] \in S
  OBVIOUS
<1>2. SubSeq(w, 1, k) \in Seq(S) /\ SubSeq(w, k + 1, Len(w)) \in Seq(S)
  <2>1. \A i \in 1..k : w[i] \in S
    BY <1>1
  <2>2. \A i \in (k + 1)..Len(w) : w[i] \in S
    BY <1>1
  <2> QED
    BY <2>1, <2>2, SubSeqProperties
<1>3. SubSeq(w, 1, k) \o SubSeq(w, k + 1, Len(w)) = SubSeq(w, 1, Len(w))
  <2>1. 1 \in 1..(Len(w) + 1) /\ k \in (1 - 1)..Len(w) /\ Len(w) \in k..Len(w)
    OBVIOUS
  <2> QED
    BY <2>1, ConcatAdjacentSubSeq
<1>4. SubSeq(w, 1, Len(w)) = w
  BY SubSeqFull
<1> QED
  BY <1>2, <1>3, <1>4

\* Nobody gets or loses a descriptor; and the peers have sent what they had.
SameOwners == \A d \in Descriptors : /\ table'[d].who = table[d].who
                                     /\ table'[d].linked = table[d].linked
Kept == SameOwners /\ \A d \in Descriptors : table'[d].sent = table[d].sent

\* A change of the bytes on one descriptor.
LEMMA BytesMove ==
    ASSUME TypeOK, NEW x \in Descriptors, NEW h \in Seq(Byte), NEW w \in Seq(Byte),
           table' = [table EXCEPT ![x] = [table[x] EXCEPT !.handed = h, !.wire = w]]
    PROVE  /\ table' \in [Descriptors -> Entries] /\ Kept
           /\ table'[x].handed = h /\ table'[x].wire = w
           /\ \A d \in Descriptors \ {x} : table'[d] = table[d]
<1> DEFINE f == [table[x] EXCEPT !.handed = h, !.wire = w]
<1>1. table[x] \in Entries /\ f \in Entries
  BY EntriesWith DEF TypeOK
<1>2. /\ f.handed = h /\ f.wire = w
      /\ f.who = table[x].who /\ f.linked = table[x].linked /\ f.sent = table[x].sent
  BY <1>1 DEF Entries
<1> HIDE DEF f
<1>3. table' = [table EXCEPT ![x] = f]
  BY DEF f
<1> QED
  BY <1>1, <1>2, <1>3 DEF TypeOK, Kept, SameOwners

\* recv() hands over what it takes.
LEMMA TakeIs ==
    ASSUME TypeOK, NEW c \in Clients, NEW n \in Nat \ {0}, NEW k \in Received(c, n),
           IF k > 0 THEN Take(c, k) ELSE UNCHANGED table
    PROVE  /\ table' \in [Descriptors -> Entries] /\ Kept
           /\ \A d \in Descriptors :
                 table'[d].handed \o table'[d].wire = table[d].handed \o table[d].wire
<1>1. /\ k \in {-1, 0} \/ k \in 1..Len(Entry(c).wire)
      /\ k \in 1..Len(Entry(c).wire) => socket(c) # SocketNone
  BY ReceivedIs
<1>2. CASE k \in {-1, 0}
  <2>1. table' = table
    BY <1>2
  <2> QED
    BY <2>1 DEF TypeOK, Kept, SameOwners
<1>3. CASE k \in 1..Len(Entry(c).wire)
  <2> DEFINE e == table[socket(c)]
             h == e.handed \o SubSeq(e.wire, 1, k)
             w == SubSeq(e.wire, k + 1, Len(e.wire))
  <2>1. /\ socket(c) \in Descriptors /\ Entry(c) = e
        /\ e \in Entries /\ e.wire \in Seq(Byte) /\ e.handed \in Seq(Byte)
    BY <1>1, <1>3, EntryIs DEF Entries
  <2>2. /\ SubSeq(e.wire, 1, k) \in Seq(Byte) /\ w \in Seq(Byte)
        /\ SubSeq(e.wire, 1, k) \o w = e.wire
    BY <1>3, <2>1, Cut
  <2>3. h \in Seq(Byte) /\ h \o w = e.handed \o e.wire
    <3>1. PICK g \in Seq(Byte), a \in Seq(Byte) :
              a \o w = e.wire /\ g = e.handed /\ h = g \o a
      BY <2>1, <2>2
    <3> HIDE DEF h, w, e
    <3>2. g \o a \in Seq(Byte)
      BY ConcatProperties
    <3>3. w \in Seq(Byte)
      BY <2>2
    <3>4. (g \o a) \o w = g \o (a \o w)
      BY <3>3, ConcatAssociative
    <3> QED
      BY <3>1, <3>2, <3>4
  <2>4. table' = [table EXCEPT ![socket(c)] = [e EXCEPT !.handed = h, !.wire = w]]
    <3>1. Take(c, k)
      BY <1>3, <2>1
    <3>2. table' = [table EXCEPT ![socket(c)] = [e EXCEPT !.wire = w, !.handed = h]]
      BY <2>1, <3>1 DEF Take
    <3>3. [e EXCEPT !.wire = w, !.handed = h] = [e EXCEPT !.handed = h, !.wire = w]
      BY <2>1 DEF Entries
    <3> QED
      BY <3>2, <3>3
  <2> HIDE DEF h, w
  <2>5. /\ table' \in [Descriptors -> Entries] /\ Kept
        /\ table'[socket(c)].handed = h /\ table'[socket(c)].wire = w
        /\ \A d \in Descriptors \ {socket(c)} : table'[d] = table[d]
    BY <2>1, <2>2, <2>3, <2>4, BytesMove
  <2> QED
    BY <2>1, <2>3, <2>5
<1> QED
  BY <1>1, <1>2, <1>3

\* readBytesUntil() returns: what it has read, and the last byte, are handed over.
Handed(c, last) ==
    socket(c) \in Descriptors =>
        /\ table'[socket(c)].handed = table[socket(c)].handed \o reading.result \o last
        /\ table'[socket(c)].wire =
               SubSeq(table[socket(c)].wire, Len(last) + 1, Len(table[socket(c)].wire))

LEMMA ReturnIs ==
    ASSUME TypeOK, NEW c \in Clients, NEW ended, NEW last \in Seq(Byte),
           last = <<>> \/ socket(c) \in Descriptors,
           client'[c].m_connected => ended = "delimiter",
           Return(c, ended, last)
    PROVE  /\ table' \in [Descriptors -> Entries] /\ Kept
           /\ Handed(c, last)
           /\ \A d \in Descriptors \ {socket(c)} : table'[d] = table[d]
           /\ reading' = NotReading
           /\ reading' \in [client : Clients \union {"none"}, result : Seq({Data})]
           /\ reading'.result = <<>>
           /\ answer'.live => answer'.ended = "delimiter"
<1>1. /\ reading' = NotReading
      /\ reading' \in [client : Clients \union {"none"}, result : Seq({Data})]
      /\ reading'.result = <<>>
      /\ answer'.live => answer'.ended = "delimiter"
  BY DEF Return, NotReading
<1>2. CASE socket(c) \in Descriptors
  <2> DEFINE e == table[socket(c)]
             h == e.handed \o reading.result \o last
             w == SubSeq(e.wire, Len(last) + 1, Len(e.wire))
  <2>1. e \in Entries /\ e.handed \in Seq(Byte) /\ e.wire \in Seq(Byte)
    BY <1>2 DEF TypeOK, Entries
  <2>2. reading.result \in Seq(Byte)
    BY DEF TypeOK, Byte
  <2>3. h \in Seq(Byte)
    BY <2>1, <2>2, ConcatProperties
  <2>4. w \in Seq(Byte)
    <3>1. \A i \in (Len(last) + 1)..Len(e.wire) : e.wire[i] \in Byte
      BY <2>1
    <3> QED
      BY <2>1, <3>1, SubSeqProperties
  <2>5. CASE reading.result = <<>> /\ last = <<>>
    <3>1. table' = table
      BY <2>5 DEF Return
    <3>2. h = e.handed
      BY <2>1, <2>5, ConcatEmptySeq
    <3>3. w = e.wire
      BY <2>1, <2>5, SubSeqFull
    <3> QED
      BY <1>1, <3>1, <3>2, <3>3 DEF TypeOK, Kept, SameOwners, Handed
  <2>6. CASE ~(reading.result = <<>> /\ last = <<>>)
    <3>1. table' = [table EXCEPT ![socket(c)] = [e EXCEPT !.handed = h, !.wire = w]]
      BY <1>2, <2>6 DEF Return
    <3> HIDE DEF h, w
    <3>2. /\ table' \in [Descriptors -> Entries] /\ Kept
          /\ table'[socket(c)].handed = h /\ table'[socket(c)].wire = w
          /\ \A d \in Descriptors \ {socket(c)} : table'[d] = table[d]
      BY <1>2, <2>3, <2>4, <3>1, BytesMove
    <3> QED
      BY <1>1, <1>2, <3>2 DEF h, w, Handed
  <2> QED
    BY <2>5, <2>6
<1>3. CASE socket(c) \notin Descriptors
  <2>1. table' = table
    BY <1>3 DEF Return, TypeOK
  <2> QED
    BY <1>1, <1>3, <2>1 DEF TypeOK, Kept, SameOwners, Handed
<1> QED
  BY <1>2, <1>3

\* readBytesUntil() takes one byte.
LEMMA DataIs ==
    ASSUME TypeOK, NEW c \in Clients, socket(c) \in Descriptors, Entry(c).wire # <<>>,
           table' = [table EXCEPT ![socket(c)].wire = Tail(@)]
    PROVE  /\ table' \in [Descriptors -> Entries] /\ Kept
           /\ table'[socket(c)].handed = table[socket(c)].handed
           /\ table'[socket(c)].wire = Tail(table[socket(c)].wire)
           /\ \A d \in Descriptors \ {socket(c)} : table'[d] = table[d]
<1> DEFINE e == table[socket(c)]
<1>1. e \in Entries /\ e.handed \in Seq(Byte) /\ e.wire \in Seq(Byte) /\ e.wire # <<>>
  BY EntryIs, ClientAssumption DEF TypeOK, Entries, Descriptors, SocketNone
<1>2. Tail(e.wire) \in Seq(Byte)
  BY <1>1
<1>3. [e EXCEPT !.wire = Tail(e.wire)] =
          [e EXCEPT !.handed = e.handed, !.wire = Tail(e.wire)]
  BY <1>1 DEF Entries
<1>4. table' = [table EXCEPT ![socket(c)] = [e EXCEPT !.wire = Tail(e.wire)]]
  OBVIOUS
<1>5. table' = [table EXCEPT ![socket(c)] =
                    [e EXCEPT !.handed = e.handed, !.wire = Tail(e.wire)]]
  BY <1>3, <1>4
<1> DEFINE h == e.handed
           w == Tail(e.wire)
<1>6. h \in Seq(Byte) /\ w \in Seq(Byte)
  BY <1>1, <1>2
<1>7. table' = [table EXCEPT
          ![socket(c)] = [table[socket(c)] EXCEPT !.handed = h, !.wire = w]]
  BY <1>5
<1> HIDE DEF h, w
<1>8. /\ table' \in [Descriptors -> Entries] /\ Kept
      /\ table'[socket(c)].handed = h /\ table'[socket(c)].wire = w
      /\ \A d \in Descriptors \ {socket(c)} : table'[d] = table[d]
  BY <1>6, <1>7, BytesMove
<1> QED
  BY <1>8 DEF h, w

\* What setting m_connected to FALSE changes.
LEMMA DisconnectedIs ==
    ASSUME TypeOK, NEW c \in Clients, SetConnected(c, FALSE)
    PROVE  /\ ~client'[c].m_connected
           /\ \A d \in Clients : /\ client'[d].m_socket = client[d].m_socket
                                 /\ client'[d].m_connected => client[d].m_connected
<1>1. /\ client \in [Clients -> Members]
      /\ client' = [client EXCEPT ![c] = [client[c] EXCEPT !.m_connected = FALSE]]
  BY DEF TypeOK, SetConnected
<1>2. /\ client'[c] = [client[c] EXCEPT !.m_connected = FALSE]
      /\ \A d \in Clients \ {c} : client'[d] = client[d]
  BY <1>1
<1>3. /\ ~client'[c].m_connected
      /\ client'[c].m_socket = client[c].m_socket
  BY <1>1, <1>2 DEF Members
<1> QED
  BY <1>2, <1>3

\* The ways a round of readBytesUntil() can go.
LEMMA NextByteIs ==
    ASSUME TypeOK, NEW c \in Clients, NextByte(c)
    PROVE  /\ reading.client = c /\ ~Idle
           /\ UNCHANGED <<stale, robbed>>
           /\ \/ /\ \E ended : Return(c, ended, <<>>)
                 /\ client' = client \/ SetConnected(c, FALSE)
                 /\ ~client'[c].m_connected
              \/ UNCHANGED <<client, table, reading, answer>>
              \/ /\ isConnected(c) /\ socket(c) \in Descriptors
                 /\ Entry(c).wire # <<>> /\ Head(Entry(c).wire) = Delimiter
                 /\ Return(c, "delimiter", <<Delimiter>>)
                 /\ client' = client
              \/ /\ isConnected(c) /\ socket(c) \in Descriptors
                 /\ Entry(c).wire # <<>> /\ Head(Entry(c).wire) = Data
                 /\ reading' = [reading EXCEPT !.result = Append(@, Data)]
                 /\ table' = [table EXCEPT ![socket(c)].wire = Tail(@)]
                 /\ UNCHANGED <<client, answer>>
<1>1. reading.client = c /\ ~Idle
  BY ClientAssumption DEF NextByte, Idle, NotReading
<1>2. ASSUME 1 \in Received(c, 1)
      PROVE  /\ Entry(c).wire # <<>> /\ socket(c) \in Descriptors
             /\ Head(Entry(c).wire) \in Byte
  <2>1. 1 \in 1..Len(Entry(c).wire) /\ socket(c) # SocketNone
    BY <1>2, ReceivedIs
  <2>2. Entry(c).wire \in Seq(Byte) /\ socket(c) \in Descriptors
    BY <2>1, EntryIs DEF Entries
  <2> QED
    BY <2>1, <2>2
<1>3. ~isConnected(c) /\ client' = client => ~client'[c].m_connected
  BY DEF isConnected
<1>4. SetConnected(c, FALSE) => ~client'[c].m_connected
  BY DisconnectedIs
<1> QED
  BY <1>1, <1>2, <1>3, <1>4 DEF NextByte, AtEnd, Continue, Byte

\* What a peer does.
LEMMA PeerSendsIs ==
    ASSUME TypeOK, NEW d \in Descriptors, PeerSends(d)
    PROVE  /\ table' \in [Descriptors -> Entries] /\ SameOwners
           /\ \E b \in Byte : /\ table'[d].sent = Append(table[d].sent, b)
                              /\ table'[d].wire = Append(table[d].wire, b)
                              /\ table'[d].handed = table[d].handed
           /\ \A x \in Descriptors \ {d} : table'[x] = table[x]
<1>1. PICK b \in Byte :
          table' = [table EXCEPT ![d].sent = Append(@, b), ![d].wire = Append(@, b)]
  BY DEF PeerSends
<1> DEFINE e == table[d]
           s == Append(e.sent, b)
           w == Append(e.wire, b)
           f == [e EXCEPT !.sent = s, !.wire = w]
<1>2. e \in Entries /\ s \in Seq(Byte) /\ w \in Seq(Byte)
  BY DEF TypeOK, Entries
<1>3. table' = [table EXCEPT ![d] = f]
  BY <1>1
<1> HIDE DEF s, w
<1>4. /\ f \in Entries /\ f.sent = s /\ f.wire = w /\ f.handed = e.handed
      /\ f.who = e.who /\ f.linked = e.linked
  BY <1>2, EntriesWith DEF Entries
<1> HIDE DEF f
<1> QED
  BY <1>3, <1>4 DEF TypeOK, SameOwners, s, w

LEMMA PeerClosesIs ==
    ASSUME TypeOK, NEW d \in Descriptors, PeerCloses(d)
    PROVE  /\ table' \in [Descriptors -> Entries] /\ Kept
           /\ \A x \in Descriptors : /\ table'[x].handed = table[x].handed
                                     /\ table'[x].wire = table[x].wire
<1> DEFINE f == [table[d] EXCEPT !.peer = FALSE]
<1>1. table[d] \in Entries
  BY DEF TypeOK
<1>2. /\ f \in Entries /\ f.sent = table[d].sent
      /\ f.wire = table[d].wire /\ f.handed = table[d].handed
      /\ f.who = table[d].who /\ f.linked = table[d].linked
  BY <1>1 DEF Entries
<1>3. table' = [table EXCEPT ![d] = f]
  BY DEF PeerCloses
<1> HIDE DEF f
<1> QED
  BY <1>2, <1>3 DEF TypeOK, Kept, SameOwners

LEMMA TypeNext == TypeOK /\ [Next]_vars => TypeOK'
<1> SUFFICES ASSUME TypeOK, [Next]_vars PROVE TypeOK'
  OBVIOUS
<1> USE DEF TypeOK
<1>1. ASSUME NEW c \in Clients, connect(c) PROVE TypeOK'
  <2>1. CASE Free = {}
    <3>1. [client[c] EXCEPT !.m_socket = SocketNone] \in Members
      BY ClientAssumption DEF Members, SocketNone
    <3> QED
      BY <1>1, <2>1, <3>1 DEF connect
  <2>2. CASE Free # {}
    <3>1. Lowest \in Descriptors /\ Lowest \in 0..MaxDescriptors
      BY <2>2, LowestIs, ClientAssumption DEF Descriptors
    <3>2. PICK accepted \in BOOLEAN :
            /\ client' = [client EXCEPT ![c].m_socket = Lowest, ![c].m_connected = accepted]
            /\ table' = [table EXCEPT ![Lowest] =
                  [Closed EXCEPT !.who = "client", !.linked = accepted, !.peer = accepted]]
      BY <1>1, <2>2 DEF connect
    <3>3. client' \in [Clients -> Members]
      BY <3>1, <3>2 DEF Members
    <3>4. [Closed EXCEPT !.who = "client", !.linked = accepted, !.peer = accepted]
              \in Entries
      BY EntriesWith, ClosedIs
    <3>5. table' \in [Descriptors -> Entries]
      BY <3>1, <3>2, <3>4
    <3> QED
      BY <1>1, <3>3, <3>5 DEF connect
  <2> QED
    BY <2>1, <2>2
<1>2. ASSUME NEW c \in Clients, disconnect(c) PROVE TypeOK'
  <2>1. table' \in [Descriptors -> Entries]
    BY <1>2, EntryIs, ClosedIs DEF disconnect
  <2>2. client' \in [Clients -> Members]
    BY <1>2 DEF disconnect, SetConnected, Members
  <2> QED
    BY <1>2, <2>1, <2>2 DEF disconnect, Touch
<1>3. ASSUME NEW c \in Clients, Destroy(c) PROVE TypeOK'
  <2>1. table' \in [Descriptors -> Entries]
    BY <1>3, EntryIs, ClosedIs DEF Destroy
  <2>2. client' \in [Clients -> Members]
    <3>1. Fresh \in Members
      BY MembersWith, ClientAssumption
    <3> QED
      BY <1>3, <3>1 DEF Destroy
  <2> QED
    BY <1>3, <2>1, <2>2 DEF Destroy, Touch
<1>4. ASSUME NEW c \in Clients, NEW to \in Clients, Move(c, to) PROVE TypeOK'
  <2>1. client' \in [Clients -> Members]
    <3>1. Left(client[c]) \in Members
      BY MembersWith, ClientAssumption
    <3> QED
      BY <1>4, <3>1 DEF Move
  <2> QED
    BY <1>4, <2>1 DEF Move
<1>5. ASSUME NEW c \in Clients, NEW n \in 1..2, readBytes(c, n) PROVE TypeOK'
  <2>1. table' \in [Descriptors -> Entries]
    <3>1. PICK k \in Received(c, n) : IF k > 0 THEN Take(c, k) ELSE UNCHANGED table
      BY <1>5 DEF readBytes
    <3>2. n \in Nat \ {0}
      OBVIOUS
    <3> QED
      BY <3>1, <3>2, TakeIs
  <2> QED
    BY <1>5, <2>1 DEF readBytes, Touch
<1>6. ASSUME NEW c \in Clients, readBytesUntil(c) PROVE TypeOK'
  BY <1>6, ClientAssumption DEF readBytesUntil
<1>7. ASSUME NEW c \in Clients, NextByte(c) PROVE TypeOK'
  <2>1. /\ reading.client = c
        /\ UNCHANGED <<stale, robbed>>
    BY <1>7, NextByteIs
  <2>2. ASSUME NEW ended, Return(c, ended, <<>>), ~client'[c].m_connected,
               client' = client \/ SetConnected(c, FALSE)
        PROVE  TypeOK'
    <3>1. client' \in [Clients -> Members]
      BY <2>2 DEF SetConnected, Members
    <3>2. <<>> \in Seq(Byte)
      OBVIOUS
    <3> QED
      BY <2>1, <2>2, <3>1, <3>2, ReturnIs
  <2>3. CASE UNCHANGED <<client, table, reading, answer>>
    BY <2>1, <2>3
  <2>4. ASSUME socket(c) \in Descriptors, Return(c, "delimiter", <<Delimiter>>),
               client' = client
        PROVE  TypeOK'
    <3>1. <<Delimiter>> \in Seq(Byte)
      BY DEF Byte
    <3> QED
      BY <2>1, <2>4, <3>1, ReturnIs
  <2>5. ASSUME socket(c) \in Descriptors, Entry(c).wire # <<>>,
               reading' = [reading EXCEPT !.result = Append(@, Data)],
               table' = [table EXCEPT ![socket(c)].wire = Tail(@)],
               UNCHANGED <<client, answer>>
        PROVE  TypeOK'
    <3>1. table' \in [Descriptors -> Entries]
      BY <2>5, DataIs
    <3>2. reading' \in [client : Clients \union {"none"}, result : Seq({Data})]
      <4>1. Append(reading.result, Data) \in Seq({Data})
        OBVIOUS
      <4>2. [reading EXCEPT !.result = Append(reading.result, Data)]
                \in [client : Clients \union {"none"}, result : Seq({Data})]
        BY <4>1
      <4> QED
        BY <2>5, <4>2
    <3>3. reading'.client # "none"
      BY <2>1, <2>5, ClientAssumption
    <3> QED
      BY <2>1, <2>5, <3>1, <3>2, <3>3
  <2> QED
    BY <1>7, <2>2, <2>3, <2>4, <2>5, NextByteIs
<1>8. ASSUME NEW c \in Clients, writeBytes(c) PROVE TypeOK'
  <2>1. client' \in [Clients -> Members]
    BY <1>8 DEF writeBytes, SetConnected, Members
  <2> QED
    BY <1>8, <2>1 DEF writeBytes, Touch
<1>9. ASSUME NEW d \in Descriptors, PeerSends(d) PROVE TypeOK'
  BY <1>9, PeerSendsIs DEF PeerSends
<1>10. ASSUME NEW d \in Descriptors, PeerCloses(d) PROVE TypeOK'
  BY <1>10, PeerClosesIs DEF PeerCloses
<1>11. ASSUME NEW d \in Descriptors, OthersClose(d) PROVE TypeOK'
  BY <1>11, ClosedIs DEF OthersClose
<1>12. ASSUME OthersOpen PROVE TypeOK'
  <2>1. Lowest \in Descriptors /\ [Closed EXCEPT !.who = "others"] \in Entries
    BY <1>12, LowestIs, ClosedIs, EntriesWith DEF OthersOpen
  <2> QED
    BY <1>12, <2>1 DEF OthersOpen
<1>13. CASE UNCHANGED vars
  BY <1>13 DEF vars
<1> QED
  BY <1>1, <1>2, <1>3, <1>4, <1>5, <1>6, <1>7, <1>8, <1>9, <1>10, <1>11, <1>12, <1>13
  DEF Next, Call, readVector

-----------------------------------------------------------------------------
(* Whose the descriptors are.                                              *)

\* What the invariant says while nothing has gone wrong.
Owns ==
    /\ \A c \in Clients \ stale :
          socket(c) # SocketNone => table[socket(c)].who = "client"
    /\ \A c, d \in Clients \ stale :
          c # d /\ socket(c) # SocketNone => socket(c) # socket(d)
    /\ \A c \in Clients :
          isConnected(c) /\ socket(c) # SocketNone =>
              c \notin stale /\ table[socket(c)].linked
    /\ reading.result # <<>> =>
          reading.client \notin stale /\ socket(reading.client) # SocketNone

\* A client that has not closed its socket touches nothing of anybody else.
LEMMA TouchIs ==
    ASSUME TypeOK, Owns, robbed = "nothing", NEW c \in Clients, Touch(c)
    PROVE  /\ robbed' \in {"nothing", "again"}
           /\ robbed' = "nothing" => ~Theirs(c)
           /\ c \notin stale => robbed' = "nothing"
<1>1. c \notin stale => ~Theirs(c)
  BY EntryIs DEF Owns, Theirs
<1> QED
  BY <1>1 DEF Touch

LEMMA OwnNext == TypeOK /\ OwnInv /\ [Next]_vars => OwnInv'
<1> SUFFICES ASSUME TypeOK, OwnInv, [Next]_vars PROVE OwnInv'
  OBVIOUS
<1>1. CASE UNCHANGED vars
  BY <1>1 DEF vars, OwnInv, socket, isConnected
<1> SUFFICES ASSUME Next PROVE OwnInv'
  BY <1>1
<1>2. Owns /\ robbed = "nothing"
  BY DEF Next, OwnInv, Owns
<1>3. ASSUME robbed' \in {"nothing", "again"}, robbed' = "nothing" => Owns'
      PROVE  OwnInv'
  BY <1>3 DEF OwnInv, Owns
<1>4. ASSUME NEW c \in Clients, Idle, connect(c) PROVE OwnInv'
  <2>1. robbed' = robbed /\ stale' = stale \ {c} /\ reading'.result = <<>>
    BY <1>4 DEF connect, Idle, NotReading
  <2>2. CASE Free = {}
    <3>1. /\ client'[c].m_socket = SocketNone /\ table' = table
          /\ \A d \in Clients \ {c} : client'[d] = client[d]
      BY <1>4, <2>2 DEF connect, TypeOK, Members
    <3>2. Owns'
      BY <1>2, <2>1, <3>1 DEF Owns, socket, isConnected
    <3> QED
      BY <1>2, <1>3, <2>1, <3>2
  <2>3. CASE Free # {}
    <3>1. Lowest \in Descriptors /\ table[Lowest] = Closed /\ Closed.who = "nobody"
      BY <2>3, LowestIs DEF Closed
    <3>2. \A d \in Clients \ stale : socket(d) # Lowest
      BY <1>2, <3>1, ClientAssumption DEF Owns, Descriptors, SocketNone
    <3>3. PICK accepted \in BOOLEAN :
            /\ client' = [client EXCEPT ![c].m_socket = Lowest, ![c].m_connected = accepted]
            /\ table' = [table EXCEPT ![Lowest] =
                  [Closed EXCEPT !.who = "client", !.linked = accepted, !.peer = accepted]]
      BY <1>4, <2>3 DEF connect
    <3>4. /\ client'[c].m_socket = Lowest /\ client'[c].m_connected = accepted
          /\ \A d \in Clients \ {c} : client'[d] = client[d]
      BY <3>3 DEF TypeOK, Members
    <3>5. /\ table'[Lowest].who = "client" /\ table'[Lowest].linked = accepted
          /\ \A d \in Descriptors \ {Lowest} : table'[d] = table[d]
      <4>1. LET e == [Closed EXCEPT !.who = "client", !.linked = accepted,
                                    !.peer = accepted]
            IN  e.who = "client" /\ e.linked = accepted
        BY DEF Closed
      <4> QED
        BY <3>1, <3>3, <4>1 DEF TypeOK
    <3>6. \A d \in Clients : socket(d) # SocketNone => socket(d) \in Descriptors
      BY EntryIs
    <3>7. Owns'
      BY <1>2, <2>1, <3>2, <3>4, <3>5, <3>6 DEF Owns, socket, isConnected
    <3> QED
      BY <1>2, <1>3, <2>1, <3>7
  <2> QED
    BY <2>2, <2>3
\* The socket that c closes is its own or nobody's, or the behaviour ends.
<1>5. ASSUME NEW c \in Clients, Touch(c), socket(c) # SocketNone =>
                table' = [table EXCEPT ![socket(c)] = Closed],
             socket(c) = SocketNone => table' = table,
             robbed' = "nothing"
      PROVE  \A d \in Clients \ (stale \union {c}) : socket(d) # SocketNone =>
                socket(d) # socket(c) /\ table'[socket(d)] = table[socket(d)]
  <2>1. ~Theirs(c)
    BY <1>2, <1>5, TouchIs
  <2>2. \A d \in Clients : socket(d) # SocketNone => socket(d) \in Descriptors
    BY EntryIs
  <2>3. ASSUME NEW d \in Clients \ (stale \union {c}), socket(d) # SocketNone
        PROVE  socket(d) # socket(c)
    <3>1. CASE c \in stale /\ socket(d) = socket(c)
      <4>1. Entry(c) = table[socket(d)] /\ table[socket(d)].who = "client"
        BY <1>2, <2>3, <3>1 DEF Owns, Entry
      <4>2. Theirs(c)
        BY <2>3, <3>1, <4>1 DEF Theirs
      <4> QED
        BY <2>1, <4>2
    <3>2. CASE c \notin stale
      BY <1>2, <2>3, <3>2 DEF Owns
    <3> QED
      BY <3>1, <3>2
  <2> QED
    BY <1>5, <2>2, <2>3 DEF TypeOK
<1>6. ASSUME NEW c \in Clients, Idle, disconnect(c) PROVE OwnInv'
  <2>1. /\ socket(c) # SocketNone /\ Touch(c) /\ robbed' \in {"nothing", "again"}
        /\ table' = [table EXCEPT ![socket(c)] = Closed]
        /\ stale' = stale \union {c} /\ reading'.result = <<>>
    BY <1>2, <1>6, TouchIs DEF disconnect, Idle, NotReading
  <2>2. /\ client'[c].m_connected = FALSE
        /\ \A d \in Clients : client'[d].m_socket = client[d].m_socket
        /\ \A d \in Clients \ {c} : client'[d] = client[d]
    BY <1>6 DEF disconnect, SetConnected, TypeOK, Members
  <2>3. ASSUME robbed' = "nothing" PROVE Owns'
    <3>1. \A d \in Clients \ (stale \union {c}) : socket(d) # SocketNone =>
              socket(d) # socket(c) /\ table'[socket(d)] = table[socket(d)]
      BY <1>5, <2>1, <2>3
    <3> QED
      BY <1>2, <2>1, <2>2, <3>1 DEF Owns, socket, isConnected
  <2> QED
    BY <1>3, <2>1, <2>3
<1>7. ASSUME NEW c \in Clients, Idle, Destroy(c)
      PROVE  OwnInv'
  <2>1. /\ Touch(c) /\ robbed' \in {"nothing", "again"}
        /\ socket(c) # SocketNone => table' = [table EXCEPT ![socket(c)] = Closed]
        /\ socket(c) = SocketNone => table' = table
        /\ stale' = stale \ {c} /\ reading'.result = <<>>
    BY <1>2, <1>7, TouchIs DEF Destroy, Idle, NotReading
  <2>2. /\ client'[c].m_connected = FALSE /\ client'[c].m_socket = SocketNone
        /\ \A d \in Clients \ {c} : client'[d] = client[d]
    BY <1>7 DEF Destroy, TypeOK, Members, Fresh
  <2>3. ASSUME robbed' = "nothing" PROVE Owns'
    <3>1. \A d \in Clients \ (stale \union {c}) : socket(d) # SocketNone =>
              socket(d) # socket(c) /\ table'[socket(d)] = table[socket(d)]
      BY <1>5, <2>1, <2>3
    <3> QED
      BY <1>2, <2>1, <2>2, <3>1 DEF Owns, socket, isConnected
  <2> QED
    BY <1>3, <2>1, <2>3
<1>8. ASSUME NEW c \in Clients, NEW to \in Clients, Idle, Move(c, to) PROVE OwnInv'
  <2>1. /\ robbed' = robbed /\ table' = table /\ reading'.result = <<>> /\ c # to
        /\ stale' = (stale \ {c, to}) \union {d \in {to} : c \in stale}
    BY <1>8 DEF Move, Idle, NotReading
  <2>2. /\ client'[to] = client[c] /\ client'[c].m_socket = SocketNone
        /\ \A d \in Clients \ {c, to} : client'[d] = client[d]
    BY <1>8, <2>1 DEF Move, Left, TypeOK, Members
  <2>3. Owns'
    BY <1>2, <2>1, <2>2 DEF Owns, socket, isConnected
  <2> QED
    BY <1>2, <1>3, <2>1, <2>3
\* What leaves sockets and flags alone.
<1>15. ASSUME SameOwners,
              \A d \in Clients : client'[d].m_socket = client[d].m_socket
                                 /\ (client'[d].m_connected => client[d].m_connected),
              stale' = stale, reading'.result # <<>> =>
                  /\ reading'.client \notin stale
                  /\ client[reading'.client].m_socket # SocketNone
                  /\ reading'.client \in Clients
       PROVE  Owns'
  <2>1. \A d \in Clients : socket(d) # SocketNone => socket(d) \in Descriptors
    BY EntryIs
  <2> QED
    BY <1>2, <1>15, <2>1 DEF Owns, socket, isConnected, SameOwners
<1>16. ASSUME NEW c \in Clients, NEW n \in 1..2, Idle, readBytes(c, n) PROVE OwnInv'
  <2>1. /\ robbed' \in {"nothing", "again"} /\ stale' = stale /\ client' = client
        /\ reading'.result = <<>>
    BY <1>2, <1>16, TouchIs DEF readBytes, Idle, NotReading
  <2>2. Kept
    <3>1. PICK k \in Received(c, n) : IF k > 0 THEN Take(c, k) ELSE UNCHANGED table
      BY <1>16 DEF readBytes
    <3>2. n \in Nat \ {0}
      OBVIOUS
    <3> QED
      BY <3>1, <3>2, TakeIs
  <2> QED
    BY <1>3, <1>15, <2>1, <2>2 DEF Kept
<1>9. ASSUME NEW c \in Clients, readBytesUntil(c) PROVE OwnInv'
  <2>1. Owns'
    BY <1>2, <1>9 DEF readBytesUntil, Owns, socket, isConnected
  <2> QED
    BY <1>2, <1>3, <1>9, <2>1 DEF readBytesUntil
<1>10. ASSUME NEW c \in Clients, NextByte(c) PROVE OwnInv'
  <2>1. /\ reading.client = c /\ stale' = stale /\ robbed' = robbed
        /\ client' = client \/ SetConnected(c, FALSE)
    BY <1>10, NextByteIs
  <2>2. /\ \A d \in Clients : /\ client'[d].m_socket = client[d].m_socket
                              /\ client'[d].m_connected => client[d].m_connected
    BY <2>1, DisconnectedIs
  <2>3. Kept
    <3>1. <<>> \in Seq(Byte) /\ <<Delimiter>> \in Seq(Byte)
      BY DEF Byte
    <3>2. ASSUME NEW ended, Return(c, ended, <<>>), ~client'[c].m_connected PROVE Kept
      BY <3>1, <3>2, ReturnIs
    <3>3. ASSUME Return(c, "delimiter", <<Delimiter>>), socket(c) \in Descriptors
          PROVE  Kept
      BY <3>1, <3>3, ReturnIs
    <3>4. UNCHANGED table => Kept
      BY DEF Kept, SameOwners
    <3> QED
      BY <1>10, <3>2, <3>3, <3>4, DataIs, NextByteIs
  <2>4. reading'.result # <<>> =>
            /\ reading'.client = c /\ c \notin stale /\ socket(c) # SocketNone
    <3>1. ASSUME NEW ended, NEW last, Return(c, ended, last)
          PROVE  reading'.result = <<>>
      BY <3>1 DEF Return, NotReading
    <3>2. CASE reading' = reading
      BY <1>2, <2>1, <3>2 DEF Owns
    <3>3. CASE socket(c) \in Descriptors /\ isConnected(c)
               /\ reading' = [reading EXCEPT !.result = Append(@, Data)]
      BY <1>2, <2>1, <3>3, ClientAssumption DEF Owns, Descriptors, SocketNone, TypeOK
    <3> QED
      BY <1>10, <3>1, <3>2, <3>3, NextByteIs
  <2> QED
    BY <1>2, <1>3, <1>15, <2>1, <2>2, <2>3, <2>4 DEF socket, Kept
<1>11. ASSUME NEW c \in Clients, writeBytes(c) PROVE OwnInv'
  <2>1. /\ stale' = stale /\ table' = table /\ reading' = reading
        /\ client' = client \/ SetConnected(c, FALSE)
        /\ isConnected(c) /\ Touch(c)
    BY <1>11 DEF writeBytes
  <2>2. /\ \A d \in Clients : /\ client'[d].m_socket = client[d].m_socket
                              /\ client'[d].m_connected => client[d].m_connected
    BY <2>1, DisconnectedIs
  <2>3. robbed' = "nothing"
    <3>1. CASE socket(c) = SocketNone
      BY <1>2, <2>1, <3>1 DEF Touch, Theirs
    <3>2. CASE socket(c) # SocketNone
      BY <1>2, <2>1, <3>2, TouchIs DEF Owns
    <3> QED
      BY <3>1, <3>2
  <2>4. reading.result # <<>> => reading.client \in Clients
    BY DEF TypeOK
  <2> QED
    BY <1>2, <1>3, <1>15, <2>1, <2>2, <2>3, <2>4 DEF Owns, socket, SameOwners
<1>17. reading.result # <<>> => /\ reading.client \in Clients /\ reading.client \notin stale
                                /\ client[reading.client].m_socket # SocketNone
  BY <1>2 DEF Owns, socket, TypeOK
<1>12. ASSUME NEW d \in Descriptors, PeerSends(d) \/ PeerCloses(d) PROVE OwnInv'
  <2>1. /\ client' = client /\ reading' = reading /\ stale' = stale /\ robbed' = robbed
    BY <1>12 DEF PeerSends, PeerCloses
  <2>2. SameOwners
    BY <1>12, PeerSendsIs, PeerClosesIs DEF Kept
  <2> QED
    BY <1>2, <1>3, <1>15, <1>17, <2>1, <2>2
\* What changes only descriptors that no client has.
<1>18. ASSUME NEW x \in Descriptors, table[x].who # "client",
              \A d \in Descriptors \ {x} : table'[d] = table[d],
              UNCHANGED <<client, reading, stale, robbed>>
       PROVE  OwnInv'
  <2>1. \A d \in Clients : socket(d) # SocketNone => socket(d) \in Descriptors
    BY EntryIs
  <2>2. \A d \in Clients \ stale : socket(d) # x
    BY <1>2, <1>18, ClientAssumption DEF Owns, Descriptors, SocketNone
  <2>3. Owns'
    BY <1>2, <1>18, <2>1, <2>2 DEF Owns, socket, isConnected
  <2> QED
    BY <1>2, <1>3, <1>18, <2>3
<1>13. ASSUME NEW d \in Descriptors, OthersClose(d) PROVE OwnInv'
  BY <1>13, <1>18 DEF OthersClose, TypeOK
<1>14. ASSUME OthersOpen PROVE OwnInv'
  <2>1. Lowest \in Descriptors /\ table[Lowest].who # "client"
    BY <1>14, LowestIs DEF OthersOpen, Closed
  <2> QED
    BY <1>14, <1>18, <2>1 DEF OthersOpen, TypeOK
<1> QED
  BY <1>4, <1>6, <1>7, <1>8, <1>9, <1>10, <1>11, <1>12, <1>13, <1>14, <1>16
  DEF Next, Call, readVector

-----------------------------------------------------------------------------
(* Where the bytes are.                                                    *)

LEMMA Assoc ==
    ASSUME NEW S, NEW g \in Seq(S), NEW a \in Seq(S), NEW v \in Seq(S)
    PROVE  /\ g \o a \in Seq(S)
           /\ (g \o a) \o v = g \o (a \o v)
           /\ g \o <<>> = g /\ <<>> \o g = g
  BY ConcatAssociative, ConcatProperties, ConcatEmptySeq

\* Bytes that move from one place to the next.
LEMMA Moves ==
    ASSUME NEW S, NEW h \in Seq(S), NEW p \in Seq(S), NEW w \in Seq(S), NEW b \in S
    PROVE  /\ h \o p \o <<>> = h \o p
           /\ h \o <<>> \o w = h \o w
           /\ h \o p \o Append(w, b) = Append(h \o p \o w, b)
<1>1. <<b>> \in Seq(S) /\ h \o p \in Seq(S) /\ h \o p \o w \in Seq(S) /\ <<>> \in Seq(S)
  BY Assoc
<1>2. h \o p \o <<>> = h \o p /\ h \o <<>> \o w = h \o w
  BY <1>1, ConcatEmptySeq
<1>3. h \o p \o Append(w, b) = Append(h \o p \o w, b)
  <2>1. Append(w, b) = w \o <<b>> /\ Append(h \o p \o w, b) = (h \o p \o w) \o <<b>>
    BY <1>1, AppendIsConcat
  <2>2. (h \o p \o w) \o <<b>> = (h \o p) \o (w \o <<b>>)
    BY <1>1, ConcatAssociative
  <2> QED
    BY <2>1, <2>2
<1> QED
  BY <1>2, <1>3

\* The first byte of what waits, and the rest.
LEMMA FirstByte ==
    ASSUME NEW S, NEW w \in Seq(S), w # <<>>
    PROVE  \E l \in Seq(S) : \E t \in Seq(S) :
              l = <<Head(w)>> /\ t = SubSeq(w, 2, Len(w)) /\ t = Tail(w) /\ l \o t = w
<1>1. SubSeq(w, 1, Len(w)) = <<w[1]>> \o SubSeq(w, 1 + 1, Len(w))
  BY SubSeqRecursiveFirst
<1>2. SubSeq(w, 1, Len(w)) = w
  BY SubSeqFull
<1>3. Tail(w) = SubSeq(w, 2, Len(w)) /\ Tail(w) \in Seq(S)
  BY TailIsSubSeq
<1>4. Head(w) = w[1] /\ <<w[1]>> \in Seq(S)
  OBVIOUS
<1>5. PICK l \in Seq(S) : l = <<w[1]>>
  BY <1>4
<1>6. PICK t \in Seq(S) : t = SubSeq(w, 2, Len(w))
  BY <1>3
<1>7. 1 + 1 = 2
  OBVIOUS
<1>8. l \o t = w
  BY <1>1, <1>2, <1>5, <1>6, <1>7
<1>9. l = <<Head(w)>>
  BY <1>4, <1>5
<1>10. t = Tail(w)
  BY <1>3, <1>6
<1> QED
  BY <1>6, <1>8, <1>9, <1>10

LEMMA NoneBetween ==
    ASSUME NEW S, NEW h \in Seq(S), NEW w \in Seq(S)
    PROVE  h \o <<>> \o w = h \o w
  BY ConcatEmptySeq

LEMMA WholeNext == TypeOK /\ OwnInv /\ WholeInv /\ [Next]_vars => WholeInv'
<1> SUFFICES ASSUME TypeOK, OwnInv, WholeInv, [Next]_vars PROVE WholeInv'
  OBVIOUS
<1>1. TypeOK'
  BY TypeNext
<1>2. CASE UNCHANGED vars
  BY <1>2 DEF vars, WholeInv, Pending, Idle, socket
<1> SUFFICES ASSUME Next PROVE WholeInv'
  BY <1>2
<1>3. Owns
  BY DEF Next, OwnInv, Owns
<1>4. ASSUME NEW d \in Descriptors
      PROVE  /\ table[d].sent \in Seq(Byte) /\ table[d].handed \in Seq(Byte)
             /\ table[d].wire \in Seq(Byte) /\ Pending(d) \in Seq(Byte)
             /\ table'[d].handed \in Seq(Byte) /\ table'[d].wire \in Seq(Byte)
             /\ table[d].sent = table[d].handed \o Pending(d) \o table[d].wire
  <2>1. Pending(d) \in Seq(Byte)
    BY DEF Pending, TypeOK, Byte
  <2> QED
    BY <1>1, <2>1 DEF TypeOK, Entries, WholeInv
\* Between two calls, and a call that reads no message.
<1>5. ASSUME Idle, reading'.result = <<>>,
             \A d \in Descriptors :
                 \/ /\ table'[d].sent = table[d].sent
                    /\ table'[d].handed \o table'[d].wire = table[d].handed \o table[d].wire
                 \/ /\ table'[d].sent = <<>>
                    /\ table'[d].handed = <<>> /\ table'[d].wire = <<>>
      PROVE  WholeInv'
  <2>1. ASSUME NEW d \in Descriptors
        PROVE  table'[d].sent = table'[d].handed \o <<>> \o table'[d].wire
    <3>1. Pending(d) = <<>>
      BY <1>5 DEF Pending
    <3>2. /\ table[d].handed \o <<>> \o table[d].wire = table[d].handed \o table[d].wire
          /\ table'[d].handed \o <<>> \o table'[d].wire = table'[d].handed \o table'[d].wire
      BY <1>4, NoneBetween
    <3>3. <<>> \o <<>> = <<>>
      OBVIOUS
    <3> QED
      BY <1>4, <1>5, <3>1, <3>2, <3>3
  <2>2. ASSUME NEW d \in Descriptors
        PROVE  (table[d].sent = table[d].handed \o Pending(d) \o table[d].wire)'
    <3>1. Pending(d)' = <<>>
      BY <1>5 DEF Pending
    <3> QED
      BY <2>1, <3>1
  <2> QED
    BY <2>2 DEF WholeInv
\* A step of a call that reads a message, or of somebody else.
<1>6. ASSUME NEW d \in Descriptors, reading' = reading,
             \A c \in Clients : client'[c].m_socket = client[c].m_socket
      PROVE  Pending(d)' = Pending(d)
  <2>1. ~Idle => reading.client \in Clients
    BY DEF Idle, NotReading, TypeOK
  <2> QED
    BY <1>6, <2>1 DEF Pending, Idle, socket
<1>18. ASSUME reading' = reading,
              \A c \in Clients : client'[c].m_socket = client[c].m_socket,
              \A d \in Descriptors :
                  \/ /\ table'[d].sent = table[d].sent
                     /\ table'[d].handed = table[d].handed /\ table'[d].wire = table[d].wire
                  \/ /\ table'[d].sent = <<>> /\ table'[d].handed = <<>>
                     /\ table'[d].wire = <<>> /\ table[d].who # "client"
                  \/ \E b \in Byte : /\ table'[d].sent = Append(table[d].sent, b)
                                     /\ table'[d].handed = table[d].handed
                                     /\ table'[d].wire = Append(table[d].wire, b)
       PROVE  WholeInv'
  <2> SUFFICES ASSUME NEW d \in Descriptors
               PROVE  (table[d].sent = table[d].handed \o Pending(d) \o table[d].wire)'
    BY DEF WholeInv
  <2>1. Pending(d)' = Pending(d)
    BY <1>6, <1>18
  <2>2. CASE /\ table'[d].sent = table[d].sent
             /\ table'[d].handed = table[d].handed /\ table'[d].wire = table[d].wire
    BY <1>4, <2>1, <2>2
  <2>3. CASE /\ table'[d].sent = <<>> /\ table'[d].handed = <<>>
             /\ table'[d].wire = <<>> /\ table[d].who # "client"
    <3>1. Pending(d) = <<>>
      BY <1>3, <2>3 DEF Pending, Owns, TypeOK, Idle, NotReading
    <3>2. <<>> \o <<>> \o <<>> = <<>>
      BY ConcatEmptySeq
    <3> QED
      BY <2>1, <2>3, <3>1, <3>2
  <2>4. ASSUME NEW b \in Byte, table'[d].sent = Append(table[d].sent, b),
               table'[d].handed = table[d].handed, table'[d].wire = Append(table[d].wire, b)
        PROVE  (table[d].sent = table[d].handed \o Pending(d) \o table[d].wire)'
    <3>1. PICK h \in Seq(Byte), p \in Seq(Byte), w \in Seq(Byte) :
              /\ h = table[d].handed /\ p = Pending(d) /\ w = table[d].wire
              /\ table[d].sent = h \o p \o w
      BY <1>4
    <3>2. h \o p \o Append(w, b) = Append(h \o p \o w, b)
      BY Moves
    <3> QED
      BY <2>1, <2>4, <3>1, <3>2
  <2> QED
    BY <1>18, <2>2, <2>3, <2>4
<1>7. ASSUME NEW c \in Clients, Idle, connect(c) PROVE WholeInv'
  <2>1. reading'.result = <<>>
    BY <1>7 DEF connect, Idle, NotReading
  <2>2. CASE table' = table
    BY <1>5, <1>7, <2>1, <2>2
  <2>3. CASE Free # {}
    <3>1. Lowest \in Descriptors
      BY <2>3, LowestIs
    <3>2. PICK accepted \in BOOLEAN : table' = [table EXCEPT ![Lowest] =
              [Closed EXCEPT !.who = "client", !.linked = accepted, !.peer = accepted]]
      BY <1>7, <2>3 DEF connect
    <3>3. LET e == [Closed EXCEPT !.who = "client", !.linked = accepted, !.peer = accepted]
          IN  e.sent = <<>> /\ e.handed = <<>> /\ e.wire = <<>>
      BY DEF Closed
    <3>4. \A d \in Descriptors : \/ table'[d] = table[d]
                                 \/ /\ table'[d].sent = <<>> /\ table'[d].handed = <<>>
                                    /\ table'[d].wire = <<>>
      BY <3>1, <3>2, <3>3 DEF TypeOK
    <3> QED
      BY <1>5, <1>7, <2>1, <3>4
  <2> QED
    BY <1>7, <2>2, <2>3 DEF connect
\* A socket is closed.
<1>19. ASSUME NEW x \in Descriptors, table' = [table EXCEPT ![x] = Closed]
       PROVE  \A d \in Descriptors :
                  \/ table'[d] = table[d]
                  \/ /\ d = x /\ table'[d].sent = <<>> /\ table'[d].handed = <<>>
                     /\ table'[d].wire = <<>>
  <2>1. Closed.sent = <<>> /\ Closed.handed = <<>> /\ Closed.wire = <<>>
    BY DEF Closed
  <2> QED
    BY <1>19, <2>1 DEF TypeOK
<1>8. ASSUME NEW c \in Clients, Idle, disconnect(c) PROVE WholeInv'
  <2>1. reading'.result = <<>>
    BY <1>8 DEF disconnect, Idle, NotReading
  <2>2. socket(c) \in Descriptors /\ table' = [table EXCEPT ![socket(c)] = Closed]
    BY <1>8, EntryIs DEF disconnect
  <2> QED
    BY <1>5, <1>8, <1>19, <2>1, <2>2
<1>20. ASSUME NEW c \in Clients, Idle, Destroy(c)
       PROVE  WholeInv'
  <2>1. reading'.result = <<>>
    BY <1>20 DEF Destroy, Idle, NotReading
  <2>2. \/ table' = table
        \/ socket(c) \in Descriptors /\ table' = [table EXCEPT ![socket(c)] = Closed]
    BY <1>20, EntryIs DEF Destroy
  <2> QED
    BY <1>5, <1>20, <1>19, <2>1, <2>2
<1>9. ASSUME NEW c \in Clients, NEW to \in Clients, Idle, Move(c, to) PROVE WholeInv'
  BY <1>5, <1>9 DEF Move, Idle, NotReading
<1>10. ASSUME NEW c \in Clients, NEW n \in 1..2, Idle, readBytes(c, n) PROVE WholeInv'
  <2>1. PICK k \in Received(c, n) : IF k > 0 THEN Take(c, k) ELSE UNCHANGED table
    BY <1>10 DEF readBytes
  <2>2. n \in Nat \ {0}
    OBVIOUS
  <2>3. Kept /\ \A d \in Descriptors :
            table'[d].handed \o table'[d].wire = table[d].handed \o table[d].wire
    BY <2>1, <2>2, TakeIs
  <2>4. reading'.result = <<>>
    BY <1>10 DEF readBytes, Idle, NotReading
  <2> QED
    BY <1>5, <1>10, <2>3, <2>4 DEF Kept
<1>11. ASSUME NEW c \in Clients, Idle, readBytesUntil(c) PROVE WholeInv'
  <2>1. reading'.result = <<>> /\ table' = table
    BY <1>11 DEF readBytesUntil
  <2> QED
    BY <1>5, <1>11, <2>1
<1>12. ASSUME NEW c \in Clients, NextByte(c) PROVE WholeInv'
  <2>1. /\ reading.client = c /\ ~Idle
        /\ client' = client \/ SetConnected(c, FALSE)
    BY <1>12, NextByteIs
  <2>2. \A d \in Clients : client'[d].m_socket = client[d].m_socket
    BY <2>1 DEF SetConnected, TypeOK, Members
  <2>3. ASSUME NEW d \in Descriptors \ {socket(c)} PROVE Pending(d) = <<>>
    BY <2>1, <2>3 DEF Pending
  <2>4. socket(c) \in Descriptors => Pending(socket(c)) = reading.result
    BY <2>1 DEF Pending
  <2>5. /\ <<>> \in Seq(Byte) /\ <<Delimiter>> \in Seq(Byte) /\ reading.result \in Seq(Byte)
        /\ Delimiter \in Byte /\ Data \in Byte
    BY DEF Byte, TypeOK
\* The call returns with the bytes that were pending and the last one.
  <2>6. ASSUME NEW ended, NEW last \in Seq(Byte),
               last = <<>> \/ socket(c) \in Descriptors,
               client'[c].m_connected => ended = "delimiter",
               Return(c, ended, last),
               socket(c) \in Descriptors =>
                   table[socket(c)].handed \o reading.result \o last
                     \o SubSeq(table[socket(c)].wire, Len(last) + 1,
                               Len(table[socket(c)].wire)) = table[socket(c)].sent
        PROVE  WholeInv'
    <3> SUFFICES ASSUME NEW d \in Descriptors
                 PROVE  (table[d].sent = table[d].handed \o Pending(d) \o table[d].wire)'
      BY DEF WholeInv
    <3>1. Pending(d)' = <<>>
      BY <2>6 DEF Return, Pending, Idle
    <3>2. table'[d].sent = table[d].sent
      BY <2>6, ReturnIs DEF Kept
    <3>3. table'[d].handed \o <<>> \o table'[d].wire = table'[d].handed \o table'[d].wire
      BY <1>4, NoneBetween
    <3>4. CASE d = socket(c)
      <4>1. Handed(c, last)
        BY <2>6, ReturnIs
      <4>2. table'[d].handed \o table'[d].wire = table[d].sent
        BY <2>6, <3>4, <4>1 DEF Handed
      <4> QED
        BY <3>1, <3>2, <3>3, <4>2
    <3>5. CASE d # socket(c)
      <4>1. table'[d] = table[d]
        BY <2>6, <3>5, ReturnIs
      <4> QED
        BY <1>4, <2>3, <3>1, <3>5, <4>1
    <3> QED
      BY <3>4, <3>5
  <2>7. ASSUME NEW ended, Return(c, ended, <<>>), ~client'[c].m_connected
        PROVE  WholeInv'
    <3>1. ASSUME socket(c) \in Descriptors
          PROVE  table[socket(c)].handed \o reading.result \o <<>>
                     \o SubSeq(table[socket(c)].wire, Len(<<>>) + 1,
                               Len(table[socket(c)].wire)) = table[socket(c)].sent
      <4>1. PICK h \in Seq(Byte), p \in Seq(Byte), w \in Seq(Byte) :
                /\ h = table[socket(c)].handed /\ p = reading.result
                /\ w = table[socket(c)].wire /\ table[socket(c)].sent = h \o p \o w
        BY <1>4, <2>4, <3>1
      <4>2. h \o p \o <<>> = h \o p
        BY <2>5, Moves
      <4>3. SubSeq(w, Len(<<>>) + 1, Len(w)) = w
        BY SubSeqFull
      <4> QED
        BY <4>1, <4>2, <4>3
    <3> QED
      BY <2>5, <2>6, <2>7, <3>1
  <2>8. ASSUME socket(c) \in Descriptors, Entry(c).wire # <<>>,
               Head(Entry(c).wire) = Delimiter, Return(c, "delimiter", <<Delimiter>>)
        PROVE  WholeInv'
    <3>1. Entry(c) = table[socket(c)]
      BY <2>8, EntryIs, ClientAssumption DEF Descriptors, SocketNone
    <3>2. PICK h, p, w :
              /\ h \in Seq(Byte) /\ p \in Seq(Byte) /\ w \in Seq(Byte)
              /\ h = table[socket(c)].handed /\ p = reading.result
              /\ w = table[socket(c)].wire /\ table[socket(c)].sent = h \o p \o w
      BY <1>4, <2>4, <2>8
    <3>3. h \o p \o <<Delimiter>> \o SubSeq(w, 2, Len(w)) = h \o p \o w
      <4>1. w # <<>> /\ Head(w) = Delimiter
        BY <2>8, <3>1, <3>2
      <4>2. w \in Seq(Byte) /\ h \in Seq(Byte) /\ p \in Seq(Byte)
        BY <3>2
      <4>3. PICK a, r : /\ a \in Seq(Byte) /\ r \in Seq(Byte)
                        /\ a = <<Delimiter>> /\ r = SubSeq(w, 2, Len(w)) /\ a \o r = w
        <5>1. w \in Seq(Byte) /\ w # <<>>
          BY <4>1, <4>2
        <5>2. \E a \in Seq(Byte) : \E r \in Seq(Byte) :
                  a = <<Head(w)>> /\ r = SubSeq(w, 2, Len(w)) /\ r = Tail(w) /\ a \o r = w
          BY <5>1, FirstByte
        <5> QED
          BY <4>1, <5>2
      <4>4. PICK g : g \in Seq(Byte) /\ g = h \o p
        BY <4>2, ConcatProperties
      <4>5. g \in Seq(Byte) /\ a \in Seq(Byte) /\ r \in Seq(Byte)
        BY <4>3, <4>4
      <4>6. (g \o a) \o r = g \o (a \o r)
        BY <4>5, ConcatAssociative
      <4> QED
        BY <4>3, <4>4, <4>6
    <3>4. Len(<<Delimiter>>) + 1 = 2
      OBVIOUS
    <3>5. table[socket(c)].handed \o reading.result \o <<Delimiter>>
              \o SubSeq(table[socket(c)].wire, Len(<<Delimiter>>) + 1,
                        Len(table[socket(c)].wire)) = table[socket(c)].sent
      BY <3>2, <3>3, <3>4
    <3> QED
      BY <2>5, <2>6, <2>8, <3>5
  <2>9. ASSUME socket(c) \in Descriptors, Entry(c).wire # <<>>, Head(Entry(c).wire) = Data,
               reading' = [reading EXCEPT !.result = Append(@, Data)],
               table' = [table EXCEPT ![socket(c)].wire = Tail(@)],
               client' = client
        PROVE  WholeInv'
    <3> SUFFICES ASSUME NEW d \in Descriptors
                 PROVE  (table[d].sent = table[d].handed \o Pending(d) \o table[d].wire)'
      BY DEF WholeInv
    <3>1. table'[d].sent = table[d].sent
      BY <2>9, DataIs DEF Kept
    <3>2. reading'.client = c /\ reading'.result = Append(reading.result, Data) /\ ~Idle'
      BY <2>1, <2>9, ClientAssumption DEF TypeOK, Idle, NotReading
    <3>3. CASE d = socket(c)
      <4>1. Pending(d)' = Append(reading.result, Data)
        BY <2>9, <3>2, <3>3 DEF Pending, socket
      <4>2. table'[d].handed = table[d].handed /\ table'[d].wire = Tail(table[d].wire)
        BY <2>9, <3>3, DataIs
      <4>3. PICK h, p, w :
                /\ h \in Seq(Byte) /\ p \in Seq(Byte) /\ w \in Seq(Byte)
                /\ h = table[d].handed /\ p = reading.result /\ w = table[d].wire
                /\ table[d].sent = h \o p \o w
        BY <1>4, <2>4, <3>3
      <4>4. Entry(c) = table[d]
        BY <2>9, <3>3, EntryIs, ClientAssumption DEF Descriptors, SocketNone
      <4>5. h \o Append(p, Data) \o Tail(w) = h \o p \o w
        <5>1. w # <<>> /\ Head(w) = Data
          BY <2>9, <4>3, <4>4
        <5>2. Data \in Byte
          BY <2>5
        <5>3. w \in Seq(Byte) /\ h \in Seq(Byte) /\ p \in Seq(Byte)
          BY <4>3
        <5>4. PICK a, r : /\ a \in Seq(Byte) /\ r \in Seq(Byte)
                          /\ a = <<Data>> /\ r = Tail(w) /\ a \o r = w
          <6>1. w \in Seq(Byte) /\ w # <<>>
            BY <5>1, <5>3
          <6>2. \E a \in Seq(Byte) : \E r \in Seq(Byte) :
                    a = <<Head(w)>> /\ r = SubSeq(w, 2, Len(w)) /\ r = Tail(w) /\ a \o r = w
            BY <6>1, FirstByte
          <6> QED
            BY <5>1, <6>2
        <5>5. PICK g : g \in Seq(Byte) /\ g = h \o p
          BY <5>3, ConcatProperties
        <5>6. g \in Seq(Byte) /\ a \in Seq(Byte) /\ r \in Seq(Byte)
          BY <5>4, <5>5
        <5>7. (g \o a) \o r = g \o (a \o r)
          BY <5>6, ConcatAssociative
        <5>8. (h \o p) \o a = h \o (p \o a)
          BY <5>3, <5>6, ConcatAssociative
        <5>9. Append(p, Data) = p \o a
          BY <5>2, <5>4, <5>3, AppendIsConcat
        <5> QED
          BY <5>4, <5>5, <5>7, <5>8, <5>9
      <4> QED
        BY <3>1, <4>1, <4>2, <4>3, <4>5
    <3>4. CASE d # socket(c)
      <4>1. table'[d] = table[d]
        BY <2>9, <3>4, DataIs
      <4>2. Pending(d)' = <<>>
        BY <2>9, <3>2, <3>4 DEF Pending, socket
      <4> QED
        BY <1>4, <2>3, <3>4, <4>1, <4>2
    <3> QED
      BY <3>3, <3>4
  <2>10. CASE UNCHANGED <<client, table, reading, answer>>
    BY <1>18, <2>10
  <2> QED
    BY <1>12, <2>7, <2>8, <2>9, <2>10, NextByteIs
<1>13. ASSUME NEW c \in Clients, writeBytes(c) PROVE WholeInv'
  <2>1. /\ table' = table /\ reading' = reading
        /\ client' = client \/ SetConnected(c, FALSE)
    BY <1>13 DEF writeBytes
  <2>2. \A d \in Clients : client'[d].m_socket = client[d].m_socket
    BY <2>1 DEF SetConnected, TypeOK, Members
  <2> QED
    BY <1>18, <2>1, <2>2
<1>14. ASSUME NEW d \in Descriptors, PeerSends(d) PROVE WholeInv'
  <2>1. client' = client /\ reading' = reading
    BY <1>14 DEF PeerSends
  <2> QED
    BY <1>14, <1>18, <2>1, PeerSendsIs
<1>15. ASSUME NEW d \in Descriptors, PeerCloses(d) PROVE WholeInv'
  <2>1. client' = client /\ reading' = reading
    BY <1>15 DEF PeerCloses
  <2> QED
    BY <1>15, <1>18, <2>1, PeerClosesIs DEF Kept
<1>16. ASSUME NEW d \in Descriptors, OthersClose(d) PROVE WholeInv'
  <2>1. /\ client' = client /\ reading' = reading
        /\ table[d].who # "client" /\ table' = [table EXCEPT ![d] = Closed]
    BY <1>16 DEF OthersClose
  <2> QED
    BY <1>18, <1>19, <2>1
<1>17. ASSUME OthersOpen PROVE WholeInv'
  <2>1. /\ client' = client /\ reading' = reading
        /\ Lowest \in Descriptors /\ table[Lowest].who # "client"
        /\ table' = [table EXCEPT ![Lowest] = [Closed EXCEPT !.who = "others"]]
    BY <1>17, LowestIs DEF OthersOpen, Closed
  <2>2. LET e == [Closed EXCEPT !.who = "others"]
        IN  e.sent = <<>> /\ e.handed = <<>> /\ e.wire = <<>>
    BY DEF Closed
  <2>3. \A d \in Descriptors : \/ table'[d] = table[d]
                               \/ /\ d = Lowest /\ table'[d].sent = <<>>
                                  /\ table'[d].handed = <<>> /\ table'[d].wire = <<>>
    BY <2>1, <2>2 DEF TypeOK
  <2> QED
    BY <1>18, <2>1, <2>3
<1> QED
  BY <1>7, <1>8, <1>9, <1>10, <1>11, <1>12, <1>13, <1>14, <1>15, <1>16, <1>17, <1>20
  DEF Next, Call, readVector

-----------------------------------------------------------------------------
(* The theorems.                                                           *)

ClientInv == TypeOK /\ OwnInv /\ WholeInv

LEMMA ClientInit == Init => ClientInv
<1> SUFFICES ASSUME Init PROVE ClientInv
  OBVIOUS
<1>1. Fresh.m_socket = SocketNone /\ ~Fresh.m_connected
  BY DEF Fresh
<1>3. Fresh \in Members
  BY MembersWith
<1>4. client \in [Clients -> Members]
  BY <1>3 DEF Init
<1>5. \A c \in Clients : client[c].m_socket = SocketNone /\ ~client[c].m_connected
  BY <1>1 DEF Init
<1>6. reading.result = <<>> /\ reading.client = "none" /\ Idle
  BY DEF Init, NotReading, Idle
<1>7. TypeOK
  BY <1>4, <1>6, ClosedIs DEF Init, TypeOK, NotReading, NoAnswer
<1>8. OwnInv
  BY <1>5, <1>6 DEF Init, OwnInv, socket, isConnected
<1>9. WholeInv
  <2>1. Closed.sent = <<>> /\ Closed.handed = <<>> /\ Closed.wire = <<>>
    BY DEF Closed
  <2>2. <<>> \o <<>> \o <<>> = <<>>
    BY ConcatEmptySeq
  <2> QED
    BY <1>6, <2>1, <2>2 DEF Init, WholeInv, Pending
<1> QED
  BY <1>7, <1>8, <1>9 DEF ClientInv

LEMMA ClientAlways == Spec => []ClientInv
<1>1. ClientInv /\ [Next]_vars => ClientInv'
  BY TypeNext, OwnNext, WholeNext DEF ClientInv
<1> QED
  BY ClientInit, <1>1, PTL DEF Spec

\* For any numbers of clients and descriptors: no client touches a descriptor that is
\* not its own, unless by a number that it has closed before and kept; and a connected
\* client has its socket open and for itself.
THEOREM OwnSocketsOnly == Spec => []SocketsOwned
<1>1. ClientInv => SocketsOwned
  BY EntryIs DEF ClientInv, OwnInv, SocketsOwned
<1> QED
  BY <1>1, ClientAlways, PTL

\* For any number of bytes: what readBytesUntil() and the other reads hand over is what
\* the peer has sent, in order and completely.
THEOREM NoByteLost == Spec => []MessagesWhole
<1>1. ClientInv => MessagesWhole
  <2> SUFFICES ASSUME ClientInv PROVE MessagesWhole
    OBVIOUS
  <2>1. ~Contains(reading.result, Delimiter)
    BY ClientAssumption DEF ClientInv, TypeOK, Contains
  <2> QED
    BY <2>1 DEF ClientInv, TypeOK, WholeInv, Pending, MessagesWhole
<1> QED
  BY <1>1, ClientAlways, PTL
=============================================================================
