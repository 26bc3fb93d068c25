----------------------------- MODULE FileProofs -----------------------------
(***************************************************************************)
(* Theorems about File, for every number of Files, descriptors and inodes, *)
(* every size, and behaviours of every length.                             *)
(***************************************************************************)
EXTENDS File, TLAPS, FiniteSetTheorems, WellFoundedInduction

-----------------------------------------------------------------------------
(* The inductive invariant.                                                *)

Members == [m_handle : {Invalid} \union Descriptors,
            m_fileHandle : {Invalid} \union Descriptors,
            m_path : BOOLEAN, m_mode : {"Read", "Write", "Create"},
            m_map : {Unmapped} \union Sizes, m_sizeValid : BOOLEAN, m_fileSize : Sizes]

Entries == [who : {"nobody", "file", "others"}, inode : {NoInode} \union Inodes]

Closes == [op : {"close", "remove", "destroy"}, file : Files]
Creates == [op : {"create"}, file : Files]

TypeOK ==
    /\ platform \in {"unix", "windows"}
    /\ path \in {NoInode} \union Inodes
    /\ size \in [Inodes -> Sizes]
    /\ table \in [Descriptors -> Entries]
    /\ \A d \in Descriptors : table[d].who = "file" => table[d].inode # NoInode
    /\ file \in [Files -> Members]
    /\ call \in {Idle} \union Closes \union Creates
    /\ robbed \in {"nothing", "close", "fclose"}
    /\ outdated \in SUBSET Files /\ settled \in SUBSET Files

\* f is between close() of its handle and fclose() of its stream.
Closing(f) == call \in [op : {"close", "remove", "destroy"}, file : {f}]

\* f holds the number d.
Holds(f, d) == d # Invalid /\ (file[f].m_handle = d \/ file[f].m_fileHandle = d)

\* While nothing has gone wrong: what a File holds is open and for itself, except for
\* the number in the stream of a File that is being closed.
Owns ==
    /\ \A f \in Files : isValid(f) => table[file[f].m_handle].who = "file" /\ ~Closing(f)
    /\ \A f \in Files :
          file[f].m_fileHandle # Invalid /\ ~Closing(f)
              => table[file[f].m_fileHandle].who = "file"
    /\ \A f, g \in Files, d \in Descriptors : Holds(f, d) /\ Holds(g, d) => f = g

OwnInv == robbed # "close" /\ (robbed = "nothing" => Owns)

\* The cached size of a settled File is valid, so that nothing changes it, and as long
\* as the mapping.  Windows settles none: there setSize() asks for the size again.
Whole(f) == f \in settled => file[f].m_sizeValid /\ file[f].m_map = file[f].m_fileSize

SettledInv == (settled # {} => Unix) /\ \A f \in Files : Whole(f)

FileInv == TypeOK /\ OwnInv /\ SizeTruth /\ SettledInv

-----------------------------------------------------------------------------
(* The operators of the model.                                             *)

LEMMA MinIs ==
    ASSUME NEW S \in SUBSET Nat, S # {}
    PROVE  Min(S) \in S /\ \A y \in S : Min(S) <= y
<1> DEFINE R == OpToRel(<, Nat)
<1>1. \A x, y \in Nat : y < x => <<y, x>> \in R
  BY DEF OpToRel
<1> HIDE DEF R
<1>2. PICK x \in S : \A y \in S : ~(<<y, x>> \in R)
  BY NatLessThanWellFounded, WFMin DEF R
<1>3. \A y \in S : ~(y < x)
  BY <1>1, <1>2
<1>4. \A y \in S : x <= y
  BY <1>3
<1> QED
  BY <1>4 DEF Min

LEMMA ClosedIs ==
    Closed \in Entries /\ Closed.who = "nobody" /\ Closed.inode = NoInode
  BY DEF Closed, Entries

LEMMA LowestIs ==
    ASSUME Free # {}
    PROVE  Lowest \in Descriptors /\ table[Lowest] = Closed
<1>1. Free \in SUBSET Nat
  BY FileAssumption DEF Free, Descriptors
<1>2. Lowest \in Free
  BY <1>1, MinIs DEF Lowest
<1> QED
  BY <1>2 DEF Free

\* With a descriptor to open it with, there is an inode that none leads to.
LEMMA NewInode ==
    ASSUME TypeOK, Free # {}
    PROVE  LET inodes == {i \in Inodes : \A d \in Descriptors : table[d].inode # i}
           IN  Min(inodes) \in Inodes
<1> DEFINE inodes == {i \in Inodes : \A d \in Descriptors : table[d].inode # i}
           Used == Descriptors \ {Lowest}
           g == [i \in Inodes |-> CHOOSE d \in Used : table[d].inode = i]
<1>1. Lowest \in Descriptors /\ \A i \in Inodes : table[Lowest].inode # i
  BY LowestIs, ClosedIs DEF NoInode, Inodes
<1>2. inodes # {}
  <2> SUFFICES ASSUME inodes = {} PROVE FALSE
    OBVIOUS
  <2>1. \A i \in Inodes : \E d \in Used : table[d].inode = i
    BY <1>1
  <2>2. \A i \in Inodes : g[i] \in Used /\ table[g[i]].inode = i
    BY <2>1
  <2> HIDE DEF g
  <2>3. g \in [Inodes -> Used]
    BY <2>2 DEF g
  <2>4. g \in Injection(Inodes, Used)
    BY <2>2, <2>3 DEF Injection, IsInjective
  <2>5. IsFiniteSet(Descriptors) /\ Cardinality(Descriptors) = MaxDescriptors
    BY FileAssumption, FS_Interval DEF Descriptors
  <2>6. IsFiniteSet(Used) /\ Cardinality(Used) = MaxDescriptors - 1
    BY <1>1, <2>5, FS_RemoveElement
  <2>7. Cardinality(Inodes) = MaxInodes
    BY FileAssumption, FS_Interval DEF Inodes
  <2>8. Cardinality(Inodes) <= Cardinality(Used)
    BY <2>4, <2>6, FS_Injection
  <2> QED
    BY <2>6, <2>7, <2>8, FileAssumption
<1>3. inodes \in SUBSET Nat
  BY FileAssumption DEF Inodes
<1>4. Min(inodes) \in inodes
  BY <1>2, <1>3, MinIs
<1> QED
  BY <1>4

LEMMA MembersWith ==
    ASSUME NEW m \in Members
    PROVE  /\ Default \in Members
           /\ \A d \in {Invalid} \union Descriptors :
                 /\ [m EXCEPT !.m_handle = d] \in Members
                 /\ [m EXCEPT !.m_fileHandle = d] \in Members
           /\ \A n \in {Unmapped} \union Sizes : [m EXCEPT !.m_map = n] \in Members
           /\ \A n \in Sizes :
                 /\ [m EXCEPT !.m_fileSize = n] \in Members
                 /\ [m EXCEPT !.m_fileSize = n, !.m_sizeValid = TRUE] \in Members
           /\ [m EXCEPT !.m_sizeValid = FALSE] \in Members
           /\ GivenAway(m) \in Members
<1>1. 0 \in Sizes
  BY FileAssumption DEF Sizes
<1>2. Default \in Members
  BY <1>1 DEF Default, Members
<1>3. ASSUME NEW d \in {Invalid} \union Descriptors
      PROVE  [m EXCEPT !.m_handle = d] \in Members /\ [m EXCEPT !.m_fileHandle = d] \in Members
  BY DEF Members
<1>4. ASSUME NEW n \in {Unmapped} \union Sizes PROVE [m EXCEPT !.m_map = n] \in Members
  BY DEF Members
<1>5. ASSUME NEW n \in Sizes
      PROVE  /\ [m EXCEPT !.m_fileSize = n] \in Members
             /\ [m EXCEPT !.m_fileSize = n, !.m_sizeValid = TRUE] \in Members
  BY DEF Members
<1>6. [m EXCEPT !.m_sizeValid = FALSE] \in Members /\ GivenAway(m) \in Members
  BY DEF Members, GivenAway
<1> QED
  BY <1>2, <1>3, <1>4, <1>5, <1>6

\* updateSize() of a File with an open descriptor, or none.
LEMMA UpdateIs ==
    ASSUME NEW m \in Members, NEW sizes \in [Inodes -> Sizes], NEW entries,
           m.m_handle # Invalid => entries[m.m_handle].inode \in Inodes
    PROVE  LET n == updateSize(m, sizes, entries)
           IN  /\ n \in Members
               /\ n.m_handle = m.m_handle /\ n.m_fileHandle = m.m_fileHandle
               /\ n.m_map = m.m_map
               /\ n.m_handle # Invalid => n.m_fileSize = sizes[entries[n.m_handle].inode]
<1>1. 0 \in Sizes
  BY FileAssumption DEF Sizes
<1>2. CASE m.m_handle = Invalid
  <2>1. [m EXCEPT !.m_fileSize = 0] \in Members
    BY <1>1, MembersWith
  <2> QED
    BY <1>2, <2>1 DEF updateSize, Members
<1>3. CASE m.m_handle # Invalid
  <2> DEFINE k == sizes[entries[m.m_handle].inode]
  <2>1. k \in Sizes
    BY <1>3
  <2> HIDE DEF k
  <2>2. [m EXCEPT !.m_fileSize = k, !.m_sizeValid = TRUE] \in Members
    BY <2>1, MembersWith
  <2>3. updateSize(m, sizes, entries) = [m EXCEPT !.m_fileSize = k, !.m_sizeValid = TRUE]
    BY <1>3 DEF updateSize, k
  <2> QED
    BY <1>3, <2>2, <2>3 DEF Members, k
<1> QED
  BY <1>2, <1>3

\* Every File that is open leads to an inode.
LEMMA InodeIs ==
    ASSUME TypeOK, Owns, NEW f \in Files
    PROVE  /\ file[f] \in Members
           /\ isValid(f) =>
                 /\ file[f].m_handle \in Descriptors /\ Holds(f, file[f].m_handle)
                 /\ Inode(f) = table[file[f].m_handle].inode
                 /\ Inode(f) \in Inodes /\ Inode(f) # NoInode
<1>1. file[f] \in Members
  BY DEF TypeOK
<1>2. ASSUME isValid(f)
      PROVE  file[f].m_handle \in Descriptors /\ Holds(f, file[f].m_handle)
  BY <1>1, <1>2 DEF isValid, Members, Holds
<1>3. ASSUME isValid(f)
      PROVE  Inode(f) = table[file[f].m_handle].inode
  BY <1>3 DEF Inode, Entry
<1>4. ASSUME isValid(f)
      PROVE  Inode(f) \in Inodes /\ Inode(f) # NoInode
  <2>1. table[file[f].m_handle].who = "file" /\ table[file[f].m_handle] \in Entries
    BY <1>2, <1>4 DEF Owns, TypeOK
  <2>2. table[file[f].m_handle].inode \in {NoInode} \union Inodes
    BY <2>1 DEF Entries
  <2> QED
    BY <1>2, <1>3, <1>4, <2>1, <2>2 DEF TypeOK
<1> QED
  BY <1>1, <1>2, <1>3, <1>4

\* The size that updateSize() caches of a File.
Learned(n, sizes, entries) ==
    n.m_handle # Invalid => n.m_fileSize = sizes[entries[n.m_handle].inode]

\* f opens a file by one of the calls of the system and has the members n afterwards:
\* it has a new descriptor, none, or on Windows the one it had.
Opened(i) == [who |-> "file", inode |-> i]
Opens(f, n) ==
    /\ n \in Members /\ file' = [file EXCEPT ![f] = n]
    /\ n.m_fileHandle = file[f].m_fileHandle
    /\ settled' = settled \ {f}
    /\ \/ /\ Free # {} /\ n.m_handle = Lowest
          /\ \E i \in Inodes : table' = [table EXCEPT ![Lowest] = Opened(i)]
       \/ table' = table /\ n.m_handle \in {Invalid, file[f].m_handle}
    /\ robbed' = robbed

LEMMA AttemptIs ==
    ASSUME TypeOK, Owns, NEW f \in Files, NEW m \in Members, Attempt(f, m),
           m.m_handle = file[f].m_handle, m.m_fileHandle = file[f].m_fileHandle
    PROVE  \E n : /\ Opens(f, n)
                  /\ \/ call' = [op |-> "create", file |-> f] /\ outdated' = outdated
                     \/ /\ call' = Idle /\ outdated' = outdated \ {f}
                        /\ Learned(n, size, table')
                  /\ path' = path /\ size' = size
<1> DEFINE found == m.m_path /\ path # NoInode /\ Free # {}
           skipped == m.m_mode = "Create" /\ ~Unix
           handle == IF skipped THEN m.m_handle ELSE IF found THEN Lowest ELSE Invalid
           opened == [m EXCEPT !.m_handle = handle]
           entries == IF ~skipped /\ found THEN [table EXCEPT ![Lowest] = Opened(path)]
                      ELSE table
           again == m.m_mode = "Create" \/ (m.m_mode = "Write" /\ ~found)
<1>1. /\ table' = entries
      /\ IF again THEN Set(f, opened) /\ call' = [op |-> "create", file |-> f]
         ELSE Set(f, updateSize(opened, size, entries)) /\ call' = Idle
      /\ outdated' = IF again THEN outdated ELSE outdated \ {f}
      /\ settled' = settled \ {f}
      /\ UNCHANGED <<disk, robbed>>
  BY DEF Attempt, Opened
<1>2. handle \in {Invalid} \union Descriptors
  BY LowestIs DEF Members
<1>3. found => path \in Inodes /\ Free # {}
  BY DEF TypeOK
<1>4. \/ /\ Free # {} /\ handle = Lowest /\ path \in Inodes
         /\ entries = [table EXCEPT ![Lowest] = Opened(path)]
      \/ entries = table /\ handle \in {Invalid, m.m_handle}
  BY <1>3
<1>5. \/ again
      \/ handle = Invalid
      \/ /\ Free # {} /\ handle = Lowest /\ path \in Inodes
         /\ entries = [table EXCEPT ![Lowest] = Opened(path)]
  BY <1>3
<1> HIDE DEF found, skipped, handle, entries, again
<1>6. /\ opened \in Members /\ opened.m_handle = handle
      /\ opened.m_fileHandle = m.m_fileHandle
  BY <1>2, MembersWith DEF Members
<1> HIDE DEF opened
<1>7. CASE again
  <2>1. Opens(f, opened)
    BY <1>1, <1>4, <1>6, <1>7 DEF Opens, Set
  <2> QED
    BY <1>1, <1>7, <2>1 DEF disk
<1>8. CASE ~again
  <2> DEFINE n == updateSize(opened, size, entries)
  <2>1. opened.m_handle # Invalid => entries[opened.m_handle].inode \in Inodes
    BY <1>5, <1>6, <1>8, LowestIs DEF Opened, TypeOK
  <2>2. size \in [Inodes -> Sizes]
    BY DEF TypeOK
  <2>3. /\ n \in Members
        /\ n.m_handle = opened.m_handle /\ n.m_fileHandle = opened.m_fileHandle
        /\ Learned(n, size, entries)
    BY <1>6, <2>1, <2>2, UpdateIs DEF Learned
  <2>4. file' = [file EXCEPT ![f] = n]
    BY <1>1, <1>8 DEF Set
  <2> HIDE DEF n
  <2>5. Opens(f, n)
    BY <1>1, <1>4, <1>6, <2>3, <2>4 DEF Opens
  <2> QED
    BY <1>1, <1>8, <2>3, <2>5 DEF disk
<1> QED
  BY <1>7, <1>8

LEMMA CreateIs ==
    ASSUME TypeOK, Owns, NEW f \in Files, Create(f)
    PROVE  /\ call = [op |-> "create", file |-> f] /\ call' = Idle
           /\ \E n : /\ Opens(f, n) /\ Learned(n, size', table')
                     /\ \/ UNCHANGED disk /\ outdated' = outdated \ {f}
                        \/ \E i \in Inodes :
                              /\ path' = i /\ size' = [size EXCEPT ![i] = 0]
                              /\ outdated' = Behind(i, {f}) \ {f}
<1> DEFINE free == {i \in Inodes : \A d \in Descriptors : table[d].inode # i}
           inode == IF path # NoInode THEN path ELSE Min(free)
           entries == [table EXCEPT ![Lowest] = Opened(inode)]
<1>1. /\ call = [op |-> "create", file |-> f] /\ call' = Idle
      /\ IF file[f].m_path /\ Free # {}
         THEN /\ path' = inode
              /\ size' = [size EXCEPT ![inode] = 0]
              /\ table' = entries
              /\ Set(f, updateSize([file[f] EXCEPT !.m_handle = Lowest], size', entries))
              /\ outdated' = Behind(inode, {f}) \ {f}
         ELSE /\ Set(f, updateSize([file[f] EXCEPT !.m_handle = Invalid], size, table))
              /\ outdated' = outdated \ {f}
              /\ UNCHANGED <<disk, table>>
      /\ settled' = settled \ {f}
      /\ UNCHANGED robbed
  BY DEF Create, Opened
<1>2. ASSUME NEW d \in {Invalid} \union Descriptors
      PROVE  LET m == [file[f] EXCEPT !.m_handle = d]
             IN  /\ m \in Members /\ m.m_handle = d
                 /\ m.m_fileHandle = file[f].m_fileHandle
  <2>1. file[f] \in Members
    BY DEF TypeOK
  <2> QED
    BY <2>1, MembersWith DEF Members
<1>3. CASE file[f].m_path /\ Free # {}
  <2>1. inode \in Inodes
    BY <1>3, NewInode DEF TypeOK
  <2>2. Lowest \in Descriptors
    BY <1>3, LowestIs
  <2> HIDE DEF inode
  <2> DEFINE m == [file[f] EXCEPT !.m_handle = Lowest]
             n == updateSize(m, size', entries)
  <2>3. size' \in [Inodes -> Sizes]
    BY <1>1, <1>3, <2>1, FileAssumption DEF TypeOK, Sizes
  <2>4. m \in Members /\ m.m_handle = Lowest /\ m.m_fileHandle = file[f].m_fileHandle
    BY <1>2, <2>2
  <2>5. entries[Lowest].inode = inode
    BY <2>2 DEF TypeOK, Opened
  <2> HIDE DEF m, entries
  <2>6. /\ n \in Members
        /\ n.m_handle = m.m_handle /\ n.m_fileHandle = m.m_fileHandle
        /\ Learned(n, size', entries)
    BY <2>1, <2>3, <2>4, <2>5, UpdateIs DEF Learned
  <2>7. /\ file' = [file EXCEPT ![f] = n] /\ table' = entries /\ robbed' = robbed
        /\ settled' = settled \ {f}
    BY <1>1, <1>3 DEF Set, m
  <2> HIDE DEF n
  <2>8. Opens(f, n)
    BY <1>3, <2>1, <2>4, <2>6, <2>7 DEF Opens, entries
  <2> QED
    BY <1>1, <1>3, <2>1, <2>6, <2>7, <2>8
<1>4. CASE ~(file[f].m_path /\ Free # {})
  <2> DEFINE m == [file[f] EXCEPT !.m_handle = Invalid]
             n == updateSize(m, size, table)
  <2>1. m \in Members /\ m.m_handle = Invalid /\ m.m_fileHandle = file[f].m_fileHandle
    BY <1>2
  <2>2. /\ file' = [file EXCEPT ![f] = n] /\ table' = table /\ UNCHANGED disk
        /\ robbed' = robbed /\ outdated' = outdated \ {f} /\ settled' = settled \ {f}
    BY <1>1, <1>4 DEF Set
  <2> HIDE DEF m
  <2>3. size \in [Inodes -> Sizes]
    BY DEF TypeOK
  <2>4. /\ n \in Members
        /\ n.m_handle = m.m_handle /\ n.m_fileHandle = m.m_fileHandle
    BY <2>1, <2>3, UpdateIs
  <2> HIDE DEF n
  <2>5. Opens(f, n) /\ Learned(n, size', table')
    BY <2>1, <2>2, <2>4 DEF Opens, Learned
  <2> QED
    BY <1>1, <2>2, <2>5
<1> QED
  BY <1>1, <1>3, <1>4

\* What a File has cached is the size of what it has open.
Truth(f) ==
    isValid(f) /\ file[f].m_sizeValid /\ f \notin outdated => file[f].m_fileSize = size[Inode(f)]

\* f is used and has the members n afterwards: it keeps its descriptor, stays settled only
\* with the mapping and the size it had, and is settled anew only by a mapping as long as
\* its valid size; the other Files either see no change or are outdated.
Uses(f, n) ==
    /\ n \in Members /\ file' = [file EXCEPT ![f] = n]
    /\ n.m_handle = file[f].m_handle
    /\ n.m_fileHandle \in {file[f].m_fileHandle, file[f].m_handle}
    /\ settled' \in SUBSET (settled \union {f})
    /\ f \in settled' =>
          \/ Unix /\ n.m_sizeValid /\ n.m_map = n.m_fileSize
          \/ /\ f \in settled /\ n.m_map = file[f].m_map
             /\ Unix /\ file[f].m_sizeValid =>
                   n.m_sizeValid /\ n.m_fileSize = file[f].m_fileSize
    /\ size' \in [Inodes -> Sizes] /\ outdated' \in SUBSET Files
    /\ \A g \in Files \ {f} :
          /\ g \in outdated => g \in outdated'
          /\ isValid(g) /\ g \notin outdated' => size'[Inode(g)] = size[Inode(g)]
    /\ isValid(f) /\ n.m_sizeValid /\ f \notin outdated' => n.m_fileSize = size'[Inode(f)]
    /\ UNCHANGED <<path, table, call, robbed>>

LEMMA AskIs ==
    ASSUME TypeOK, Owns, NEW f \in Files, Truth(f), AskSize(f)
    PROVE  \E n : Uses(f, n)
<1>1. /\ file' = [file EXCEPT ![f] = getSize(f)]
      /\ outdated' = IF file[f].m_sizeValid THEN outdated ELSE outdated \ {f}
      /\ UNCHANGED <<path, size, table, call, robbed, settled>>
  BY DEF AskSize, Sized, Set, disk
<1>2. CASE file[f].m_sizeValid
  <2>1. getSize(f) = file[f]
    BY <1>2 DEF getSize
  <2> QED
    BY <1>1, <1>2, <2>1 DEF Uses, TypeOK, Truth
<1>3. CASE ~file[f].m_sizeValid
  <2> DEFINE n == updateSize(file[f], size, table)
  <2>1. getSize(f) = n
    BY <1>3 DEF getSize
  <2>2. size \in [Inodes -> Sizes] /\ file[f] \in Members
    BY DEF TypeOK
  <2>3. file[f].m_handle # Invalid => table[file[f].m_handle].inode \in Inodes
    BY InodeIs DEF isValid
  <2>4. /\ n \in Members
        /\ n.m_handle = file[f].m_handle /\ n.m_fileHandle = file[f].m_fileHandle
        /\ n.m_map = file[f].m_map /\ Learned(n, size, table)
    BY <2>2, <2>3, UpdateIs DEF Learned
  <2> HIDE DEF n
  <2>5. isValid(f) => n.m_fileSize = size[Inode(f)]
    BY <2>4, InodeIs DEF Learned, isValid
  <2> QED
    BY <1>1, <1>3, <2>1, <2>2, <2>4, <2>5 DEF Uses, TypeOK
<1> QED
  BY <1>2, <1>3

LEMMA MaxIs ==
    ASSUME NEW a \in Int, NEW b \in Int
    PROVE  Max({a, b}) \in {a, b}
<1>1. \E x \in {a, b} : \A y \in {a, b} : x >= y
  OBVIOUS
<1> QED
  BY <1>1 DEF Max

\* The lengths after a File has changed one, and who is behind then.
LEMMA BehindIs ==
    ASSUME TypeOK, Owns, NEW f \in Files, isValid(f), NEW n \in Sizes, NEW spared,
           size' = size \/ size' = [size EXCEPT ![Inode(f)] = n],
           size' # size => \A g \in Behind(Inode(f), spared) : g = f \/ g \in outdated',
           size' = size => \A g \in outdated : g = f \/ g \in outdated'
    PROVE  /\ size' \in [Inodes -> Sizes]
           /\ \A g \in Files \ {f} :
                 /\ g \in outdated => g \in outdated'
                 /\ isValid(g) /\ g \notin outdated' /\ spared \in SUBSET {f}
                       => size'[Inode(g)] = size[Inode(g)]
<1>1. Inode(f) \in Inodes /\ Inode(f) # NoInode
  BY InodeIs
<1>2. size' \in [Inodes -> Sizes]
  BY <1>1 DEF TypeOK
<1>3. ASSUME NEW g \in Files \ {f}, g \in outdated PROVE g \in outdated'
  BY <1>3 DEF Behind
<1>4. ASSUME NEW g \in Files \ {f}, isValid(g), g \notin outdated', spared \in SUBSET {f}
      PROVE  size'[Inode(g)] = size[Inode(g)]
  <2>1. Inode(g) \in Inodes
    BY <1>4, InodeIs
  <2>2. CASE size' = size
    BY <2>2
  <2>3. CASE size' # size
    <3>1. g \notin Behind(Inode(f), spared)
      BY <1>4, <2>3
    <3>2. Inode(g) # Inode(f)
      BY <1>1, <1>4, <3>1 DEF Behind
    <3> QED
      BY <2>1, <2>3, <3>2 DEF TypeOK
  <2> QED
    BY <2>2, <2>3
<1> QED
  BY <1>2, <1>3, <1>4

LEMMA WriteIs ==
    ASSUME TypeOK, Owns, NEW f \in Files, NEW address \in Sizes, write(f, address)
    PROVE  \E n : Uses(f, n)
<1> DEFINE n == SizeInvalid(file[f])
           grown == Max({size[Inode(f)], address + 1})
<1>1. /\ isValid(f) /\ address < MaxSize /\ file' = [file EXCEPT ![f] = n]
      /\ size' = IF writable(f) THEN [size EXCEPT ![Inode(f)] = grown] ELSE size
      /\ outdated' = (IF size' = size THEN outdated ELSE Behind(Inode(f), {f})) \ {f}
      /\ settled' = settled \ {f}
      /\ UNCHANGED <<path, table, call, robbed>>
  BY DEF write, Set
<1>2. Inode(f) \in Inodes /\ file[f] \in Members
  BY <1>1, InodeIs
<1>3. size[Inode(f)] \in Sizes
  BY <1>2 DEF TypeOK
<1>4. grown \in Sizes
  <2>1. address + 1 \in Sizes
    BY <1>1, FileAssumption DEF Sizes
  <2>2. size[Inode(f)] \in Int /\ address + 1 \in Int
    BY <1>3, <2>1, FileAssumption DEF Sizes
  <2> QED
    BY <1>3, <2>1, <2>2, MaxIs
<1> HIDE DEF grown
<1>5. /\ n \in Members /\ n.m_handle = file[f].m_handle
      /\ n.m_fileHandle = file[f].m_fileHandle /\ ~n.m_sizeValid
  BY <1>2, MembersWith DEF SizeInvalid, Members
<1> HIDE DEF n
<1>6. size' = size \/ size' = [size EXCEPT ![Inode(f)] = grown]
  BY <1>1
<1>7. /\ size' # size => \A g \in Behind(Inode(f), {f}) : g = f \/ g \in outdated'
      /\ size' = size => \A g \in outdated : g = f \/ g \in outdated'
  BY <1>1
<1>8. /\ size' \in [Inodes -> Sizes]
      /\ \A g \in Files \ {f} :
            /\ g \in outdated => g \in outdated'
            /\ isValid(g) /\ g \notin outdated' => size'[Inode(g)] = size[Inode(g)]
  BY <1>1, <1>4, <1>6, <1>7, BehindIs
<1>9. outdated' \in SUBSET Files
  BY <1>1 DEF Behind, TypeOK
<1> QED
  BY <1>1, <1>5, <1>8, <1>9 DEF Uses

LEMMA SetSizeIs ==
    ASSUME TypeOK, Owns, NEW f \in Files, Truth(f), NEW k \in Sizes, setSize(f, k)
    PROVE  \E n : Uses(f, n)
<1>1. /\ isValid(f)
      /\ size' = IF writable(f) THEN [size EXCEPT ![Inode(f)] = k] ELSE size
      /\ UNCHANGED <<path, table, call, robbed, settled>>
  BY DEF setSize
<1>2. Inode(f) \in Inodes /\ Inode(f) # NoInode /\ file[f] \in Members
  BY <1>1, InodeIs
<1>3. size' = size \/ size' = [size EXCEPT ![Inode(f)] = k]
  BY <1>1
<1>4. CASE Unix
  <2>1. /\ file' = [file EXCEPT ![f] = file[f]]
        /\ outdated' = IF size' = size THEN outdated ELSE Behind(Inode(f), {})
    BY <1>4 DEF setSize, Set, AfterSetSize
  <2>2. /\ size' # size => \A g \in Behind(Inode(f), {}) : g = f \/ g \in outdated'
        /\ size' = size => \A g \in outdated : g = f \/ g \in outdated'
    BY <2>1
  <2>3. /\ size' \in [Inodes -> Sizes]
        /\ \A g \in Files \ {f} :
              /\ g \in outdated => g \in outdated'
              /\ isValid(g) /\ g \notin outdated' => size'[Inode(g)] = size[Inode(g)]
    BY <1>1, <1>3, <2>2, BehindIs
  <2>4. outdated' \in SUBSET Files
    BY <2>1 DEF Behind, TypeOK
  <2>5. isValid(f) /\ file[f].m_sizeValid /\ f \notin outdated'
            => file[f].m_fileSize = size'[Inode(f)]
    <3>1. size' # size => f \in outdated'
      BY <1>1, <1>2, <2>1 DEF Behind
    <3> QED
      BY <2>1, <3>1 DEF Truth
  <2> QED
    BY <1>1, <1>2, <2>1, <2>3, <2>4, <2>5 DEF Uses, TypeOK
<1>5. CASE ~Unix
  <2> DEFINE n == updateSize(file[f], size', table)
  <2>1. /\ outdated' = (IF size' = size THEN outdated ELSE Behind(Inode(f), {f})) \ {f}
        /\ file' = [file EXCEPT ![f] = n]
    BY <1>5 DEF setSize, Set, AfterSetSize
  <2>2. /\ size' # size => \A g \in Behind(Inode(f), {f}) : g = f \/ g \in outdated'
        /\ size' = size => \A g \in outdated : g = f \/ g \in outdated'
    BY <2>1
  <2>3. /\ size' \in [Inodes -> Sizes]
        /\ \A g \in Files \ {f} :
              /\ g \in outdated => g \in outdated'
              /\ isValid(g) /\ g \notin outdated' => size'[Inode(g)] = size[Inode(g)]
    BY <1>1, <1>3, <2>2, BehindIs
  <2>4. outdated' \in SUBSET Files
    BY <2>1 DEF Behind, TypeOK
  <2>5. table[file[f].m_handle].inode \in Inodes /\ table[file[f].m_handle].inode = Inode(f)
    BY <1>1, InodeIs
  <2>6. /\ n \in Members
        /\ n.m_handle = file[f].m_handle /\ n.m_fileHandle = file[f].m_fileHandle
        /\ n.m_map = file[f].m_map /\ Learned(n, size', table)
    BY <1>2, <2>3, <2>5, UpdateIs DEF Learned
  <2> HIDE DEF n
  <2>7. n.m_fileSize = size'[Inode(f)]
    BY <1>1, <2>5, <2>6 DEF Learned, isValid
  <2> QED
    BY <1>1, <1>5, <2>1, <2>3, <2>4, <2>6, <2>7 DEF Uses, TypeOK
<1> QED
  BY <1>4, <1>5

LEMMA MapIs ==
    ASSUME TypeOK, Owns, NEW f \in Files, Truth(f), map(f)
    PROVE  \E n : Uses(f, n)
<1> DEFINE length == MapLength(f)
           k == IF length > 0 THEN length ELSE IF Unix THEN MapFailed ELSE file[f].m_map
           n == [file[f] EXCEPT !.m_map = k]
<1>1. /\ isValid(f) /\ file' = [file EXCEPT ![f] = n]
      /\ settled' = IF Unix /\ file[f].m_sizeValid THEN settled \union {f} ELSE settled \ {f}
      /\ UNCHANGED <<path, size, table, call, robbed, outdated>>
  BY DEF map, Set, disk
<1>2. Inode(f) \in Inodes /\ file[f] \in Members
  BY <1>1, InodeIs
<1>3. length \in Sizes
  BY <1>2 DEF MapLength, TypeOK, Members
<1>4. k \in {Unmapped} \union Sizes
  BY <1>2, <1>3, FileAssumption DEF Sizes, MapFailed, Members
<1>5. Unix => k = file[f].m_fileSize
  BY <1>2, FileAssumption DEF MapLength, MapFailed, Members, Sizes
<1> HIDE DEF k
<1>6. /\ n \in Members /\ n.m_map = k
      /\ n.m_handle = file[f].m_handle /\ n.m_fileHandle = file[f].m_fileHandle
      /\ n.m_sizeValid = file[f].m_sizeValid /\ n.m_fileSize = file[f].m_fileSize
  BY <1>2, <1>4, MembersWith DEF Members
<1> HIDE DEF n
<1> QED
  BY <1>1, <1>5, <1>6 DEF Uses, TypeOK, Truth

LEMMA UnmapIs ==
    ASSUME TypeOK, Owns, NEW f \in Files, Truth(f), unmap(f)
    PROVE  \E n : Uses(f, n)
<1> DEFINE n == [file[f] EXCEPT !.m_map = Unmapped]
<1>1. /\ file' = [file EXCEPT ![f] = n] /\ settled' = settled \ {f}
      /\ UNCHANGED <<path, size, table, call, robbed, outdated>>
  BY DEF unmap, Unmap, Set, disk
<1>2. file[f] \in Members
  BY DEF TypeOK
<1>3. /\ n \in Members
      /\ n.m_handle = file[f].m_handle /\ n.m_fileHandle = file[f].m_fileHandle
      /\ n.m_sizeValid = file[f].m_sizeValid /\ n.m_fileSize = file[f].m_fileSize
  BY <1>2, MembersWith DEF Members
<1> HIDE DEF n
<1> QED
  BY <1>1, <1>3 DEF Uses, TypeOK, Truth

LEMMA HandleIs ==
    ASSUME TypeOK, Owns, NEW f \in Files, Truth(f), getHandle(f)
    PROVE  \E n : Uses(f, n)
<1> DEFINE n == [file[f] EXCEPT !.m_fileHandle = file[f].m_handle]
<1>1. /\ file' = [file EXCEPT ![f] = n]
      /\ UNCHANGED <<path, size, table, call, robbed, outdated, settled>>
  BY DEF getHandle, Set, disk, history
<1>2. file[f] \in Members /\ file[f].m_handle \in {Invalid} \union Descriptors
  BY DEF TypeOK, Members
<1>3. /\ n \in Members /\ n.m_map = file[f].m_map
      /\ n.m_handle = file[f].m_handle /\ n.m_fileHandle = file[f].m_handle
      /\ n.m_sizeValid = file[f].m_sizeValid /\ n.m_fileSize = file[f].m_fileSize
  BY <1>2, MembersWith DEF Members
<1> HIDE DEF n
<1> QED
  BY <1>1, <1>3 DEF Uses, TypeOK, Truth

-----------------------------------------------------------------------------
(* What the steps keep.                                                    *)

\* The types of what a step of the Files changes.
Typed ==
    /\ path \in {NoInode} \union Inodes
    /\ size \in [Inodes -> Sizes]
    /\ table \in [Descriptors -> Entries]
    /\ \A d \in Descriptors : table[d].who = "file" => table[d].inode # NoInode
    /\ file \in [Files -> Members]
    /\ call \in {Idle} \union Closes \union Creates
    /\ outdated \in SUBSET Files /\ settled \in SUBSET Files

\* A step keeps what SettledInv says of f.
Settles(f) ==
    (f \in settled => Unix) /\ Whole(f) => (f \in settled' => Unix) /\ Whole(f)'

LEMMA CallIs ==
    /\ \A f, g \in Files : /\ [op |-> "create", file |-> f] \in Creates
                           /\ [op |-> "create", file |-> f] # Idle
                           /\ [op |-> "create", file |-> f] = [op |-> "create", file |-> g]
                                  => f = g
    /\ call = Idle => \A f \in Files : ~Closing(f)
    /\ \A g \in Files : call = [op |-> "create", file |-> g] => \A f \in Files : ~Closing(f)
    /\ \A f, g \in Files : Closing(f) /\ Closing(g) => f = g
<1>1. \A f, g \in Files : /\ [op |-> "create", file |-> f] \in Creates
                          /\ [op |-> "create", file |-> f].op = "create"
                          /\ [op |-> "create", file |-> f].file = f
                          /\ [op |-> "create", file |-> g].file = g
  BY DEF Creates
<1>2. Idle.op = "none"
  BY DEF Idle
<1>3. \A f \in Files : Closing(f) => /\ call.op # "none" /\ call.op # "create"
                                     /\ call.file = f
  BY DEF Closing
<1>4. \A f, g \in Files : Closing(f) /\ Closing(g) => f = g
  BY <1>3
<1>5. call = Idle => \A f \in Files : ~Closing(f)
  BY <1>2, <1>3
<1>6. \A g \in Files : call = [op |-> "create", file |-> g] => \A f \in Files : ~Closing(f)
  BY <1>1, <1>3
<1> QED
  BY <1>1, <1>2, <1>4, <1>5, <1>6

LEMMA UsesKeeps ==
    ASSUME TypeOK, Owns, NEW f \in Files, NEW n, Uses(f, n), \A g \in Files : Truth(g)
    PROVE  Typed' /\ Owns' /\ (\A g \in Files : Truth(g)' /\ Settles(g))
<1>1. file'[f] = n /\ \A g \in Files \ {f} : file'[g] = file[g]
  BY DEF Uses, TypeOK
<1>2. Typed'
  BY DEF Uses, TypeOK, Typed
<1>3. \A g \in Files : /\ file'[g].m_handle = file[g].m_handle
                       /\ file'[g].m_fileHandle \in {file[g].m_handle, file[g].m_fileHandle}
  BY <1>1 DEF Uses
<1>4. table' = table /\ call' = call
  BY DEF Uses
<1>5. \A g \in Files : (isValid(g)' <=> isValid(g)) /\ (Closing(g)' <=> Closing(g))
  BY <1>3, <1>4 DEF isValid, Closing
<1>6. \A g \in Files, d \in Descriptors : Holds(g, d)' => Holds(g, d)
  BY <1>3 DEF Holds
<1>7. Owns'
  <2>1. ASSUME NEW g \in Files, isValid(g)'
        PROVE  table'[file'[g].m_handle].who = "file" /\ ~Closing(g)'
    BY <1>3, <1>4, <1>5, <2>1 DEF Owns
  <2>2. ASSUME NEW g \in Files, file'[g].m_fileHandle # Invalid, ~Closing(g)'
        PROVE  table'[file'[g].m_fileHandle].who = "file"
    BY <1>3, <1>4, <1>5, <2>2 DEF Owns, isValid
  <2>3. ASSUME NEW g \in Files, NEW h \in Files, NEW d \in Descriptors,
               Holds(g, d)', Holds(h, d)'
        PROVE  g = h
    BY <1>6, <2>3 DEF Owns
  <2> QED
    BY <2>1, <2>2, <2>3 DEF Owns
<1>8. \A g \in Files : isValid(g) => Inode(g)' = Inode(g)
  BY <1>3, <1>4, <1>5 DEF Inode, Entry
<1>9. ASSUME NEW g \in Files PROVE Truth(g)' /\ Settles(g)
  <2>1. CASE g = f
    BY <1>1, <1>5, <1>8, <2>1 DEF Uses, Truth, Settles, Whole
  <2>2. CASE g # f
    BY <1>1, <1>5, <1>8, <2>2 DEF Uses, Truth, Settles, Whole
  <2> QED
    BY <2>1, <2>2
<1> QED
  BY <1>2, <1>7, <1>9

\* A descriptor of others is opened or closed.
LEMMA OthersKeep ==
    ASSUME TypeOK, Owns, NEW d \in Descriptors, NEW e \in Entries,
           table[d].who # "file", e.who # "file", table' = [table EXCEPT ![d] = e],
           file' = file, call' = call
    PROVE  /\ table' \in [Descriptors -> Entries]
           /\ \A c \in Descriptors : table'[c].who = "file" => table'[c].inode # NoInode
           /\ Owns'
           /\ \A g \in Files : /\ isValid(g)' <=> isValid(g)
                               /\ isValid(g) => Inode(g)' = Inode(g)
<1>1. table'[d] = e /\ \A c \in Descriptors \ {d} : table'[c] = table[c]
  BY DEF TypeOK
<1>2. table' \in [Descriptors -> Entries]
  BY DEF TypeOK
<1>3. \A c \in Descriptors : table[c].who = "file" => table'[c] = table[c]
  BY <1>1
<1>4. \A g \in Files : /\ isValid(g)' <=> isValid(g)
                       /\ Closing(g)' <=> Closing(g)
                       /\ \A c \in Descriptors : Holds(g, c)' <=> Holds(g, c)
  BY DEF isValid, Closing, Holds
<1>5. \A g \in Files : isValid(g) => table'[file[g].m_handle] = table[file[g].m_handle]
  BY <1>3, InodeIs DEF Owns
<1>6. \A g \in Files : file[g].m_fileHandle # Invalid /\ ~Closing(g) =>
          table'[file[g].m_fileHandle].who = "file"
  BY <1>3 DEF Owns, TypeOK, Members
<1>7. Owns'
  BY <1>4, <1>5, <1>6 DEF Owns
<1>8. \A g \in Files : isValid(g) => Inode(g)' = Inode(g)
  BY <1>4, <1>5 DEF Inode, Entry
<1> QED
  BY <1>1, <1>2, <1>4, <1>7, <1>8 DEF TypeOK

LEMMA OpensKeeps ==
    ASSUME TypeOK, Owns, NEW f \in Files, NEW n, Opens(f, n),
           \A g \in Files : ~Closing(g), \A g \in Files : ~Closing(g)'
    PROVE  /\ table' \in [Descriptors -> Entries] /\ file' \in [Files -> Members]
           /\ \A c \in Descriptors : table'[c].who = "file" => table'[c].inode # NoInode
           /\ Owns'
           /\ \A g \in Files \ {f} : /\ file'[g] = file[g]
                                     /\ isValid(g)' <=> isValid(g)
                                     /\ isValid(g) => Inode(g)' = Inode(g)
           /\ Inode(f)' = IF isValid(f)' THEN table'[n.m_handle].inode ELSE NoInode
           /\ file'[f] = n /\ \A g \in Files : Settles(g)
           /\ robbed' = robbed /\ settled' \in SUBSET Files
<1>1. file'[f] = n /\ \A g \in Files \ {f} : file'[g] = file[g]
  BY DEF Opens, TypeOK
<1>2. file' \in [Files -> Members]
  BY DEF Opens, TypeOK
<1> DEFINE NewTypes == /\ table' \in [Descriptors -> Entries]
                       /\ \A c \in Descriptors :
                             table'[c].who = "file" => table'[c].inode # NoInode
           Keeps == \A g \in Files, c \in Descriptors : Holds(g, c) => table'[c] = table[c]
           Alone == \A g, h \in Files, c \in Descriptors : Holds(g, c)' /\ Holds(h, c)' => g = h
           Open == \A g \in Files, c \in Descriptors : Holds(g, c)' => table'[c].who = "file"
<1>3. ASSUME Free # {}, n.m_handle = Lowest,
             \E i \in Inodes : table' = [table EXCEPT ![Lowest] = Opened(i)]
      PROVE  NewTypes /\ Keeps /\ Alone /\ Open
  <2>1. PICK i \in Inodes : table' = [table EXCEPT ![Lowest] = Opened(i)]
    BY <1>3
  <2>2. Lowest \in Descriptors /\ table[Lowest].who = "nobody"
    BY <1>3, LowestIs, ClosedIs
  <2>3. Opened(i) \in Entries /\ Opened(i).who = "file" /\ Opened(i).inode # NoInode
    BY FileAssumption DEF Opened, Entries, Inodes, NoInode
  <2>4. table'[Lowest] = Opened(i) /\ \A c \in Descriptors \ {Lowest} : table'[c] = table[c]
    BY <2>1, <2>2 DEF TypeOK
  <2>5. table' \in [Descriptors -> Entries]
    BY <2>1, <2>3 DEF TypeOK
  <2>6. \A g \in Files, c \in Descriptors : Holds(g, c) => c # Lowest /\ table'[c] = table[c]
    <3> SUFFICES ASSUME NEW g \in Files, NEW c \in Descriptors, Holds(g, c)
                 PROVE  c # Lowest
      BY <2>4
    <3>1. table[c].who = "file"
      BY DEF Holds, Owns, isValid
    <3> QED
      BY <2>2, <3>1
  <2>7. \A g \in Files \ {f}, c \in Descriptors : Holds(g, c)' <=> Holds(g, c)
    BY <1>1 DEF Holds
  <2>8. \A c \in Descriptors : Holds(f, c)' => Holds(f, c) \/ c = Lowest
    BY <1>1, <1>3 DEF Holds, Opens
  <2>9. \A g, h \in Files, c \in Descriptors : Holds(g, c)' /\ Holds(h, c)' => g = h
    BY <2>6, <2>7, <2>8 DEF Owns
  <2>10. \A g \in Files, c \in Descriptors : Holds(g, c)' => table'[c].who = "file"
    <3> SUFFICES ASSUME NEW g \in Files, NEW c \in Descriptors, Holds(g, c)'
                 PROVE  table'[c].who = "file"
      OBVIOUS
    <3>1. CASE Holds(g, c)
      <4>1. table[c].who = "file"
        BY <3>1 DEF Holds, Owns, isValid
      <4> QED
        BY <2>6, <3>1, <4>1
    <3>2. CASE ~Holds(g, c)
      BY <2>3, <2>4, <2>7, <2>8, <3>2
    <3> QED
      BY <3>1, <3>2
  <2>11. \A c \in Descriptors : table'[c].who = "file" => table'[c].inode # NoInode
    BY <2>3, <2>4 DEF TypeOK
  <2> QED
    BY <2>5, <2>6, <2>9, <2>10, <2>11
<1>4. ASSUME table' = table, n.m_handle \in {Invalid, file[f].m_handle}
      PROVE  NewTypes /\ Keeps /\ Alone /\ Open
  <2>1. \A g \in Files, c \in Descriptors : Holds(g, c)' => Holds(g, c)
    BY <1>1, <1>4 DEF Holds, Opens
  <2>2. NewTypes /\ Keeps
    BY <1>4 DEF TypeOK
  <2>3. Alone
    BY <2>1 DEF Owns
  <2>4. \A g \in Files, c \in Descriptors : Holds(g, c) => table[c].who = "file"
    BY DEF Holds, Owns, isValid
  <2> QED
    BY <1>4, <2>1, <2>2, <2>3, <2>4
<1>5. NewTypes /\ Keeps /\ Alone /\ Open
  BY <1>3, <1>4 DEF Opens
<1>6. \A g \in Files : file'[g].m_handle \in {Invalid} \union Descriptors
                      /\ file'[g].m_fileHandle \in {Invalid} \union Descriptors
  BY <1>2 DEF Members
<1>7. Owns'
  <2>1. ASSUME NEW g \in Files, isValid(g)' PROVE table'[file'[g].m_handle].who = "file"
    BY <1>5, <1>6, <2>1 DEF isValid, Holds
  <2>2. ASSUME NEW g \in Files, file'[g].m_fileHandle # Invalid
        PROVE  table'[file'[g].m_fileHandle].who = "file"
    BY <1>5, <1>6, <2>2 DEF Holds
  <2> QED
    BY <1>5, <2>1, <2>2 DEF Owns
<1>8. ASSUME NEW g \in Files \ {f}
      PROVE  /\ file'[g] = file[g] /\ (isValid(g)' <=> isValid(g))
             /\ isValid(g) => Inode(g)' = Inode(g)
  <2>1. file'[g] = file[g] /\ (isValid(g)' <=> isValid(g))
    BY <1>1 DEF isValid
  <2>2. isValid(g) => table'[file[g].m_handle] = table[file[g].m_handle]
    BY <1>5, InodeIs
  <2> QED
    BY <2>1, <2>2 DEF Inode, Entry
<1>9. Inode(f)' = IF isValid(f)' THEN table'[n.m_handle].inode ELSE NoInode
  BY <1>1 DEF Inode, Entry
<1>10. \A g \in Files : Settles(g)
  BY <1>1 DEF Settles, Whole, Opens
<1> QED
  BY <1>1, <1>2, <1>5, <1>7, <1>8, <1>9, <1>10 DEF Opens, TypeOK

LEMMA ReachableIs ==
    ASSUME TypeOK, NEW name, NEW entries
    PROVE  /\ Reachable(name, entries) \in [Inodes -> Sizes]
           /\ \A i \in Inodes, d \in Descriptors :
                 entries[d].inode = i => Reachable(name, entries)[i] = size[i]
<1>1. 0 \in Sizes
  BY FileAssumption DEF Sizes
<1> QED
  BY <1>1 DEF Reachable, TypeOK

\* f closes the number d of its handle or of its stream and has the members n afterwards.
LEMMA ClosesKeep ==
    ASSUME TypeOK, Owns, NEW f \in Files, NEW n \in Members, NEW how,
           NEW d \in {file[f].m_handle, file[f].m_fileHandle},
           CloseDescriptor(f, d, how), file' = [file EXCEPT ![f] = n],
           n.m_handle = Invalid, settled' \in SUBSET settled,
           f \in settled' => /\ n.m_map = file[f].m_map
                             /\ n.m_fileSize = file[f].m_fileSize
                             /\ n.m_sizeValid = file[f].m_sizeValid,
           n.m_fileHandle # Invalid => n.m_fileHandle = file[f].m_fileHandle /\ Closing(f)',
           \A g \in Files \ {f} : ~Closing(g) /\ ~Closing(g)',
           NEW name, size' = Reachable(name, table'),
           outdated' = outdated \/ outdated' = outdated \ {f}
    PROVE  /\ table' \in [Descriptors -> Entries] /\ size' \in [Inodes -> Sizes]
           /\ file' \in [Files -> Members]
           /\ outdated' \in SUBSET Files /\ settled' \in SUBSET Files
           /\ \A c \in Descriptors : table'[c].who = "file" => table'[c].inode # NoInode
           /\ Owns'
           /\ robbed' \in {robbed, how}
           /\ d # Invalid /\ table[d].who = "file" => robbed' = robbed
           /\ d = Invalid => robbed' = robbed
           /\ \A g \in Files \ {f} : Truth(g) => Truth(g)'
           /\ Truth(f)' /\ \A g \in Files : Settles(g)
<1>1. file'[f] = n /\ \A g \in Files \ {f} : file'[g] = file[g]
  BY DEF TypeOK
<1>2. /\ file' \in [Files -> Members]
      /\ outdated' \in SUBSET Files /\ settled' \in SUBSET Files
  BY DEF TypeOK
<1>3. /\ table' \in [Descriptors -> Entries]
      /\ \A c \in Descriptors : table'[c].who = "file" => table'[c].inode # NoInode
      /\ \A c \in Descriptors : c # d => table'[c] = table[c]
  BY ClosedIs DEF CloseDescriptor, TypeOK
<1>4. d # Invalid => d \in Descriptors /\ Holds(f, d)
  BY InodeIs DEF Members, Holds
<1>5. \A g \in Files \ {f}, c \in Descriptors : Holds(g, c) => c # d
  BY <1>4 DEF Owns, Holds
<1>6. /\ robbed' \in {robbed, how}
      /\ d # Invalid /\ table[d].who = "file" => robbed' = robbed
      /\ d = Invalid => robbed' = robbed
  <2>1. d # Invalid => \A g \in Files \ {f} : ~(d \in {file[g].m_handle, file[g].m_fileHandle})
    BY <1>4, <1>5 DEF Holds
  <2> QED
    BY <2>1 DEF CloseDescriptor
<1>7. \A g \in Files \ {f} : /\ isValid(g)' <=> isValid(g)
                             /\ \A c \in Descriptors : Holds(g, c)' <=> Holds(g, c)
  BY <1>1 DEF isValid, Holds
<1>8. \A g \in Files \ {f} : isValid(g) => table'[file[g].m_handle] = table[file[g].m_handle]
  BY <1>3, <1>5, InodeIs
<1>9. \A c \in Descriptors : Holds(f, c)' => Holds(f, c)
  BY <1>1 DEF Holds
<1>10. ~isValid(f)'
  BY <1>1 DEF isValid
<1>11. Owns'
  <2>1. ASSUME NEW g \in Files, isValid(g)'
        PROVE  table'[file'[g].m_handle].who = "file" /\ ~Closing(g)'
    BY <1>1, <1>7, <1>8, <1>10, <2>1 DEF Owns
  <2>2. ASSUME NEW g \in Files, file'[g].m_fileHandle # Invalid, ~Closing(g)'
        PROVE  table'[file'[g].m_fileHandle].who = "file"
    <3>1. g # f /\ file'[g] = file[g]
      BY <1>1, <2>2
    <3>2. table[file[g].m_fileHandle].who = "file" /\ file[g].m_fileHandle \in Descriptors
      BY <2>2, <3>1, InodeIs DEF Owns, Members
    <3>3. file[g].m_fileHandle # d
      BY <1>5, <2>2, <3>1, <3>2 DEF Holds
    <3> QED
      BY <1>3, <3>1, <3>2, <3>3
  <2>3. \A g, h \in Files, c \in Descriptors : Holds(g, c)' /\ Holds(h, c)' => g = h
    BY <1>7, <1>9 DEF Owns
  <2> QED
    BY <2>1, <2>2, <2>3 DEF Owns
<1>12. size' \in [Inodes -> Sizes]
  BY ReachableIs
<1>13. ASSUME NEW g \in Files \ {f}, Truth(g) PROVE Truth(g)'
  <2>1. isValid(g) => Inode(g)' = Inode(g)
    BY <1>1, <1>7, <1>8 DEF Inode, Entry
  <2>2. isValid(g) => size'[Inode(g)] = size[Inode(g)]
    <3> SUFFICES ASSUME isValid(g) PROVE size'[Inode(g)] = size[Inode(g)]
      OBVIOUS
    <3>1. Inode(g) \in Inodes /\ file[g].m_handle \in Descriptors
          /\ Inode(g) = table[file[g].m_handle].inode
      BY InodeIs
    <3>2. table'[file[g].m_handle].inode = Inode(g)
      BY <1>8, <3>1
    <3> QED
      BY <3>1, <3>2, ReachableIs
  <2> QED
    BY <1>1, <1>7, <1>13, <2>1, <2>2 DEF Truth
<1>14. Truth(f)'
  BY <1>10 DEF Truth
<1>15. \A g \in Files : Settles(g)
  BY <1>1 DEF Settles, Whole
<1> QED
  BY <1>2, <1>3, <1>6, <1>11, <1>12, <1>13, <1>14, <1>15

LEMMA MoveKeeps ==
    ASSUME TypeOK, Owns, call = Idle, \A g \in Files : Truth(g),
           NEW f \in Files, NEW to \in Files, Move(f, to)
    PROVE  Typed' /\ Owns' /\ (\A g \in Files : Truth(g)' /\ Settles(g))
<1> DEFINE m == GivenAway(file[f])
           n == Taken(file[to], file[f])
<1>1. /\ f # to
      /\ file' = [file EXCEPT ![f] = m, ![to] = n]
      /\ outdated' = (outdated \ {f, to})
              \union {g \in {to} : f \in outdated \/ (Unix /\ ~file[f].m_sizeValid)}
      /\ settled' = settled \ {to}
      /\ UNCHANGED <<path, size, table, call, robbed>>
  BY DEF Move, disk
<1>2. file[f] \in Members /\ file[to] \in Members
  BY InodeIs
<1>3. m \in Members /\ m.m_handle = Invalid /\ m.m_fileHandle = Invalid
      /\ m.m_map = file[f].m_map /\ m.m_fileSize = file[f].m_fileSize
      /\ m.m_sizeValid = file[f].m_sizeValid
  BY <1>2, MembersWith DEF GivenAway, Members
<1>4. /\ n \in Members
      /\ n.m_handle = file[f].m_handle /\ n.m_fileHandle = file[f].m_fileHandle
      /\ n.m_fileSize = file[f].m_fileSize
      /\ ~Unix => n.m_sizeValid = file[f].m_sizeValid
  BY <1>2 DEF Taken, Members
<1> HIDE DEF m, n
<1>5. file'[f] = m /\ file'[to] = n /\ \A g \in Files \ {f, to} : file'[g] = file[g]
  BY <1>1 DEF TypeOK
<1>6. file' \in [Files -> Members]
  BY <1>1, <1>3, <1>4 DEF TypeOK
<1>7. Typed'
  BY <1>1, <1>6 DEF Typed, TypeOK
<1>8. \A g \in Files : ~Closing(g) /\ ~Closing(g)'
  BY <1>1, CallIs DEF Closing
<1>9. \A d \in Descriptors :
        /\ ~Holds(f, d)' /\ (Holds(to, d)' <=> Holds(f, d))
        /\ \A g \in Files \ {f, to} : Holds(g, d)' <=> Holds(g, d)
  BY <1>3, <1>4, <1>5 DEF Holds
<1>10. /\ ~isValid(f)' /\ (isValid(to)' <=> isValid(f))
       /\ \A g \in Files \ {f, to} : isValid(g)' <=> isValid(g)
  BY <1>3, <1>4, <1>5 DEF isValid
<1>11. Owns'
  <2>1. ASSUME NEW g \in Files, isValid(g)' PROVE table'[file'[g].m_handle].who = "file"
    <3>1. g # f
      BY <1>10, <2>1
    <3>2. CASE g = to
      <4>1. isValid(f) /\ file'[g].m_handle = file[f].m_handle
        BY <1>4, <1>5, <1>10, <2>1, <3>2
      <4> QED
        BY <1>1, <4>1 DEF Owns
    <3>3. CASE g # to
      <4>1. isValid(g) /\ file'[g] = file[g]
        BY <1>5, <1>10, <2>1, <3>1, <3>3
      <4> QED
        BY <1>1, <4>1 DEF Owns
    <3> QED
      BY <3>2, <3>3
  <2>2. ASSUME NEW g \in Files, file'[g].m_fileHandle # Invalid
        PROVE  table'[file'[g].m_fileHandle].who = "file"
    <3>1. g # f
      BY <1>3, <1>5, <2>2
    <3>2. CASE g = to
      <4>1. file'[g].m_fileHandle = file[f].m_fileHandle
        BY <1>4, <1>5, <3>2
      <4> QED
        BY <1>1, <1>8, <2>2, <4>1 DEF Owns
    <3>3. CASE g # to
      <4>1. file'[g] = file[g]
        BY <1>5, <3>1, <3>3
      <4> QED
        BY <1>1, <1>8, <2>2, <4>1 DEF Owns
    <3> QED
      BY <3>2, <3>3
  <2>3. \A g, h \in Files, c \in Descriptors : Holds(g, c)' /\ Holds(h, c)' => g = h
    <3> SUFFICES ASSUME NEW g \in Files, NEW h \in Files, NEW c \in Descriptors,
                        Holds(g, c)', Holds(h, c)'
                 PROVE  g = h
      OBVIOUS
    <3>1. g # f /\ h # f
      BY <1>9
    <3>2. \E x \in Files : Holds(x, c) /\ x = (IF g = to THEN f ELSE g)
      BY <1>9, <3>1
    <3>3. \E x \in Files : Holds(x, c) /\ x = (IF h = to THEN f ELSE h)
      BY <1>9, <3>1
    <3>4. (IF g = to THEN f ELSE g) = (IF h = to THEN f ELSE h)
      BY <3>2, <3>3 DEF Owns
    <3> QED
      BY <3>1, <3>4
  <2> QED
    BY <1>8, <2>1, <2>2, <2>3 DEF Owns
<1>12. ASSUME NEW g \in Files PROVE Truth(g)'
  <2>1. CASE g = f
    BY <1>10, <2>1 DEF Truth
  <2>2. CASE g = to
    <3>1. isValid(f) => Inode(to)' = Inode(f)
      BY <1>1, <1>4, <1>5, <1>10 DEF Inode, Entry
    <3>2. to \notin outdated' => f \notin outdated /\ (Unix => file[f].m_sizeValid)
      BY <1>1
    <3> QED
      BY <1>1, <1>4, <1>5, <1>10, <2>2, <3>1, <3>2 DEF Truth
  <2>3. CASE g \notin {f, to}
    <3>0. g \in Files \ {f, to} /\ file'[g] = file[g]
      BY <1>5, <2>3
    <3>1. isValid(g) => Inode(g)' = Inode(g)
      BY <1>1, <1>10, <3>0 DEF Inode, Entry
    <3>2. g \in outdated' <=> g \in outdated
      BY <1>1, <2>3
    <3> QED
      BY <1>1, <1>10, <3>0, <3>1, <3>2 DEF Truth
  <2> QED
    BY <2>1, <2>2, <2>3
<1>13. \A g \in Files : Settles(g)
  BY <1>1, <1>3, <1>5 DEF Settles, Whole
<1> QED
  BY <1>7, <1>11, <1>12, <1>13

LEMMA BeginCloseKeeps ==
    ASSUME TypeOK, Owns, call = Idle, \A g \in Files : Truth(g),
           NEW f \in Files, NEW op \in {"close", "remove", "destroy"}, BeginClose(f, op)
    PROVE  /\ Typed' /\ Owns' /\ robbed' = robbed
           /\ \A g \in Files : Truth(g)' /\ Settles(g)
<1> DEFINE n == HandleClosed(IF op = "close" THEN file[f] ELSE Unmap(file[f]))
           d == file[f].m_handle
<1>1. /\ CloseDescriptor(f, d, "close") /\ file' = [file EXCEPT ![f] = n]
      /\ call' = [op |-> op, file |-> f]
      /\ outdated' = outdated \ {f} /\ size' = Reachable(path, table') /\ path' = path
      /\ settled' = IF op = "close" THEN settled ELSE settled \ {f}
  BY DEF BeginClose, Set
<1>2. file[f] \in Members /\ Unmap(file[f]) \in Members
  BY MembersWith DEF TypeOK, Unmap
<1>3. /\ n \in Members /\ n.m_handle = Invalid
      /\ n.m_fileHandle = file[f].m_fileHandle
      /\ op = "close" => /\ n.m_map = file[f].m_map
                         /\ n.m_fileSize = file[f].m_fileSize
                         /\ n.m_sizeValid = file[f].m_sizeValid
  <2>1. ASSUME NEW m \in Members
        PROVE  /\ HandleClosed(m) \in Members /\ HandleClosed(m).m_handle = Invalid
               /\ HandleClosed(m).m_map = m.m_map
               /\ HandleClosed(m).m_fileSize = m.m_fileSize
               /\ HandleClosed(m).m_sizeValid = m.m_sizeValid
               /\ HandleClosed(m).m_fileHandle = m.m_fileHandle
    BY MembersWith DEF HandleClosed, WithoutHandle, Members
  <2>2. Unmap(file[f]).m_fileHandle = file[f].m_fileHandle
    BY <1>2 DEF Unmap, Members
  <2> HIDE DEF d
  <2> QED
    BY <1>2, <2>1, <2>2
<1>4. /\ call' \in Closes /\ Closing(f)'
      /\ \A g \in Files \ {f} : ~Closing(g) /\ ~Closing(g)'
  BY <1>1, CallIs DEF Closes, Closing
<1> HIDE DEF n
<1>5. /\ table' \in [Descriptors -> Entries] /\ size' \in [Inodes -> Sizes]
      /\ file' \in [Files -> Members]
      /\ outdated' \in SUBSET Files /\ settled' \in SUBSET Files
      /\ \A c \in Descriptors : table'[c].who = "file" => table'[c].inode # NoInode
      /\ Owns'
      /\ d # Invalid /\ table[d].who = "file" => robbed' = robbed
      /\ d = Invalid => robbed' = robbed
      /\ \A g \in Files \ {f} : Truth(g) => Truth(g)'
      /\ Truth(f)' /\ \A g \in Files : Settles(g)
  BY <1>1, <1>3, <1>4, ClosesKeep
<1>6. d # Invalid => table[d].who = "file"
  BY DEF Owns, isValid
<1> QED
  BY <1>1, <1>4, <1>5, <1>6 DEF Typed, TypeOK

LEMMA EndCloseKeeps ==
    ASSUME TypeOK, Owns, \A g \in Files : Truth(g), NEW f \in Files, EndClose(f)
    PROVE  /\ Typed' /\ Owns' /\ robbed' \in {robbed, "fclose"}
           /\ \A g \in Files : Truth(g)' /\ Settles(g)
<1> DEFINE d == file[f].m_fileHandle
           n == IF call.op = "destroy" THEN Default
                ELSE [file[f] EXCEPT !.m_fileHandle = Invalid]
<1>1. /\ Closing(f) /\ call' = Idle
      /\ CloseDescriptor(f, d, "fclose") /\ file' = [file EXCEPT ![f] = n]
      /\ path' \in {NoInode, path} /\ size' = Reachable(path', table')
      /\ outdated' = outdated
      /\ settled' = IF call.op = "close" THEN settled ELSE settled \ {f}
  BY DEF EndClose, Closing, Set
<1>2. file[f] \in Members /\ file[f].m_handle = Invalid
  BY <1>1 DEF TypeOK, Owns, isValid
<1>3. /\ n \in Members /\ n.m_handle = Invalid /\ n.m_fileHandle = Invalid
      /\ call.op = "close" => /\ n.m_map = file[f].m_map
                              /\ n.m_fileSize = file[f].m_fileSize
                              /\ n.m_sizeValid = file[f].m_sizeValid
  <2>1. CASE call.op = "destroy"
    BY <2>1, <1>2, MembersWith DEF Default
  <2>2. CASE call.op # "destroy"
    <3> DEFINE m == [file[f] EXCEPT !.m_fileHandle = Invalid]
    <3>1. m \in Members
      BY <1>2, MembersWith
    <3>2. /\ m.m_handle = Invalid /\ m.m_map = file[f].m_map /\ m.m_fileHandle = Invalid
          /\ m.m_fileSize = file[f].m_fileSize /\ m.m_sizeValid = file[f].m_sizeValid
      BY <1>2 DEF Members
    <3> QED
      BY <2>2, <3>1, <3>2
  <2> QED
    BY <2>1, <2>2
<1>4. \A g \in Files \ {f} : ~Closing(g) /\ ~Closing(g)'
  <2>1. \A g \in Files : ~Closing(g)'
    BY <1>1 DEF Closing, Idle
  <2> QED
    BY <1>1, <2>1, CallIs
<1> HIDE DEF n, d
<1>5. d \in {file[f].m_handle, file[f].m_fileHandle}
  BY DEF d
<1>6. /\ table' \in [Descriptors -> Entries] /\ size' \in [Inodes -> Sizes]
      /\ file' \in [Files -> Members]
      /\ outdated' \in SUBSET Files /\ settled' \in SUBSET Files
      /\ \A c \in Descriptors : table'[c].who = "file" => table'[c].inode # NoInode
      /\ Owns' /\ robbed' \in {robbed, "fclose"}
      /\ \A g \in Files \ {f} : Truth(g) => Truth(g)'
      /\ Truth(f)' /\ \A g \in Files : Settles(g)
  BY <1>1, <1>3, <1>4, <1>5, ClosesKeep
<1> QED
  BY <1>1, <1>6 DEF Typed, TypeOK

\* No File is between the two calls that create a file.
Creating(f) == call = [op |-> "create", file |-> f]

LEMMA OpeningKeeps ==
    ASSUME TypeOK, Owns, call = Idle, \A g \in Files : Truth(g),
           NEW f \in Files, NEW m \in Members, Attempt(f, m),
           m.m_handle = file[f].m_handle, m.m_fileHandle = file[f].m_fileHandle
    PROVE  /\ Typed' /\ Owns' /\ robbed' = robbed
           /\ \A g \in Files : (Creating(g)' \/ Truth(g)') /\ Settles(g)
<1>1. PICK n : /\ Opens(f, n)
               /\ \/ call' = [op |-> "create", file |-> f] /\ outdated' = outdated
                  \/ /\ call' = Idle /\ outdated' = outdated \ {f}
                     /\ Learned(n, size, table')
               /\ path' = path /\ size' = size
  BY AttemptIs
<1>2. (\A g \in Files : ~Closing(g)) /\ (\A g \in Files : ~Closing(g)')
  <2>1. call' = Idle \/ call' = [op |-> "create", file |-> f]
    BY <1>1
  <2> QED
    BY <2>1, CallIs DEF Closing, Idle
<1>3. /\ table' \in [Descriptors -> Entries] /\ file' \in [Files -> Members]
      /\ \A c \in Descriptors : table'[c].who = "file" => table'[c].inode # NoInode
      /\ Owns'
      /\ \A g \in Files \ {f} : /\ file'[g] = file[g]
                                /\ isValid(g)' <=> isValid(g)
                                /\ isValid(g) => Inode(g)' = Inode(g)
      /\ Inode(f)' = IF isValid(f)' THEN table'[n.m_handle].inode ELSE NoInode
      /\ file'[f] = n /\ \A g \in Files : Settles(g)
      /\ robbed' = robbed /\ settled' \in SUBSET Files
  BY <1>1, <1>2, OpensKeeps
<1>4. Typed'
  <2>1. call' \in {Idle} \union Closes \union Creates
    BY <1>1, CallIs
  <2>2. outdated' \in SUBSET Files
    BY <1>1 DEF TypeOK
  <2> QED
    BY <1>1, <1>3, <2>1, <2>2 DEF Typed, TypeOK
<1>5. ASSUME NEW g \in Files PROVE Creating(g)' \/ Truth(g)'
  <2>1. CASE g = f
    <3>1. isValid(f)' => n.m_handle # Invalid
      BY <1>3 DEF isValid
    <3> QED
      BY <1>1, <1>3, <2>1, <3>1 DEF Truth, Creating, Learned
  <2>2. CASE g # f
    <3>1. g \in outdated' <=> g \in outdated
      BY <1>1, <2>2
    <3>2. /\ file'[g] = file[g] /\ (isValid(g)' <=> isValid(g))
          /\ isValid(g) => Inode(g)' = Inode(g)
      BY <1>3, <2>2
    <3> QED
      BY <1>1, <3>1, <3>2 DEF Truth
  <2> QED
    BY <2>1, <2>2
<1> QED
  BY <1>3, <1>4, <1>5

LEMMA CreateKeeps ==
    ASSUME TypeOK, Owns, NEW f \in Files, Create(f), \A g \in Files \ {f} : Truth(g)
    PROVE  /\ Typed' /\ Owns' /\ robbed' = robbed
           /\ \A g \in Files : Truth(g)' /\ Settles(g)
<1>1. call = [op |-> "create", file |-> f] /\ call' = Idle
  BY CreateIs
<1>2. PICK n : /\ Opens(f, n) /\ Learned(n, size', table')
               /\ \/ UNCHANGED disk /\ outdated' = outdated \ {f}
                  \/ \E i \in Inodes : /\ path' = i /\ size' = [size EXCEPT ![i] = 0]
                                       /\ outdated' = Behind(i, {f}) \ {f}
  BY CreateIs
<1>3. (\A g \in Files : ~Closing(g)) /\ (\A g \in Files : ~Closing(g)')
  BY <1>1, CallIs DEF Closing, Idle
<1>4. /\ table' \in [Descriptors -> Entries] /\ file' \in [Files -> Members]
      /\ \A c \in Descriptors : table'[c].who = "file" => table'[c].inode # NoInode
      /\ Owns'
      /\ \A g \in Files \ {f} : /\ file'[g] = file[g]
                                /\ isValid(g)' <=> isValid(g)
                                /\ isValid(g) => Inode(g)' = Inode(g)
      /\ Inode(f)' = IF isValid(f)' THEN table'[n.m_handle].inode ELSE NoInode
      /\ file'[f] = n /\ \A g \in Files : Settles(g)
      /\ robbed' = robbed /\ settled' \in SUBSET Files
  BY <1>2, <1>3, OpensKeeps
<1>5. /\ path' \in {NoInode} \union Inodes /\ size' \in [Inodes -> Sizes]
      /\ outdated' \in SUBSET Files
      /\ \A g \in Files \ {f} :
            /\ g \in outdated => g \in outdated'
            /\ isValid(g) /\ g \notin outdated' => size'[Inode(g)] = size[Inode(g)]
  <2>1. CASE UNCHANGED disk /\ outdated' = outdated \ {f}
    BY <2>1 DEF disk, TypeOK
  <2>2. CASE \E i \in Inodes : /\ path' = i /\ size' = [size EXCEPT ![i] = 0]
                               /\ outdated' = Behind(i, {f}) \ {f}
    <3> PICK i \in Inodes : /\ path' = i /\ size' = [size EXCEPT ![i] = 0]
                            /\ outdated' = Behind(i, {f}) \ {f}
      BY <2>2
    <3>1. 0 \in Sizes /\ i # NoInode
      BY FileAssumption DEF Sizes, Inodes, NoInode
    <3>2. path' \in {NoInode} \union Inodes /\ size' \in [Inodes -> Sizes]
      BY <3>1 DEF TypeOK
    <3>3. outdated' \in SUBSET Files
      BY DEF Behind, TypeOK
    <3>4. ASSUME NEW g \in Files \ {f}, isValid(g), g \notin outdated'
          PROVE  size'[Inode(g)] = size[Inode(g)]
      <4>1. Inode(g) # i /\ Inode(g) \in Inodes
        BY <3>1, <3>4, InodeIs DEF Behind
      <4> QED
        BY <4>1 DEF TypeOK
    <3> QED
      BY <3>2, <3>3, <3>4 DEF Behind
  <2> QED
    BY <1>2, <2>1, <2>2
<1>6. Typed'
  BY <1>1, <1>4, <1>5 DEF Typed
<1>7. ASSUME NEW g \in Files PROVE Truth(g)'
  <2>1. CASE g = f
    <3>1. isValid(f)' => n.m_handle # Invalid
      BY <1>4 DEF isValid
    <3> QED
      BY <1>2, <1>4, <2>1, <3>1 DEF Truth, Learned
  <2>2. CASE g # f
    BY <1>4, <1>5, <2>2 DEF Truth
  <2> QED
    BY <2>1, <2>2
<1> QED
  BY <1>4, <1>6, <1>7

LEMMA CallKeeps ==
    ASSUME TypeOK, Owns, call = Idle, \A g \in Files : Truth(g), NEW f \in Files, Call(f)
    PROVE  /\ Typed' /\ Owns' /\ robbed' = robbed
           /\ \A g \in Files : (Creating(g)' \/ Truth(g)') /\ Settles(g)
<1> DEFINE Kept == /\ Typed' /\ Owns' /\ robbed' = robbed
                   /\ \A g \in Files : (Creating(g)' \/ Truth(g)') /\ Settles(g)
<1>1. file[f] \in Members
  BY DEF TypeOK
<1>2. ASSUME NEW n, Uses(f, n) PROVE Kept
  <2>1. robbed' = robbed
    BY <1>2 DEF Uses
  <2> QED
    BY <1>2, <2>1, UsesKeeps
<1>3. ASSUME NEW mode \in {"Read", "Write", "Create"}, Construct(f, mode) PROVE Kept
  <2> DEFINE m == [Default EXCEPT !.m_path = TRUE, !.m_mode = mode]
  <2>1. file[f] = Default /\ Attempt(f, m)
    BY <1>3 DEF Construct
  <2>2. /\ m \in Members /\ m.m_handle = Default.m_handle
        /\ m.m_fileHandle = Default.m_fileHandle
    <3>1. Default \in Members
      BY <1>1, MembersWith
    <3>2. \A d \in Members : /\ [d EXCEPT !.m_path = TRUE, !.m_mode = mode] \in Members
                            /\ LET n == [d EXCEPT !.m_path = TRUE, !.m_mode = mode]
                               IN  /\ n.m_handle = d.m_handle
                                   /\ n.m_fileHandle = d.m_fileHandle
      BY DEF Members
    <3> QED
      BY <3>1, <3>2
  <2> HIDE DEF m
  <2> QED
    BY <2>1, <2>2, OpeningKeeps
<1>4. ASSUME open(f) PROVE Kept
  BY <1>1, <1>4, OpeningKeeps DEF open
<1>5. ASSUME NEW op \in {"close", "remove", "destroy"}, BeginClose(f, op) PROVE Kept
  BY <1>5, BeginCloseKeeps
<1>6. ASSUME NEW to \in Files, Move(f, to) PROVE Kept
  <2>1. robbed' = robbed
    BY <1>6 DEF Move
  <2> QED
    BY <1>6, <2>1, MoveKeeps
<1>7. ASSUME AskSize(f) PROVE Kept
  BY <1>2, <1>7, AskIs
<1>8. ASSUME readVector(f) PROVE Kept
  BY <1>2, <1>8, AskIs DEF readVector
<1>9. ASSUME NEW address \in Sizes, write(f, address) PROVE Kept
  BY <1>2, <1>9, WriteIs
<1>10. ASSUME NEW k \in Sizes, setSize(f, k) PROVE Kept
  BY <1>2, <1>10, SetSizeIs
<1>11. ASSUME map(f) PROVE Kept
  BY <1>2, <1>11, MapIs
<1>12. ASSUME unmap(f) PROVE Kept
  BY <1>2, <1>12, UnmapIs
<1>13. ASSUME getHandle(f) PROVE Kept
  BY <1>2, <1>13, HandleIs
<1> HIDE DEF Kept
<1>14. Kept
  BY <1>3, <1>4, <1>5, <1>6, <1>7, <1>8, <1>9, <1>10, <1>11, <1>12, <1>13 DEF Call
<1> QED
  BY <1>14 DEF Kept

\* What others do, the Files do not see.
LEMMA OthersStepKeeps ==
    ASSUME TypeOK, Owns, OthersOpen \/ OthersClose \/ OthersCreate
    PROVE  /\ Typed' /\ Owns' /\ robbed' = robbed /\ call' = call
           /\ \A g \in Files : (Truth(g) => Truth(g)') /\ Settles(g)
<1>1. UNCHANGED <<file, call, robbed, outdated, settled>>
  BY DEF OthersOpen, OthersClose, OthersCreate, history
<1>2. \A g \in Files : Settles(g)
  BY <1>1 DEF Settles, Whole
<1>3. ASSUME NEW d \in Descriptors, NEW e \in Entries,
             table[d].who # "file", e.who # "file", table' = [table EXCEPT ![d] = e],
             UNCHANGED disk
      PROVE  /\ Typed' /\ Owns'
             /\ \A g \in Files : Truth(g) => Truth(g)'
  <2>1. path' = path /\ size' = size
    BY <1>3 DEF disk
  <2>2. /\ table' \in [Descriptors -> Entries]
        /\ \A c \in Descriptors : table'[c].who = "file" => table'[c].inode # NoInode
        /\ Owns'
        /\ \A g \in Files : /\ isValid(g)' <=> isValid(g)
                            /\ isValid(g) => Inode(g)' = Inode(g)
    BY <1>1, <1>3, OthersKeep
  <2>3. Typed'
    BY <1>1, <2>1, <2>2 DEF Typed, TypeOK
  <2>4. \A g \in Files : Truth(g) => Truth(g)'
    BY <1>1, <2>1, <2>2 DEF Truth
  <2> QED
    BY <2>2, <2>3, <2>4
<1>4. CASE OthersOpen
  <2>1. /\ Free # {} /\ UNCHANGED disk
        /\ table' = [table EXCEPT ![Lowest] = [Closed EXCEPT !.who = "others"]]
    BY <1>4 DEF OthersOpen
  <2>2. /\ [Closed EXCEPT !.who = "others"] \in Entries
        /\ [Closed EXCEPT !.who = "others"].who # "file"
    BY DEF Closed, Entries
  <2>3. Lowest \in Descriptors /\ table[Lowest].who # "file"
    BY <2>1, LowestIs, ClosedIs
  <2> QED
    BY <1>1, <1>2, <1>3, <2>1, <2>2, <2>3
<1>5. CASE OthersClose
  <2>1. PICK d \in Descriptors : /\ table[d].who = "others"
                                 /\ table' = [table EXCEPT ![d] = Closed]
    BY <1>5 DEF OthersClose
  <2>2. UNCHANGED disk
    BY <1>5 DEF OthersClose
  <2> QED
    BY <1>1, <1>2, <1>3, <2>1, <2>2, ClosedIs
<1>6. CASE OthersCreate
  <2>1. PICK i \in Inodes : /\ \A d \in Descriptors : table[d].inode # i
                            /\ path' = i /\ size' = [size EXCEPT ![i] = 1]
    BY <1>6 DEF OthersCreate
  <2>2. table' = table
    BY <1>6 DEF OthersCreate
  <2>3. 1 \in Sizes
    BY FileAssumption DEF Sizes
  <2>4. Typed'
    BY <1>1, <2>1, <2>2, <2>3 DEF Typed, TypeOK
  <2>5. \A g \in Files : (isValid(g)' <=> isValid(g)) /\ Inode(g)' = Inode(g)
    BY <1>1, <2>2 DEF isValid, Inode, Entry
  <2>6. Owns'
    BY <1>1, <2>2 DEF Owns, isValid, Closing, Holds
  <2>7. ASSUME NEW g \in Files, Truth(g) PROVE Truth(g)'
    <3>1. isValid(g) => size'[Inode(g)] = size[Inode(g)]
      <4> SUFFICES ASSUME isValid(g) PROVE size'[Inode(g)] = size[Inode(g)]
        OBVIOUS
      <4>1. Inode(g) # i /\ Inode(g) \in Inodes
        BY <2>1, InodeIs
      <4> QED
        BY <2>1, <4>1 DEF TypeOK
    <3> QED
      BY <1>1, <2>5, <2>7, <3>1 DEF Truth
  <2> QED
    BY <1>1, <1>2, <2>4, <2>6, <2>7
<1> QED
  BY <1>4, <1>5, <1>6

\* The sizes are true of every File that is not being created.
LEMMA StepKeeps ==
    ASSUME TypeOK, Owns, robbed = "nothing", \A g \in Files : Creating(g) \/ Truth(g), Step
    PROVE  /\ Typed' /\ Owns' /\ robbed' \in {"nothing", "fclose"}
           /\ \A g \in Files : (Creating(g)' \/ Truth(g)') /\ Settles(g)
<1> DEFINE Kept == /\ Typed' /\ Owns' /\ robbed' \in {"nothing", "fclose"}
                   /\ \A g \in Files : (Creating(g)' \/ Truth(g)') /\ Settles(g)
<1>1. ASSUME NEW f \in Files, call = Idle, Call(f) PROVE Kept
  <2>1. \A g \in Files : Truth(g)
    BY <1>1, CallIs DEF Creating
  <2> QED
    BY <1>1, <2>1, CallKeeps
<1>2. ASSUME NEW f \in Files, Create(f) PROVE Kept
  <2>1. \A g \in Files \ {f} : Truth(g)
    BY <1>2, CreateIs, CallIs DEF Creating
  <2> QED
    BY <1>2, <2>1, CreateKeeps
<1>3. ASSUME NEW f \in Files, EndClose(f) PROVE Kept
  <2>1. Closing(f)
    BY <1>3 DEF EndClose, Closing
  <2>2. \A g \in Files : Truth(g)
    BY <2>1, CallIs DEF Creating
  <2> QED
    BY <1>3, <2>2, EndCloseKeeps
<1>4. ASSUME OthersOpen \/ OthersClose \/ OthersCreate PROVE Kept
  BY <1>4, OthersStepKeeps DEF Creating
<1> HIDE DEF Kept
<1>5. Kept
  BY <1>1, <1>2, <1>3, <1>4 DEF Step
<1> QED
  BY <1>5 DEF Kept

-----------------------------------------------------------------------------
(* The invariant, and what it says.                                        *)

LEMMA FileInit == Init => FileInv
<1> SUFFICES ASSUME Init PROVE FileInv
  OBVIOUS
<1>1. /\ platform \in {"unix", "windows"} /\ table = [d \in Descriptors |-> Closed]
      /\ file = [f \in Files |-> Default]
      /\ call = Idle /\ robbed = "nothing" /\ outdated = {} /\ settled = {}
  BY DEF Init
<1>2. path \in {NoInode} \union Inodes /\ size \in [Inodes -> Sizes]
  BY FileAssumption DEF Init, Inodes, Sizes, NoInode
<1>3. Default \in Members
  <2>1. 0 \in Sizes
    BY FileAssumption DEF Sizes
  <2> QED
    BY <2>1 DEF Default, Members
<1>4. TypeOK
  BY <1>1, <1>2, <1>3, ClosedIs DEF TypeOK
<1>5. \A f \in Files : file[f].m_handle = Invalid /\ file[f].m_fileHandle = Invalid
  BY <1>1 DEF Default
<1>6. OwnInv
  BY <1>1, <1>5 DEF OwnInv, Owns, isValid, Holds
<1>7. SizeTruth /\ SettledInv
  BY <1>1, <1>5 DEF SizeTruth, SettledInv, Whole, isValid
<1> QED
  BY <1>4, <1>6, <1>7 DEF FileInv

LEMMA FileNext == FileInv /\ [Next]_vars => FileInv'
<1> SUFFICES ASSUME FileInv, [Next]_vars PROVE FileInv'
  OBVIOUS
<1>1. CASE UNCHANGED vars
  <2>1. UNCHANGED <<platform, path, size, table, file, call, robbed, outdated, settled>>
    BY <1>1 DEF vars, disk, history
  <2>2. TypeOK'
    BY <2>1 DEF FileInv, TypeOK
  <2>3. OwnInv'
    BY <2>1 DEF FileInv, OwnInv, Owns, isValid, Closing, Holds
  <2>4. SizeTruth'
    BY <2>1 DEF FileInv, SizeTruth, isValid, Inode, Entry
  <2>5. SettledInv'
    BY <2>1 DEF FileInv, SettledInv, Whole, Unix
  <2> QED
    BY <2>2, <2>3, <2>4, <2>5 DEF FileInv
<1>2. CASE Next
  <2>1. robbed = "nothing" /\ Step /\ platform' = platform
    BY <1>2 DEF Next
  <2>2. TypeOK /\ Owns /\ SettledInv
    BY <2>1 DEF FileInv, OwnInv
  <2>3. \A g \in Files : Creating(g) \/ Truth(g)
    BY <2>1 DEF FileInv, SizeTruth, Creating, Truth
  <2>4. /\ Typed' /\ Owns' /\ robbed' \in {"nothing", "fclose"}
        /\ \A g \in Files : (Creating(g)' \/ Truth(g)') /\ Settles(g)
    BY <2>1, <2>2, <2>3, StepKeeps
  <2>5. TypeOK'
    BY <2>1, <2>2, <2>4 DEF TypeOK, Typed
  <2>6. OwnInv'
    BY <2>4 DEF OwnInv
  <2>7. SizeTruth'
    BY <2>4 DEF SizeTruth, Creating, Truth
  <2>8. SettledInv'
    <3>1. settled \in SUBSET Files /\ settled' \in SUBSET Files
      BY <2>2, <2>4 DEF TypeOK, Typed
    <3>2. \A g \in Files : (g \in settled' => Unix) /\ Whole(g)'
      BY <2>2, <2>4 DEF SettledInv, Settles
    <3> QED
      BY <2>1, <3>1, <3>2 DEF SettledInv, Unix
  <2> QED
    BY <2>5, <2>6, <2>7, <2>8 DEF FileInv
<1> QED
  BY <1>1, <1>2

\* Every reachable state has the types, the descriptors and the sizes that the invariant
\* says.
THEOREM FileAlways == Spec => []FileInv
<1> QED
  BY FileInit, FileNext, PTL DEF Spec

\* getSize() never returns without asking a size that is not the one of the file that is
\* open, whatever was written, moved, closed and opened before, unless another File, or on
\* Unix setSize() or an assignment, went behind the cache.
THEOREM SizesTrue == Spec => []SizeTruth
<1>1. FileInv => SizeTruth
  BY DEF FileInv
<1> QED
  BY <1>1, FileAlways, PTL

\* A File's descriptor is open and no other File's, and it is never close() that takes
\* from others what they have opened.
THEOREM OwnHandlesOnly == Spec => []HandlesOwned
<1>1. FileInv => HandlesOwned
  <2> SUFFICES ASSUME FileInv PROVE HandlesOwned
    OBVIOUS
  <2>1. TypeOK /\ robbed # "close" /\ (robbed = "nothing" => Owns)
    BY DEF FileInv, OwnInv
  <2>2. ASSUME Owns, NEW f \in Files, isValid(f), NEW g \in Files \ {f}
        PROVE  file[g].m_handle # file[f].m_handle
    <3>1. file[f].m_handle \in Descriptors /\ Holds(f, file[f].m_handle)
      BY <2>1, <2>2, InodeIs
    <3>2. file[g].m_handle = file[f].m_handle => Holds(g, file[f].m_handle)
      BY <3>1 DEF Holds
    <3> QED
      BY <2>2, <3>1, <3>2 DEF Owns
  <2>3. ASSUME Owns, NEW f \in Files, isValid(f) PROVE Entry(f).who = "file"
    BY <2>3 DEF Owns, Entry
  <2> QED
    BY <2>1, <2>2, <2>3 DEF HandlesOwned
<1> QED
  BY <1>1, FileAlways, PTL

\* unmap() gives munmap() the length that map() gave mmap(), also when setSize(), other
\* Files and other programs have changed the length of the file or the File was closed or
\* moved away in between; a File that was written, opened or assigned to in between is not
\* settled.
THEOREM UnmapsAll == Spec => []UnmapsWhole
<1>1. FileInv => UnmapsWhole
  BY DEF FileInv, TypeOK, SettledInv, Whole, UnmapsWhole
<1> QED
  BY <1>1, FileAlways, PTL
=============================================================================
