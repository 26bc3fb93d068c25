-------------------------------- MODULE File --------------------------------
(***************************************************************************)
(* io::File on Unix (file_unix.cpp) and on Windows (file_win.cpp): objects *)
(* that open one path, cache its size, map it and are moved, in a process  *)
(* whose other threads open and close descriptors too.  Contents are       *)
(* abstracted to their lengths, and the place where a descriptor stands to *)
(* any place, so that a write may go anywhere.  A call is one step, except *)
(* that open() and close() make two calls of the system each, between      *)
(* which others may run.                                                   *)
(***************************************************************************)
EXTENDS Integers, FiniteSets, FiniteSetsExt

CONSTANTS
    Files,              \* the File objects
    MaxSize,            \* the longest contents, a bound of the model
    MaxDescriptors,     \* how many descriptors the process may have
    MaxInodes,          \* how many files the disk holds, removed ones included
    MaxCalls            \* the length of a behaviour, a bound of the model

\* The disk has room for one more file when the process has a descriptor for it.
ASSUME FileAssumption ==
    /\ MaxSize \in Nat \ {0}
    /\ MaxDescriptors \in Nat
    /\ MaxInodes \in Nat \ {0} /\ MaxInodes >= MaxDescriptors

VARIABLES
    platform,   \* which of the two implementations is built
    path,       \* the inode that the path names, or NoInode
    size,       \* the length of each inode's contents
    table,      \* the descriptors of the process
    file,       \* the members of each File
    call,       \* the call between its two steps, or Idle
    robbed,     \* how a File has closed what someone else had opened
    outdated,   \* the Files whose size was changed behind their cache
    calls,      \* how many calls there have been
    settled     \* the Files mapped, on Unix, with a valid size, and not written,
                \* opened or assigned to since

disk == <<path, size>>
history == <<outdated, settled>>
vars == <<platform, disk, table, file, call, calls, robbed, history>>

Sizes == 0..MaxSize
Inodes == 1..MaxInodes
NoInode == 0
Descriptors == 1..MaxDescriptors
Invalid == 0        \* -1 or INVALID_HANDLE_VALUE, and nullptr for a stream
Unmapped == -1
MapFailed == 0      \* reinterpret_cast<void*>(-1): a mapping without length
Idle == [op |-> "none"]

Unix == platform = "unix"
isValid(f) == file[f].m_handle # Invalid
Entry(f) == table[file[f].m_handle]
Inode(f) == IF isValid(f) THEN Entry(f).inode ELSE NoInode
writable(f) == file[f].m_mode # "Read"

Default == [m_handle |-> Invalid, m_fileHandle |-> Invalid, m_path |-> FALSE,
            m_mode |-> "Read", m_map |-> Unmapped, m_sizeValid |-> FALSE, m_fileSize |-> 0]
Closed == [who |-> "nobody", inode |-> NoInode]
Free == {d \in Descriptors : table[d] = Closed}
Lowest == Min(Free)

-----------------------------------------------------------------------------
(* Changes that several operations make.                                   *)

Set(f, members) == file' = [file EXCEPT ![f] = members]

\* updateSize() of the members m of a File, when the inodes have the lengths
\* sizes and the descriptors are those of entries.  The path names a regular
\* file, whose end lseek() always finds.
updateSize(m, sizes, entries) ==
    IF m.m_handle = Invalid THEN [m EXCEPT !.m_fileSize = 0]
    ELSE [m EXCEPT !.m_fileSize = sizes[entries[m.m_handle].inode], !.m_sizeValid = TRUE]

getSize(f) == IF file[f].m_sizeValid THEN file[f] ELSE updateSize(file[f], size, table)

\* The Files other than those in spared that hold inode i open and have
\* cached its size do not learn of a change.
Behind(i, spared) == outdated \union {g \in Files \ spared : i # NoInode /\ Inode(g) = i}

\* f closes descriptor d by the call named how, which fails if d is closed.
CloseDescriptor(f, d, how) ==
    IF d = Invalid THEN UNCHANGED <<table, robbed>>
    ELSE /\ table' = [table EXCEPT ![d] = Closed]
         /\ robbed' = IF \/ table[d].who = "others"
                         \/ \E g \in Files \ {f} : d \in {file[g].m_handle, file[g].m_fileHandle}
                      THEN how ELSE robbed

-----------------------------------------------------------------------------
(* Opening.                                                                *)

Init ==
    /\ platform \in {"unix", "windows"}
    /\ \/ path = NoInode /\ size = [i \in Inodes |-> 0]
       \/ path = 1 /\ size = [i \in Inodes |-> IF i = 1 THEN 1 ELSE 0]
    /\ table = [d \in Descriptors |-> Closed]
    /\ file = [f \in Files |-> Default]
    /\ call = Idle /\ calls = 0 /\ robbed = "nothing"
    /\ outdated = {} /\ settled = {}

\* The first attempt of open() with the members m: an existing file.  In mode
\* Create Windows leaves it out, and Unix loses the descriptor it yields.
Attempt(f, m) ==
    LET found == m.m_path /\ path # NoInode /\ Free # {}
        skipped == m.m_mode = "Create" /\ ~Unix
        opened == [m EXCEPT !.m_handle = IF skipped THEN @ ELSE IF found THEN Lowest ELSE Invalid]
        entries == IF ~skipped /\ found
                   THEN [table EXCEPT ![Lowest] = [who |-> "file", inode |-> path]]
                   ELSE table
        again == m.m_mode = "Create" \/ (m.m_mode = "Write" /\ ~found)
    IN  /\ table' = entries
        /\ IF again THEN Set(f, opened) /\ call' = [op |-> "create", file |-> f]
           ELSE Set(f, updateSize(opened, size, entries)) /\ call' = Idle
        /\ outdated' = IF again THEN outdated ELSE outdated \ {f}
        /\ settled' = settled \ {f}
        /\ UNCHANGED <<disk, robbed>>

\* The second one: create the file, or empty the one that is there by now.
Create(f) ==
    LET inode == IF path # NoInode THEN path
                 ELSE Min({i \in Inodes : \A d \in Descriptors : table[d].inode # i})
        entries == [table EXCEPT ![Lowest] = [who |-> "file", inode |-> inode]]
    IN  /\ call = [op |-> "create", file |-> f] /\ call' = Idle
        /\ IF file[f].m_path /\ Free # {}
           THEN /\ path' = inode
                /\ size' = [size EXCEPT ![inode] = 0]
                /\ table' = entries
                /\ Set(f, updateSize([file[f] EXCEPT !.m_handle = Lowest], size', entries))
                /\ outdated' = Behind(inode, {f}) \ {f}
           ELSE /\ Set(f, updateSize([file[f] EXCEPT !.m_handle = Invalid], size, table))
                /\ outdated' = outdated \ {f}
                /\ UNCHANGED <<disk, table>>
        /\ settled' = settled \ {f}
        /\ UNCHANGED robbed

\* File(path, mode), and clone() of a File with that mode.
Construct(f, mode) ==
    /\ file[f] = Default
    /\ Attempt(f, [Default EXCEPT !.m_path = TRUE, !.m_mode = mode])

open(f) == Attempt(f, file[f])

-----------------------------------------------------------------------------
(* Closing.  A wrong close() forgets to reset its handle.                  *)

WithoutHandle(m) == [m EXCEPT !.m_handle = Invalid]
KeepsHandle(m) == m
HandleClosed(m) == WithoutHandle(m)

Unmap(m) == [m EXCEPT !.m_map = Unmapped]

\* An inode that no name and no descriptor leads to is gone.
Reachable(name, entries) ==
    [i \in Inodes |-> IF i = name \/ \E d \in Descriptors : entries[d].inode = i
                     THEN size[i] ELSE 0]

\* close(), and remove() and the destructor, which unmap first.
BeginClose(f, op) ==
    /\ CloseDescriptor(f, file[f].m_handle, "close")
    /\ Set(f, HandleClosed(IF op = "close" THEN file[f] ELSE Unmap(file[f])))
    /\ call' = [op |-> op, file |-> f]
    /\ outdated' = outdated \ {f}
    /\ settled' = IF op = "close" THEN settled ELSE settled \ {f}
    /\ size' = Reachable(path, table')
    /\ UNCHANGED path

\* fclose() closes the number of the handle the stream was made from, which
\* was closed before; remove() goes on to unlink the path, which Windows
\* refuses while a handle to it is open.
EndClose(f) ==
    /\ call \in [op : {"close", "remove", "destroy"}, file : {f}]
    /\ call' = Idle
    /\ CloseDescriptor(f, file[f].m_fileHandle, "fclose")
    /\ Set(f, IF call.op = "destroy" THEN Default ELSE [file[f] EXCEPT !.m_fileHandle = Invalid])
    /\ path' = IF /\ call.op = "remove" /\ file[f].m_path
                  /\ Unix \/ \A d \in Descriptors : table'[d].inode # path
               THEN NoInode ELSE path
    /\ settled' = IF call.op = "close" THEN settled ELSE settled \ {f}
    /\ size' = Reachable(path', table')
    /\ UNCHANGED outdated

-----------------------------------------------------------------------------
(* Moving.                                                                 *)

\* What f keeps, which is everything but what it has given away.
GivenAway(m) == [m EXCEPT !.m_handle = Invalid, !.m_fileHandle = Invalid, !.m_path = FALSE]

\* What the target with the members m takes: not the mapping, and on Unix not
\* whether the size is valid.
Taken(m, from) ==
    [from EXCEPT !.m_map = m.m_map,
                 !.m_sizeValid = IF Unix THEN m.m_sizeValid ELSE from.m_sizeValid]

\* File(File &&), into a new object, and operator=(File &&), which closes
\* nothing that the target had.
Move(f, to) ==
    /\ f # to
    /\ file' = [file EXCEPT ![f] = GivenAway(file[f]), ![to] = Taken(file[to], file[f])]
    /\ outdated' = (outdated \ {f, to})
            \union {g \in {to} : f \in outdated \/ (Unix /\ ~file[f].m_sizeValid)}
    /\ settled' = settled \ {to}
    /\ UNCHANGED <<disk, table, call, robbed>>

-----------------------------------------------------------------------------
(* Using a File.                                                           *)

Sized(f) == Set(f, getSize(f)) /\ outdated' = (IF file[f].m_sizeValid THEN outdated
                                               ELSE outdated \ {f})

AskSize(f) == Sized(f) /\ UNCHANGED <<disk, table, call, robbed, settled>>

\* readVector() and readVectorAtomic(), and what returns strings from them:
\* the size is asked for when no number of bytes is given.
readVector(f) == isValid(f) /\ AskSize(f)

\* A wrong writeBuffer() leaves the cached size valid.
SizeKept(m) == m
SizeInvalid(m) == [m EXCEPT !.m_sizeValid = FALSE]

\* writeBuffer() and writeBufferAtomic() of a byte at some address; a File
\* opened for reading only loses its cache.
write(f, address) ==
    /\ isValid(f) /\ address < MaxSize
    /\ Set(f, SizeInvalid(file[f]))
    /\ size' = IF writable(f) THEN [size EXCEPT ![Inode(f)] = Max({@, address + 1})] ELSE size
    /\ outdated' = (IF size' = size THEN outdated ELSE Behind(Inode(f), {f})) \ {f}
    /\ settled' = settled \ {f}
    /\ UNCHANGED <<path, table, call, robbed>>

\* Unix keeps the cached size, Windows asks again.  A wrong setSize() asks again
\* on both.
AsksAgain(m, sizes) == updateSize(m, sizes, table)
AfterSetSize(m, sizes) == IF Unix THEN m ELSE updateSize(m, sizes, table)

setSize(f, n) ==
    /\ isValid(f)
    /\ size' = IF writable(f) THEN [size EXCEPT ![Inode(f)] = n] ELSE size
    /\ Set(f, AfterSetSize(file[f], size'))
    /\ outdated' = IF Unix
                   THEN IF size' = size THEN outdated ELSE Behind(Inode(f), {})
                   ELSE (IF size' = size THEN outdated ELSE Behind(Inode(f), {f})) \ {f}
    /\ UNCHANGED <<path, table, call, robbed, settled>>

\* Unix maps as much as the cached size says, whether it is valid or not.
MapLength(f) == IF Unix THEN file[f].m_fileSize ELSE size[Inode(f)]

\* An empty file cannot be mapped: Unix keeps what mmap() returned, Windows
\* what it had.
map(f) ==
    /\ isValid(f)
    /\ Set(f, [file[f] EXCEPT !.m_map = IF MapLength(f) > 0 THEN MapLength(f)
                                        ELSE IF Unix THEN MapFailed ELSE @])
    /\ settled' = IF Unix /\ file[f].m_sizeValid THEN settled \union {f} ELSE settled \ {f}
    /\ UNCHANGED <<disk, table, call, robbed, outdated>>

unmap(f) ==
    /\ file[f].m_map # Unmapped
    /\ Set(f, Unmap(file[f]))
    /\ settled' = settled \ {f}
    /\ UNCHANGED <<disk, table, call, robbed, outdated>>

\* A stream of its own over the same descriptor, once.
getHandle(f) ==
    /\ isValid(f) /\ file[f].m_fileHandle = Invalid
    /\ Set(f, [file[f] EXCEPT !.m_fileHandle = file[f].m_handle])
    /\ UNCHANGED <<disk, table, call, robbed, history>>

-----------------------------------------------------------------------------
(* Everybody else.                                                         *)

\* Another thread of the process opens and closes something of its own.
OthersOpen ==
    /\ Free # {} /\ \A d \in Descriptors : table[d].who # "others"
    /\ table' = [table EXCEPT ![Lowest] = [Closed EXCEPT !.who = "others"]]
    /\ UNCHANGED <<disk, file, call, robbed, history>>
OthersClose ==
    /\ \E d \in Descriptors : /\ table[d].who = "others"
                              /\ table' = [table EXCEPT ![d] = Closed]
    /\ UNCHANGED <<disk, file, call, robbed, history>>

\* Another program creates the file.
OthersCreate ==
    /\ path = NoInode
    /\ \E i \in Inodes : /\ \A d \in Descriptors : table[d].inode # i
                         /\ path' = i /\ size' = [size EXCEPT ![i] = 1]
    /\ UNCHANGED <<table, file, call, robbed, history>>

Call(f) ==
    \/ \E mode \in {"Read", "Write", "Create"} : Construct(f, mode)
    \/ open(f)
    \/ \E op \in {"close", "remove", "destroy"} : BeginClose(f, op)
    \/ \E to \in Files : Move(f, to)
    \/ AskSize(f)
    \/ readVector(f)
    \/ \E address \in Sizes : write(f, address)
    \/ \E n \in Sizes : setSize(f, n)
    \/ map(f)
    \/ unmap(f)
    \/ getHandle(f)

Step ==
    \/ /\ call = Idle /\ calls < MaxCalls /\ calls' = calls + 1
       /\ \E f \in Files : Call(f)
    \/ (\E f \in Files : Create(f) \/ EndClose(f)) /\ UNCHANGED calls
    \/ (OthersOpen \/ OthersClose \/ OthersCreate) /\ UNCHANGED calls

\* What follows a descriptor closed under its owner is left out.
Next ==
    /\ robbed = "nothing"
    /\ Step
    /\ UNCHANGED platform

Spec == Init /\ [][Next]_vars

-----------------------------------------------------------------------------
(* Properties.                                                             *)

\* The size that getSize() will return without asking is the size of what
\* the File has open, whatever was written, moved, closed and opened before:
\* unless another File changed the size, or on Unix setSize() did or the File
\* was assigned one whose size was not valid.
SizeTruth ==
    \A f \in Files :
        robbed = "nothing" /\ call # [op |-> "create", file |-> f] =>
            (isValid(f) /\ file[f].m_sizeValid /\ f \notin outdated
                => file[f].m_fileSize = size[Inode(f)])

\* Every File has its descriptor for itself, and it is open; a File closes
\* what others have opened only when fclose() repeats the close of a number
\* that they were given in between.
HandlesOwned ==
    /\ robbed # "close"
    /\ robbed = "nothing" => \A f \in Files : isValid(f) =>
            /\ Entry(f).who = "file"
            /\ \A g \in Files \ {f} : file[g].m_handle # file[f].m_handle

\* munmap() is given the length that mmap() was by a File that was mapped with a
\* valid size and neither written nor opened or assigned to since, whatever else
\* has happened to the file: setSize() of this and of other Files, their writes, other
\* programs, questions for the size, the close of the handle, moving the File away.
UnmapsWhole == \A f \in settled : file[f].m_fileSize = file[f].m_map
=============================================================================
