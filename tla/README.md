# libwolv in TLA+

A verification development for libwolv, a C++ library of small components. The
specifications say what the stateful ones do, TLC checks them on small
instances, and TLAPS proves the most important facts for every instance.

Paths below are relative to `src/libs/`.

## 1. The system

libwolv has no main program. Its parts are used by applications and by each
other: `SocketServer` owns a `ThreadPool`; `ChangeTracker` owns a `std::jthread`
that sleeps in a `StoppableSleep`; everything else is called by one thread.

| Component | State | Operations | What is hard | What makes it correct |
|---|---|---|---|---|
| `ThreadPool` (utils) | task list, two flags, counter of available threads, threads | enqueue, stop, stopTasks, destructor, moves; the worker loop | notifications and the counter are outside the lock; stop and stopTasks from different threads | no task lost, doubled or overtaken; no lost wakeup; stop drains and returns; stopTasks waits for what runs |
| `SocketServer` (net) | listening socket, pool; per handler a socket and a vector | accept, shutdown, disconnectClients, moves; the client handler | handlers at any point while the server stops; timeouts, failures, throwing callbacks | bytes are delivered once; close callback once and last; stopping closes the clients and returns |
| `StoppableSleep`, `ChangeTracker` (io) | thread, stop state, condition variable, inotify queue | startTracking, stopTracking; the tracking thread | the stop callback writes a local variable of another thread and may be missed; batches | one live thread; stopping returns; queued changes are reported once |
| `RingBuffer` (containers) | slots, head, tail, size | push, pop, clear, front, back, iteration | wrap-around, overwriting | behaves like a bounded queue that forgets the oldest element |
| `BufferedReader` (io) | cached window of a data source, range | seek, setEndAddress, read, readReverse, iterators | window reuse, both directions, 64-bit wrap-around | reads what the uncached source has |
| `File` (io) | descriptor, `FILE*`, mapping, cached size | open, close, read, write, setSize, map, clone, moves | several handles on one file that must stay in step | cached size is the size; a handle is closed once |
| `SocketClient` (net) | socket, connected flag | connect, read, write, disconnect, moves | partial reads and writes, end of stream, timeouts | flag and socket agree; a socket is closed once |
| `IntervalTree` (containers) | intervals, lazily built index | insert, emplace, clear, overlapping, nextInterval, prevInterval | index rebuilt in const methods, pruned search, inverted intervals | every query answers what a search of all intervals would |
| `MathEvaluator` (math_eval) | variables, functions, last error | evaluate, setters | operator stack, unary operators, arguments of calls, errors | the value of the expression, or an error; a failed evaluation changes nothing |
| `uintwide_t` (types) | limbs of a number | arithmetic, roots, powers, gcd, text, bits | carries, guessed digits, Karatsuba's recursion, signs | the integer the limbs stand for, modulo 2 to the width |
| string utilities, UTF conversions (utils), `Crc` (hash) | none, or an accumulator | pure functions | tables, boundaries, positions that move | equal to a reference definition |
| `Lazy`, `UUID`, `Expected`, guards, `ScopedTryLock`, file-system helpers | none worth a model | | | |

`PROJECT.json` lists all of them with their status and lists the hazards, each at
its line, with the property that would catch it.

## 2. Modules

    TaskPool <== ThreadPool <-- SocketServer     BoundedFifo <== RingBuffer
                     |               |                              |
           MCThreadPool        MCSocketServer                 MCRingBuffer
           ThreadPoolProofs <-- SocketServerProofs            RingBufferProofs

    ChangeTracker -- MCChangeTracker             BufferedReader -- BufferedReaderProofs
         |                                       File -- MCFile, FileProofs
         +--- ChangeTrackerProofs                SocketClient -- MCSocketClient
                                                      |
                                                      +--- SocketClientProofs

    IntervalQueries <== IntervalTree -- IntervalTreeProofs

    WideInteger <-- WideAlgorithms, WideText <-- MCWideInteger ---+
         |               MathEvaluator       --- MCMathEvaluator -+- MCFunctions
         +--- MCKaratsuba        Text        --- MCText ----------+
                                 Crc         <-- MCCrc -----------+
                                                 (all on MCInputs)

`<==`: implements, `<--`: is instantiated by. MC modules hold model values,
symmetry and the sets the `.cfg` files choose from.

The modules hold faulty variants of definitions, as a plausible bug would have
them: in a section of their own or, marked as wrong ones, before the definition.
None of them is part of `Next`. Replacing the definition they are a variant of
makes a property fail, and `PROJECT.json` ("mutants") says which.

### ThreadPool

`utils/include/wolv/utils/thread_pool.hpp`. `m_mutex` protects `m_tasks` and
`m_stop`, so a critical section is one action, and what the code does after
releasing the lock is another:

| Code | Action |
|---|---|
| `enqueue` 75-79, 81 | `Enqueue`, `NotifyOne` |
| `stop` 84-89, 91, 93-96 | `Stop`, `NotifyAll`, `Joined` |
| `stopTasks` 99-103, 105-107, 109-112 | `StopTasks`, `SpinEnds`, `ResetStopTasks` |
| `wait` 121-123 | `Wait`, `SpuriousWakeup` |
| the return at 125-126 | `Exit` |
| `pop_front` 128-129 | `Take` |
| `fetch_sub`, the call and return of the task, `fetch_add` 132-134 | `Run`, `Return`, `Release` |

The condition variable is the set of workers whose place is `"waiting"`; waiting
and releasing the lock are one step, as the standard guarantees. A task is
its number in the order of enqueue calls; a task in `LongTasks` runs until it reads
its `shouldStop` argument as true, which is how handlers in `SocketServer` use it.
The destructor is `Stop(Owner)` without anything after it. History variables:
`accepted`, `finished`, `owed` (what stop has to drain) and `interrupted` (what
ran when stopTasks began).

`TaskPool` is the promise: tasks start in the order they were accepted, each once,
at most one per slot, and a pool closes only when everything accepted has
finished. `Promise` is the refinement; the pool closes when the last worker exits.

### SocketServer

`net/source/net/socket_server.cpp`. The module declares the pool's variables,
instantiates `ThreadPool` as `Pool` with the acceptor as its only producer, and
conjoins its own steps to the pool's: the k-th task is the handler of the k-th
accepted client. Between `Pool!Run` and `Pool!Return` a worker walks through
`handleClient`: `CheckStop` (140), `Receive`, `ReceiveTimeout` and `ReceiveEnd` (the
outcomes of `recv`, 141-172), `Callback` and `CallbackThrows`, then the rest of the
lambda in `accept`: `CloseCallback` (189) and `CloseSocket` (191). `shutdown` is
`Shutdown`, the pool's own steps, `PoolStopped`, `CloseListener`. The peers are
external: they send, or close. Bytes are counted; their values do not matter to
any property.

### ChangeTracker

`io/source/io/file.cpp` 138-171 and the Linux `trackImpl` in `file_unix.cpp`. The
program's thread makes `StartTracking`, `StopTracking`, `RequestStop` (which runs a
registered stop callback in that thread: `NotifySleep`, then `SetShouldStop`) and
`Join`. A tracking thread makes `Watch`, the steps of `sleep` (`BeginSleep`,
`CheckFlag`, `Timeout`, `SpuriousWakeup`, `ReadResult`, `EndSleep`), `Poll` and
`Report`. `Change` is the file system. That the callback notifies first, and sets the flag afterwards
without the mutex, is in the model: a `NotifySleep` that comes before `CheckFlag`
wakes nobody, `CheckFlag` still reads false, and the sleep goes on until its
timeout. `ReadResult` may see either value of a flag that is being set.

### RingBuffer

`containers/include/wolv/container/ring_buffer.hpp`, with the code's own indices
modulo `m_capacity`; `BoundedFifo` is the queue without them. The abstract
content is what the iterators visit.

### BufferedReader

`io/include/wolv/io/buffered_reader.hpp`. `Read` is `read` (forward) and `readReverse`
with `updateBuffer` inside: `ReadInto` has a disjunct for the bypass of long reads, for
a read inside the window (`InWindow`, 285), for one that moves it (`Refill`, 286-301,
`Serves`, 303, `Moved`, 304-309), and for one that reads nothing. `seek` and
`setEndAddress` leave the window alone, as in the code. `Step` is one round of a
loop over `Iterator` or `ReverseIterator`. Addresses are numbers modulo `Modulus`, so
that the subtraction in the reverse window and the `rend` of a range that starts
at 0 wrap around. The source is external: its byte at address `a` is `a`, which
tells every place apart.

### File

`io/source/io/file.cpp`, `file_unix.cpp`, `file_win.cpp`; `platform` says which of the
two is built. `table` holds the descriptors of the process, which other threads
use as well (`OthersOpen`, `OthersClose`), `path` the file that the one path
names, which another program may create (`OthersCreate`), `size` the lengths of the
files, removed ones that are still open included. `open` is `Attempt` and, in the
modes that create, `Create`; `close`, `remove` and the destructor are `BeginClose` and
`EndClose`, since the handle and the stream made from it are closed by two calls of
the system. Everything else is one action: `Move` (both moves), `AskSize` and
`readVector` (`getSize`, `updateSize`), `write`, `setSize`, `map`, `unmap`, `getHandle`.
History: `outdated` are the Files whose size was changed behind their cache, `settled`
those that were mapped on Unix with a valid size and have not written, opened or been
assigned to since, `robbed` tells that a File has closed what was not its own, after
which nothing is followed further.

### SocketClient

`net/source/net/socket_client.cpp`, with TCP. `connect`, `disconnect`, `Destroy`, `Move`,
`readBytes`, `readVector` (the overload that returns a vector) and `writeBytes` are one
action each; `readBytesUntil` begins the loop whose rounds are `NextByte`, between which
another thread may write. The peers and the descriptors of other threads are
external: what `recv` may return is `Received`. `recv` and `send` may fail at any time, which
covers a reset, a signal and, for a client that does not block, the absence of data; so
`m_blocking` changes nothing that a caller could tell and is left out. Where `send` would
raise SIGPIPE the process is taken to ignore it.
`stale` are the clients that hold the number of a socket they have closed.

### IntervalTree

`containers/include/wolv/container/interval_tree.hpp`. `ensureIndex` sorts the positions
(`Sorted`) and builds the nodes: `buildNode` is the recursion of the code as a recursive
function, with nodes known by their ranges instead of by indices into a vector, and with
the ranges that halving does not reach included. `Search` is the pruned descent, which
appends to the result as the code does; `nextInterval` and `prevInterval` are the two
binary searches. `Assign` changes a value through an
iterator. `IntervalQueries` keeps the pairs and answers each query from its
definition; where the code's sort leaves the order of equal intervals open, so
do both modules.

### WideInteger, WideAlgorithms, WideText

`types/include/wolv/types/uintwide_t.h`. A number is a function from limb indices to
limbs. `WideInteger` has the constructors, comparison, addition and subtraction with
their carries, every way to multiply (by rows, by columns, unrolled for four and
eight limbs, Karatsuba), division by a limb and by Knuth's method, shifts and bits;
`WideAlgorithms` builds roots, powers, gcd, lcm and the Miller-Rabin test on them;
`WideText` reads and writes texts in base 8, 10 and 16 and exports and imports bits in
chunks. Width, signedness and the thresholds between the algorithms are CONSTANTS, so that
small numbers go through the algorithms meant for large ones.

### MathEvaluator

`math_eval/source/math_eval/math_evaluator.cpp` for integers: `parseInput`, `toPostfix`,
`evaluate` over the postfix queue, and `evaluate` of a text, which changes the variables
and the last error.

### Text, Crc

`utils/source/utils/string.cpp`, `string.hpp`, `charconv.hpp` and `hash/include/wolv/hash/crc.hpp`:
one operator per function.

`MCFunctions` runs these pure parts. A behaviour chooses a part with a first input, then
a second one, then lets the pair go; the properties are about this last step and
compare results for the chosen pair.

## 3. What TLC checks

| Run | Instance | Shows |
|---|---|---|
| `pool_safety` | 2 workers, 2 producers, an owner that stops and interrupts, another thread that interrupts, 3 tasks, one of them long; symmetric workers and producers | `TasksConserved`, `NoLostWakeup`, `StopTasksWaits`, `StopDrains`, and `Promise` (refinement) |
| `pool_live` | 2 workers, 1 producer, 1 controller, 3 tasks | `EveryTaskStarts`, `StopReturns`, `StopTasksReturns` |
| `server_safety` | 2 workers, 2 clients, 1 byte each, another thread that disconnects | `ShutdownClosesClients`, `DisconnectWaits`, `CloseCallbackLast` |
| `server_flow` | 1 worker, 2 clients (one keep-alive), 2 bytes each, buffer of 1, the owner disconnects; fair | `NothingDropped`, `ShutdownReturns`, `DisconnectReturns`, `Served` |
| `tracker` | 2 threads (a restart), 4 changes, batches of 2, a queue of 3; fair | `OnlyOwnThread`, `CallbackWithinSleep`, `StopNoticed`, `OwnerReturns`, `ChangesReported` |
| `ring_buffer` | 3 slots, 3 elements | `EndsAgree`, `Promise` (refinement) |
| `buffered_reader` | 5 bytes of source, a window of 3, reads of up to 4, addresses 0 to 5, modulus 16 | `BytesTrue`, `ReadComplete`, `WalkComplete` |
| `file` | 2 Files, 2 descriptors, 2 files on the disk of at most 1 byte, 7 calls, both platforms | `SizeTruth`, `HandlesOwned`, `UnmapsWhole` |
| `socket_client` | 2 clients, 2 descriptors, 2 bytes from each peer | `SocketsOwned`, `MessagesWhole` |
| `interval_tree` | 3 intervals with ends in 0 to 2 (inverted ones included), 2 values | `Promise` (refinement of `IntervalQueries`) |
| `functions` | see below | `ArithmeticExact`, `QuotientsExact`, `RootsAndPowersExact`, `TextRoundTrips`, `ExpressionsExact`, `SessionsConsistent`, `StringsExact`, `EncodingsExact`, `ChecksumsExact` |
| `kara` | products of powers of the base at 12 limbs, which stand for 196 | `KaratsubaExact` is violated: see Findings |

Bounds. Two workers and two producers are the least with which a notification
can go to the wrong sleeper and a second push can come between a push and its
notification; the third task is there so that one is queued while two run. Two
clients on one worker make one wait in the queue, on two workers they are
handled at once; two bytes through a buffer of one need two `recv` calls. Two tracking
threads are one restart. Four changes against batches of two and a queue of three
overflow the queue and need a second batch. A buffer of three slots has every
relation of two indices (equal and empty, equal and full, wrapped, not wrapped).
A window of three in a source of five has to be moved by either iterator, overlaps
both ends of the range, and is shorter than the longest read. Two Files and two
descriptors are the least with which a number is closed, given to somebody else and
closed again, and two files on the disk let a removed one live on beside its
successor; seven calls reach a File that is opened, mapped, written, moved, and
asked for its size again. Two clients and two descriptors do the same for sockets; two
bytes are a message and its delimiter. Three intervals make an index of two levels.

The inputs of `functions`: all pairs of unsigned and of signed numbers of three limbs
of two bits (the division meets every correction of a guessed digit, the gcd and the
roots every pair); products of four limbs and of eight limbs from extreme digits, the
latter by rows, unrolled, and by Karatsuba with two levels; primes and composites
around the table of small primes and beyond it; texts and chunks of all numbers of
two limbs of four bits; expressions of six shapes with every pair of binary
operators; sessions of every pair of 23 texts; strings of up to seven characters;
code points at every boundary of the encodings and sequences of four UTF-16 units;
checksums with every order of input and output of messages in two pieces.

`MaxTasks`, `MaxClients`, `MaxBytes`, `MaxChanges`, `MaxSent`, `MaxInodes`, `MaxDescriptors`,
`MaxIntervals`, `MaxSize` and the set `Threads` bound what the environment and the callers do
and never what the code does; `MaxCalls` bounds the length of a behaviour. Runs that
bound behaviours so that they end turn off the deadlock check (`tracker`, `file`,
`interval_tree`, `kara`), and so does `socket_client`, which stops when a
descriptor of somebody else was touched.

Fairness. `FairSpec` gives weak fairness to the steps of each thread inside a
call that has begun (an operating system schedules runnable threads, callbacks and
ordinary tasks return, `recv` returns within its 100 ms timeout), and none to
beginning a call, to peers, to changes of the file system, or to spurious
wakeups. The tracker's `Timeout` is strongly fair: `wait_for` waits until a fixed
point of time, so that spurious wakeups do not put it off.

Findings. `KaratsubaExact`: `eval_multiply_kara_n_by_n_to_2n` halves the number of
limbs with `n / 2U` (uintwide_t.h 4661) and recurses while more than 48 are left, so
that a size of 49 loses the last limb of both factors. The widths the class admits
(2^n times 1 to 63) contain 6272 bits, 196 limbs, whose quarters have 49. At this
width 1 * 2^1536 is 0, as a program compiled with the header confirms. The run scales
the case down: its recursion ends at t = 2 limbs where the code's ends at t = 48, and
its 12 limbs, like the 196, are 4 * (t + 1). At widths
whose sizes stay even down to 48, `ArithmeticExact` covers the recursion.

`QuotientsExact`: the comment at uintwide_t.h 2658 says "The sign of the remainder follows the
sign of the denominator", but line 2659 tests the numerator's sign, as the built-in integers
do: -7 % 2 is -1 and 7 % -2 is 1. The model follows the code, and the property, which the run
checks for every pair of signs, states what the code does; it is the comment that is wrong.

What the properties leave open, because the code does:

- `StopTasksWaits`: a worker that has popped a task and not yet decremented the
  counter is not waited for (thread_pool.hpp 130-132).
- `StopReturns` is checked with one thread making both calls. With a second thread
  in `stopTasks`, line 111 can reset the flag `stop` has set, and a long task then
  never learns that it should return. `EveryTaskStarts` is claimed for tasks that
  were accepted before the stop.
- `StopTasksReturns` holds because the number of tasks is bounded: with an endless
  supply the busy-wait need not see all threads available at once.
- `ShutdownClosesClients`: a connection that `accept` has in hand, or enqueues on
  the stopped pool, stays open.
- `NothingDropped`: a handler that is told to stop drops what it has collected.
- `Served`: a peer falls silent eventually, since `MaxBytes` bounds it; without
  100 ms of silence the callback is not called.
- `ChangesReported` is about queued changes; those before the watch exists or beyond
  the kernel's queue limit are lost, in the model as in the code.
- `BytesTrue` and `ReadComplete` say nothing of bytes outside the range: after
  `setEndAddress` the old window still serves them, a new window does not. Reads so
  close to 2^64 that `address + size` wraps are excluded by `ReaderAssumption`: line 285
  then takes them for reads inside the window.
- `SizeTruth`: on Unix `setSize` keeps the cached size, and an assignment takes
  `m_fileSize` without `m_sizeValid`; nothing tells a File what another one did.
- `HandlesOwned`: `fclose` repeats the close of the handle's number (file_unix.cpp 86)
  and may hit what another thread has opened in between. The run contains it.
- `UnmapsWhole` claims nothing of a File that was written, opened again or assigned to
  while it was mapped, or mapped with a size it had not asked for: the next question
  for the size, or the assignment, changes how much is unmapped.
- In mode Create on Unix the first descriptor is lost, and in mode Write a file that
  appears between the two calls is emptied; both are in the model.
- `SocketsOwned`: `disconnect` keeps the number it has closed, and a second one or the
  destructor closes it again. `connect` forgets the socket it had, and keeps the flag
  when there is no descriptor left.
- `MessagesWhole` does not claim that `readBytesUntil` returns: at the end of the stream
  it spins until a write fails.
- `QuotientsExact` says what the code does for a division by zero (the largest
  number). `RootsAndPowersExact` leaves out the smallest signed number. Newton's iteration
  gives up after 64 steps, which no input of the run needs: nothing follows for a large
  `k` at a large width, where `rootk` can stop above the root.
- `TextRoundTrips`: octal texts with the digit 8 are read, `to_chars` counts the final
  NUL, zeros that fill a field stand before the sign; export into chunks of 0 bits
  divides by zero and is left out.
- `SessionsConsistent`: `()` has no value and no error, a call of a function without a
  value neither; an error stays set after a later success.
- `EncodingsExact`: a pair of surrogates that begins with a low one is converted, and
  bytes that are cut off are not given to `utf8ToUtf32`, which does not look at the length.

## 4. What is proved

`ThreadPoolProofs` proves, for all finite sets of workers (at least one) and
callers, every `MaxTasks` and every set of long tasks:

| Theorem | Property |
|---|---|
| `TypeCorrect` | the type invariant `TypeOK` |
| `Conserved` | `TasksConserved` |
| `NoWakeupLost` | `NoLostWakeup` |
| `StopTasksCorrect` | `StopTasksWaits` |
| `StopDrainsQueue` | `StopDrains` |
| `Implements` | `Promise`, the refinement of `TaskPool` |

The assumptions are the three named ones of `ThreadPool`, all of which TLC
evaluates in the runs of `MCThreadPool`.

`TypeOK` alone is not inductive: that the counter stays in its range needs what it
counts. `CounterInv` says the counter is the number of workers minus those between
`fetch_sub` and `fetch_add`, `HandsInv` that a worker holds a task exactly from
`Take` to `Return`; together they are `TypeInv`. `TasksConserved` is inductive
relative to `TypeInv`. `SpinInv` extends `StopTasksWaits` to the busy-wait: during it
every interrupted task is finished or still running, and when it ends, the counter
says (`NobodyRuns`, by the cardinalities of `CounterInv`) that nobody runs. `DrainInv`
carries `StopDrains`: a worker exits only with an empty queue, and `owed` counts
tasks of the queue's past. `Inv` collects these. The refinement maps `Take` to
`Start`, `Return` to `Finish`, `Enqueue` to `Accept`, the first `Stop` to `Stop`, the
last `Exit` to `Close`, and everything else to stuttering. `NoLostWakeup` is
inductive with `TypeInv`: each step changes the number of queued tasks, notifiers
and awake workers so that the inequality is kept.

`RingBufferProofs` proves, for every capacity of at least one and every set of elements
that `Nothing` is not in:

| Theorem | Property |
|---|---|
| `TypeCorrect` | the type invariant `TypeOK` |
| `EndsCorrect` | `EndsAgree` |
| `Implements` | `Promise`, the refinement of `BoundedFifo` |

The invariant `Inv` is `TypeOK` with `IndexInv`: `m_head` is `m_tail` advanced by
`m_size`. Without it a push could overwrite an element that is still visited.
`Wraps` and `AdvanceIs` turn the remainder into at most one subtraction; `PushShows`
and `PopShows` say which slot each visited place shows after a step, from which both
the invariant and the refinement follow.

`SocketServerProofs` proves, for every finite set of workers (at least one) and of
other threads, every number of clients and bytes, and every size of the buffer:

| Theorem | Property |
|---|---|
| `DrivesPool` | `Pool!Spec`, the specification of the server's thread pool |
| `ShutdownCloses` | `ShutdownClosesClients` |
| `DisconnectIsWaited` | `DisconnectWaits` |
| `NothingIsDropped` | `NothingDropped` |
| `CloseCallbackIsLast` | `CloseCallbackLast` |

`ServerAssumption` is the only assumption, and implies those of the pool.
`DrivesPool` shows that each step of the server is a step of its pool or leaves the
pool alone, so that `ThreadPoolProofs`, instantiated as `Threads`, says of this pool what
it says of all (`PoolAlways`). What the pool does not know is in two more invariants.
`SocketInv`: a handler returns only after it has closed its socket, and a socket
stays closed; with `StopDrains` and `StopTasksWaits` of the pool this gives the two
theorems about stopping, since the finished tasks are the closed clients.
`FlowInv`: where a worker is in a handler tells how the connection has ended
and how often the close callback was called, what a handler holds is what it has received
and not yet delivered, and a client whose handler has not begun is untouched. Here the
pool's invariant is needed again: no task is in the hands of two workers.

`ChangeTrackerProofs` proves, for every number of restarts and of changes and every
size of the queue and of a batch, from `TrackerAssumption`:

| Theorem | Property |
|---|---|
| `OneThread` | `OnlyOwnThread` |
| `CallbackSafe` | `CallbackWithinSleep` |
| `StopIsNoticed` | `StopNoticed` |

`AliveInv` adds to `OnlyOwnThread` what is alive while a thread is being stopped: the
one that is joined, and its successor. `CallbackInv` says that a stop callback is
registered within a sleep only, which cannot end before the callback has (the
destructor of a `stop_callback` waits for it). `PollInv` follows a thread that has
polled after the request: its next sleep begins with the request made, so the callback
runs in its own thread, before the flag is read.

`BufferedReaderProofs` proves, for every size of the source, of the window and of a
read and every width of the addresses that `ReaderAssumption` admits:

| Theorem | Property |
|---|---|
| `OnlyTrueBytes` | `BytesTrue` |
| `NoByteMissing` | `ReadComplete` |
| `LoopsVisitAll` | `WalkComplete` |

`WindowInv`, which makes `BytesTrue` inductive: a valid window is not empty, ends where
the callers' addresses end, and holds the source's bytes from `m_bufferAddress` on. `WrapIs` replaces
each remainder by at most one addition of `Modulus`, `RefillServes` says which bytes
a moved window has, in the reverse direction through two subtractions that wrap
around, and `CopyIsTrue` that the two ways to limit a copy stay inside the window: the
forward one does not subtract the offset into it, which is right because a
forward read either fits or has just moved the window to its address. `WalkInv` says that
an iterator after k bytes is at the k-th address behind its start and has seen those
before it; `VisitIs` that these addresses and the wrapped `End` never coincide
early.

`SocketClientProofs` proves, for every set of clients, every number of descriptors and
any number of bytes, from `ClientAssumption` (the two bytes differ, and `"none"` is no
client):

| Theorem | Property |
|---|---|
| `OwnSocketsOnly` | `SocketsOwned` |
| `NoByteLost` | `MessagesWhole` |

`SocketsOwned` alone is not inductive: it says nothing of a client that has a socket and
is not connected, which `connect`, a failed read and a move leave behind and which may
close that socket later. `OwnInv` says of every client outside `stale` that the descriptor
it names was opened by a client and that no other client outside `stale` names it, and
that a connected client, or one with part of a message in hand, is such a client; so a
socket that is touched for the first time after nothing was closed is the client's own.
`WholeInv` is the conservation of bytes with `Pending`, the bytes that the running
`readBytesUntil` holds, and needs `OwnInv`: a descriptor whose bytes are in hand is a
client's, so that no other thread, which closes only what it has opened, closes it.

`FileProofs` proves, on both platforms, for every set of Files, every number of
descriptors and of files on the disk, and every size, from `FileAssumption` (when the
process has a descriptor left, the disk has room for the file to open with it):

| Theorem | Property |
|---|---|
| `FileAlways` | the inductive invariant `FileInv` |
| `SizesTrue` | `SizeTruth` |
| `OwnHandlesOnly` | `HandlesOwned` |
| `UnmapsAll` | `UnmapsWhole` |

`HandlesOwned` is not inductive: it says nothing of the stream that `getHandle` has made,
which outlives the handle through a `close` of the handle alone, is moved, and is closed by
number. `Owns` says of both numbers of a File that they are open and that no other File
holds them, with one exception: between the two calls of `close` the stream's number may
be anybody's. So the first call always closes the File's own descriptor, and only the second one
can rob others. `SizeTruth` needs `Owns`, since the size is read through the descriptor;
`Truth` is it for one File, which a File between the two calls of `open` is exempt from.
The proof does not treat the operations one by one: `Opens`, `Uses` and `ClosesKeep` say
what three kinds of operations may change, and one lemma for each kind that this keeps the
invariant. `BehindIs` is the heart of `Uses`: whoever has the changed file open is in
`outdated` afterwards. `NewInode`, by the pigeonhole principle, says that a file can be
created whenever a descriptor is free. `UnmapsWhole` is not inductive either: `SettledInv` adds
that the size of a settled File is valid, so that no question for it changes it (`Settles`).

`IntervalTreeProofs` proves, for intervals between integers of any set, any values and any
number of intervals:

| Theorem | Property |
|---|---|
| `IndexValid` | the inductive invariant `TreeInv` |
| `Implements` | `Promise`, the refinement of `IntervalQueries` |

`TreeInv` says what a valid index is: the positions in their stable order (`Ordered`), and
at every node a bound of the ends below it (`Bounded`). `SortedIs` shows that there is such an
order: the rank of a position, the number of those before it, is a bijection. That the two
recursions end (`BuildingEnds`, `SearchEnds`), that `buildNode` bounds the ends
(`BoundsHold`) and that the search lists every overlapping interval once (`SearchLists`)
are inductions on the length of a range, written as the search for a shortest
counterexample (`MinIs`). `PrunesNothing` is the fact the pruning relies on: below a node that is skipped no
interval overlaps, by `maxEnd` on the one side and by the order of the starts on the other;
it holds for inverted intervals, too. The refinement maps `m_intervals` to
`stored`, and every operation to the one of the same meaning. That `m_nodes` and
`m_sortedIntervals` are of the present intervals at each query is `IndexBuilt`, that a change of a value in place
leaves them valid is in `ChangesAre`.

The type invariants of `ThreadPool` and `RingBuffer` are proved and not in the runs'
lists; the invariant that carries the proof implies them.

With this every safety property and every refinement that the runs check for a component
with state is proved. Only model-checked: liveness (the prover does not treat fairness), and
the pure algorithms (`WideInteger`, `WideAlgorithms`, `WideText`, `MathEvaluator`, `Text`, `Crc`),
which follow loops and recursion of the code with RECURSIVE and bitwise operators: the
prover has no arithmetic in a module that reaches one.

## 5. Not modelled

- The moves of `ThreadPool` and `SocketServer` and the move assignment of
  `ChangeTracker`. A pool that was moved to keeps the `m_stopTasks` that its own `stop`
  has set, and counts its available threads from 0.
- Exceptions that terminate the program: from a task, a close callback, a tracking
  thread that cannot set up its watch.
- Calls of a component from inside its own threads (a task that stops its pool, a
  callback that stops its tracker).
- The race of `shutdown` and `accept` on `m_socket`: the model makes its write atomic.
- The kqueue and Windows variants of `trackImpl`, `fs_macos.m`.
- `File`: `seek`, `flush`, `disableBuffering`, `getFileInfo`, `m_openError`, and what Windows
  refuses while a file is mapped. A path names a regular file: `updateSize` when `lseek`
  cannot find the end (file_unix.cpp 188-191), as of a pipe, is left out.
- `SocketClient`: UDP, Windows, a process that SIGPIPE ends.
- `IntervalTree`: queries of two threads at once, which would build the mutable index
  twice. The header documents a template parameter `SearchRange` (line 21) that
  the class does not have.
- `MathEvaluator`: floating point, overflow, calls without a closing bracket.
- `uintwide_t`: floating point conversions, random generators, hashes, streams.
- `Lazy`: `get` is `std::call_once` around one call. The moves leave the flag behind: an
  object made from an initialized one runs its initializer again, if it has one.
- `Expected`, scope guards, `ScopedTryLock`, `UUID`, file-system helpers, the testing
  harness: value plumbing, one system call each, or random bytes.

## 6. Plan

Modelled first were the parts that carry concurrency (pool, server, tracker), then the
containers with wrapping indices and the reader, then the owners of descriptors
(`File`, `SocketClient`), the interval tree, and the pure algorithms. What is left, in order:

1. The moves of `ThreadPool`, with two pool objects, and what its invariants become.
