# Verification of `deps`

`deps` is a small C++ library for network programs: a single-threaded event
loop over epoll (or kqueue) with TCP and UDP sockets, growing byte buffers,
packet marshalling, a bounded queue between threads, a logger, and thin wrappers
around pthreads. This directory holds TLA+ models of its stateful parts, the
TLC configurations that check them on small instances, and TLAPS proofs of the
properties that matter most, for every value of the constants.

## 1. The system

| Component | Source | State | Operations | What makes it correct |
|---|---|---|---|---|
| Event loop and socket container | `net/epoll_container.*`, `net/socket_container.h` | `m_socketMap` (descriptor to socket), `m_closeSockets`, `m_socketNum`, the kernel's interest list, the static `checkFd` | `AddSocket`, `ModSocket`, `DelSocket`, `GetSocket`, `HandleSockets` (`CheckCloseSocket`, `CheckTimeoutSocket`, `epoll_wait`, dispatch), `SocketNum` | the two registries agree; an entry is a live socket that owns the descriptor; no pointer outlives its object; every closed socket is deleted; the scan reaches every idle session |
| TCP sockets | `net/tcp_socket.*`, `net/socket_base.h`, `net/packet_handler.h` | `m_fd`, `m_state`, `m_timeout`/`m_lastAccessTime`, `m_output`, `m_isResending`, the kernel's descriptors | `Listen`, `Connect`, `Accept`, `Read`, `Write`, `SendPacket`, `Close`, `HandleRead/Write/Error/Timeout`, `SetTimeout` | a descriptor has one owner and is closed once; the application is told of a close once; output that could not be sent is watched for |
| Bounded thread queue | `sys/thread_queue.h`, `thread_mutex.*`, `thread_cond.*`, `locker.h` | `m_queue`, `m_maxsize`, the mutex, the condition variable | `push_front/back` (one element, a batch), `pop_front`, `swap`, `clear`, `size`, `empty` | every call is atomic; the bound; no lost wake-up |
| Block buffer | `net/blockbuffer.h` | `m_data`, `m_size`, `m_block`, `m_maxblocks`, two static counters | `append`, `reserve`, `resize`, `replace`, `erase`, `set_max_blocks`, destructor | it behaves as a text; the data fits the memory; the counters are exact |
| UDP sockets | `net/udp_socket.*` | as TCP, no output buffer and no connecting state | `Listen`, `Connect`, `Read`, `SendPacket`, `Close`, `HandleRead/Write/Error/Timeout` | as TCP |
| Packets, marshalling | `net/packet.h`, `marshall.h`, `varstr.h` | a `Pack` over a block buffer, an `Unpack` over memory, a message object | `Encoder::serialize`, `Decoder::deserialize` and `pick*`, `push_*` and `pop_*` of every type | what was packed is unpacked; lengths fit their fields; parts of packets are refused |
| Logger | `sys/logger.*`, `log.h` | `m_realRotate` (atomic), `m_fd`, the log file and its archives, descriptors that detached threads close | `vlog`, `maybeRotate`, `setFileName` | one rotation at a time; a failed one is tried again; no lines and no descriptors are lost |
| Threads | `sys/thread.*` | `m_running`, `m_tid` | `start`, `join`, `detach`, `isAlive` | `start` creates one thread |
| Reader-writer lock | `sys/thread_rwlock.*` | a `pthread_rwlock_t` | one pthread call each | the C library's |
| Tools | `sys/tool.*`, `util.*` | none | `daemonize`, formatting, time conversions | |

How they interact. The application calls `HandleSockets` in a loop. It calls
`CheckCloseSocket` (delete), `CheckTimeoutSocket` (`HandleTimeout`), `epoll_wait`
and then, for each event, the socket's `HandleError`, `HandleRead` and
`HandleWrite`. `Read` and `Close` call back into the application
(`PacketHandler::HandlePacket`, `HandleClose`), and the application calls the
sockets from there: send, close, connect, listen, set a timeout. So the code is
single threaded and *re-entrant*: between the first and the second half of
`Close`, of `Read`, of one event, of one step of the scan, anything may have
happened to any socket. Sockets keep output in a block buffer. Threads exchange
data with the loop by the thread queue.

What is hard here:

* a descriptor is a small integer that the kernel reuses at once, and the
  container finds sockets by it (`GetSocket`, `DelSocket`) after handlers ran;
* deletion is deferred to the next pass because pointers are on the C++ stack;
* `epoll_ctl`, `accept`, `send`, `fcntl` can fail at each place;
* the scan of timeouts is cut into portions of 1000 sockets, by a position that
  is a descriptor, and it walks a map that its own work changes;
* a condition variable with one `signal` per push, batches, timed waits and
  spurious wake-ups;
* the second class of sockets closes once more after a handler that failed,
  whatever the handler did;
* threads that rotate the log without a lock, each step of which can fail, while
  others write by the descriptor that is being replaced;
* arithmetic in blocks, with partial blocks and failing allocations;
* encoders used again after an exception half way, and objects filled twice.

`PROJECT.json` lists these hazards with their source lines and the properties
that cover each one.

## 2. The modules

| Module | Models |
|---|---|
| `EpollContainer` | the container's methods as operators on its variables and on the interest list |
| `TcpSocket` | the sockets, the kernel's descriptors, and the handler calls in progress (`stack`) |
| `UdpSocket` | the UDP sockets, and the virtual calls by which the loop reaches either class |
| `EventLoop` | `HandleSockets` step by step, the application, the network and the clock; all properties of the loop |
| `SocketLifecycle` | *abstract*: absent, open, announced, closed, absent again; a descriptor of its own until closed |
| `QueueCalls` | the calls of `ThreadQueue` and their sequential meaning |
| `ThreadQueue` | the methods in steps, with mutex and condition variable |
| `BoundedQueue` | *abstract*: each call takes effect at one moment |
| `BlockBuffer` | the buffers with their memory cell by cell and the shared counters |
| `TextBuffer` | *abstract*: a text with a limit |
| `Packets` | an `Encoder`, a `Decoder` on its bytes, and the object it fills, with exceptions half way |
| `Logger` | threads that log, the rotation of the file, and the kernel's files and descriptors |
| `MCEventLoop`, `MCThreadQueue`, `MCBlockBuffer`, `MCPackets`, `MCLogger` | small instances for TLC |
| `EventLoopProofs`, `EventLoopOwnership`, `EventLoopNotices`, `ThreadQueueProofs`, `BlockBufferProofs`, `PacketsProofs`, `LoggerProofs` | theorems |
| `FoldTheorems` | what the folds of the community modules compute, for any operator; the induction this needs |

`EventLoop` EXTENDS `UdpSocket` EXTENDS `TcpSocket` EXTENDS `EpollContainer`:
these source files call each other in one thread, so one step of the composition is a method
up to its next handler call. `PROJECT.json` maps each definition to its lines.

Some definitions come with variants named `X_Something` and marked "Wrong:".
Each is `X` with one plausible mistake; none is used by a specification. Put in
the place of `X`, it makes one property of the runs fail, which shows that the
property does depend on that line of the code.

### Event loop

*Handlers.* A socket's `m_type` is its class, and `OnRead` and its like are the
virtual calls. `Close`, which the two classes have alike, is two actions:
`BeginClose` pushes a `close` frame on `stack` (this is the call of
`HandleClose`), and `CloseReturns` runs `FinishClose` (lines 365-375 of
`tcp_socket.cpp`) when the innermost handler returns. `Read` likewise pushes a
`packet` frame, and `PacketReturns` pops it. `TcpSocket::Read` drops the result
of `HandlePacket`, so nothing follows; `UdpSocket::Read` closes the socket when
the result is negative (`udp_socket.cpp:240`), also when the handler has closed
it already: the frame then becomes one of `Close` (`UnpackFailed`). While a
frame is on the stack only the application acts, or a handler returns; this is exactly what one
thread does. The application may close a socket that is being closed, one in
`m_closeSockets`, or another one, and may open new sockets whose descriptors are
the ones just closed.

*The loop.* `phase` says where `HandleSockets` is. `ScanSocket` is the body of
the scan up to `HandleTimeout`; `ScanAdvance` is `++itr`, taken when the handler
has returned. `itrErased` records that the entry under the iterator was erased
meanwhile; `++itr` is then undefined behaviour and `ScanAdvanceErased` lets the
iterator go to any entry, to the end, or lets the process crash. `batch` is what
`epoll_wait` filled in; `DispatchEvent` takes the events in any order and looks
the socket up when it handles the event; `pendingWrite` is the local `s` between
`HandleRead` and `HandleWrite`.

*The kernel.* `fdState` is a descriptor's state; new ones are the lowest free
number. An established connection may become readable, writable or erroneous at
any time, a refused one only erroneous. Any `epoll_ctl` may fail. A descriptor
that a failing call leaves open without an object is an `orphan`.

*Data.* `m_output` counts units of output. The clock is in `timer`: `off` when
`m_timeout` or `m_lastAccessTime` is 0, else `fresh` or `expired`.
`m_isResending` starts with either value, as the constructor does not set it.
`notice` is a history of what the application was told.

### Thread queue

The steps are those at which another thread could interfere if the mutex did not
protect them; `Lock` and `relock` take the mutex, waiting releases it,
`Timeout` and `SpuriousWakeup` end a wait. `timeWait` always returns true
(`thread_cond.cpp:55`), so that `Timeout` goes back to the loop test, as the code
does. A result is recorded where the method decides it.

### Block buffer

Each buffer has its memory as a sequence with one cell per byte of capacity;
`Moved` is `memcpy` and `memmove`. Each call that needs memory may get none.
`answer` distinguishes `full` (`m_maxblocks` exceeded) from `nomem`. Cells past
the data are `Junk`: no method reads them before it writes them.

### Logger

A thread walks through `vlog` in the steps between which others can act: it
reads the clock (`Log`), compares it with `m_realRotate` (`Test`), exchanges and
compares again (`Exchange`), then `Rename`, `Open`, `Dup` or `DupFails`, and
`Restore` after a failure (`logger.cpp:62-118`). Files are what `open` made, each
with its lines; a name of theirs is the log's or an archive's, which is the
second of the rotation. `fdTable` is the process's descriptors; `closers` are
those that detached threads close 200 ms later. When such a thread cannot be
created, its constructor throws out of `vlog` (`logger.cpp:113`): the rotation is
complete, the line is not written, and the descriptor is in `leaked`. `rotatedIn`, `gaveUp` and
`dupFailed` are history. `setFileName` is taken only while no thread logs: it
assigns a string that the threads read without a lock. The clock does not go
back; the code names archives in local time, where one hour a year comes twice,
the model by the clock.

`Straggle` says whether a period may end while a thread is inside
`maybeRotate`. With `TRUE` two threads rotate at once (finding 5). The
properties are checked for `FALSE`, and all proved: `TypeOK` and
`DescriptorsAccounted` for both, the others for `FALSE`, which holds unless a
thread is held up across the end of a period.

### Packets

The body of the buffer is its bytes; the value of a number is the sequence of
its bytes, since `XHTONS` and its like are empty on x86. `marshal` is the list of
pushes a message makes, in order, and `serializeThrows` does the first few of
them: one finds the buffer full, or no memory. The header is the length, the
sub-protocol number and the check code; the other fields are copied like the latter. A reader is
the `Unpack`: `at` is how far `m_data` has moved, `left` is `m_size`. The
application picks the type of the message to read by the header's number.
`Decoder` is the constructor, with the first bytes of a packet; `memory` is what
a reader that goes on finds from there: those bytes, then some of `Leftovers`,
then zeros. This matters because `pop_double` does not lower `m_size`
(`marshall.h:411-419`), so that a field behind a `double` may be read from there.
Numbers, booleans, strings with lengths of 16 and 32 bits, vectors, sets and
maps (as pairs) are all there, with the failures of their `pop`. `object` is the
message object that was filled last: the next `deserialize` may fill it again,
and then an empty vector leaves the old elements (`marshall.h:816`), while sets
and maps keep theirs, and maps also the values of the keys they have (797); `Merged` says this of
values, and `Refilled` that it is all that is kept. An object is kept only from a whole packet of one message
with a container, because other fields are overwritten in full. The check code
is any function of the body. `packed`, `throws`, `given` and `decoded` record what
happened, for the properties. The copy of an `Encoder` is an equal `Encoder`.
`PacketAssumption` says that 64K is at most 65536 (so that a length fits the 16
or 32 bits it is written in), that each value of a message has the type of its
field, and that sets and maps are finite.

## 3. What the runs check

| Run | Question | Result |
|---|---|---|
| `el_safety` | Do registries, descriptors, objects, notices and interest stay consistent under every interleaving, and does the loop implement `SocketLifecycle`? | holds; 3,669,811 distinct states |
| `el_live` | Are idle sessions reaped, with one socket per pass of the scan, and closed ones deleted? | holds; 769,758 states |
| `el_stale` | Does a writable event mean that the socket is connected? | **no** (finding 2) |
| `el_scan` | Does the scan survive the timeouts it handles? | **no** (finding 1) |
| `q_safety` | Is every call atomic, is the bound kept, does the mutex exclude? | holds; 101,000 states |
| `q_wakeup` | With pushes of one element, is there a wake-up for every element? | holds; 79,000 states |
| `q_batch` | The same with batches? | **no** (finding 3) |
| `q_timed` | Do timed calls return? | **no** (finding 4) |
| `bb` | Is the buffer a text, within its memory, with exact counters? | holds; 25,896 states |
| `pk` | Do packets within the limit carry their size and check code, decode to what was encoded in a new object, and to a merger of known rules in a used one, are parts refused, and how far can a reader get beyond the bytes given, after any history of the encoder? | holds; 631,003 states |
| `lg` | Do threads without a lock rotate one at a time and once a period, retry what failed, and keep lines and descriptors? | holds; 2,320,094 states |
| `lg_twice` | Is it one at a time also when a period ends while a thread is in `maybeRotate`? | **no** (finding 5) |

### The properties

Event loop: `ContainerMatchesKernel`, `RegisteredSocketOwnsFd`, `FdOwnership`,
`NoDanglingSocket`, `NoLostSocket` (ownership of descriptors and objects),
`NotifiedOnce` (an error, an event and a timeout never report a socket twice),
`WatchedForWriting` (interest in writability exactly while something waits to be
written or connected), `ImplementsLifecycle`, `IdleSessionsReaped`,
`ClosedSocketsDeleted`. Thread queue: `MutualExclusion`, `Bounded`,
`ImplementsBoundedQueue`, `WakeupsCoverItems`, `WaitsOnlyForData`. Block buffer:
`WithinCapacity`, `TotalsMatch`, `ImplementsText`. Packets: `Framed`,
`RoundTrip`, `Refilled`, `StaysInside`. Logger: `OneRotator`, `FailuresRetried`,
`LogIsCurrent`, `DescriptorsAccounted`, `NamesKept` (what was written keeps a
name, but for a rename in the same second as a rotation that gave up half way:
their archives have the same name), `RotatesForward` (a completed rotation is of a later
period than the one before it).

The properties of packets say how far they go. `Framed` and `RoundTrip` are about
packets of at most `MAX_PACKET_SIZE` bytes (`packet.h:11`): the buffer takes one
byte more, and the header then says 0. `RoundTrip` is about the first message of
a packet, whatever follows it: the whole of it fills a new object with what was
sent, and a part of it is refused unless a field comes after a `double`
(`DoubleIsLast`). `Refilled` says what a used object holds, which is not what was
sent. `StaysInside` is not that a reader stays inside the bytes given, which
`pop_double` breaks, but that it leaves them by at most eight bytes for each
`double` with a field behind it: none in a message without one. The comment above each definition says what
it is about.

### Bounds, and why they are enough

* `el_safety`: three addresses, two descriptors, `MaxFdCount` 2, one unit of
  output, one socket per scan, two calls of the application per pass. The limit
  of the container is thus the number of descriptors, and a send leaves all or
  nothing; `RegistriesAgree` and `WatchesAreRight` are proved for any values. Three
  sockets on two descriptors is the least that lets a descriptor pass from a
  closed socket to a new one while a third is registered, and leaves an object
  in `m_closeSockets` beside both. Two calls let a handler close a socket and
  open another. `MaxCalls` bounds calls per pass, not passes, so that runs are
  of any length. Each socket may be of either class. Sockets are symmetric
  (nothing orders addresses but the
  deletion order, which has no effect); descriptors are not (the kernel hands
  out the lowest and the scan goes upward).
* `el_live`: two sockets, two descriptors, one call, no symmetry. With
  `ScanLimit` 1 the scan needs two passes for two sockets, so that the restart
  and the position matter.
* `q_safety`: three threads, `MaxSize` 2, elements and batches of two, so that
  a batch fits exactly, or does not beside one element. `q_wakeup`: three
  threads is the least for two waiters and a producer, or one waiter and a
  thread that steals the element.
* `bb`: two buffers, two bytes per block, two blocks; strings of one, two and
  three bytes meet a block's end from below, at, and beyond, and `Counts` up to
  5 exceeds the capacity.
* `pk`: 64K is 23, which leaves 11 bytes of body, one of them beyond
  `MAX_PACKET_SIZE`; each message fits, some pairs of messages fill the buffer
  exactly (the length field is then 0), others leave room for more or are cut
  by a push that fails, at every place. At most one call of `serialize` throws between two of `clear`.
  Every type is in some message; strings, vectors and maps differ in length, so
  that filling an object again meets what was there, and two maps share a key
  with different values. Two types of messages have a field of one byte, or
  a string, behind a `double`; behind the bytes received lies nothing (zeros), or the
  length of a string with its text.
* `lg`: two threads, periods of two seconds, times 0 to 4, so that two periods
  end, and a rotation can fail and be tried again in the same second or a later
  one; four files; three descriptors: the log's, and two that rotations opened
  and nobody has closed yet, or ever will.

### Fairness

`FairSpec` of `EventLoop`: weak fairness of the loop's own steps (the
application keeps calling `HandleSockets`, whose only blocking call,
`epoll_wait`, has a timeout) and of handlers' returns. Nothing is assumed of the
network, the clock or the application's other calls. `FairSpec` of
`ThreadQueue`: weak fairness of each thread's steps and of the end of a finite
wait, strong fairness of taking the mutex (a mutex released again and again is
obtained in the end). Calls and spurious wake-ups are not fair.

`CHECK_DEADLOCK` stays on everywhere. A crashed process stutters by `Halted`.

## 4. Findings

1. `CheckTimeoutSocket` advances an iterator whose map entry the timeout it has
   just handled erased (`epoll_container.cpp:278`): undefined behaviour each
   time a timeout closes a socket. Run `el_scan`. `IdleSessionsReaped` is stated
   up to this moment for the same reason.
2. An event is applied to whichever socket has the descriptor when it is
   handled. If an earlier handler of the same batch closed the descriptor's
   socket and connected a new one, the old socket's event makes the new one
   connected (`epoll_container.cpp:231`, `tcp_socket.cpp:96`). Run `el_stale`.
   The ownership invariants still hold: the confusion never reaches a dead
   object or a foreign descriptor.
3. A batch pushed into the thread queue signals once, and a second waiting
   thread sleeps on with data in the queue (`thread_queue.h:94, 125`). Run
   `q_batch`.
4. `timeWait` returns true after a timeout, so that calls with a finite time
   wait for ever on an empty queue (`thread_cond.cpp:55`). Run `q_timed`.
5. A thread that reads the clock just before a period ends and exchanges
   `m_realRotate` just after another thread did so in the new period gets a value
   of another period than its own: both rotate at the same time, and
   `m_realRotate` goes back, so that a third rotation follows
   (`logger.cpp:69-77`). Run `lg_twice`; the comment at `logger.cpp:76` says that
   the exchange prevents this.

Three defects of packets are in the models as the code has them, and the
properties state their limits instead of assuming them away:

* A packet may be one byte longer than `MAX_PACKET_SIZE` (`packet.h:11`), which
  `Decoder::maxSize` (198) gives as the limit and `serialize` never tests; the
  header of such a packet has the length 0 (`packet.h:177`). `Framed` and `RoundTrip` are
  false without their limit.
* `pop_double` moves `m_data` and leaves `m_size` as it was
  (`marshall.h:411-419`), so that a reader may take up to eight bytes per such
  `double` from beyond those given, where every `pop_*` throws "not enough data"
  (354 and after) instead; `finish()` then finds "too much data" (348) where
  nothing is left. `StaysInside` states the excess, which is met; a part of a
  message with a field behind a `double` may be taken for the whole.
* A message object that is filled again does not become the message sent:
  sets and maps are added to, a map drops the value sent for a key it has
  (`marshall.h:797`), an empty vector leaves the old elements (816).
  `Refilled` states what is kept.

Met on the way as well, with nothing in the code to hold them against, and in the
models as the code has them: `swap` puts the caller's queue into the thread
queue whatever its length (`thread_queue.h:185`, against line 47; hence
`SwapQueuesFit` below); `Read`
closes on `EAGAIN` and ignores every other error (`tcp_socket.cpp:276`,
`udp_socket.cpp:207`); that of TCP drops the result of `HandlePacket`, so that the
input buffer is never erased (297); `Listen`, `Connect` and `Accept` leak the
descriptor when a call fails before the object exists (`LeakFd`,
`AcceptFails`); `m_isResending` is not initialised, and the first complete send
may call `ModSocket` needlessly; `BlockBuffer::reserve(n)` adds
`n - capacity()` to what is free beyond the size, so that it may succeed without
reaching `n` bytes; `replace` cuts the text before the append that may fail; the thread that is to
close a descriptor may fail to start, and the exception leaves `vlog` with the
descriptor open (`logger.cpp:113`); a
`serialize` that throws leaves a part of the message in the buffer, and the next
one appends to it unless `clear` is called (`RoundTrip` speaks of packets
without such a part).

## 5. What is proved

All proofs are checked by TLAPS to the last leaf; none rests on anything but the
assumptions on constants in the modules (finite sets of buffers and of
descriptors that are naturals, positive limits, null values outside the sets,
messages whose values have the types of their fields) and these,
which the theorems state:

* `SwapQueuesFit`, for the bound of the queue: the queues given to `swap` are no
  longer than `MaxSize` (the code does not look at their length; `QueueWithin`
  says what remains true without it);
* `OneAtATime`, for the wake-ups: finitely many threads, no batches, and `swap`
  is given empty queues (the run `q_batch` shows that batches break it);
* `~ Straggle`, for five theorems of the logger (the run `lg_twice` shows that
  they need it);
* `ConnectsBetweenBatches`, for the theorem on what causes finding 2 (the run
  `el_stale` violates its conclusion without it).

**Event loop.** `TypeOK` is not inductive: `ScanSocket` looks up
`m_socketMap[itr]`, which must be a socket. `LoopInv` adds what ties `phase`,
`itr`, `itrErased`, `pendingWrite` and `stack` together: at the loop test the
iterator is at an entry or at the end, and stays there because handlers run only
before `++itr`; events are half-handled only while dispatching.
`TypeInvariant` proves both, `TypeCorrect` follows.

`Ownership` proves `OwnInv`, the conjunction of `RegisteredSocketOwnsFd`,
`FdOwnership`, `NoDanglingSocket`, `NoLostSocket` and one strengthening,
`ClosedHasNoFd`: a socket in `m_closeSockets` has no descriptor. It is what makes
a second `FinishClose` of the same socket (after its handler closed it) harmless:
there is nothing for `DelSocket` to find and nothing to close, and without it
the entry of the descriptor's next owner would go. The disjuncts of `Next`, for either class
of sockets, fall into five kinds with regard to ownership, and `OwnStep` says so
once: *quiet* steps (interest, output, timers, at most one more frame on the
stack), *creation* of a socket on a new descriptor, return from `HandlePacket`
(which may turn the frame into one of `Close`), return from `HandleClose`,
and the deletion at the start of a pass. Each kind is
shown to preserve each conjunct. `RegistriesAgree` proves
`ContainerMatchesKernel` on top: the counter, as a cardinality, moves with the
set of entries.

`EventLoopNotices` proves `ToldOnce` and `WatchesAreRight` on top of both. The
invariant adds `NoticeInv`: the application has been told of just those sockets
that are being closed or are in `m_closeSockets`, and the latter are in state
`close`; and `WatchInv`: besides the property, a socket that is watched for
writing and is not connecting has `m_isResending` set, which is what makes
`Write` end the watch when all is sent, whatever the constructor left in the
flag. Every method changes the state, output, interest and notice of one socket
(`OneSocket`) or none of these (`Unnoticed`); the proof shows this of each
method and then that such steps preserve the invariant, and treats the end of
`Close` and the start of a pass apart.

`Refinement` (in `EventLoopOwnership`) proves `Spec => ImplementsLifecycle` by the same five kinds: a quiet
step stutters or announces one socket, a creation creates, a return from
`HandleClose` releases the socket the first time and stutters after that, the
start of a pass deletes.

One property that the code does not have is proved under what finding 2 leaves
open, which shows that there is no other way to violate it.
`StaleEventsAreTheCause`: as long as no socket begins to connect while
`HandleSockets` goes through a batch of events, a connected socket has an
established connection. The invariant `EventInv` says of each socket that a
writable event waits for while it connects that its connection is established.
This is so when `epoll_wait` returns, no step but `Close` ends a connection, and a
socket that begins to connect outside of the batch finds no event waiting.

**Thread queue.** `Exclusion`: a thread is in the critical part exactly if it
holds the mutex. `QueueBounded`: a thread at `insert` still has the room it
tested for, because it has held the mutex since. `QueueWithin` is the same for
any queues given to `swap`: the bound is then the greatest of `MaxSize` and their
lengths, since a push never adds to a queue that is too long already. `QueueLinearizable`: each call takes
effect in the step that decides its result (`Insert`, `TakeItems`, a failing
test), and every other step stutters; the invariant relates `pc`, `request` and
`result`.

`NoLostWakeup`: while a thread waits, the queue
has no more elements than there are threads in `Coming`. A push adds one
element and the pushing thread, which is about to signal, to `Coming`; the
signal replaces it by the thread that is woken; a pop takes one of each. Each
step is one of a few kinds for which the two cardinalities are compared.

**Folds.** The models count, add up and run through sequences by the folds of
the community modules, which are recursive functions on sets. The lemmas of `FoldTheorems`, which say
nothing of this program and serve the two parts that follow, show, for any
operator, that a fold over a sequence is the end of a run `h[0]`, `h[1]`, .. of
that operator (`FoldLeftRun`), and that one over a finite set takes one element
and folds what is left (`FoldChosenRun`). The library's induction theorems have a predicate
as a parameter; here the predicate is the set of numbers (or of parts of a
finite set) for which it holds, and induction is that the least number outside
of it would have a predecessor that is outside as well (`Least`, `Induct`,
`InductSubsets`).

**Block buffer.** `MemoryIsSound` proves `WithinCapacity` for any block size
and limits. What `reserve` allocates is rounded up to blocks; the lemmas
`DivMod` and `RoundedUp` show that this is enough for what is then moved there,
and `Moved` that the written cells stay the written cells. `BufferInvariant`
adds that the counter is the sum of the buffers' blocks: every call changes the
blocks of one buffer and the counter by the same amount, and a sum over a finite
set changes with one of its terms. `TypeCorrect` needs both (the counter is a
natural because it is a sum of naturals) and `CounterIsTheSum` proves
`TotalsMatch`. `BufferIsText` proves `Spec => ImplementsText`: the text is the
first `m_size` cells of the memory, and for each call either the allocation
fails and the text stays (or, for `replace`, is cut), or the moves of bytes
give what `TextBuffer` says.

**Packets.** `TypeCorrect` contains that the body fits 64K and the length 16
bits. `HeadersFrame` proves `Framed`. Nothing is assumed of where a message has
its doubles. `DecoderStaysInside` proves `StaysInside`: the bytes a reader has
passed and those it believes to be left exceed what it was given by eight for
each `double` so far, which each `pop` keeps; the last field of a message cannot
make it pass more than is left.

`RoundTrips` proves `RoundTrip` for messages with any fields and any values, and
for any number of messages behind the first. It needs what the body is made of:
`Bodied` says that while `serialize` has not thrown the body begins with the
codes of the first message's fields, one behind the other, and `Remembered` that
a reader finds in the memory those bytes of it that it was given. For each type of field a
lemma then shows that popping undoes pushing, or, if no `double` came before,
fails if a byte is missing (`SimpleReads`, `StringReads`, `ContainerReads`); a
container's elements lie behind its count at multiples of their width, and are
put back as the set or map they came from whatever the order (`CHOOSE`) they
were written in. `MessageRead` goes through the fields.

`Refills` proves `Refilled` by the same lemmas, since each says what a field
that had a value becomes (`Merged`), of which a new object is the case with
nothing in it (`MatchesBlank`).

**Logger.** `DescriptorsClosedOnce` needs no assumption: descriptors stay sound
even when two threads rotate at once; those of `leaked` are open for ever and in
nobody's hands. The others rest on `RotateInv`: threads
inside `maybeRotate` have read a time of the current period, so that the first
to exchange leaves a value that stops all others. `EachPeriodOnce` proves
`RotatesForward` from it: a rotator's period is later than that of the last
complete rotation (`RotatorIsAhead`). `WrittenToTheLog` adds where
the files under `m_fd`, under a rotation's descriptor and behind the log's name
stand at each step of a rotation; `NamesAreKept` adds that an archive's name is
taken by an earlier rename only if that rotation gave up in the same second.

**Only model-checked**: the liveness properties (`IdleSessionsReaped`,
`ClosedSocketsDeleted`, `WaitsOnlyForData`), because `ENABLED`, and fairness with it, is
out of the prover's reach. Every other property of the passing runs is a theorem.

## 6. What is not modelled

* The kqueue branch: same structure, other system calls.
* `Thread`: nothing in the repository derives from it or starts one. `m_running`
  is read without the lock that `start` holds and never reset.
* Of packets: the combinators of `Marshallable` and the wide strings of Windows.
* Of UDP sockets: the buffer sizes given to the kernel, and the input's bytes.
* Of the logger: formatting and levels, which decide only whether a line is one;
  a `setFileName` while threads log, and one with another file name than before
  (`logger.cpp:49-66` takes any): `SetFileNameAgain` opens the same name anew.
* `ForwardBuffer`: nothing in the repository uses it.
* The reader-writer lock: each method is one pthread call.
* Formatting of addresses and times, the conversion of UTC to NTP time, and
  `daemonize`: no state of the program depends on them.
* Two containers or two threads using one container: the code has no locks
  there and the repository shows no such use. The static `checkFd` would be
  shared.
* Descriptor 0: the runs use descriptors from 1 on. `upper_bound(0)` skips a
  socket with descriptor 0, which needs a process without standard input.
* Absence of memory for `new`: the process ends.
* Wall-clock values: a timeout may expire at any time after the last access.

## 7. Plan

Done: `EpollContainer`, `TcpSocket`, `UdpSocket`, `EventLoop` with
`SocketLifecycle`; `ThreadQueue` with `BoundedQueue`; `BlockBuffer` with
`TextBuffer`; `Packets`; `Logger`; the theorems of section 5.

Left, in this order:

1. `Thread`: concurrent `start`, `isAlive`, should the library begin to use it.
2. The conversion between UTC and NTP time as a pure function.
3. The kqueue branch as a second container below the same sockets.
4. For the logger an assumption weaker than `~ Straggle`, such as one straggler
   per period.
