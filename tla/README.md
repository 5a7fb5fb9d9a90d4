# A TLA+ verification project for libflyzero

libflyzero is a small C/C++20 library for Linux servers: a lock-free ring in
shared memory, a worker thread fed by a ring of tasks, an epoll event loop with
IO, loop and timeout listeners, TCP servers and connections on top of it, an
LRU cache, a memory pool, descriptors, backtraces and smaller utilities. This
directory models the parts that keep state, checks them with TLC on small
instances, and proves their safety properties with TLAPS for every size (what
the ring does to the bytes, for the sizes it is right for): the ring, the shared
memory object, the task queue, the IO, loop and timeout listeners of the event
loop, the loop with the library's own server and connection, the cache, the
memory pool, the ownership of descriptors, backtraces that are saved and loaded,
and the hexadecimal conversion.

Paths below are relative to the repository (`src/circular_buffer.c` is the file
of that name in its `src/` directory). `PROJECT.json` is the index: components,
runs, the lines each definition translates, a mutant for every checked
property, the findings, the hazards and the theorems.

## 1. Inventory

| Component | State | Operations | What makes it hard | What makes it correct |
|---|---|---|---|---|
| `circular_buffer`: the ring | `r`, `w` in a shared header, data area mapped twice in a row | get_writable, push_data, get_readable, pop_data | producer and consumer run at the same time with no lock, atomic or barrier; indices are free-running `size_t`s that wrap; each side works from an old copy of the other's index | what is read is the stream; the two pieces never overlap; nothing written is lost; a full or an empty ring never wedges |
| `circular_buffer`: the shared memory object | the name, the object, its header | create, fcreate, attach, fattach, detach, destroy | the name is visible before the header is filled; each system call may fail; a process may die between any two | a header never changes once stored; an attach maps the layout create gave; destroy removes the buffer it was given |
| `circular_queue` + `task_queue_thread` | `widx_`, `ridx_`, a buffer of words read as pointers, a semaphore | constructor, push (also from a task), front, pop, thread_routine, destructor | two threads over plain indices; push publishes the index before it constructs the task, pop releases the slot before it destroys the task; a wake-up that depends on a count read without synchronisation | the task that runs is the one whose turn it is; `front`'s assert holds; no wake-up is lost |
| `event_dispatch`: IO | epoll's interest and ready list, the event array on the stack | register/unregister_io_listener, run_once, run_loop | callbacks register, unregister, destroy and throw while the array holds raw pointers; edges are reported once | only a listener destroyed in the middle of its batch is called when it is gone; no edge is lost; timeouts are reached |
| `event_dispatch`: loop listeners | `loop_listeners_` (a vector) | register/unregister_loop_listener, on_loop | a range-for over a vector that the callbacks change | no listener twice in the vector; each once and in order in a round that nothing disturbs; calls only to listeners of the round as long as none registers (after an `erase` one of them may be called a second time) |
| `event_dispatch`: timeouts | `timeout_listeners_` (a priority queue) | register_timeout_listener, on_timeout | a reference into the heap is kept across a callback that may add to the heap | the entry popped is the one that fired; nothing due is left; on_timeout ends |
| `tcp_connection` | two rings, the socket, interest | on_read, on_write, consume, produce | edge-triggered loops against a peer that acts between any two system calls; closing in the middle of an event | no work is left without an event; on_close is not repeated without bound |
| `tcp_server` | listening socket, descriptors | listen (path), listen (address), on_read (accept loop) | every call may fail; the descriptor limit; exceptions in an edge-triggered loop | no descriptor leaks; no connection is forgotten |
| `lru_cache` | intrusive list and hash set over the same nodes, deadlines | insert, find, touch, erase, clear_expired, destructor | client code runs in the middle of clear_expired; rehash may fail | list and set agree; order by deadline; nothing expired is left; a node is freed once |
| `mempool` | arena pointer, free and used list of each size class | alloc, free | intrusive pointers, integer conversions, callers that overrun | the lists partition the blocks; a block holds what was asked for; free returns blocks |
| `file_descriptor` | one descriptor number | construct, copy, move, both assignments, clone, release, close | the system gives a number out again as soon as it is closed; a duplicate may not be had | an open number has one owner; no object closes or uses another's file |
| `utility::next_pow2` | none | one function | undefined for the argument 1 | the least power of two that is not smaller |
| `backtrace` | a dump in a file or a pipe, an uninitialised `addrinfo` | dump, dump_save, dump_load | the saving process is dying; the load may run beside it; each call may fail | a load reports a whole dump or nothing; a frame is not reported with what the lookup for another found |
| `hex` | none | four overloads of hex_str | signed characters, widths, ignored errors | the value of the notation |
| hash, allocator, ip addresses, rest of utility | none that lives between calls | conversions | pure | not modelled (section 8) |

How they interact: `tcp_server` and `tcp_connection` are IO listeners of an
`event_dispatch`, which calls them from `run_once`; a connection owns two
`circular_buffer`s; `tcp_server` and `event_dispatch` own descriptors through
`file_descriptor`; `task_queue_thread` owns a `circular_queue`, a semaphore and
a thread. Two threads or processes meet in the ring, the shared memory object,
the task queue and the dump of a backtrace. The rest runs on one thread, and what is hard there is re-entrance: the library calls
client code in the middle of its own loops.

## 2. The modules

| Module | Models | Notes |
|---|---|---|
| `SizeT` | `size_t` arithmetic of width `IndexBits` | shared by the two rings; one correction brings a sum back into range |
| `ByteChannel` | abstract specification: a bounded FIFO of consecutive stream bytes | what the ring promises |
| `CircularBuffer` | `circular_buffer.c:208-250` and the index helpers | each thread has a store buffer (below) |
| `CircularBufferProofs` | the inductive invariant and the proofs | section 6 |
| `SharedBuffer` | `circular_buffer.c:64-206`, `252-275` | one action per system call or header store |
| `SharedBufferProofs` | mappings, layouts and late attaches, proved | section 6 |
| `TaskQueue` | `task_queue_thread.h`, `circular_queue.h`, `next_pow2` | store buffers as above |
| `TaskQueueProofs` | counts, tasks and wake-ups, proved | section 6 |
| `EventDispatch` | `run_loop`, `run_once`, IO registration | any client code as callbacks, which create and destroy listeners too; epoll is external; loop and timeout listeners are places where client code runs |
| `EventDispatchProofs` | live listeners, ready list and edges, proved | section 6 |
| `EventLoop` | the same loop over the library's own listeners | composes `TcpConnection` and `TcpServer`: on_accept makes the connection, one thread runs both |
| `EventLoopProofs` | connection, server and stranded work, proved | section 6 |
| `LoopListeners` | `on_loop` and its registration | keeps the vector's memory, not only its contents |
| `TimeoutQueue` | `on_timeout` and its registration | the heap is a bag and its top |
| `ListenersProofs` | the timeout queue and the vector under on_loop's iterators, proved | section 6; extends both modules, which is why the names of `LoopListeners` say loop |
| `TcpConnection` | `tcp_connection.cpp` | a component of `EventLoop`, without a specification of its own; bytes are counted, their values are CircularBuffer's matter |
| `TcpServer` | `tcp_server.cpp` | likewise |
| `LruCache` | `lru_cache.h` | a node is its key |
| `LruCacheProofs` | the cache's structure and clear_expired, proved | section 6 |
| `Mempool` | `mempool.cpp`, `mempool.h` | blocks are addresses, links are kept as in the code |
| `Handles` | abstract specification: holders that refer to files, no numbers | what file_descriptor promises |
| `FileDescriptor` | `file_descriptor.h` | over a descriptor table that gives out the lowest free number |
| `Backtrace` | `backtrace.c` | the saver and the loader are processes |
| `Hex` | `hex.cpp` | one conversion per behaviour, against the meaning of the notation |
| `UtilityProofs` | pool, backtraces, hex and descriptors, proved | section 6; extends the four modules, whose common names (`DumpSpec`, `DescriptorSpec`, ...) are told apart by a prefix |
| `MCListeners` | LoopListeners and TimeoutQueue for TLC | a behaviour is of one or the other, so their states add up |
| `MCUtilities` | Backtrace, Hex and FileDescriptor for TLC | likewise |
| other `MC*` | symmetry sets, assumptions evaluated by TLC | modules without one are run directly |

An operator whose comment begins with "Mutant:" is not part of a model. It is a
plausible wrong version of the definition after it, and `PROJECT.json` says
which property it breaks.

### Memory, build and language

* **Store buffers.** The ring's and the queue's indices are plain memory that
  two threads use at once. The models give each thread what x86 gives it: a
  store enters the thread's own buffer, which the thread reads through, and
  reaches memory later and in order (`DrainProducer`, `DrainConsumer`,
  `DrainPusher`, `DrainWorker`). `r` and `w` (`ridx`, `widx`) are the values in
  memory, `cr` and `pw` what the owning thread sees. `sem_post` and `sem_wait`
  are atomic instructions and wait for the buffer to empty. A weaker processor
  than x86 is not modelled.
* **Compiler.** The build sets no optimisation level and no `NDEBUG`, so stores
  stay in program order and a failed `assert` ends the process. In
  `new (&at(widx_++)) T` the increment belongs to the argument of `at()` and so
  comes before the construction: `Push` puts the new index into the store buffer
  first and the task second. `~unique_ptr` stores a null into the slot that pop
  destroys, which a build without optimisation keeps; one that drops it would
  leave a dangling pointer where `TaskQueue` has none (`Garbage`). In `Backtrace`
  the model has both kinds of build (`optimised`): gcc drops the stores of
  `backtrace_addrinfo_free` into an object that is never read again, and the next
  frame's `addrinfo` finds what they were to clear.
* **Uninitialised words.** `circular_queue` reads words that nobody has written as
  addresses; `Init` lets them hold any, storage or not, two the same or not. A
  push or a task that stores through one that is no storage kills the process,
  and so does the worker when it runs a task pointer that is not there (`wpc =
  "dead"`). `Backtrace`'s `addrinfo` begins as `Garbage`, the `addr_info` that
  dladdr did not fill as that of the frame before or wild, and a byte that hex_str leaves alone is any of `Junk`.
* **Widths.** `IndexBits`, `IntBits`/`WordBits` in `Mempool` and `Width` in `Hex` scale the
  machine's integers down and keep their wrap and their conversions, since C++20
  defines the shift into the sign bit.

### State and actions against the code

* `CircularBuffer`. `piece` and `got` are the `buffer_piece`s that get_writable
  and get_readable return; the thread keeps them while the other moves on.
  `PushData` and `PopData` compute the size a second time, as the code does. The
  byte stored at index p has value p, so a wrong byte is a visible one.
* `SharedBuffer`. `bound` is the binding of the one name, `object` the objects
  ever created, `proc` the call a process is in with its descriptor and its copy
  of the header, `mapping` what it has mapped. `read()` of the header is taken
  field by field, since the kernel's copy is not atomic with the creator's
  stores. `map_shared_memory(calls)` says what becomes of its three calls: a
  failed reservation passes the test for a null pointer and the mapping over it
  fails in turn; only the mirror's failure makes it return NULL. `Crash` may
  happen between any two steps; `AssertAborts` is its assert.
* `TaskQueue`. push is three steps (`Push`, `CountAfterPush`, `Post`), the
  worker's loop six. `PushFromRun` is a task that pushes, `Clear` the destructor
  after the join. `place` is the storage that the buffer's words point to; push
  stores the index and then the task, so a worker may find a place still empty
  (`Front` goes to `"dead"`); pop stores the index and then a null through the
  slot, whatever the slot holds by then, so a push that used it again loses its
  task. `missed` and `lost` are histories: a push counted while an increment was
  still in a store buffer and did not post; a task was destroyed with the slot of
  another.
* `EventDispatch`. `batch` is the event array, `rdlist` epoll's ready list in
  arrival order. `at` tells whether client code runs; the registration actions
  are enabled exactly then. `CallbackThrows` models an exception out of a
  callback, which leaves `run_once` and drops the rest of the batch. A call
  through the pointer of a listener that is gone ends the process (`at =
  "dead"`). `owed`, `dropped` and `orphans` are histories: listeners with an edge
  and no call since, those whose event an exception took, and those that an IO
  callback destroyed while the batch had a call for them.
* `EventLoop`. `phase` is where `run_once` is, `batch` its array. The component
  modules are instantiated over its variables and their actions conjoined:
  `OnAccept` is one step of the server and of the connection, and
  `OnAcceptThrows` the same with an exception at its end, before or after the
  connection is registered: `create_cb`, `register_io_listener` and the client's
  own code all throw while the accepted `file_descriptor` is alive. `OnLoop`
  destroys the connection that was closed, and the peer acts at any time, before
  the connection is registered too. `dropped` names the callbacks that exceptions
  threw away; a new connection begins without any.
* `LoopListeners`, `TimeoutQueue`. `moved` records that the vector below has been
  reallocated; a read through an iterator or reference taken before that yields
  anything. `CallThrows` and `TimeoutThrows` are exceptions out of the callbacks:
  the round is over, and the entry that fired stays on top and is due again.
* `TcpConnection`. One action for each outcome of a `recv` or `send`; `events`
  holds the `on_write` that follows `on_read` in the same event.
* `TcpServer`. One action for each system call of listen and for each outcome of
  `accept4`, which looks for a descriptor before it looks at the queue.
  `ListenFails` stands for the early returns of listen: its guard has one member
  for each place that returns, and each of them leaves the same way, through the
  destructor of the local `file_descriptor`.
* `FileDescriptor`. `Raw` is the plain int between a system call or `release()`
  and its next owner. `Duplicate` is `F_DUPFD`, with -1 when there is none left.
* `Backtrace`. A dump is the count and four items a frame; `put`, `stored` and
  `got` count how many were given to `fwrite`, have left the stream's buffer, and
  were read. `pipe` and `later` choose the medium and whether the load waits for
  the save. `FillFrameInfo` gives each frame the module that dladdr found or, when
  it failed, what `addr_info` still held: the module of the frame before, or a
  wild pointer, which may kill the process where the code follows it (`DumpDies`,
  `Crash`). The lookup of one frame is `BfdOpens`, `BfdRefused`, `FindLine`,
  `Report`. `FindLine` is the loop over all sections: several may answer, the
  last answer stays, and an answer always sets the line and may leave function or
  file as they were, so function, file and line are kept apart in `info`. libbfd
  is external: which section answers, and whether rightly, is not modelled.
* `Hex`. A behaviour makes one call (`ToInteger`, `ToBuffer`) and keeps what it
  returned and wrote in `out`. `hex_map` is the table, indexed with a signed
  character: a negative index finds `before`.
* `LruCache`. `at = "corrupt"` stands for the double erase or dangling link that
  follows when the callback touched or erased its own node; `heap` holds the
  nodes that are allocated.
* `Mempool`. `crashed` is the null dereference in `detach`; the checksums are
  whether they still hold the value `alloc_new` gave them.

### What clients are assumed to do

One producer and one consumer, or callers that lock among themselves, as
`circular_buffer.h:11` asks; a producer writes only into its piece and pushes
what it wrote. One thread pushes tasks, or it and the tasks push under a lock.
Clients of `event_dispatch` may do anything in any callback; in `EventLoop`, a
connection's on_close unregisters it and leaves its destruction to on_loop, as
`event_dispatch.cpp:70-76` requires of a listener that may have an on_write to
come. The
process ignores SIGPIPE. `clear_expired` is not called from its own callback. A
block is freed once.

## 3. What the runs check

Nine runs pass. Three are expected to find a violation: each checks what a
comment of the repository promises and the code does not keep (section 5).

| Run | Bounds | What it shows |
|---|---|---|
| CircularBuffer | 4 bytes in 2 pages, indices mod 8, 3 stores held back | Of a ring whose capacity is a power of two: the inductive invariant; `ReadableHoldsStream`; `PiecesDisjoint`; `PushNeverShort`; the ring implements `ByteChannel`; `StreamAdvances`: the write index never stays for ever, at the wrap included |
| CircularBufferThreePages | 6 bytes in 3 pages, indices mod 16, 3 stores held back | Violation: the producer overwrites a byte that the consumer holds |
| SharedBuffer | 3 processes, 2 objects, 2 capacities, 2 private sizes | Layout never changes; an attach after create returned is sound; nothing is mapped past its object |
| SharedBufferAttach | 2 processes, the same sizes | Violation: an early attach is aborted and does not return NULL |
| TaskQueue | 2 slots with any words in them, 2 places and a wild address, indices mod 8, 3 stores, semaphore up to 2 | `front`'s assert; never overfull; the worker runs only queued tasks that share their place with the one whose turn it is; if each word has a place of its own, it runs the tasks of both pushing threads in turn and dies, or loses one, only because it came before the construction or pop destroyed in a slot that was used again; a wake-up is lost only in the store-buffer window; otherwise a queued task gets its turn or the process has died |
| EventDispatch | 3 listeners, 2 events a batch | A dead listener is called only if an IO callback destroyed it while the batch had a call for it; the ready list is never stale; only an exception loses an edge |
| EventLoop | read ring and receive buffer 2, write ring and send buffer 1, any number of bytes sent, 3 descriptors, backlog 2 | No input, output or waiting connection is without an event unless an exception dropped it; on_close twice at most; descriptors are owned through every failing call and every exception, that of an on_accept with the new socket in hand included; input is taken in unless a callback never ends, and timeouts are reached unless a callback never ends, sockets stay busy or signals keep coming |
| Listeners | 3 loop listeners; 2 timeout listeners, intervals 0 to 2, 3 entries, times 0 to 2 | No duplicates; which changes by callbacks are harmless; the timeout entry that fired stays on top, is the one popped, is repeated once; nothing due is left; on_timeout ends unless an interval is zero |
| LruCache | 3 keys, times 0 to 2, timeout 1, 1 bucket | List and set agree; order; load below one; nodes are freed once; nothing expired left; corruption needs a callback that touches its own node |
| Utilities | 2 frames, buffer of 4 items, pipe of 3; texts of up to 4 characters out of 9 codes, widths 8, 10 and 12; 3 descriptor objects, 3 files, 3 numbers | A load reports a whole dump or nothing; which lookup a frame is reported with; save and load end; hex_str against the notation; each open number has one holder, and file_descriptor implements `Handles` |
| BacktraceAddress | as Utilities | Violation: a frame that dladdr does not know is looked up in the module of the frame before |
| Mempool | 6-bit int, 8-bit size_t, 192-byte arena, sizes 0, 5, 20, 32, 40, 230 | Lists partition the blocks; no damaged block is reused; a block is too small exactly for a request above the largest class; free dies exactly on the oldest of several used blocks of a class |

Each component has one structural invariant, named after its subject (`RingInv`,
`ObjectInv`, `QueueInv`, `DispatchInv`, `VectorInv`, `HeapInv`, `ConnectionInv`,
`ListenerInv`, `CacheInv`, `PoolInv`, `OwnershipInv`, `BacktraceInv`): the type
invariant together with the properties of the data structure itself
(`NeverOverfull`, `ReadyListIsFresh`, `NoDuplicates`, `FiredStaysOnTop`,
`DescriptorsOwned`, `SameNodes`, `SortedByDeadline`, `ListsPartitionBlocks`,
`OwnedOnce`, ...). It is what a proof about the module starts from.

Some properties say exactly when something goes wrong
(`WakeupLostOnlyToStoreBuffers`, `RunsTheTaskOfTheTurn`, `CallsLiveListeners`,
`TimeoutStarvedOnlyFromOutside`, `OnlyOwnNodeIsTaboo`, `FaultsOnlyOnTheOldest`,
`BlockHoldsRequest`, `UndisturbedRoundCallsAll`). They are the strongest true statement about code
that a client can misuse or that has a defect: a change that widens the failing
case breaks them.

### Why the bounds are enough

* The ring becomes full, empty and half full at every offset, its indices wrap
  with a piece held on either side, and a store buffer holds a byte, a
  publication and another byte at once. Larger rings are covered by the proofs.
  Three pages are the smallest capacity that is no power of two.
* Three processes are needed for one to create, one to be caught in attach and
  one to destroy and create again; two objects are needed for the name to be
  bound a second time.
* A two-slot queue is full after two pushes, so a push can reuse the slot that
  pop has released and not yet destroyed. Two places and one wild address give
  words of their own, words that share a place, and words that are no storage.
* More listeners than `MaxEvents` leave a ready listener out of the batch, and
  three of them let a callback change both the one after it and the one not yet
  fetched. Three loop listeners make the vector grow twice.
* Three timeouts give a fired entry, an earlier or equal one registered by its
  callback, and one that waits.
* In `EventLoop` a read ring of two bytes gives partial and complete `recv`s and
  consumptions, from a receive buffer of two that the peer fills again and again,
  so that a peer which never stops sending is among the behaviours. A write ring and a send
  buffer of one byte each become full and empty; larger ones add only partial
  sends. Three descriptors are the server's, the connection's and one more that
  brings the limit; a backlog of two is more than can then be accepted.
* Three objects and three numbers give a copy, a move and a bystander that is
  given the number just closed, and the descriptor limit.
* Two frames give a frame before and after a reported one. Their nine items
  exceed the stream's buffer twice and the pipe's room; both are smaller than the
  dump, so that saver and loader wait for each other.
* Texts of four digits overflow every scaled width; the codes are both ends of
  each range of digits, their neighbours, and a character above 127.
* The arena holds three or four blocks of different classes, enough for a first,
  a middle and a last block on a list; 32 is the largest request that the last
  class holds, 40 one that it does not, and 230 exceeds every class even after
  the conversion.

The bounds that cap something unbounded are `MaxObjects` (objects created under
the name), `MaxTime`, `MaxEntries`, `MaxBacklog`, `Depth`, `MaxLength`,
`RecvSpace` and `SendSpace` (the kernel has such bounds as well), and `ArenaSize`, which in the code is a parameter as well.

### Where a model may stop

Deadlock is checked except where the system really may stop: the worker after a
task returned false, or asleep on an empty semaphore with a full queue,
or a process that died (TaskQueue); a call to a listener that is gone
(EventDispatch); a corrupted or destroyed cache (LruCache) and a pool that died in
free (Mempool); processes that have all been aborted (SharedBuffer); calls that
have returned (Utilities).

## 4. Fairness

* `CircularBuffer`: producer and consumer are threads that keep going, as those
  of `test/test_circular_buffer.cpp`: the producer writes when it has room again
  and again and pushes, the consumer pops what it got. Writing and popping are
  strongly fair, because a thread that polls finds room or data again and again
  but not continuously. Store buffers drain, which the processor guarantees.
* `TaskQueue`: the worker is scheduled, a push that began is finished, stores
  drain, `run()` returns. Nobody has to push.
* `EventLoop`: the loop's thread runs, so its steps and those of the callbacks
  are weakly fair. `epoll_wait` returns one way or the other (`Wait \/
  WaitInterrupted`); that it is not interrupted for ever is nowhere assumed of
  the system, and `SignalsEnd` is therefore a premise of
  `TimeoutStarvedOnlyFromOutside`: run_once returns on EINTR without on_timeout,
  so a periodic signal shorter than the timeout starves the timeouts. Peers, the
  network and the client owe nothing. Three loops end only if the outside lets
  them: the accept loop while peers keep connecting, the connection's on_read
  while its peer keeps sending and its handler consumes, and on_write while the
  handler has more and the socket room. That they end (`CallbacksEnd`) is a
  premise of the two liveness properties, because the code does not see to it.
* `TimeoutQueue`: on_timeout's steps run and listeners return or throw.
* `Utilities`: both processes run, and the callers close the descriptors they
  opened, as `test/test_backtrace.cpp` does. That a process dies is never owed.

## 5. Where code and documentation disagree

The findings of `PROJECT.json`, each with a run that TLC finds violated:

* `SharedBufferAttach`: attach between create's `ftruncate` and its last header
  store, or after a create that failed or died there, reads zeros and is aborted
  by an assert, where `circular_buffer.h:55` promises NULL.
* `CircularBufferThreePages`: `buffer_pos` masks with `capacity - 1`
  (`circular_buffer.c:73`), but create rounds a capacity to whole pages only
  (`circular_buffer.c:154`, `circular_buffer.h:28`). In a ring of three pages two
  unread indices share a cell, and the producer overwrites what the consumer
  holds, where `circular_buffer.h:11` promises that no lock is needed.
* `BacktraceAddress`: a frame for which dladdr fails (`backtrace.c:152`) gets the
  module and base of the frame before, where `backtrace.c:38` promises the
  information of the given address.

The other weak points met while modelling are in the models, and each is
fenced in by a passing property that says where it ends:

| Where | What the code does | What fences it in |
|---|---|---|
| `circular_buffer.c:87` | a failed reservation is `MAP_FAILED` and the test is for a null pointer | `ObjectInv`: no call that fails leaves a mapping without its mirror |
| `circular_buffer.c:267` | destroy unlinks a name that may by then be somebody else's new buffer | `SettledAttachIsSound`: whoever has it attached keeps a sound mapping |
| `circular_queue.h:100` | push increments the index before it constructs the task: a worker that comes in between runs what is not there and dies | `RunsTheTaskOfTheTurn`: the process dies of nothing else, if the words point to places of their own |
| `circular_queue.h:106` | pop increments the index before it destroys through the slot: a push in between has its new task destroyed unrun | `RunsTheTaskOfTheTurn`: no task is lost otherwise, under the same condition |
| `circular_queue.h:126` | `at()` reads words nobody wrote as pointers; the process dies of one that is no storage, and two that are the same share a task | the first part of `RunsTheTaskOfTheTurn`, for all words |
| `task_queue_thread.cpp:13` | a push that counts while an index is in a store buffer does not post | `WakeupLostOnlyToStoreBuffers` |
| `event_dispatch.cpp:62` | timeouts are looked at only when `epoll_wait` returns 0: steady traffic starves them, and so do signals that come more often than the timeout (`event_dispatch.cpp:48`) | `TimeoutStarvedOnlyFromOutside` |
| `event_dispatch.cpp:69` | a listener that a callback unregisters is still called when its event is in the batch, and one that it destroys is called through a dangling pointer | `CallsLiveListeners`, `ReadyListIsFresh` |
| `event_dispatch.cpp:71` | an exception of one callback throws away the edges of the others in the batch | `EdgesAreKept`, `NoStrandedWork`, `NoStrandedBacklog` |
| `event_dispatch.h:207` | after `erase` the range-for calls the last slot again; after a reallocation it reads freed memory | `VectorInv`, `UndisturbedRoundCallsAll` |
| `event_dispatch.cpp:87` | the repetition is read through a reference that a growing vector invalidates | `FiredEntryIsReplaced` |
| `tcp_connection.cpp:21` | at the end of the stream `consume()` is called once, whatever the handler leaves | none: the loss is the handler's |
| `tcp_connection.cpp:56` | on_write goes on for as long as there is something to send and room, on_read (`tcp_connection.cpp:10`) for as long as the peer sends and the handler consumes, and the accept loop (`tcp_server.cpp:25`) for as long as peers connect | `InputIsTakenIn`, `TimeoutStarvedOnlyFromOutside` |
| `event_dispatch.cpp:30` | an on_close that comes a second time, in on_write, unregisters once more, which throws ENOENT | `ConnectionInv` (twice at most), `NoStrandedBacklog` (what the exception drops) |
| `tcp_server.cpp:25` | at the descriptor limit `accept4` fails even with nobody waiting, so serving the last connection that fits ends in an exception | `NoStrandedBacklog`, `ListenerInv` |
| `file_descriptor.h:130` | a copy assignment that gets no duplicate closes the old number all the same | `OwnershipInv`, `ImplementsHandles` |
| `lru_cache.h` | the destructor frees the nodes and not the bucket array | none: `CacheInv` is about the nodes |
| `mempool.cpp:121` | freeing the oldest of several used blocks of a class dereferences null | `FaultsOnlyOnTheOldest` |
| `mempool.cpp:67` | `8 << 28` is a negative int and compares as a huge `size_t`: a request above 2^31 bytes gets a block that is too small | `BlockHoldsRequest` |
| `backtrace.c:152` | a frame that dladdr does not know is filled from an `addr_info` that holds the frame before, or what was on the stack: a wrong module, or a wild pointer | `BacktraceInv`: no frame is reported with a module that is neither its own nor an earlier frame's |
| `backtrace.c:89` | every section is asked for an offset that is the module's, and the last one that answers wins | none: which section answers is libbfd's, and whether rightly is left open |
| `backtrace.c:179` | `addrinfo` is not initialised, and an address no section knows leaves it as it was | `BacktraceInv` |
| `backtrace.c:252` | a save into a pipe that is read only afterwards, as in `test/test_backtrace.cpp`, waits for ever if the pipe cannot hold the dump | `DumpsEnd` |
| `backtrace.c:258` | save ignores what `fclose` returns, and what is in the buffer then is written only there | `WholeDumpOrNothing` |
| `hex.cpp:46`, `92` | the table is indexed with a signed char; the buffer overload ignores a pair that is none and stores an uninitialised byte | `HexIsExact` |

save and load close the descriptor they are given (`fclose` of an `fdopen`ed
stream), and `test/test_backtrace.cpp:94` and `103` close the number once more;
harmless there, since nothing else opens one.

## 6. What is proved

### The ring

`CircularBufferProofs` proves, for every page size, requested capacity, index
width and store-buffer depth:

* `RingInvariant`: `Spec => []RingInv`, with type correctness inside it;
* `PushPublishesAll`: `Spec => PushNeverShort`;

and where the capacity is a power of two (`PowerOfTwoCapacity`):

* `ReadableIsTheStream`: `Spec => []ReadableHoldsStream`;
* `PiecesAreDisjoint`: `Spec => []PiecesDisjoint`;
* `RingIsAChannel`: `Spec => ImplementsChannel`, the refinement of `ByteChannel`.

The code does not see to that condition, and it cannot be dropped:
`OnlyPowersOfTwoFit` proves that `buffer_pos` gives consecutive indices cells of
their own exactly when the capacity is a power of two, and the run
`CircularBufferThreePages` shows the three properties' ground giving way for
another one (section 5). `RingInv` has two parts for this reason. What it says of
the indices holds for every capacity, of which only the model's assumption
`CapacityAssumption` is needed (a capacity is below the range of `size_t`); what
it says of the bytes is claimed where the geometry is sound.

**The geometry.** `SizesFit` holds for every capacity (`Sizes`): it is below the
range of the indices, and an index falls on a cell of the data area, because a
mask leaves no more than the mask (`MaskBounds`). `SoundGeometry` says more:
consecutive indices fall on consecutive addresses of the doubled mapping, also
across the wrap of the index, and `Capacity` consecutive indices fall on
different cells (`OffsetsDiffer`). `Geometry` derives that for powers of two. The
converse needs a clash for every other capacity: a mask that has all its bits is
a power of two less one (`LowBitsSet`), so some 2^j below the capacity has no bit
in common with the mask (`BitsOfPower`), and index 2^j shares its cell with index
0 (`NoCommonBit`). TLC evaluates the same for the widths of the runs, as the
assumption `OnlyPowersOfTwoMask` of `MCCircularBuffer`. `PowersDivide`: a power of two divides
every greater one, in particular the range of `size_t`, so that a wrap does not
move the offset. `MaskBits`: the mask's k lowest bits are set and no other.
`NextBit`: one more bit turns the remainder modulo 2^j into the one modulo
2^(j+1). `MaskIsRemainder` then shows by the first bit that would be wrong (see
"The memory pool" on such arguments) that the sum `BitAnd` computes is the
remainder. Of exponentiation all this uses only `PowersOfTwo`, the assumption of
`SizeT` that states its recursion for the exponents in use; it is true arithmetic
that the prover's back ends do not know, and TLC evaluates it on every run.

**The argument.** The properties are not inductive: they say nothing about
stores that have not reached memory. `RingInv` measures every index as its
distance from `r` in memory, the oldest value anybody still uses, and says:

* `Order`: r, cr, w, pw and the end of the piece come in this order and span at
  most `Capacity`. Old copies are therefore safe ones: a producer that sees an
  old `r` offers too little room, a consumer that sees an old `w` too few bytes.
* `Pieces`: a held piece starts at its owner's index; the consumer's piece ends
  before `w`.
* `ReleasesPending`: stores to `r` wait in increasing order up to `cr`.
* `PublicationsPending`: a waiting byte belongs to what is written; no publication
  waits in front of a byte it covers. This is where x86's order of stores is used.
* `BytesPending`, where the geometry is sound: a waiting byte goes to its own cell.
* `Contents`, likewise: what is published is in memory; what is written and not
  published is in memory or waits.

There is one lemma per action (`GetWritableStep`, ..., `DrainConsumerStep`).
The two hard ones are the drains. When `r` moves, every distance is re-based
(`DistanceRebase`, `DistanceRebaseBefore`); when a byte reaches memory it must
not hit a cell whose byte is still published, which is `OffsetInjective` and
`Order`. `ReadableIsTheStream` then follows from `Pieces` and `Contents`,
`PiecesAreDisjoint` from `Order` and `OffsetInjective`, and `PushPublishesAll`
from `Order`: r can only have moved on since get_writable.

For `RingIsAChannel`, the channel's contents are the bytes in memory from `r`
to `w`. `ChanIsStream` shows from `Contents` that they are consecutive stream
positions. `ChannelStep` then has three cases: a store that moves `w` appends
the positions it publishes (`Publish`), one that moves `r` removes the oldest
(`Release`), and no other step of the code is seen in memory.

### Descriptors

`UtilityProofs` proves, for any objects, files and descriptor limit:

* `DescriptorsAreOwnedOnce`: `DescriptorSpec => []OwnershipInv`;
* `DescriptorsAreHandles`: `DescriptorSpec => ImplementsHandles`.

The assumptions are those of `FileDescriptor`: the limit is a natural number,
`Raw` is no object and `NoFile` no file. `OwnershipInv` is inductive as it stands:
that numbers are held once and that what is held is open are needed together,
because a close is safe only if nobody else holds the number, and the lowest free
number is new to everybody only if what is held is open. `NextOwned` has a step
for each action.

For the refinement, `File` is the file a holder reaches through the table and
`OpenFiles` the files in it. `OpenIsHeld` turns ownership into what `Handles`
says of open files: they are those somebody refers to. The steps then fall into
four lemmas, one for each action of `Handles` (`Takes`, `Drops`, `Shares`,
`Moves`), and `StepRefines` maps the code's nine operations to them or to a
stutter. This is the part that numbers used again could break: a step of one
object must leave the file of every other as it is.

### The shared memory object

`SharedBufferProofs` proves, for any processes and number of objects, any page
size and any sizes asked for:

* `MappingsStayWithinObjects`: `Spec => []ObjectInv`;
* `LateAttachGetsTheLayout`: `Spec => []SettledAttachIsSound`;
* `LayoutIsWrittenOnce`: `Spec => LayoutNeverChanges`.

What is mapped was computed from a copy of a header that may have been taken
while the creator was still storing it. The inductive invariant `SharedIInv`
therefore says what every process in the middle of a call knows: a creator has
stored exactly the fields before `proc[p].field` and no object has two creators
(`CreatorSound`, `OneCreator`); of each field a reader's copy has nothing or
what the header has, and if the object was complete when it was opened, what the
header has (`ReaderSound`); an object has room for whatever its header says so
far (`ObjectSound`). A torn copy then asks for no more than is there, because
each of its fields is zero or final. `Grows` is what every step does to an
object: its size does not shrink and its stored fields stay. With it, the parts about all the
processes that do not move are one lemma.

### The task queue

`TaskQueueProofs` proves, for any capacity, store-buffer depth, semaphore limit
and storage:

* `QueueNeverMiscounts`: `Spec => []QueueInv`;
* `WorkerRunsTheTaskOfTheTurn`: `Spec => []RunsTheTaskOfTheTurn`;
* `WakeupsAreLostOnlyToStoreBuffers`: `Spec => []WakeupLostOnlyToStoreBuffers`.

They assume `CapacityFits`: `size_t` can count twice the capacity that the
constructor is asked for, as it can whenever the buffer of pointers fits into
memory. Then half the range of `size_t` is a candidate of `next_pow2`, which
therefore returns a power of two below the range, and that divides it
(`Geometry`, with `PowersDivide` as for the ring). This is why `Capacity`
consecutive indices fall on different words, also across the wrap
(`SlotsDiffer`).

Every index is measured from `cr`, the worker's own count (`Ahead`).
`QueueIInv` adds to the types: the order of the indices with the increments
that the worker's buffer holds back (`IndexOrder`); what each store buffer holds,
in order (`WorkerPending`, `PusherPending`); and `WakeupSound`, which says of
each point of push how far the published index can be behind and what a sleeping
worker with nothing posted implies. full() and get_current_task_num() read an old
`ridx_`; `CountsFromMemory` turns that into the length of the worker's buffer.

`ContentIInv` is about the tasks themselves. For any words: what the worker's
processor holds back besides its increments are nulls (`NullsOnly`); the
constructions under way are of queued tasks, in their order
(`ConstructionsInOrder`); and a place holds nothing but a queued task whose word
points to it, or the one that pop has just passed (`PlacesSound`). So the worker,
which reads the place of its own index, has a queued task in its hand
(`TaskInHand`). If each word has a place of its own (`Prepared`, which is a
condition of the property's second part and not of the theorem), `SlotsDiffer`
makes it the one of its index: indices within one capacity of each other fall on
different slots, also across the wrap of `size_t`. `TasksKept` then accounts for
every queued task: it is in its place, on its way there, or was lost to a pop
that was late.

### The IO loop with any client code

`EventDispatchProofs` proves, for any listeners and any size of the array:

* `ReadyListStaysFresh`: `Spec => []DispatchInv`;
* `OnlyMidBatchDestructionIsFatal`: `Spec => []CallsLiveListeners`;
* `RunOnceKeepsEdges`: `Spec => []EdgesAreKept`.

`EdgesAreKept` is not inductive: the entry whose callback runs is still in the
batch but leaves it on return, so an edge that arrives meanwhile must already be
on the ready list. `Kept` asks for a place other than that entry, and needs a
ready list without duplicates (`Once`), since epoll forgets one entry of a
listener when it is unregistered. `CallsSound` says of every entry that run_once
still has a call for that its listener is alive or was destroyed by an IO
callback of this batch; a new batch starts with live listeners because the ready
list is fresh (`Fresh`), and `BatchInHand` ties the batch to the places where
run_once works on it.

### The loop listeners

`ListenersProofs` proves, for any set of listeners:

* `VectorStaysWellFormed`: `LoopSpec => []VectorInv`;
* `UndisturbedRoundsAreComplete`: `LoopSpec => []UndisturbedRoundCallsAll`.

`VectorIInv` says what the range-for's iterators, taken once, still mean while
callbacks change the vector. As long as none registers, every slot below the old
end holds a listener of the start of the round, the slots that erase left behind
included (`OnlyStarters`); as long as none unregisters and the vector has not
moved, those slots are unchanged, because a registration goes to a slot at or
behind the old end (`AllInPlace`). `Iterators` ties the iterator to the number of
calls made and keeps it inside the buffer.

### The timeout listeners

`ListenersProofs` proves, for any listeners, intervals, clock and number of
entries:

* `HeapStaysWellFormed`: `Spec => []HeapInv`;
* `FiredEntriesAreReplaced`: `Spec => FiredEntryIsReplaced`;
* `NothingDueIsForgotten`: `Spec => NothingDueIsLeft`.

`HeapInv` alone does not survive the steps: it does not say why the fired entry
stays on top. `QueueInv` does. The top is among the entries with the earliest
deadline (`HeapOrdered`), and while a callback runs its entry is due
(`FiredIsDue`), at a time that is not ahead of the clock (`ClockRuns`). What the
callback registers is due at the clock or later, so it is never strictly earlier
than the fired entry, and push_heap lets it rise only past later ones
(`RegisterKeepsQueue`). The pop is then of the fired entry, and the repetition
that was put in before it commutes with it (`AddRemoveCommute`,
`TrueKeepsQueue`). Nothing due is left because the top, when it is not due, is
earliest. That the heap fits its vector is a count of elements, not of different
entries: `Size` counts the pairs of an entry and its number, and `AddGrows` and
`RemoveShrinks` say that adding changes it by one.

### The memory pool

`UtilityProofs` proves, for any arena, header size, requests and widths of int
and size_t:

* `PoolStaysWellFormed`: `Spec => []PoolInv`;
* `BlocksHoldRequests`: `Spec => []BlockHoldsRequest`;
* `FaultsAreOnTheOldest`: `Spec => FaultsOnlyOnTheOldest`.

The lists exist only as pointers in the headers. `Linked(s, list, hdr)` says that
they spell the sequence s, and has a lemma for each of the code's operations:
push puts a block in front of the sequence (`PushLinked`), pop takes the first
away (`PopLinked`), detach takes one away from anywhere but the end of a longer
list (`DetachLinked`), where it faults (`FaultsOnLast`). `Owned` states for one
manager that two such sequences hold the blocks of its class, those kept by
callers in one and the others in the other, and that blocks handed out later come
first in the used one. The last part is what makes the faulting block the oldest
one: alloc pushes in front, free keeps the order, so the end of the used list is
what has been out longest. `PoolIInv` has `Owned` of every manager as long as
nothing died, the order and the sizes of what callers hold (`HandedInv`), and the
checksums of free blocks. A step works on one manager, and `SameLinks` leaves the
others alone.

`ChainIs` connects the sequence with `Chain`, which follows the pointers by a
recursive function over the number of steps: were there a step after which the
walk is not a prefix of the sequence, there would be a first one. Such arguments
stand in for induction (`SmallestSubset`, `SmallestNumber`, from the library's
theorem that proper inclusion is well-founded on the subsets of a finite set), here
and in `PowersGrow`: larger exponents give larger powers of two.
`Widths` needs no more of powers than `PowersOfTwo`, an assumption of `Mempool`
that states the recursion of 2^i for the exponents in use; it is true
arithmetic that the prover's back end does not know, and TLC evaluates it on
every run.

### Backtraces

`UtilityProofs` proves, for any depth, stream buffer and pipe, all positive
(`DumpAssumption`):

* `FramesKeepTheirOwnLookup`: `DumpSpec => []BacktraceInv`;
* `DumpsAreWholeOrNothing`: `DumpSpec => []WholeDumpOrNothing`.

`DumpInv` adds where the two processes are. The saver has given everything to the
stream, or failed, when it reaches fclose, and returned 0 only at the end
(`SaveInv`); frames are reported only after all items were read, or by
backtrace_dump, which reads none and has no saver (`LoadInv`).
`LookupInv` says what the uninitialised `addrinfo` can hold at each frame, field
by field: what an earlier lookup found in an optimising build only, what this
one found, otherwise null or garbage, and garbage only until something was
reported. `FilledFrames` shows that however many frames in a row dladdr does not
know, each gets its own module, that of an earlier frame, or a wild pointer, and
the wild ones are never searched.

### The hexadecimal conversion

`UtilityProofs` also proves, for texts of any length over any codes and for any
widths of the types from 8 bits up:

* `HexConvertsExactly`: `HexSpec => []HexIsExact`.

The code reads a text from the left, shifting and adding modulo the widest type;
the notation (`Value`) counts every digit for its place. Both are recursive
functions. `RecursionExists` shows that such a function exists and satisfies its
equations, by the smallest length for which it would not, since the induction
theorems of the library are out of reach. A third recursion, the value of each
prefix without any width (`PrefixValues`), is then compared with the two:
`ScanOfText` says that hex_str holds it modulo the widest type, and fails exactly
from the first character that is no digit; `ValueOfDigits` that it is the value of
the notation. `NarrowValue` allows the narrower overloads to cut the union's low
bits out of what has already wrapped: the range of each type divides that of the
widest. A pair of digits is below 256, so the buffer overload's byte needs no
wrap. `HexPowers`, which TLC evaluates, states the arithmetic of `2 ^ i` and
`16 ^ i` that the provers do not know.

### The loop with server and connection

`EventLoopProofs` proves, for any capacity of rings and socket, any descriptor
limit and any amount of traffic:

* `ConnectionKeepsToItsRings`: `Spec => []ConnectionInv`;
* `ServerOwnsItsDescriptors`: `Spec => []ListenerInv`;
* `NoWorkIsStranded`: `Spec => []NoStrandedWork`;
* `NoBacklogIsStranded`: `Spec => []NoStrandedBacklog`.

`LoopIInv` states the last two event by event: each event that is due and was
not dropped is listed, is being handled, follows in the same event or is in the
batch (`WorkCovered`, `BacklogCovered`). It needs `RoomIsAnnounced`: a socket
whose send buffer is full will report room only if a `send` failed for want of
it, so such a failure, or a `send` still to come, must exist. That on_close comes
at most twice needs that nothing follows on_write in an event (`ConnCounts`). The
steps of connection and server are proved separately (`ConnSound`,
`Server!ServerOK`) and combined over the actions that belong to both.

### The cache

`LruCacheProofs` proves, for any keys, timeout and first number of buckets:

* `CacheStaysSound`: `Spec => []CacheInv`;
* `CallbacksMayUseTheCache`: `Spec => []OnlyOwnNodeIsTaboo`;
* `ClearExpiredIsComplete`: `Spec => NoExpiredLeft`.

`LruIInv` adds to the structure that no deadline is later than the latest time
passed allows, which keeps the list in order when insert and touch append; and
that during a callback the node it was called with is linked unless the callback
erased it, and in front unless it was touched (`OwnNodeInPlace`). clear_expired
then erases the front of the list, and since the list is in order, it may stop at
the first node that is not due.

### Only model-checked

* Liveness (`StreamAdvances`, `QueuedTaskGetsItsTurn`,
  `TimeoutStarvedOnlyFromOutside`, `OnTimeoutEnds`, `InputIsTakenIn`, `DumpsEnd`):
  the prover has no rules for fairness.

## 7. Plan

Done, in this order: the ring with its abstract channel; the task queue; the
event loop with its three kinds of listeners; connection and server; cache; pool;
life of the shared memory object; tasks that push and the destruction of the
queue; file_descriptor with its abstract handles; the composition of the loop
with server and connection; backtrace and hex. Then the proofs of section 6: ring
and descriptors first, the refinement of `ByteChannel`, the event loop, the shared
memory object, the cache, the task queue, the loop listeners, the timeout
listeners, the memory pool, backtraces, the arithmetic of masks under ring and
queue, the hexadecimal conversion. Every safety property of the passing runs
is now a theorem. What is left out of the model is in section 8,
with the reasons.

If the code changes, the lists of `UtilityProofs` are the place where a repaired
`detach` would show: `FaultsOnlyOnTheOldest` would become false, and its proof
would shrink to `DetachLinked`. If `circular_buffer_create` came to round its
capacity up to a power of two, `PowerOfTwoCapacity` would become a lemma of the
model, as `CapacityFits` already gives it for the queue. If push came to construct
before it increments, and pop to increment last, `RunsTheTaskOfTheTurn` could
drop its exceptions; if run_once came to call on_timeout after EINTR,
`TimeoutStarvedOnlyFromOutside` its premise `SignalsEnd`.

## 8. Not modelled

* `hash`: a function of bytes about which the repository promises nothing more.
* `allocator`: forwards to two `std::function`s and keeps nothing.
* `ipv4_addr`, `ipv6_addr`: values around `inet_pton`.
* `utility` except `next_pow2`, `error.h`, `memory.h`: message formatting, one
  `find` in a string, byte order, names.
* `next_pow2` of 1 and of more than half the range of `size_t`, which are undefined
  in the code (a count of leading zeros of 0, a shift by the width); queues of
  these capacities are excluded by an assumption of `TaskQueue`.
* An overrun of a pool's block that goes further than the checksum after it:
  `Mempool.Damage` flips checksums only, and the links of the next block, which a
  longer one would reach, stay as they were.
* Timeout intervals below zero, which the types allow.
* A dump file whose count was damaged after it was written (`backtrace.c:273`).
* What libbfd answers: the offset that `backtrace.c:89` passes is not checked
  against the section, and no property speaks of the answer being right.
* The size that the buffer overload of hex_str returns through its argument
  (`hex.cpp:102`).
* Within modelled parts: moving a queue or a connection, which no code does;
  destroying a `task_queue_thread` that was not joined, which ends the process;
  `processed_task_num_` (nothing reads it); `running_` (nothing resets it); epoll
  events that are neither EPOLLIN nor EPOLLOUT, which `run_once` ignores and Linux
  raises with one of them for sockets; a connection built with a buffer size of 0;
  SIGPIPE, which a client of `send` without MSG_NOSIGNAL must ignore; what the
  handler leaves unread at the last `consume()`; the text that libbfd and dladdr
  return; and the anonymous `circular_buffer`, which no other process can name.
