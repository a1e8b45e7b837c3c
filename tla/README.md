# A TLA+ verification of awoke_app

awoke_app is a C framework for embedded Linux devices (`lib/`) and the
applications written on it (`application/`): worker threads, locks, queues, a
`select` event loop, message passing between processes through a router, a
serial-line commander, talk and chat clients, and a `benchmark` program that
collects smaller components (a file cache, memory blocks, emulated devices).
This directory holds TLA+ modules for its core, the TLC runs that check them on
small instances, and TLAPS proofs of what matters most for instances of every
size. `PROJECT.json` is the index: components, runs, the source lines behind
every definition, hazards, findings and theorems.

## Inventory

### The framework

| component | state | operations | interacts with | hard to get right |
|---|---|---|---|---|
| worker (`lib/libutil/src/awoke_worker.c`) | `_running`, `_force_stop`, run counter, mutex, condition, thread | create, start, stop, suspend, resume, destroy; the loop `worker_run` | every application with a thread calls it from others | flags read without the mutex, wakeups, ending a suspended worker, freeing after the join |
| timer worker (same file) | list of tasks with clocks | register, tick | runs on a worker | undefined as written (see *Not modelled*) |
| lock (`awoke_lock.c`) | semaphore or mutex, `locked` flag | acquire (blocking, not blocking, timed), release, clean | workers and controllers | the flag is tested before and written after the primitive |
| array queue (`awoke_queue.c`) | array, index of the last node | enq, deq, get, insert after, delete, clean | micro-talk send rings | shifting loops at their ends, rollback when full |
| fifo (same file) | ring, head, tail, count | enqueue, dequeue, get | memory blocks, epc | wrap-around from a tail that starts at -1, rollback |
| minimum priority queue (same file) | heap of nodes, priorities, capacity | insert, get, delmin, del; swim, sink, resize | commander's queues, micro-talk's scheduled works | heap order, growing and shrinking, removal inside |
| event loop (`lib/libevent`) | table by descriptor, sets for `select`, `max_fd`, reported events | add, del, wait, ready, foreach | router, micro-talk, python bridge; the kernel | handlers change what the current round still has to serve |
| buffer chunks (`awoke_buffer.c`) | size, length, storage; pool totals | create, write, resize, backoff, pool add | commander | accounting, memory shortage |
| rtmsg (`lib/librtmsg`) | a stream socket | associate, send, receive with a timeout | router, applications | partial reads and writes |
| bitmap, log, socket, string, package, tree, tcp, http, aes, base64, condition-action | little or none | pure helpers or one system call | everything | text and byte handling |

### The applications

| component | state | operations | hard to get right |
|---|---|---|---|
| message router | forwarding table, connections, event loop | accept and associate, unicast, broadcast, queue for absent applications | blocking association, stale descriptors, error paths, a client that does not read |
| commander (`cmder`) | receive buffer, rx/tx queues, work queue, transfer state | poll, match, reassemble, dispatch, scheduled works, litetalk streams | fragments, full queues, time comparisons |
| micro-talk client | connections, sessions, works, receive timeouts | connect, login, send, receive, time out, redirect, close | callbacks that close what is being served, a full works queue, reads that block the thread |
| micro-chat client and server | websocket ring, worker | produce, consume, reconnect | two threads on one ring |
| file cache (`benchmark/bk_filecache.c`) | files on disk, list in memory | write, rotate, start up | a kill between two file operations, a failed allocation |
| epc, mblock, memtrace, nvm, qe, autofocus, feedback flow (`benchmark/`) | small tables and device states | produce/consume, allocate/free, read/write | limits, ordering, power loss |
| driving behaviour, step counter, quaternion, fix math, leetcode, ... | signal processing, exercises | | numeric |

## Plan

In order of importance for the programs that use them. Groups 1 to 4 are done.

1. **The primitives everything rests on**: worker, lock, the three queues with
   the abstract queue and priority queue they implement, the event loop, the
   file cache.
2. **The message router** with the message transport, on top of `AwokeEvent`:
   the forward table, association, forwarding, stale descriptors, error paths.
3. **The micro-talk client**: sessions over a data channel that is opened for each
   request, the notice channel with its heartbeats, the works queue at its
   limit, broken connections and retries.
4. **Proofs of every safety property**: the invariants and the refinements that
   the runs check, for every value of the constants.
5. Not planned: see *Not modelled*.

## Modules

| module | models | state and actions |
|---|---|---|
| `AwokeWorker` | `awoke_worker.c` 1-276 | Controllers and the worker thread are processes with a program counter. Each interface function is its sequence of shared accesses: test without the mutex, lock, assign, notify, unlock. `WLock`, `WTest`, `WUnlock` and `Gate` are `worker_should_suspend`; `RunFirst`, `RunOnce`, `Tick`, `StopTest` the body of `worker_run`. History variables count the handler runs begun since a suspend or a stop. |
| `AwokeLock` | `awoke_lock.c` | A thread is at a point of acquire or release; the primitive is a value 0 or 1; the flag is written in steps of its own. `sem_wait` is taken to succeed: its result is ignored, but neither program that uses the lock installs a signal handler that could interrupt it. |
| `BoundedQueue` | what a queue promises | a sequence with a capacity, refusing or dropping the oldest when full |
| `AwokeQueue` | `awoke_queue.c` 18-230 | the array with one slot behind its end (`Beyond`), `curr`, one action per function; a get beyond the contents succeeds and returns what the slot holds, which `BoundedQueue` leaves open |
| `AwokeFifo` | `awoke_queue.c` 660-963 | the ring with unsigned head and tail; `awoke_fifo` and `awoke_afifo`; get has no bound either |
| `PriorityQueue` | what a priority queue promises | how many copies of each element there are, of which a least one is read or taken |
| `AwokeMinpq` | `awoke_queue.c` 265-541 | the heap; an insert or removal is the first step, every swap of swim and sink another, resizing part of the step that does it. An index beyond the last node is the caller's error: `awoke_minpq_del` does not test for it |
| `Router` | `router_main.c`, `router_forward.c`, `router_signal.c`, `awoke_rtmsg.c` | the forward table, the connection behind every descriptor, the messages under way on each connection, and the loop's state; `Evl == INSTANCE AwokeEvent` computes what the loop sees of the kernel from the connections, and the router's handlers are the loop's turns. `router_listener_proc` is split by its outcome: associated, refused, failed after the association was entered. Every client's socket has room for `MaxOut` unread messages; a write to one that is full waits (`Room`) until the client reads (`client_recv`) or closes |
| `MicroTalk` | `micro_talk.c`, `mtk_client.c`, `mtk_session.c`, `client.c` | sessions with their chunks, how many of each work wait in `works_pq`, the data channel with its request, the notice channel with heartbeats sent and answers unread. One action per work or served event, which the single thread runs to its end, except for connecting the notice channel: the thread is held by `connect` and the read of the login's answer (`nc = "connecting"`), and until they return nothing else runs (`Runs`). `rx` is what a failed read has left in `rx_buff`. The server is external |
| `AwokeEvent` | `awoke_event.c`, the macro `awoke_event_foreach`, `awoke_sock_fd_read_ready`, and what `router_main.c` and `micro_talk.c` do from their handlers | the loop's table, sets and `max_fd`, the reported events still to be served, and the kernel's sockets; one action per kind of turn. `listening` tells the loops apart: a server's has a listener, for which FIONREAD counts or is refused, and asks `awoke_event_ready` before a turn; micro-talk's (`"none"`) has no listener, does not ask, and also opens, closes and changes masks between two rounds (`User`) |
| `FileCache` | `bk_filecache.c` | the files that exist with their messages, the list in memory; one step per file operation, `fopen` and the write included, so that `Crash` falls between any two. An `fopen` that fails drops the message; an entry of the list that cannot be allocated leaves the live file where it is |
| `MCAwokeWorker`, `MCAwokeLock` | | feature sets and lock types for TLC |
| `AwokeWorkerProofs` (worker and lock), `AwokeQueueProofs`, `AwokeFifoProofs`, `AwokeMinpqProofs`, `AwokeEventProofs`, `FileCacheProofs`, `RouterProofs`, `MicroTalkProofs` | | theorems |

Definitions named `...Short`, `...Late`, `...Dropped` and the like, introduced by
"Mutant of", are altered versions of the definition below them. Each breaks
one property of a run when it takes the definition's place, which shows that
the property depends on that piece of code.

Abstractions. Payloads are model values. Time is absent: a timed wait may end at
any moment. Logging is left out. Allocation failures are modelled where the code
goes on after them (`Create`, `HandleAcceptFails`, `filecahce_item_add`,
`listener_proc_fails`). The event loop's peers, the
kernel's queues, spurious wakeups of a condition and the death of the process
are external.

`Router` moves whole messages: framing is left out, and with it a header that
arrives in two segments. A write to a connection whose client has closed ends the
process (SIGPIPE is not ignored), and so does a unicast to an application that
does not run, whose queueing is handed the wrong pointer; after either `alive` is
false. `orphaned` collects the entries, application and descriptor, that the
listener's error path leaves in the table although it closes the descriptor. If
the loop did not take the descriptor, the connection is freed while it is
still in `conn_list`; linking the next one writes into it and may end the process.
A write that waits for room is not split from its turn: while the thread
waits, the clients that have their copy already can do nothing they could
not do before.

`MicroTalk` has no clock: a work may run at any moment after it was scheduled,
which includes every order the due times can give. `lost` collects what the
client does not recover from: a failed connect of the data channel (its retry is
an empty function), a connect that finds the connection of a failed request
still up, an answer that leaves its session waiting (a refusal, no data), a
stream that ends in the middle, an answer read behind bytes of a failed read,
and the start of a session that the full queue refused. The properties about
sessions say that nothing else is. The notice channel has no such exemption:
its two properties are about steps, and name the one that hits a full queue. The server of the
data channel answers in whole or closes; one that stops in the middle of an
answer holds the thread like a silent login does.

`FileCache` leaves out that writing to an open file or the `fopen` of the test for
existence fails. After `cachemax` failed allocations the list can be
empty when its last entry is to be removed, which ends the process: there only
`Crash` is left.

## Runs

| run | what it asks |
|---|---|
| `worker_control` | Two controllers make up to three calls, in any overlap, on a worker of each feature set the applications use. No wakeup is lost; after a suspend or a stop at most the rounds that were already let through begin. Under fairness a running worker runs forever and a stopped running one ends. |
| `worker_stop_hangs` (violation) | `awoke_worker_stop` does not end a suspended or never started worker: it waits on a condition that is not signalled and whose test does not include the stop flag. |
| `lock_exclusion` | Three threads, six acquisitions of all three kinds: the primitive is neither lost nor doubled, and the flag is never left set. |
| `queue_refines`, `fifo_refines` | All sequences of operations on four slots with three values implement `BoundedQueue`. |
| `minpq_refines` | Heaps of up to six nodes, fixed (6) and growing from 0, ordered by priority or by a comparator, under insertions, removals of the minimum and removals inside, implement `PriorityQueue`; they are ordered, and give out a minimum, until a removal inside spoils the order. |
| `filecache_rotation` | Fourteen messages through three archives of two messages, with up to three kills between any two file operations and three failed allocations, and an `fopen` that can always fail. No message is twice on the disk, the archives are bounded in number, and exact up to the first kill or failed allocation. |
| `event_loop` | A server's loop with a listener and two connections, or micro-talk's without a listener, on four descriptors: bookkeeping stays consistent while handlers accept, read, close each other and change masks; no removed event is served; nobody starves. |
| `event_listener_dropped` (violation) | Where FIONREAD fails for a listening socket, as on Linux, the first waiting connection makes the loop remove the listener. |
| `router_forwarding` | Two clients connect under any id, associate, send to an application or to all and close, while the listener fails, refuses or accepts. The table is exact; messages reach their destination only, in order and once, but for the one client that was given a descriptor closed under an entry; as long as clients read or close (`ClientsRead`), what an accepted client sent is read even if it has closed since; every step of the router is a step of `AwokeEvent` (`LoopSpec`). |
| `mtk_sessions` | Two sessions (sent, received, or asked for by notices) of two chunks, heartbeats with indices that wrap, a works queue of two, two faults of the server anywhere. No session is freed under a work; answers go to their asker; chunks are in order and files exact; a session ends, as long as logins return (`LoginsReturn`), unless something is lost. The notice channel is left without a reconnection only by a close, and without a heartbeat only by a read, that finds the works queue full. |
| `mtk_heartbeat_unwatched` (violation) | With the timeouts of the notice channel and a client that keeps serving it, an unanswered heartbeat is neither repeated nor closes the connection. |

### What the modelling showed besides

* A non-blocking `awoke_lock_acquire` (`awoke_lock.c:142`) tests the flag and then
  takes the primitive with the blocking call: a caller that loses the race
  between the two waits. `AwokeLock` has both steps.
* `awoke_minpq_del` (`awoke_queue.c:431`) puts the last node into the free place
  and sinks it only. If it is smaller than the parent of that place, the order is
  lost: `bent` in `AwokeMinpq` records it, and from then on the abstract queue
  may give out any node.
* A kill between `fopen` and `fwrite` leaves an empty live file, which counts as
  existing: the next start renames it over an archive.
* A failed allocation in `filecahce_item_add` skips the rename, and the rotation goes on
  as if it had happened: the archives are numbered past a gap, which raises the
  largest number by one (`DiskBound`), and after `cachemax` failures the list is empty
  when its last entry is taken.
* `filecahce_init` (`bk_filecache.c:75`) calls the function that rotates for every
  archive it finds, so that a restart moves the live file over the oldest one;
  `FileCache` does the same, and its properties hold in spite of it.
* In the micro-talk client a first connect that fails goes through a context
  that only a first success sets, and ends the process; each later failure of
  the notice channel schedules two retries.
* The end of the stream on the notice channel is read as a notice: `recv` returns 0, and the
  first byte of the cleared buffer is a notice's. Each round of the loop then creates a
  session and schedules a heartbeat, until the works queue is full.
  `mtk_session_add` then fails, and its caller closes the channel (`nc_notice_full`) and
  leaves what was read in `rx_buff`. Besides this only a `recv`
  or a heartbeat's write that fails ends it.
* A full works queue at that moment can also refuse the reconnection; when no heartbeat is
  queued whose removal makes room, the notice channel stays down for good.
* `connect` and the login of the notice channel (`micro_talk.c:586`, `660`) have no timeout.
  A server that accepts and stays silent stops every session: without `LoginsReturn`
  `EverySessionEnds` does not hold.
* `rt_message_send` (`awoke_rtmsg.c:50`) is a blocking write from the router's only
  thread. A client that does not read stops the router for everybody: without
  `ClientsRead` `Drained` does not hold.
* In the router an entry of the forward table survives its descriptor when the
  listener fails after the association (`router_main.c:336-353`); the next
  client that is given the descriptor receives the messages of that application.

### Bounds

* Worker: two controllers are the least for a race between two calls; three calls
  let every pair overlap and one more follow. The run counter wraps at 3
  instead of `0xfffffffe`, so wrapping happens.
* Lock: with three threads one holds, one waits and one is between the release
  of the primitive and the clearing of the flag.
* Queue and fifo: with four slots and three distinct values every alignment of head,
  tail and shifted range occurs, and a lost, doubled or reordered node shows.
* Heap: six nodes give a node with two children, one with one, and three levels.
  Two keys suffice: every operation compares and moves only, so an order
  violated with many keys is violated with the two classes "at most x" and
  "above x" (the 0-1 principle). Growing passes 2, 4, 8; shrinking follows.
* File cache: fourteen messages fill the live file seven times, more than twice
  what the archives hold; two kills
  reach the largest archive number the disk can show without failed allocations, which
  `DiskBound` names; three failures empty the list.
* Event loop: one descriptor below the listener, one above and one above
  `FD_SETSIZE`; one waiting message per socket suffices, since the loop only
  asks whether there is one. Structures outnumber the descriptors for them.

* Router: two applications that may associate and one that may not, two clients, the two lowest
  descriptors for them; four messages, associations included, give both clients an
  association and two messages to overtake each other. A socket holds `MaxInq`
  unread messages towards the router and one towards a client; a write to a full one
  waits, as a blocking `write` does, in either direction.
* Micro-talk: two sessions are the least that compete for the data channel; two
  chunks give a first and a last; heartbeat indices wrap at 2 instead of 255; a
  works queue of two overflows with two sessions, or one and a heartbeat; two faults can
  hit every connection at every point, and one the connection that another made
  necessary; the sessions after them are followed to their end. Two notices or
  answers on their way are the least that are read together, and fill an
  `rx_buff` of two.

### Fairness

`AwokeWorker!Fairness` is weak fairness of every thread that is inside a call, of
the worker and of a join whose thread has ended: the scheduler of the kernel
runs threads that can run. Calls, and spurious wakeups, are never promised.
`AwokeEvent!FairSpec` is weak fairness of the loop's single thread, which is a
`while (1)`; peers promise nothing.
`Router!FairSpec` is weak fairness of the router's loop, the same thread; while a
write waits for a client the loop is not enabled, and clients promise nothing, so
that `Drained` names what it needs of them.
`MicroTalk!FairSpec` is strong fairness of every work and of the service of the data
channel, and weak fairness of the server's answer to a request. Each round of the loop takes one work, the
queue orders works by due time, and serves both connections; so between two attempts to
connect the notice channel, each of which disables everything else for a
while, every due work and the data channel have their turn. That an attempt
ends is not assumed but stated in `EverySessionEnds`.
`TimeoutSpec` is weak fairness of the notice channel's connection, service, heartbeat and timeout. The
server promises nothing else. Refinement and safety need no fairness.

Deadlock is checked for the queues and the event loop. It is off where the
system may end: a destroyed worker or lock, the bound on messages of the file
cache, a router that has ended or waits for a client that neither reads nor closes,
a client whose sessions are over.

## Proofs

Each theorem holds for every value of the constants that satisfies the named
assumption of its module (`ConstantsAssumption`, `LockAssumption`,
`QueueAssumption`,
`FifoAssumption`, `MinpqAssumption`, `EventAssumption`, `FileCacheAssumption`,
`RouterAssumption`, `MtkAssumption`). The layout is the
same everywhere: an inductive invariant, one lemma per action or family of
actions, `Invariance`, and the properties as corollaries.

* **Worker** (`TypeCorrect`, `WakeupNeverLost`, `SuspendHolds`, `StopHolds`):
  the properties are not inductive; the invariant adds who holds
  the mutex at which point (`MutexInv`), that only a living
  worker has calls under way and that one not yet created has done nothing (`LifeInv`), and how many runs each point of the loop still allows
  (`SuspendInv`, `StopInv`).
* **Lock** (`LockIsConserved`, `FlagIsNeverPhantom`): the two properties with
  types and `LifeInv` are inductive.
* **Array queue** (`NeverOverruns`, `QueueImplementsBoundedQueue`): types and
  `NoOverrun` are inductive. Every operation is one of eight changes of the array,
  described slot by slot (`Added`, `Taken`, `Rolled`, `Deleted`, `Inserted`, ...),
  which replace the copy loops; each maps to one operation on `Contents`.
* **Fifo** (`IndicesAlwaysAgree`, `FifoImplementsQueue`): the invariant is that
  head, count and tail agree. For the refinement, every operation is one of
  four steps (keep, add, drop and add, take), each of which maps to the
  corresponding operation on the sequence `Contents`; the `%` in the ring's
  indices is eliminated once, in the first lemmas.
* **Minimum priority queue** (`TypeCorrect`, `HeapAlwaysOrdered`,
  `RootAlwaysMinimum`, `MinpqImplementsQueue`): between operations the heap is ordered, as long as no
  removal inside has spoiled the order; during a swim or a sink it is ordered
  except at the moving node, whose children are ordered with respect to its
  parent. That the root is a minimum follows
  by taking the least slot that contradicts it (well-foundedness of `<`). For the
  refinement, an element's copies are the slots that hold it, counted: `CountPut`,
  `CountTake` and `CountSwap` say what a new last slot, the last node in another's
  place and an exchange do to that number, and every operation and every
  iteration of a loop is one of the three or moves nothing. A queue that
  grows has a comparator, so a resize that spoils the priorities keeps the elements.
* **Event loop** (`LoopConsistent`, `MaxFdAlwaysCovers`, `NeverClosedFd`,
  `TurnsNeverStale`): the invariant adds that a registered event's descriptor
  is open, that an event still to be served is at the descriptor it was
  reported for or removed, that no event waits for writability only,
  and that in a loop that does not ask `awoke_event_ready` every event still to be
  served is registered (`Unasked`), because micro-talk's handlers close only the
  connection they are called for.
* **File cache** (`TypeCorrect`, `DiskAlwaysBounded`, `NeverDuplicated`,
  `ArchivesAlwaysExact`): the list in memory carries the invariant. `Counted` ties
  its length to `cachenum` and to the place the rotation has reached, `Bounded` bounds
  the numbers in it by its length, and `Fresh` says that no file is ahead
  of the writer; these survive a kill at every point, where the archives are
  numbered with gaps but are not more, and a failed allocation, each of which raises
  the bound by one. That the archives are exactly the latest
  messages holds up to the first kill or failed allocation only: `Exact` adds that the list has no
  gaps and which block of messages each file holds at every step of a rotation.
* **Router** (`TypeCorrect`, `TableSafe`, `DestinationSafe`, `OrderSafe`): the invariant adds that
  an application that does not run has no descriptor, that a connection with an
  event in the loop is one the router accepted (`Attached`), that the unread
  messages of a connection are its latest, numbered without a gap (`Unread`), and
  that whatever was delivered had been read before (`Delivered`). The exception to
  `DeliveredToDestination` stays with its client: a connection that was given an orphaned
  descriptor keeps it (`HeirsKept`). A broadcast
  reaches any other connection once because two items of an exact table cannot share a
  descriptor (`OneCopy`).
* **Router in the loop** (`UsesLoop`, `RouterLoopSafe`): every step of the router is
  a step of `AwokeEvent` or does not touch what the loop sees. The loop asks
  its users never to register a structure that is in use; that the router keeps to it
  is `UseInv`: the structure of a connection that waits to be accepted is nowhere in
  the loop, a connection is behind one descriptor at most, and no socket
  holds more than it can. In the loop's table an event is at its own descriptor
  (`Located`), and no client holds more unread messages than `MaxOut` (`Held`). The theorems of `AwokeEventProofs`, instantiated
  for the router's loop, then hold of it.
* **Micro-talk** (`TypeCorrect`, `SessionsSafe`, `AnswersSafe`, `SessionsKept`, `ChunksSafe`,
  `FilesSafe`, `ReconnectSafe`, `HeartbeatSafe`): the invariant counts, for every
  session, the works and requests that move it on, and ties the chunks sent and
  received so far to the session's index; the part on the notice channel, with
  its ring that never holds more than `RingSize` heartbeats, is independent of it. That a failing
  connect always finds room for its retry is `QueueFits`: the waiting works and the connect
  work under way never exceed `WorksCap`.

Only model-checked: liveness (`StopEndsRunningWorker`, `RunningWorkerRuns`,
`NoStarvation`, `Drained`, `EverySessionEnds`), which needs fairness and ENABLED.
Every invariant, action property and refinement of a passing run is also a theorem.
The type invariants of the worker, the lock, the fifo and the array queue are proved
only; that of the event loop is checked, and proved, as part of `Router`'s.

## Not modelled

* The timer worker: `run_once` passes `timer_scheduler` a context where it expects
  the worker, so its first access is outside the object. There is no
  behaviour to derive until that is fixed.
* The fifo's resize flag, whose function is an empty stub, the growth of a
  priority queue without comparator, which fills the priorities with bytes of
  the nodes, and the descriptor `FD_SETSIZE`, which passes the check of
  `awoke_event_add` and is written behind the table: each leaves the defined
  behaviour of the code.
* Calls with arguments no caller passes (null pointers, negative indices).
* Framing of the message transport, the redirect of the micro-talk client (it calls
  through an uninitialised structure) and the generation of chunk descriptions.
* The commander: its serial line is compiled out, so only the tcp poll and the xfer
  protocol run, and their receive path hands on sizes and pointers that lie
  outside the buffers they belong to; there is no defined behaviour to check.
  The queues it uses are modelled. Buffer chunks serve the commander only.
* The micro-chat programs are callbacks of libwebsockets, which the repository does
  not hold, over a ring that is libwebsockets' own.
* epc, mblock, memtrace, nvm, qe, autofocus and the feedback flow in `benchmark`:
  demonstrations, sequential or numeric, on primitives that are modelled.
* Third-party code (`mongoose`, `cJSON`, `bget`, `md5`, `printf`), cryptography,
  parsers and numeric programs.
