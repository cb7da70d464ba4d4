# Models of c-c-linux-LearningCode

TLA+ modules, TLC configurations and TLAPS proofs for the parts of this
repository that keep state: the queues, lock-free and locked; the thread pool
and the connection pool; the coroutine scheduler with its echo server; the
event-loop servers; the timers and the ordered containers behind them; and the
deadlock detector.

The repository is a course: each directory holds one component and the program
that exercises it, most of them in one process and with no dependency on the
others. "Composition" below therefore means a component with the driver, server
or benchmark that the repository runs it in.

    cd tla
    tlc -workers 2 -config MCArrayLockFreeQueue.cfg MCArrayLockFreeQueue
    tlapm ArrayLockFreeQueueProofs.tla

`PROJECT.json` lists the runs (module and configuration), the source lines of
every definition, the hazards and the theorems.

## 1. Inventory

### Modelled

| Component (directory) | State | Operations | Interaction | What is hard | What makes it correct |
|---|---|---|---|---|---|
| ArrayLockFreeQueue (3.2.4) | ring of slots, write, read and commit index, counter | enqueue, dequeue | any number of producer and consumer threads, each shared word accessed on its own | indices loaded at different times; slot copied before it is claimed; commits must go in order | it is a bounded FIFO queue; positions have one owner; everybody ends |
| ypipe_t on yqueue_t (3.2.4) | `w`, `f`, `r`, the shared `c`; a list of chunks and one shared spare chunk | write, unwrite, flush, check_read, read, probe; push, unpush, pop | one writer thread, one reader thread | a plain store relies on the state of `c`; chunks are recycled while both threads run; wake-up of a sleeping reader | only flushed items come out, once, in order; a sleeping reader is owed a wake-up; no chunk is lost |
| Queue test (3.2.4, `4_test_lock_free_queue.cpp`) | counters of both sides, a condition variable | three pairs of threads on a ypipe | polling, batches, condition variable | notification before the wait | all items arrive; the threads return |
| ZERO_ThreadPool (3.1.4) | task queue, termination flag, counter of running tasks | init, start, exec, run, get, waitForAllDone, stop | owner and workers sleep on one condition variable | a notification meant for one sleeper reaches another; counter changed outside the mutex | tasks are conserved, no sleeper is forgotten, stop leaves nothing |
| CDBPool (3.1.4) | free list, used list, connection count | Init, GetDBConn with and without a timeout, RelDBConn, destructor | threads that hold connections | pool at its maximum, timeout against release, failed connections | exclusive use, counts match, nobody sleeps beside a free connection |
| Benchmark of the pools (3.1.4, `test_dbpool.cpp`) | the program's phase, each task's phase | testWorkUsePool, testWorkNoPool | tasks of the thread pool use connection pools | two pools that both make threads wait | the program returns and has everything back |
| NtyCo scheduler and sockets (2.3.1) | ready queue, waiting tree, epoll set, status bits | create, resume, yield, exit, wait for an fd, the event loop; accept, recv, send, close | coroutines of one thread, kernel | an fd closed and reused while events of it are on their way; status bits that overlap | every coroutine is in one place; what epoll knows is what coroutines wait for |
| NtyCo echo server (2.3.1) | `cli_fd` of each server coroutine, buffers | server, server_reader | clients that send, shut down, reset, or leave | address of a local variable handed to a coroutine; failing accept; partial send | one reader per connection, bytes come back once, fds are closed |
| Other queues: SimpleLockFreeQueue, mutex queue, BlockQueue (3.2.4), SyncQueue, SimpleSyncQueue (1.3.2) | linked nodes with versioned links, a free list, a flag in the head; a list under a mutex with one or two conditions | enqueue, try_dequeue; put, take, with and without a timeout | producer and consumer threads of their programs | nodes are reused while others still hold their index; a notification and the end of a wait meet | it is a first-in first-out queue; a node is in one place; all threads return |
| Event-loop servers: reactor with one and with two callbacks (2.1.2), C1000K (2.2.1), HTTP (2.1.3), websocket (2.1.4), epoll demonstration (2.1.1) | a table with an entry per fd, what epoll watches, what is still to be sent | add, set, del of an event; accept, read and write callbacks; loop and heartbeat | clients and kernel; one thread serves them all | operations taken from a remembered status, fds used again, partial sends, a client that does not read | table and epoll agree; what a reliable client was sent neither lost nor doubled; every client is served as long as all read; fds come back |
| Timers on a heap, a tree and a skip list (3.2.3) | the container, the deadlines | add_timer, del_timer, find_nearest_expire_timer, expire_timer | one thread sleeps, handles events, expires; handlers add timers | rebalancing; equal deadlines; a container that changes while it is emptied | the container's own rules; it is an agenda; no sleep past a deadline |
| Single-level wheel (3.2.3) | a ring of lists, a count per connection | add_conn, check_conn | one thread | a timer knows no deadline, only its place | the same agenda; counts match |
| Red-black tree (1.1.1), B tree (1.1.2) | the tree | insert, delete | none | fixups many deletions apart; borrowing and merging | order, balance, filling; contents as a set's |
| Deadlock detector (3.2.5) | list of mutexes with holder and count, graph of threads | lock_before, lock_after, unlock_after, check_dead_lock | threads that lock, a thread that searches | the list follows the real locks in steps of their own | "no deadlock" means none |
| Timing wheel (3.2.3) | near and four levels of lists, time, spinlock | add_timer, expire_timer (del_timer and clear_timer are left out) | adding threads, one expiring thread, callbacks without the lock | slots and levels at their boundaries, wrapping time, adding during callbacks | a timer is linked once and called at its tick |

### Not modelled yet (see the plan)

| Component | State and operations | What is hard | Properties to state |
|---|---|---|---|
| C thread pool (3.1.1) | linked workers and tasks; push, destroy | `thread_destroy` walks the workers without the mutex (threadpoll.c:137), nodes are freed by the workers | every task once; destroy ends all workers |
| Memory pool (3.1.2) | blocks with `last`, `quote`, `failed`; large blocks | `quote` and `next` are not set when a block is made; reset; recycling of large headers | allocations disjoint; blocks reused only when unreferenced |
| Asynchronous DNS client (3.1.3) | epoll, a context per query; commit, proc, destroy | lost answers, failed receive, destroy against the thread | one callback per query |
| NtyCo sleeping tree (2.3.1) | coroutines by wake-up time | sleep does not yield; nothing in the repository calls it | each sleeper is woken once |

### Left out

Language samples (1.3.1, most of 1.3.2), counting and locking demonstrations
(3.2.1, parts of 3.2.4), the select and poll demonstrations and load generators
(2.1.1, 2.2.1), packet printing (2.4.1), the blocking DNS client (3.1.3),
try/catch with setjmp (3.2.2), leak detectors (3.2.6), uses of libevent and
protobuf (3.3.1, 3.3.2), the file server project with its vendored nginx. They
keep no state beyond one call, are input/output throughout, are generated, or are
third-party code: most of the repository's lines are the protobuf headers of
3.3.2. `PROJECT.json` lists the hazards of the modelled parts at their lines.

## 2. Modules

    BoundedFifo <----refines---- ArrayLockFreeQueue <- MCArrayLockFreeQueue
         ^                         ^
         |                      ArrayLockFreeQueueProofs
         +--------refines---- QueueTest -> LinkedQueue, LockedQueue
                                   ^
                            QueueTestProofs
                                   |
    FlushedPipe <----refines---- YPipe <- YPipeDrivers
         ^
         +--------refines---- YPipeChunks <- MCYPipeChunks
                                   ^
                                YPipeChunksProofs

    ThreadPool, CDBPool <- PooledWork <- PooledWorkProofs
    NtyCo <- NtyServer <- MCNtyServer, NtyServerProofs
               |
            TcpClients
               |
             Reactor <- MCReactor, ReactorProofs
    Agenda <----refines---- Containers <- MCContainers
                               |
             MinHeap, NgxTree, SkipList, SingleWheel, RedBlackTree, BTree
    TimeWheel <- TimeWheelProofs          DeadlockDetector

    SlotArithmetic <- the proofs of the queues, the pipes and the wheel

**ArrayLockFreeQueue** models `ArrayLockFreeQueueImp.h` with the producer and
consumer threads of the queue test. Each load, store and compare-and-swap of a
shared word is an action (`EnqLoadWrite`, `EnqFull`/`EnqNotFull`, `EnqReserve`,
`EnqStore`, `EnqCommit`, `EnqCount`; `DeqLoadRead`, `DeqEmpty`/`DeqNotEmpty`,
`DeqCopy`, `DeqTake`, `DeqUncount`, then the driver's `ConsumerPop` and
`ConsumerCheck`). Items are pairs of a producer and a number. `IndexLimit` is
the width of the indices; 0 means that they do not wrap. **BoundedFifo** is
what its users rely on: a queue in which an enqueue and a dequeue each take
effect in one step. The refinement mapping takes the slots between the read
and the commit index as the queue, the commit as the enqueue and the
compare-and-swap of the read index as the dequeue.

**QueueTest** runs the remaining queues under the thread functions of their
programs and chooses the queue in its initial state. **LinkedQueue** is
`SimpleLockFreeQueue.h`: an index carries the version of its node, as in the
code, and every load, exchange and compare-and-swap is a step; the tables of
blocks that turn an index into an address are left out. **LockedQueue** is a list
under a mutex, of which the mutex queue, BlockQueue, SyncQueue and SimpleSyncQueue are settings
(bounded or not, waiting or polling, with a time limit or without). Both
implement BoundedFifo, with capacity as large as the number of items where the queue has
no bound.

**YPipe** models `ypipe.hpp` over positions: a pointer is the number of the
slot it points to, counted from the first. The failing compare-and-swap of
`flush` and the plain store after it are two steps. **YPipeChunks** models the
same operations with `yqueue.hpp`'s memory: pointers are a chunk and an offset,
chunks are allocated, linked, recycled through `spare_chunk` and freed, and
freed memory holds garbage. **FlushedPipe** is the promise both implement: items
are pending, then ready, then visible, and a flush that answers `false` obliges
the writer to wake the reader. **YPipeDrivers** runs the three pairs of threads
of the test on YPipe, and besides them a free client that calls the operations
as it likes, since no driver calls `unwrite` or `probe`.

**ThreadPool** and **CDBPool** take a critical section of their mutex as one
action; a condition variable is a set of sleepers. **PooledWork** lets the tasks
of the thread pool use connection pools the way `test_dbpool.cpp` does. Statements
fail or succeed as they please, and a new connection may be refused. `m_used_list`
is a set: nothing reads its order.

**NtyCo** is the scheduler: `Resume`, `Yield`, `Create`, `Exit`, the steps of
`nty_schedule_run`, and `WaitFor`/`Awake`, which keep the waiting tree and the
status word. The word is modelled bit by bit where the code does arithmetic on
it: waiting for POLLOUT adds the *number* `NTY_COROUTINE_STATUS_WAIT_WRITE`, 3,
instead of the bit with that number, and so sets the bits of NEW and READY. **NtyServer** adds the coroutines of
`nty_server.c` and the system calls they make. One action of a coroutine goes
from one system call to the next; clients and the kernel act in between.
Messages are counted in bytes. **TcpClients** holds the clients and the kernel's side of a
connection, for this server and for those of Reactor: connect, send, shut down,
reset, give up, and what a read or write on an fd answers in each state.

**Reactor** is one event loop with the callbacks of six servers, which differ in
what an entry of the table holds and in when they register, answer and close;
the server is chosen in the initial state. The entry's `status`, from which the
operation for `epoll_ctl` is taken, is kept apart from what epoll knows: that the
two agree is a property. Requests and answers are lengths; the websocket's state
machine is kept, the frames' contents are not.

**Containers** runs the ordered containers, one per behaviour. The containers
are operators on values, in modules of their own: **MinHeap** (`minheap.c`),
**NgxTree** (`rbtree.c`), **SkipList** (`skiplist.c`, with the level drawn at
random as a choice), **SingleWheel** (`single_tw.c`), **RedBlackTree**
(`1.1.1/main.cpp`) and **BTree** (`btree.cpp`). Mirrored halves of a procedure
are one operator with a side. Around the timers' containers runs the loop of
their programs: sleep until the first deadline, handle an event (which adds and
deletes timers), expire; a handler may add a timer while `expire_timer` is
on. **Agenda** is the promise: what was put in and not taken out is held, with its
key; an expiry calls the earliest first, only what is due, and leaves nothing
that was due when it began.

**DeadlockDetector** keeps the detector's list of mutexes apart from the real
owners. A hook is a step, since `tg->mutex` makes it one, and the real lock and
unlock are steps of their own, as in the code.

**TimeWheel** models `timewheel.c` with the sizes of near, of a level and the
number of levels as constants; the time counts as far as the levels together
reach, as in the code (2^8 · 64^4 = 2^32). The code's sizes are powers of 2, its
masks and shifts the remainders and quotients of the model, which holds for any
sizes. `AddTimer` is a step that needs the lock to be
free; `UpdateBegins`, `Detach`, `Dispatch`, `Relock`, `TimerShift` and
`UpdateEnds` are `timer_update`, with the lock given back while callbacks run.

Where a definition is preceded by one named `Name_Suffix` with the remark
"(variant)", the latter is a plausible mistake in the same code. Nothing refers
to a variant; each breaks a property when put in the place of `Name`, which shows that
the property depends on the code it is about.

## 3. What TLC checks

State counts are distinct states.

| Configuration | Bounds | Question and result |
|---|---|---|
| `MCArrayLockFreeQueue` | 2 producers, 2 consumers, 3 slots (2 usable) | Index order, single ownership, counter, refinement of BoundedFifo, return of all threads: hold. The ring wraps, is full and empty, and a producer and a consumer can each be a lap behind. |
| `MCYPipeChunks` | 4 chunks of 2 slots, 6 writes (59 000 states) | No leak, no dangling pointer, a way back for unwrite, refinement: hold. Six writes cross three chunk boundaries, so a chunk is recycled and reappears at an address in use before. |
| `YPipeDrivers` | 6 writes, groups of 3 | All four styles; order, wake-up, refinement of FlushedPipe, return of the polling pairs: hold. Six writes give two batches, and the free client several rounds of write, unwrite, flush and sleep. |
| `PooledWork` | 2 workers, 3 tasks (one with a timeout), 1 or 2 connections, both programs, patient and impatient waiting (85 000 states) | Conservation of tasks and connections, no forgotten sleeper, termination: hold. With one connection and two workers the pool is at its limit; with three tasks a worker comes back for more while the owner waits. |
| `QueueTest` | every queue; the threads of its program, queues at both bounds | Nodes accounted for, first in first out, every thread returns: hold. |
| `QueueTestConsumers` | the linked queue, 2 consumers, 3 items | **Violated**: an item is delivered twice and another lost. |
| `MCNtyServer` | 1 server coroutine, 3 readers, 2 clients, at most 1 or 2 open connections, 1 byte of send buffer (130 000 states) | Places of coroutines, agreement with epoll, one reader per connection, echo, closing: hold. The message of two bytes is sent in parts; accept fails when the limit is 1; fds are reused. |
| `MCReactor` | 6 servers, 2 clients, an eager and a polite one, 2 bytes each, 1 byte of send buffer (231 000 states) | Table and epoll agree, fds come back, and the answers are conserved and arrive: hold, the last two for the polite client, and for the eager one where the sockets are blocking. Both clients read what arrives. Partial sends, reused fds, the heartbeat and failed accepts occur. |
| `MCContainers` | 6 timers in the heap and the tree, 4 in the skip list, 3 in the wheel; 9 keys in the red-black tree, 10 in the B tree of degree 2; short clocks (397 000 states) | The containers' rules, the agenda, no oversleeping: hold. Six elements are the fewest with which an erasure of the heap shifts up; nine keys give every case of the deletion fixup, ten a B tree of three levels; the wheel's ring of 4 comes round. |
| `TimeWheel` | near of 2, 2 levels of 4, 32 ticks, delays 1 to 15, 2 timers (106 000 states) | Linked once, called at the right tick, none overdue unless in a slot 0, each comes to an end: hold. Delays up to half the range, as those of a signed `int`, reach every level; time wraps. |
| `TimeWheelForgotten` | same | **Violated**: a timer put in slot 0 of a level is never called. |
| `DeadlockDetector` | 2 threads and mutexes | **Violated**: two threads wait for each other, and the search finds one edge and no cycle. |

The runs with two actors of each kind contain every pairwise interleaving of
their steps, and the algorithms distinguish "me" from "some other" only. A
larger ring, a longer queue or more levels repeat the boundary cases (empty,
full, wrap, last and first slot) which the small ones already contain.

### Disagreements between code and text

Shown by a run:

* `SimpleLockFreeQueue.h:95`: the item is read after the node was claimed; a
  second consumer may free the node in between and a producer reuse it. Line 3
  calls the queue "yet correct"; the test starts one consumer unless told otherwise.
* `timewheel.c:108`: `timer_shift` skips slot 0, where `add_node` (which goes by
  the difference of the times alone) puts timers that cross a multiple of the
  next level's range. `add_timer(1000)` at time 15384 is never called.
* `deadlock_success.c:305`: a mutex is entered in the list after it was locked;
  a thread that asks in between leaves no edge. One of two threads that wait for
  each other is enough: the graph has the other's edge alone, and no cycle.

Met while modelling, and kept as steps of the models:

* `ArrayLockFreeQueueImp.h:45`: the write index of the full test may be old
  while the read index is new; what is called full at line 49 may even be empty.
* `4_test_lock_free_queue.cpp:463`: the wait has no predicate, so the wake-up
  that `ypipe.hpp:91` asks for may be lost, and the consumer sleeps beside its items.
* `ZeroThreadpool.cpp:119`: `waitForAllDone` answers when the queue is empty;
  `ZeroThreadpool.h:175` says when all work is done.
* `test_dbpool.cpp:65`: a task that got no connection gives NULL back, and
  `RelDBConn` puts it into the free list, from which the next thread gets it.
* `C1000Kserver.c:116` and the `send_cb` of the other nonblocking servers: a part
  sent is taken for the whole, so a client that sends more before it has read its
  answers loses bytes (`Counted`; `Reliable` says for whom bytes are counted).
  `httpserver.c:203` does so with its header, and goes on with the file.
* `httpserver.c:210`: the loop around `sendfile` waits for a client that does not
  read, and with it every other client.
* `nty_server.c:72`: a failed accept also makes a reader; a second one waits for
  fd -1 too, and the assertion of `nty_schedule.c:122` stops the server.

Met while modelling, and outside what the runs allow:

* `btree.cpp:188`: the key of an inner node is replaced by the last key of the
  child before it, which is its predecessor only if that child is a leaf. With
  three levels the order breaks. `btree.cpp:199` enters a node that a merge
  may have freed, line 153 may write one past the children of a full node, and
  line 108 reads the root that the last deletion set to NULL. The operator
  `Deletable` says which deletions are defined; those of `main` are among them.
* `skiplist.c:132`: of several timers with one deadline, deleting one may take
  another, and free it. The promise of Agenda allows that, and nothing else.
* `skiplist.c:92`: `zslDeleteHead` does not free the node, and it deletes what is
  first *after* the handler: a handler that adds a timer without delay has that
  one deleted and is called again. Handlers add delays of at least 1 in the run.
* `mh-timer.h:78`, `rbt-timer.h:88`: the comparison is unsigned, while
  `rbtree.c:128` orders by signed difference for the sake of the wrap after 49 days.
  After the wrap nothing expires while the time to sleep is 0.
* `single_tw.c:123` allows delays up to 10; with 16 slots and EXPIRE 10 a delay
  of 6 or more lands in a slot that is checked too early. `single_tw.c:39` uses
  an index that only line 36 masks: after 131071 timers it leaves the array.
* `deadlock_success.c:389`: an edge whose holder has changed since is never taken away, so a
  deadlock may be reported where there is none.
* `websocket_reactor.c:307`: at the end of the input `recv` returns 0 for ever,
  and the loop does not end.

## 4. Fairness

* Threads (`FairSpec`, `DriverFairSpec`, `WorkSpec`, `QueueTest`): weak fairness for each
  thread. They are kernel threads of one process; a thread with a step to take
  is scheduled again. The spinning loops are steps that change nothing or only
  the thread's own state, so fairness of the thread is all they get. Mutex
  acquisition is part of the critical section's action: fairness of the thread
  then says that it gets the mutex in the end, which the kernel's futex does.
* Condition variables: spurious wake-ups are actions without fairness. A timeout
  (`wait_for`) is part of the thread's fair steps: the clock goes on.
* `ServerSpec`: weak fairness for the process, which is one thread, and for each
  client's reading of what arrived. Nothing says that clients send, close or
  reset. The liveness properties except a server that has stopped (`Down`). The
  servers of `Reactor` have the same fairness.
* `Containers` and `DeadlockDetector` have safety properties alone and no fairness.
* `WheelSpec`: weak fairness for the expiring thread, which `tw-timer.c` lets
  call `expire_timer` in a loop. Callbacks return. Threads that add timers have
  no fairness.

`CHECK_DEADLOCK FALSE` is in `MCYPipeChunks`, where writes are bounded and a free
client may stop, in `MCContainers`, where the clock ends, and in
`DeadlockDetector`. In all other specifications the end of the program is a
step of its own, and any other standstill is an error.

## 5. What is proved

Every theorem below is about the specification that TLC runs, for all values of
its constants. The assumptions are those the modules state about their
constants (`QueueAssumption`, `PipeAssumption`, `ChunksAssumption`,
`ThreadPoolAssumption`, `CDBPoolAssumption`, `PooledWorkAssumption`,
`ReactorAssumption`, `SchedulerAssumption`, `ServerAssumption`,
`WheelAssumption`, `TestAssumption`, `DriverAssumption`; TLC evaluates them in every run) and, for the ring,
`NeverWraps`. Each inductive invariant was checked by TLC on the bounds of
section 3 before it was proved; that of the linked queue speaks of sequences of
nodes, for which TLC took those it finds by following the links.

**ArrayLockFreeQueueProofs**: any sets of producers and consumers, any size, any
number of items. `NeverWraps` says that the indices do not wrap (`unsigned long`
has 64 bits on the usual builds; about wrapping see below).

* `TypeCorrect`, `WriterNeverLaps` (`IndexOrder`), `OneOwnerPerPosition`
  (`ReservedOnce`). Index order is not inductive: the full test compares a write
  index loaded earlier with the present read index. `StaleIndices` adds what a thread may
  still rely on: the indices only grow, hence what was free behind a loaded
  write index is free until that index itself is taken, and a committed item at a
  loaded read index stays until that index is taken. With it the
  compare-and-swap proves the rest. `IInv` is the conjunction, and
  `IndicesKeepOrder` proves it.
* `RingImplementsFifo`: every step is a step of BoundedFifo or changes nothing
  there. It needs `SlotData`: a slot holds the item of the producer that owns
  its position until the position is taken, and a consumer whose read index is
  still current holds a copy of the oldest item.
* `CounterSettles` (`CountSettles`): `m_count` is changed after the index is, so
  it lags. The invariant balances it: what the indices say, less the producers
  that have still to add one, plus the consumers that have still to subtract one.

**QueueTestProofs** first has the pipe, for any number of writes. `PipeTypeCorrect`,
`ReaderStaysBehind`, `PlainStoreIsSafe` and `WakeupIsOwed` follow from
`PipeInvariant`. The strengthening `Protocol` says what `c` can be: it equals
`w`, or is NULL exactly while the reader is told "empty", and then nothing lies
between reader and `w`. The plain store in `flush` is safe because from the
failing compare-and-swap on `c` stays NULL whatever the reader does.
`PipeKeepsPromise`: YPipe implements FlushedPipe; the sequences of the promise
are stretches of slots between two pointers, and each operation cuts, joins or
moves stretches (the lemmas of SlotArithmetic). `DriversUsePipe`: every step of
the drivers' threads is a step of YPipe or leaves it alone, so all of this holds
of the test's programs too (`DriversKeepPromise`).

Then it has the linked queue, for any finite sets of producers and consumers and any
number of items. `ListInv`, proved by `ListAlwaysShaped`, says that there are nodes
`L[a]` to `L[b]` from head to tail, free nodes `F[d]` to `F[1]`, and a present version
`V[n]` of every node, which the code has nowhere in one place. `Shape` is the
conjunction of

* `Chain`, `Links`: a link is stored with the present version of the next node,
  or is yet to be stored by the one producer that exchanged `tail` there;
* `FreeChain`, `Hands`, `Somewhere`: the free list is another chain, and each other
  node that was given out is in the hands of one thread;
* `Know`, which makes it inductive: what a thread may conclude from an index it
  read some time ago. No version comes back, so an index whose version is present
  has not been away since: a node that was the first free one and still has its
  version is in the free list and has the `next` that was read, and a node that was head
  and still has its version is not further down the list.

One invariant remains, `Supply`: no more nodes are taken than there are items,
so the model's bound on nodes never stops a producer. From `ListInv` follow

* `NodesAlwaysAccounted` (`NodesAccounted`). The property walks along the links;
  that the walk meets `L[a]` to `L[b]` and ends is proved from its least
  counterexample (`WalkMeets`). It holds for several consumers as well: what those
  break is the order of items, not the lists;
* `QueueIsFifo` (`IsFifo`): every step of a test program is a step of BoundedFifo or
  changes nothing there. The mutex queue, BlockQueue, SyncQueue and SimpleSyncQueue
  satisfy it with any number of threads on both sides. The linked queue does with
  any number of producers and one consumer, and that is what `SharedItems = 0` says:
  with more consumers and enough items it is not a queue, as `QueueTestConsumers`
  shows. The additional invariants are `Claims` (whoever reads the item of a claimed
  last node finds the node still at head, which needs the single consumer), `Written`
  (an item is in its node before the node is appended) and `Orderly` (items of one
  producer wait in the order of their numbers).

**YPipeChunksProofs**, for any number and size of chunks and any number of
writes. `ChunkInvariant` is the conjunction of `ChunkTypes`, `Owners` (the spare
chunk and those in the hands of a thread are different ones), `Chained` (the
others form a doubly linked list in the order of their positions), `Covered`
(without gaps) and `Pointers` (every pointer is in that list, in YPipe's order).
Giving every chunk of the list the position of its first slot, a number the code
does not have, turns pointers into positions and the order of the list into the
order of numbers. From it follow

* `NoChunkIsLost` (`ChunksAccounted`). The property follows `next` from one end
  of the list to the other; that this walk meets the list and nothing else is
  proved from its least counterexample;
* `NoPointerDangles` (`PositionsInList`): equal pointers are the same position,
  and `unpush` finds its way back over a border;
* `ChunksKeepPromise`: recycling, freeing and moving chunks is invisible to
  writer and reader. The pipe with its memory implements FlushedPipe.

**PooledWorkProofs**. First the thread pool, with tasks that do whatever they
like to the rest of the world (`PoolSpec`): `PoolInvariant`, with `Phases` (who
can be where), `RunningCountsBusy` (the atomic counter is changed outside the
mutex, and lags behind the tasks by exactly those on their way), `QueueOrdered`,
`HeldOnce`, `OutcomeSettled` and `NoneLost`; from it `PoolTypeCorrect`,
`NobodyIsStranded`, `TasksAreConserved` and `StopIsComplete`. Then `WorkUsesPool`,
a refinement: the benchmark programs are such a world, so all of it holds of
them (`WorkKeepsPool`). Then the connection pools under those tasks:
`WorkInvariant` (`Callers`, `Lists`, `Held`, `Counts` and `NoStrandedWaiter`) gives
`ConnectionsAreAccounted`, `NoWaiterIsStranded` and, together with the pool's
own invariant, `EverythingIsGivenBack`.

**NtyServerProofs**, for any numbers of clients, coroutines and fds.
`ServerInvariant` relates the scheduler, the coroutines' places in the program,
the fds and the bytes: `Located` (a coroutine is ready, waits or runs, once),
`Eventful` (the events still to be handled are for others than who runs),
`Arguments` (a reader that has not begun finds its fd in its server's variable,
because the server waits before it accepts again), `OwnFds`, `Kept` (an fd has a
keeper), `Files` and `Echoes`. From it `SchedulerStaysConsistent`,
`ConnectionsKeepTheirReaders`, `NoByteIsLost` (`EchoConserved`) and the action
property `NobodyStartsTwice` (`StartedOnce`).

**ReactorProofs**, for all six servers and any number of clients, fds and lengths.
`ReactorInvariant`: `Files`, `Callbacks` (who is still to be called in this round
has its connection, as no fd is closed but by its own callback), `EntryMatches`,
`Buffers` and `Bytes` (what a client asked for is on its way in, in the entry, on its way
out or received). The lemma `CountedIsTaken` says why no byte of a reliable client
goes missing: its server insists, or its answers fit the kernel's buffer. From it `TableMatchesEpoll` (`EntriesMatchEpoll`) and
`NoAnswerIsLost` (`AnswersConserved`).

**TimeWheelProofs**, for all sizes of the wheel, any number of levels and any
timers. `WheelInvariant` holds the key: `Fits(s, x, t)` says when slot `s` is right
at time `t` for a timer that expires at `x`. The slot has the digit of `x`; in near
the timer is due before the slot comes round again; and in a higher level the
tick that moves the slot, when the time equals `x` in the digits from this
level up and the rest is 0, is yet to come. `add_node` establishes this whatever the
level it chooses (`SlotFits`), and a tick either preserves it or is just the
one at which `timer_shift` moves the slot (`TickFits`, by `ComesDown`, which reads
the loop of `timer_shift` as arithmetic). Slots 0 below the last level, which
never move, are the exception the code makes; `Forsaken` names them.

* `TimersAreLinkedOnce` (`LinkedOnce`); `move_list` is a function on the
  prefixes of its list, followed by least counterexample;
* `TimersAreCalledAtTheirTick` (`CalledAtItsTick`): whatever is dispatched is due
  now. Two times within one turn of near and with the same digit are equal
  (`NearIsDue`);
* `NoTimerIsOverdue` (`NoneOverdue`).

The invariant also shows that the first `timer_execute` of an update never finds
a timer (`Executed`): an addition with delay 0 does not reach the wheel.

**SlotArithmetic** has the lemmas shared by these proofs: division with
remainder, positions on a ring, stretches of slots, the least position.

About wrapping: `FullTurn` in SlotArithmetic says that adding the size of the
ring to a position keeps its slot, so a wrap is harmless if the range of the
counter is a multiple of the size. The default size 65535,
which the test program uses, divides neither 2^64 nor 2^32, so the first wrap
moves every item to another slot. With 64 bits no program gets there; it is
recorded as a hazard, and no run wraps.

### Only model-checked

* All liveness (`AllJoin`, `ThreadsReturn`, `ProgramReturns`, `EchoArrives`,
  `AnswersArrive`, `FdsComeBack`, `TimersEnd`, `AllReturn`): fairness and ENABLED
  are beyond the prover.
* Containers with its trees, heap, lists and their refinement of Agenda, and
  DeadlockDetector: their operators are RECURSIVE, which the prover does not take.
* QueueTest: the linked queue with several consumers and at most `SharedItems`
  items, which TLC finds to be first in first out with two of each.

## 6. What the models leave out

* Memory order and compiler reordering: steps are sequentially consistent. The
  inline assembly of `atomic_ptr.hpp` has no memory clobber.
* Contents of items, messages and statements, except their identity and number.
* CDBPool: a pool is not deleted while a thread is inside. Nothing does that.
* NtyCo: sleeping, connect, sendto and recvfrom, and exhausted memory.
* LinkedQueue: the tables of blocks, and the wrap of versions.
* Reactor: parsing and encoding; the table's bound; what a file holds; a file
  that changes between the header and the loop that sends it.
* Containers: the wrap of the 32-bit clock; exhausted memory and the growth of
  arrays; functions nothing calls (`min_heap_adjust_`, `ngx_rbtree_next`).
* DeadlockDetector: the search is one step, though it reads the graph without a
  lock; more than 100 threads or mutexes.
* TimeWheel: the member `cancel`, which `del_timer` sets, which decides whether a
  callback is called and which malloc leaves with an arbitrary value; a timer
  without delay, called back at once; `clear_timer`.

## 7. Plan

Models, in this order: the C thread pool of 3.1.1 with its unlocked list; the
memory pool of 3.1.2 with uninitialised members as choices; the asynchronous DNS
client of 3.1.3; NtyCo's sleeping tree.

Theorems: the rules of the containers, once their operators are written as
functions in place of recursive operators; and first in first out for the linked
queue with several consumers and few items.
