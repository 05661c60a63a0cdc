# TLA+ verification of p-base

p-base (`src/`) is a C++11 base library: a timer service, lock-free object
pools, queues and stacks, an asynchronous logger, reference-counted buffers, an
arena, and thin wrappers over sockets, addresses, time and strings. This
directory holds TLA+ modules translated from its source, TLC configurations that
check them on small instances, and TLAPS proofs for every value of the
constants. `PROJECT.json` maps every definition to the lines it models and lists
runs, mutants, hazards, findings and theorems.

## 1. Inventory

| Component | State it keeps | Operations | What is hard | What makes it correct |
|---|---|---|---|---|
| `TimerControl` (timer.cpp) | timer objects (id, version, run time), buckets, `min_timestamp_`, the futex word `signal_pending_`, `stop_`, the thread's list and heap | add_timer, cancel_timer, stop_and_join, destructor, `Run` | lost wake-ups, cancel against run, object reuse, stop against sleep | a timer is in one place; an id runs at most once, not early, not after a cancel; the thread never sleeps past a timer |
| `LockFreeStack` (object_pool.h) | `head_` as (version, id), `next` in each node | push, pop | ABA: a popper holds an old head and an old next | it is a stack; a node is in one place |
| `ObjectPool`, `ArenaObjectPool` (object_pool.h) | a thread-local group, two global stacks | acquire, release, thread exit | groups travel between threads; a group on the full stack must not be empty | an object has one owner; popped groups are not empty |
| `ObjectArena` (object_arena.h) | groups of blocks, `block_size`, `group_size_` | add_block, add_group, find | fetch_add past the end of a group, the group limit | ids are unique and find inverts them |
| `LinkedQueue` (queue.h) | `head_`, `tail_`, `next` in each node, a dummy node | push_back, pop_front | a pusher between its exchange and its link; when a popped node may be freed | FIFO; a popped node is never touched again |
| `LinkedStack` (stack.h) | `head_` under a mutex | push, pop | nothing | it is a stack |
| `LogSinkThread` (logger.cpp) | current buffer, list of references, free list, two mutexes, `finished_` | append_buf, stop, work, flush, sync_with_front, new_buffer | the two locks protect overlapping state; the buffer is reused while it is queued | every line reaches the output once, in order |
| `LogStream`, `Log` (logger.h, logger.cpp) | a thread-local line buffer, global settings | `<<`, Sink, setters | the capacity tests; settings changed while a line is built | a line never leaves its buffer |
| `LogDate` (log.cpp) | the cached date text | get_log_date_str | incremental update of the text | the text is the date |
| `ZBuffer` (zbuffer.cpp) | block references, inline or in a ring; reference counts; a thread-local block cache | append, append ref, popn, copy_front, read_from_fd, dump_refs_to, map | growth of a wrapped ring, shared blocks, cache limits | it is a byte queue; every reference is counted once |
| `Arena` (arena.cpp) | current block, list of blocks | Allocate, AllocateAligned | alignment, block boundary | allocations do not overlap |
| `LinkedList` (linked_list.h) | intrusive links | InsertBefore, RemoveFromList, Append | insertion of a linked node | the links form one circle |
| `Socket`, `FdGuard` (socket.cpp) | a file descriptor | Listen, Connect, Accept, Shutdown | error paths in the middle | a descriptor is closed once |
| `FixedBuffer`, `Buffer`, `EndPoint`, `Rand`, `utils`, `time`, `status`, `slice`, ... | little or none | sequential helpers | boundaries | – |

How they interact: `TimerControl` takes its `Timer` objects from an
`ArenaObjectPool`, which keeps groups of ids on two `LockFreeStack`s, whose nodes
live in an `ObjectArena`. `LogMessage` builds a line in the thread's `LogStream`
and hands it to the one `LogSinkThread`. `ZBuffer` takes its blocks from a
thread-local cache. Callbacks of timers run on the timer thread and may call
`TimerControl` again. The rest is used by plain calls.

The hazards found in the survey, each at its line with the properties that would
catch it, are in `PROJECT.json`.

## 2. Plan

1. **Timer** – *done*: `Timer`, `TimerInv`, `TimerProofs`, `MCTimer`.
2. **LockFreeStack** – *done*: `AbstractStack`, `LockFreeStack`, checked by
   `MCUtilities`; its proofs stand at the beginning of `UtilityProofs`.
3. **Object pools and their arena** – *done*: `ObjectGroups`, `ObjectPool`,
   `ArenaObjectPool`, `MCObjectPools`, `ObjectPoolsProofs`; `ObjectArena`,
   `ObjectArenaProofs`, `MCObjectArena`.
4. **LinkedQueue** – *done*: `LinkedQueue`, `LinkedQueueProofs`, `MCLinkedQueue`.
5. **LogSinkThread** – *done*: `LogSinkThread`, `LogSinkThreadProofs`,
   `MCLogSinkThread`.
6. **ZBuffer and its block cache** – *done*: `BlockCache`, `ZBuffer`,
   `ZBufferLemmas`, `ZBufferProofs`, `MCZBuffer`.
7. **LogStream and the log settings**, **LogDate**, **Socket**, **Arena**,
   **LinkedList** – *done*: a module each, checked by `MCUtilities` too, with their
   proofs in `UtilityProofs`.
8. **Proofs** – *done* for every safety property of the parts above except `BytesKept`
   of `ZBuffer`, which stays with TLC as the liveness properties do (section 5).

Composition: the pool's module uses the stack through the abstract stack that
`LockFreeStack` implements, and `Timer` uses the pool through its contract (a
released object may be handed out again, to anyone, with the id it was released
with). `ZBuffer` is built on `BlockCache`: its calls change the blocks and the
caches through the operators of that module. A `LogStream` meets the sink thread
only in append_buf, with a line that is complete, so the two are modelled apart:
`lines` of the one is what the threads of the other append.

## 3. Modules

In every module an action is one access to an atomic or to an unprotected shared
field, or one critical section; the state between two of them is visible to the
other threads. Memory is sequentially consistent (see 7). Definitions that stand
directly before a mapped one and have its parameters (`KeptMin` before `ResetMin`,
`HeadIdIs` before `HeadIs`, ...) are the plausible mistakes with which
`PROJECT.json` shows that the properties can fail.

### Timer, TimerInv, TimerProofs

| Code | Model |
|---|---|
| `Timer::timer_id`, `version`, `run_time`; `TimerFactory` | `timer_id` (its upper half), `version`, `run_time`; `free` |
| `TimerBucket::head_`, `min_timestamp_` | `head` (a set: the order is lost in the heap anyway), `bucket_min` |
| `TimerThread::min_timestamp_`, `signal_pending_`, `stop_`, `thread_` | `min_timestamp`, `signal_pending`, `stop`, `thread` |
| locals of `Run` | `tpc`, `bi`, `tm_list`, `tm_heap`, `tmp`, `sig`, `sleep_point`, `abs_time`, `expiry` |
| add_timer | `AddAcquire`, `AddVersion`, `AddBucket`, `AddLoad`, `AddCasOk`, `AddCasFail`, `WakeInc`, `WakeFutex` |
| cancel_timer | `CancelCheck`, `CancelCas`, `CancelLoad`, `CancelReturn` |
| stop_and_join, destructor | `StopStore`, `WakeInc`, `WakeFutex`, `Join`, `Destroy` |
| `Run`, run_and_delete, try_delete | `RunCheck` ... `RunExit`, in the order of the code |
| futex, gettimeofday | `RunWait`, `Awaken`, `RunTimeout`, `RunInterrupted`, `Tick` (external) |

`fate` is history: what became of every id. Callbacks make calls as the caller
`TimerTid` while `Run` is at "func". The pool is used through its contract.
`signal_pending_` starts with any value of `Garbage`, since nothing initialises it.

### AbstractStack, LockFreeStack

`head` and `next` hold words (id, version); `held` are the words that callers
hold. `PushStart`/`PushLoad`/`PushLink`/`PushCas`/`PushRetry` and
`PopStart`/`PopLoad`/`PopNext`/`PopCas`/`PopRetry` follow push and pop access by
access. Several stacks share the nodes, as the two of a pool do. `stk`, `ver` and
`got` are history. `AbstractStack` is what a caller may rely on; the refinement
mapping takes `stk` for the stack and everything that is held or being pushed for
the outside.

### ObjectGroups, ObjectPool, ArenaObjectPool, ObjectPoolsProofs

`ObjectGroups` is the part of `LocalObjectGroup` that both pools share: the
thread's group (`object_group_ptr`), its `items`, the two global stacks (atomic,
as item 2 of the plan proves), `new_free_object_group` with the groups it has not
pushed yet (`fresh`), and the destructor at the end of a thread. A thread-local
group is touched by its thread only, so what a call does between two accesses to
a global stack is one step. `ObjectPool` adds the acquire that makes one object,
`ArenaObjectPool` the one that takes a block of ids. The `size` of a new group is
not initialised; it is written before it is read, and the model has it empty.
`MCObjectPools` has both pools and chooses one at the start of a behaviour
(`PoolSpec`); the run checks it and `ObjectPoolsProofs` proves about it, so that a
step that the two share is checked and proved once.

### ObjectArena, ObjectArenaProofs

`group_size`, `block_size` and `block_list` are the fields; `NewBlock`,
`LoadGroup`, `TakeSlot`, `StoreBlock`, `GiveSlotBack` are add_block, `AddGroup` is
add_group under its mutex, including the `assert(0)` of an exhausted arena
(`failed`). Ids are computed as in the code, with `BASE` and `BITS` in place of 10
and 32 and `NG` derived from them by the code's formula; `Find` is the inverse.

### LinkedQueue, LinkedQueueProofs

`head`, `tail`, `next` and the locals of push_back (`loc`) and pop_front (`p`,
`nx`); `order` and `popped` are history. pop_front answers the node that it moves
away from, so the first answer is the dummy and the last node stays behind.

### LogSinkThread, LogSinkThreadProofs

`cur_buffer` stands for `cur_buffer_`, `ptr_` and `end_`, which change together,
`cur_ptr` for `cur_ptr_`: a buffer and an offset, since the two can come apart. A
byte of a buffer (`mem`) is the number of the line it belongs to, and so is a byte
of the output.

| Code | Model |
|---|---|
| append_buf: the lock; lines 102-105; 107-110; memcpy; the load of `cur_ptr_ += length` and its store | `AppendLock`; `AppendFirst`; `AppendRoom`; `AppendCopy`; `Reload` and `AppendStore` |
| work: the loop, wait_for, sync_with_front, flush | `Loop`, `WaitFor`, `SyncWithFront`, `FlushPop` and `FlushIo` |
| work: the line that the sink logs itself, the last new_buffer, the last flush | `AppendLock` ... of `sink`; `LastRead`, `LastRewind`, `LastTake`, `LastReset`; `FlushPop` and `FlushIo` again |
| stop, the destructor | `StopStore`, `StopJoin` |

The last new_buffer holds `mutex_backend_` only, while append_buf is under
`mutex_front_`, so each of its accesses to `cur_ptr_` is a step, and append_buf, which
names `cur_ptr_` three times, may read it again in between or use what it has read
(`loc[t].ptr`, `Reload`): the build may do either. So the store of line 113 may put back
a pointer that new_buffer has just replaced (finding 12). From there the code compares
pointers into two buffers, and its test for room may let memcpy run past an end or
new_buffer queue a length that is no length: the model stops where that has undefined
behaviour (`wild`), and the properties say that this is only after the last new_buffer
has begun. A write of g_output_func is one step; a copy into the bytes that it is
writing comes before or after it. That lines fit into a buffer is assumed.

History: `logged` are the bytes appended before the last new_buffer looks for them, in
order; a reference says which bytes of the output it stands for (`at`); `spoiled` are
those that a later line overwrote before they were written. `BytesKept` compares the
output, the references and the current buffer with `logged` byte for byte.

### BlockCache, ZBuffer, ZBufferLemmas, ZBufferProofs

| Code | Model |
|---|---|
| `Block`: `ref_num`, `offset`, `capacity`, its bytes | `heap.block`; a byte is the number under which it was written, `Ring` where a ring of references lies |
| `ThreadLocalBlockCache`: the list at `head_`, `block_number_` | `heap.cache`, `heap.number` |
| the union of `first_`, `second_` with `refs_num`, `refs_array`, `first_ref` | `zb`: `first`, `second`, `array`, `slots`, `begin`, `num`, `nbytes` |
| append(buf, count) | `AppendBuf`, then `SkipFullHead` and `AppendChunk` in a loop |
| read_from_fd | `ReadFromFd`, `SkipFullHead`, `LinkBlock` for each block that is missing, `ReadInto` (readv answers any number of bytes up to the count and the room of the iovecs), then `PutRef` |
| popn; append(ZBuffer&&); append(const ZBuffer&); the destructor; dump_refs_to | `Popn`; `MoveAppend`; `CopyAppend`; `Destroy`; `DumpRefsTo`, each followed by `PutRef` or `DropRef` for every reference |
| acquire_block_ref, return_block_ref and append_ref by a caller | `TakeRef`, `GiveRef` |
| size, copy_front, map | `Size`, `CopyFront`, `Map`, which `BytesKept` compares |
| the end of a thread | `ThreadExit`, `ExitStep` |

Only the reference count of a block is shared by threads, so a call is one step
for each reference that it stores or gives back; `todo` is what it has still to do.
A buffer is used by one call at a time, as the class requires. `bytes` is the
abstract queue: what every buffer should hold. `deque` is the caller's deque that
dump_refs_to fills and another thread empties. A step that would have more than
`MaxBlocks` blocks in use, or a ring of a size not in `RingSizes`, is not taken; these
are the only bounds apart from those of the `Programs`. Counts are any natural numbers
(`Counts`): the 32 bits of the `left` in append and of the `nr` in read_from_fd are left
out. So are uses that the class does not provide for: a buffer is not appended to
itself, where array_append_ref would read the reference (zbuffer.cpp:304) from the old
ring after array_resize gave that back; a thread has one reference from
acquire_block_ref at a time, uses a part of it that is not empty, and does not end
before it has given it back. Two defects end a behaviour (`broken`) because the
program is undefined from there, and one leaves a block without an owner (`lost`);
section 6 describes them.

### LogStream, LogDate, SocketFd, Arena, LinkedList, UtilityProofs

Used by one thread at a time; what is hard about them is the order of calls.

* `LogStream`: `BeginStatement` is `LogMessage::log_stream`, `EndStatement` its
  destructor with Sink; between them `AppendText`, `Appendf`, `AppendInteger`,
  `AppendPointer` and `DoNoflush`. `open` is the stack of statements: an operand
  that logs nests. Text is a sequence of parts with lengths; what counts is how much
  of the buffer is written to, by whom and where the line ends. The settings change
  at any time, as other threads set them.
* `LogDate`: the constructor and update_date; the clock answers any time, forwards
  or backwards. The units are scaled down, with the ratios that matter: a number of
  minutes, taken for microseconds, is a time of the first day.
* `SocketFd`: reset, release and the destructors of `SocketFd` and `fd_guard`,
  Connect, Listen, Accept, Shutdown with every failure of a system call; the
  kernel (external) gives out the lowest free number.
* `Arena`: Allocate, AllocateAligned and the destructor; a place is a block and an
  offset.
* `LinkedList`: the links of nodes and roots, and `order`, the lists they should
  form. As the class demands, only nodes that are in no list are inserted.

`MCUtilities` runs them and the lock-free stack in one specification, one part per
behaviour; each also has its own (`StackSpec`, `StreamSpec`, `DateSpec`, `FdSpec`,
`ArenaSpec`, `ListSpec`), which the theorems are about.

## 4. Runs

| Run | Bounds | Shows |
|---|---|---|
| `timer_reuse` | 2 clients and callbacks, 1 timer used twice, all calls | `OnePlace`, `ReleasedIsSettled`, `CancelVerdict`, `FateForward`: stale ids never reach the next use of the object |
| `timer_wake` | 2 clients, 2 timers, 2 buckets, asserts on | `WakeInv`, `NoOversleep`, `AssertsHold` |
| `timer_live` | a client and callbacks, 2 timers, add and stop, fairness | `EveryTimerSettles`, `CallsReturn`, `LateStopReturns` |
| `timer_run_assert`, `timer_stop` | 2 clients, 1 timer | the findings of section 6 |
| `object_pools` | 2 threads, groups of 2, 4 groups, 5 objects, either pool | `InOnePlace`, `GroupSizes`, `PoolEconomy` |
| `object_arena` | 3 threads, 2 groups of 2 blocks of 2, 5 calls | `FindInverts`, `SlotsApart`, `NoWaste`, `CallsReturn` |
| `linked_queue` | 3 pushers, 4 nodes, 5 pushes | `Fifo`, `Untouched`, `QueueInv`, `Delivered` |
| `log_sink` | 2 threads, 3 lines and the sink's own, buffers of 2 bytes | `BufferInOnePlace`, `FullIsIntact`; `BytesKept` and `StopFlushes` byte for byte; `LinesComeOut`, `SinkStops` |
| `log_sink_lost` | 1 thread, 2 lines | finding 3 of section 6 |
| `zbuffer` | 2 threads, 2 buffers, blocks of 4 bytes, at most 3 of them, 2 iovecs, 5 programs | `RefsCounted`, `BytesKept`, `CachesApart`, and `ExitEmptiesCache` under fairness |
| `utilities` | see below | `StackInv`, `Atomic`; `OperandsKept`, `LinesWhole`, `OneByteOver`; `DateTold`; `OneOwner`; `MemoryApart`; `BothWays` |

Why the bounds are enough to be interesting. Two uses of one timer object are what
a stale id needs; two adders and the timer thread are what a lost wake-up needs.
ABA on the stack takes one node popped and pushed again below another during one
pop: two nodes, two threads, two versions. In the pools four groups let both
threads allocate groups at once and let every kind of group be on its stack; five
objects are one more than `PoolEconomy` allows. The arena is asked for one block
more than it can hold, so the last group fills and the exhaustion happens; with
`BITS = 4` its last ids use the top bit, as in the code. The queue's nodes are
pushed again after they are popped. Buffers of two bytes are filled exactly, and
overfilled, by lines of one and two.

`zbuffer` runs five programs (`MCZBuffer`), each a set of calls that two threads
make in any order: sharing copies across threads and a thread that ends; growing a
ring after references were taken from it; references that travel through a deque;
blocks filled by read_from_fd and moved; blocks filled by read_from_fd and by the
caller. A read of five bytes creates two blocks and fills both, or stops at the second
iovec. A ring of two references is half a block and one of four a whole one, so rings
share blocks with data, fill one and grow within six bytes; `begin` wraps at
`BeginRange`, a multiple of the size of every ring as 2^32 is; a cache of two blocks
meets its limit, and acquire_block_ref drives `block_number_` past it, since pop_front
does not count down what push_front counts up.

`utilities` chooses one of its six parts at the start of a behaviour: two threads on two
stacks, with two nodes that are pushed twice each; three statements with three operands
on a buffer of 8 or 11 bytes, which 5 bytes fill and overfill; 91 microseconds around a
midnight, forwards and backwards; two sockets, a guard and four descriptors, which run
out; five allocations small, aligned, and larger than a quarter of a block; three nodes
on two lists.

Deadlock is not checked where the system may stop: after stop_and_join and the
destructor (`Timer`), when the arena is exhausted or its calls are used up, after stop
(`LogSinkThread`), and in the bounded programs of `zbuffer` and `utilities`, which end.
It is checked for the pools and the queue.

Fairness. `Timer`: every call that has begun and the timer thread take their steps
(the scheduler runs every thread), time passes, and a futex wait ends when it is woken
or timed out; nothing makes anyone call. Callbacks make only calls that end: one that
cancels for ever would keep the timer thread for ever. `ObjectArena`: threads in
add_block run. `LinkedQueue`: pushers finish their calls, the consumer calls pop_front
again and again (as lq.cpp does), and its `compare_exchange_weak` does not fail
spuriously for ever. `LogSinkThread`: threads in append_buf and the sink thread run,
and the sink thread, waiting for `mutex_front_` that others take again and again, gets
it at some time. `ZBuffer`: a thread that ends runs its destructors.

## 5. Proofs

All theorems hold for any number of threads, nodes, timers, buckets, stacks, groups,
buffers and objects; they use only the named assumptions of the constants, listed at
the end of this section. In each module a property `P` that a run checks is stated
as `Spec => []P` or `Spec => P`, and follows from an inductive invariant, which has
a theorem of its own (`...Invariant`) and one lemma for every action.

* `TimerProofs`. `WakeInv` (module `TimerInv`) is inductive: types; the locals that
  are dereferenced are set; no timer is in two places (`Apart`) and none is nowhere
  (`Somewhere`); a bucket's minimum bounds its timers (`RunTimes`); the minimum of a
  bucket emptied in this round is announced in `min_timestamp_` or is about to be
  (`Announced`); after `Run` has read the futex word, whoever lowers `min_timestamp_`
  has changed the word or is about to (`Watched`). The last two are why the order
  "reset `min_timestamp_`, empty the buckets, read the word, read `min_timestamp_`,
  sleep" is right, and give `NoOversleep`; the first ones give `OnePlace`. Theorems
  `WakeInvariant`, `TypeCorrect`, `NeverOversleeps`, `TimerInOnePlace`. `FateInv`
  (module `TimerInv`), inductive together with `WakeInv`, says at every step which use
  of a timer object its version stands for: later ids of an object are unused and
  earlier ones settled (`IdsInOrder`); once add_timer has stored it, the version is 0,
  1 or 2 above the current id as that is pending (or given up at the end), running or
  settled (`IdsCurrent`); what `Run` and the callers have compared or read is of the
  id they mean (`RunKnows`, `CallersKnow`). Since ids are three apart (`VersionGap`),
  a compare_exchange with an old id cannot succeed on a later use of the object:
  `CancelTellsTruth`, `ReleasedSettled`, `AssertsNeverFail`, and the action property
  `FatesGoForward`; the invariant itself is `FateInvariant`. Most steps touch none of
  this; they are `Quiet`, and one lemma deals with them all.
* `UtilityProofs`, first part: `LockFreeStack`. `StackInv`: every stack is linked in
  the order of `stk` (`Linked`), a node is in one place (`Apart`), the next push of a
  node has a version never seen (`Versioned`), and a pop whose word is still on a
  stack holds the right next (`Ready`); so a compare_exchange that succeeds is an
  atomic pop. Theorems `StackInvariant`, `NodeInOnePlace` and the refinement
  `StackIsAtomic`.
* `LinkedQueueProofs`. `QueueInv`: from `First` to `Last` every node points to the
  next one, or the one pusher that will link it exists (`Linked`); what the consumer
  has read stays true, as it is alone (`Current`). Theorems `QueueInvariant`,
  `QueueIsFifo`, `PoppedIsUntouched`.

* `ObjectArenaProofs`. `ArenaInv`: the slots below the counter of a group are filled
  or about to be by one thread (`SlotsTaken`); the counter is the number of filled
  slots and of threads in the middle of a call, and past the end by the number of
  those that are about to give a slot back (`Counted`); a thread that has given up a
  group found it full (`ThreadsKnow`). `Counted` is needed because fetch_add goes past
  the end: without it a fetch_sub could make a taken slot free. Theorems
  `ArenaInvariant`, `SlotsGivenOnce`, `GroupsFilled`, and `FindInvertsIds`, which is
  arithmetic: an id is put together from group, slot and offset by shifts, and find
  takes them apart, with the version in the upper half or not.
* `ObjectPoolsProofs`. `PoolInv`: every group that was carved is in exactly one of four
  places (a thread's, carried by a thread that makes groups, either global stack) and
  only once there, and every object in one of three (`GroupsPlaced`, `ObjectsPlaced`);
  groups that nobody put an object into are empty (`GroupsEmpty`), groups on the full
  stack are not and those on the free stack are (`GroupsSized`). The sizes need the
  places: a group could otherwise be emptied by its thread while it is on a stack.
  Theorems `PoolInvariant`, `NothingLostOrTwice`, `PoppedGroupsSized`. For
  `NoMoreThanNeeded`, `Lean` counts the objects that are under way; when a thread is
  about to make one, every other thread's group has at most `K` and the full stack is
  empty, and that bounds what there is.
* `LogSinkThreadProofs`. `BufferInv`: who holds the mutexes (`Locked`), what
  append_buf knows of the current buffer (`Current`), where every buffer is
  (`BuffersPlaced`), and that the bytes of a buffer are referred to before the
  reference that frees it (`RefsTidy`); `Budget` says that the model has buffers
  enough. It gives `BuffersInOnePlace` and the action property `FullStaysIntact`.
  `BytesInv` is about the bytes. The references follow one another in the output
  (`Queue`), so a byte has one place in it. Only one of them, `synced`, can be to bytes
  of a buffer that a thread may write to (`Overwritable`): sync_with_front comes when
  everything before is flushed, or new_buffer has taken another buffer since, and one
  that is free or new is not referred to. Lines are numbered in order and memcpy writes
  the newest (`Numbered`), so what an overwritten byte has become belongs to a later
  line; all others are as appended (`OutKept`, `RefsKept`, `FrontKept`). None of this
  assumes anything of `cur_ptr` once the last new_buffer has begun. Theorems
  `BytesInvariant`, `BytesAreKept`, `StopHasFlushed`.
* `ZBufferProofs`, with the lemmas on single calls in `ZBufferLemmas`. `Inv`, in two
  parts. As long as no ring was broken, `Good`: `ref_num` of every block is the number
  of references to it outside the caches (`Outside`: in buffers, in rings, in the
  hands of calls and of callers, in the deque), plus one if a cache has it, plus one
  if acquire_block lost it, and the block exists exactly while that is more than 0
  (`HeapOK`); a ring has its references in the slots from `begin` on and none
  elsewhere (`BufferOK`); of what calls have still to do, a reference to be copied is
  still in the buffer that it is copied from, and no two calls work on one buffer
  (`Quiet`); a reference from acquire_block_ref is the only one to its block that may
  be filled, and the block is in no cache (`HeldOK`). In any case `InOrder`: the
  counts fit some number of references. The parts need each other: without `Quiet` a
  block that CopyAppend is about to count could be gone, without `HeldOK` the caller's
  bytes could end up behind the end of a block, without the count a block could be put
  into a second cache. acquire_block is where the obvious argument fails (finding 7):
  giving back the last reference to a full head links the block a second time, and
  only the assignment to `head_` right after it keeps the list without repetition; the
  count stays right because the lost block is counted. `array_resize` may break a ring
  (finding 5) and `PutIntoUnset` stores into a slot that is not in use (finding 6):
  from there only `InOrder` is left, which is enough for `CachesApart`. A list of
  references matters only through how often every block is in it (`Times`, `Places`),
  so that append_ref, popn, growing a ring and the moves are balances of numbers
  (`OthersAre`, `RingApart`, `RingTogether`), and the `%` of the ring is dealt with
  once (`IndexIs`). Theorems `ZBufferInvariant`, `RefsStayCounted`, `CachesStayApart`.
* `UtilityProofs`, the other parts. `SocketFd`: `FdInv`, the types and `OneOwner`
  number by number; every step moves one owner (`OwnerMoves`), whichever system call
  fails. `LogDate`: `DateInv`, that text, `time_day_` and `time_min_` agree with each
  other even where they are wrong (finding 4), so that patching the text is right on
  the day it is for. `LinkedList`: `ListInv`, no node at two places (`LinkedOnce`) and
  every link that of a neighbour (`Ring`). `Arena`: `ArenaInv`, what was handed out in
  the current block lies below `alloc_ptr_`, which makes the next piece disjoint.
  `LogStream`: `StreamInv`, the three properties together with what the text is that
  is no line yet: it fits into the buffer (`Sized`), has a head only in front, belongs
  to a torn statement if it has none, and has filled the buffer once a part of it was
  cut (`TextWhole`); the numbers and pointers that are written whole, and the tail,
  pass their capacity tests before. Theorems `DescriptorHasOneOwner`, `DateIsTold`,
  `ListsGoBothWays`, `AllocationsApart`, `OperandsAreKept`, `LinesAreWhole`,
  `NeverTwoBytesOver`, and an invariant for each part.

Sums. Where an invariant or a step speaks of a sum or a join over a list (`Queued`,
`BlocksTake`, `TextLen`, `Items`, `SumTo`, `Selected`) it is a recursive function, and
what appending or removing does to it is proved by the least number at which two
partial results would differ (`NatLessThanWellFounded`, `WFMin`), since the prover
cannot use the induction theorems.

Assumptions. The sets of threads and buffers are finite where something counts them
(`ThreadsAssumption` of `ObjectGroups`, `ObjectArena` and `BlockCache`,
`BuffersAssumption` of `ZBuffer`); bounds, counts and sizes are natural numbers, blocks
and groups have room for something, and readv takes an iovec (`SizesAssumption`,
`CallsAssumption`, `ArenaAssumption`, `LengthsAssumption`, `LinesAssumption`,
`BoundsAssumption`);
nobody, no node and no timer are not among the threads, nodes and timers; a root of a
`LinkedList` is no node. `SizesAssumption` of `Arena` has no request of 0 bytes and no
alignment of 0, as its asserts demand; `UnitsAssumption` and `TimesAssumption` of
`LogDate` say that a minute is more than a microsecond, an hour and a day not empty,
and that the clock is past the first day of 1970; `LineAssumption` of `LogStream` that
a head fits into the smallest buffer (under 100 bytes against 1024 in
set_max_length_per_log) and a tail into the room that Sink tests for.
`SizesAssumption` of `BlockCache` has a block of a whole number of aligned pieces
(8192 - 24 bytes, by 8), and `RingAssumption` of `ZBuffer` says that a ring has at
least two slots, that it is as long as a whole number of such pieces (16 bytes a slot
and 32), and that its size divides `BeginRange`: powers of two against the 2^32 of
`begin`. `WidthAssumption` of `ObjectArena` states the power of two that links `BITS`,
`NG` and the group size: it follows from the definition of `NG`, and is an assumption,
which TLC evaluates, because the prover has no exponentiation.

Only model-checked: all liveness (`EveryTimerSettles`, the `CallsReturn` of `Timer` and
of `ObjectArena`, `LateStopReturns`, `Delivered`, `LinesComeOut`, `SinkStops`,
`ExitEmptiesCache`), which needs `ENABLED`; and `BytesKept` of `ZBuffer`. It compares
the contents of every buffer, read through its references, with a history of bytes;
the contents are the join of one piece per reference (`FlattenSeq` of the community
modules, a recursive operator over a sequence of sequences), cut and joined anew by
popn, copies, merges and growing rings, which takes induction over the data on top of
`Good`. What such a proof would start from is proved: a block that is referred to keeps
the bytes in front of its offset (`Keeps`, with every step on the blocks).

## 6. Findings

Three are runs of their own, in which TLC finds what a line of the code says violated:

1. `timer_run_assert`: the assert at timer.cpp:50 fails when a cancel comes between
   try_delete and run_and_delete, because the failed compare_exchange (line 39) has
   overwritten the version that it tests.
2. `timer_stop`: a stop_and_join between the test of `stop_` (timer.cpp:127) and the
   read of `signal_pending_` (line 163) is slept through; `timer_live` shows that a
   later one is not.
3. `log_sink_lost`: sync_with_front (logger.cpp:171) sets `cur_ptr_` back, so the threads
   write over the bytes that it has just queued: lines are lost and others come twice.
   Nothing else is (`BytesKept`), in particular no byte of a full buffer (`FullIsIntact`).

The others were met while modelling. The models do what the code does, and the
properties are stated so that they hold around the defect:

4. After the first midnight that a thread sees, update_date (log.cpp:30) formats the
   number of minutes as if it were microseconds: the text says 1970, and as `time_day_`
   is 0 from then on, every call does so again. `DateTold` says that the text is right
   on the day it is for.

5. A ring of references that grows while `begin` is not 0 to both masks
   (zbuffer.cpp:269) is copied slot by slot and read with the new mask: the buffer has
   other references than before (`Scrambled`).
6. The last reference of an empty ring is slot -1 (zbuffer.cpp:278 and 295, each below
   the assert on `ref_num` that is commented out). If that slot was never stored to,
   its content decides whether the new bytes are merged into it (`PutIntoUnset`).
7. acquire_block (zbuffer.cpp:103) gives back its reference to a full head before it
   unlinks the block. Where the cache held the last one, release_block links the block
   again, and the next line drops it for good (`lost`).
8. The line buffer of a log statement can be exceeded by one byte: the newline of Sink
   or the NUL of vsnprintf (logger.cpp:230). `OneByteOver` says it is never more.
9. A log statement in an operand of another one ends the line of the outer one, whose
   rest comes without a head and with the level and the source of the inner one. A line
   that is joined after noflush has the level of its last statement: an error continued
   by an information is not sent to the error output.
10. In a time zone other than UTC the first date text of a thread has the local hour
    (localtime_r, log.cpp:78) and later ones that of UTC (log.cpp:63).
11. SocketFd::Listen forgets the descriptor that the object had, and Shutdown forgets
    it without closing it: both leak (`leaked`). set_close_on_exec leaves the flag unset
    because F_GETFD answers 0 on a new socket and 0 is taken for failure.
12. append_buf and the last new_buffer change `cur_ptr_` under different mutexes
    (logger.cpp:113 and 178, 195). A store that was loaded before new_buffer replaced
    the pointer puts it back into the buffer that is being flushed and freed, behind
    which `end_` is no longer: later lines go there, are refused room or, depending on
    where the two buffers lie, are copied past its end (`wild`). As long as that does not
    happen, what was logged before stop was called comes out as in finding 3
    (`StopFlushes`).
13. cancel_timer answers -1 for a running timer where timer.h:38 promises a positive
    number; the reason is that of 1 (timer.cpp:258, 263).

## 7. What is not modelled

* Memory orders weaker than sequential consistency: several accesses are
  `memory_order_relaxed` or plain. The models explore interleavings of the
  accesses in program order.
* The wrap-around of 32-bit versions and of counters; rings of references of more
  than 64 KB, whose size is cut to the 16 bits of `capacity`; lines longer than a
  buffer of `LogSinkThread`; allocation failure.
* `FixedBuffer` and `Buffer`: sequential appends into one array, with the capacity
  tests that `LogStream` has. `LinkedStack`: two critical sections under one mutex.
  `EndPoint`, `Rand`, `utils`: conversions and arithmetic without state that calls
  could get wrong together.
* In `Socket`, the options, Read, Write and GetSocketErr, which change no owner; in
  the log settings, the exchange of the output functions.
* `time`, `string_printf`, `slice`, `status`, `port`, macros, `this_thread`, `process`:
  thin wrappers and declarations. `autovector.h` and `lru_cache.h` come from RocksDB
  and nothing in the library uses them; the older loggers are compiled by no build.
