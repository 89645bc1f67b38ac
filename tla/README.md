# lua-attic: a verification of its stateful parts

lua-attic is a store of Lua modules that never made it into, or were dropped
from, the author's other libraries: first drafts, things for later, bindings,
and a large amount of third-party code kept with its sources (RE2, libgit2,
bzip2, PortAudio, ...). There is no program that ties them together. The code
with logic of its own is a set of small libraries; this project models them one
by one, the ones with concurrency and with state that is hard to keep right
first. Among the C sources in the store, liblfds' lock-free containers and the
multithreaded parts of the LZMA encoder are of that kind.

## Inventory

| part | source (`src/`) | state | operations | who calls whom |
|---|---|---|---|---|
| **socketloop** | `todo-later/socketloop_and_http/socketloop.lua` | tables `read`, `write` (socket -> coroutine), flag `stop` | `connect`, `newserver`, `newthread`, `dispatch`, `start`, `stop`; `accept`, `receive`, `send`, `close` on sockets | user coroutines yield into it; it resumes them after luasocket's `select()` |
| **ringbuffer2** | `first-takes/ringbuffer2.lua` | `(start, length, size)`, the data | `segments`, `free_segments`, `offset`, `push`, `pull`; `checksize`, autogrow | pure algorithm, used by two data structures |
| **liblfds freelist** | `todo-later/csrc/liblfds/src/lfds611_freelist` | `top`, `next` of each element (pointer and counter), `aba_counter` | `new`, `pop`, `guaranteed_pop`, `push` | any number of threads, no locks; queue and ring buffer take elements from it |
| **liblfds queue** | `.../lfds611_queue` | `enqueue`, `dequeue`, `next` of each element, a freelist | `new`, `enqueue`, `guaranteed_enqueue`, `dequeue` | any number of threads; over the freelist |
| **liblfds ringbuffer** | `.../lfds611_ringbuffer` | a queue and a freelist | `new`, `get_read_element`, `put_read_element`, `get_write_element`, `put_write_element` | readers and writers; over both |
| **MtCoder** | `todo-later/lzma/MtCoder.c`, `Threads.c` | per thread: two tokens (events), two flags, a buffer; the first error | `MtCoder_Construct`, `MtCoder_Code`, `MtCoder_Destruct` | the caller starts a ring of threads, each of which passes the tokens on to the next |
| **LzFindMt** | `todo-later/lzma/LzFindMt.c` | two links (`CMtSync`): flags, three events, two semaphores, a critical section, a ring of blocks | `Create`, `Init`, `GetNextBlock_Bt`, `ReleaseStream`, `Destruct` | encoder over bt thread over hash thread |
| socketloop_coro | `todo-later/socketloop_and_http/socketloop_coro.lua` | as socketloop, and `loop.thread` | as socketloop | over `coro.transfer` |
| coro (three drafts) | `first-takes/coro*.lua` | current thread, caller of each | `create`, `transfer`, `resume`, `yield`, `wrap` | over Lua's coroutines |
| sock_libtls | `todo-later/sock_libtls.lua`, `sock_libtls_async.lua` | pending buffer per slot and direction, free list of slots | `connect`, `accept`, `recv`, `send`, `close` | libtls calls back for I/O and is called again |
| readbuffer, http | `todo-later/socketloop_and_http/` | a string buffer; a request's framing | `readline`, `readsize`, `readchunks`, ...; `getpage` | http over readers over sockets |
| codedit_buffer | `first-takes/codedit_buffer.lua` | lines, undo and redo stacks of groups | insert, remove, undo, redo | editor over buffer |
| freelist, hashmap, orders | `todo-later/freelist.lua`, `terra/hashmap.t`, `todo-later/tsort.lua`, `dep_order.lua` | a stack of slots; chained cells; a graph | get/put; get/put/remove/expand; sort | none |
| acme | `todo-later/acme.lua` | a nonce, a retry count per request | get, post, register, order | over http |
| the rest | see PROJECT.json | little or none | parsing, drawing, bindings, third-party code | |

What is hard in the parts that are modelled:

* *socketloop.* Coroutines are cooperative, so nothing runs at the same time,
  but control leaves a function at every socket call and comes back after any
  other code ran. `dispatch()` walks a list that `select()` made before the
  coroutines it wakes register, close and drop sockets of that list. `wake()`
  draws a conclusion about a coroutine from a table that others write. Errors
  travel down the chain of resumers through the loop. The properties: no
  suspended coroutine is lost, none is resumed for something else, none waits
  on a closed socket, no live coroutine's socket is closed, a loaded socket is
  served, `stop()` ends the loop.
* *ringbuffer2.* Arcs that wrap, in both directions, empty and full rings, and
  growth in place in every position of the data. The properties: the arcs are
  the cells they stand for, no element is overwritten, lost or returned twice,
  the buffers are double-ended queues.
* *liblfds.* Pairs of words that are read one word at a time and swapped both at
  once, elements that come back at the same address, a list whose two ends are
  moved by whoever comes first, threads that stop anywhere. The properties: no
  element is lost or given twice, each operation takes effect at one moment,
  whoever keeps running returns.
* *MtCoder.* No lock protects the streams, only the tokens; errors stop the
  ring by giving away tokens that the failing thread may not have. The
  properties: one thread in a stream at a time, blocks in order, the cause
  of a failure is what the caller is told, the call returns with nobody left.
* *LzFindMt.* Three threads with stop requests that travel against the stream
  of blocks, and a window that moves under the pointers of two of them. The
  properties: it moves alone, blocks are whole and in order, each block is
  somewhere through every stop, a restart finds all as at first, calls return.

## The modules

| module | what it is | source |
|---|---|---|
| `SocketLoop` | the loop, the coroutines, the sockets, the peers | `socketloop.lua` |
| `BlockingIO` | abstract: processes that block on sockets, without a loop | `socketloop.md` |
| `MCSocketLoop` | the symmetry for TLC | |
| `SocketLoopProof` | lemmas and theorems about `SocketLoop`, its refinement of `BlockingIO` among them | |
| `RingAlgorithm` | the pure functions of the ring buffer | `ringbuffer2.lua:10-71` |
| `RingBuffer` | the tuple as a state machine, and what the functions have to return | `ringbuffer2.lua:43-71` |
| `RingBufferProof` | lemmas and theorems about `RingAlgorithm`, `RingBuffer` and `CDataBuffer`, its refinement of `Deque` among them | |
| `Deque` | abstract: a sequence with two ends | `ringbuffer2.md` |
| `CDataBuffer` | elements in bulk, growth by reallocation; implements `Deque` | `ringbuffer2.lua:73-142` |
| `ValueBuffer` | values one by one, growth in place; implements `Deque` | `ringbuffer2.lua:144-207` |
| `ValueBufferProof` | lemmas and theorems about `ValueBuffer`, its refinement of `Deque` among them | |
| `Freelist` | the lock-free stack, one step per shared word | `lfds611_freelist_*.c`, `lfds611_abstraction_dcas.c` |
| `AtomicStack` | abstract: a stack with calls, returns and one moment between | |
| `FreelistProof` | lemmas and theorems about `Freelist`, its refinement of `AtomicStack` among them | |
| `LfQueue` | the lock-free queue, one step per shared word, over an atomic freelist | `lfds611_queue_*.c` |
| `LooseQueue` | abstract: a queue with calls, returns and one moment between, in which values may hang behind an enqueue in progress | |
| `LfQueueProof` | lemmas and theorems about `LfQueue`, its refinement of `LooseQueue` among them | |
| `LfRingbuffer` | the ring buffer over a `LooseQueue` and an atomic freelist | `lfds611_ringbuffer_*.c` |
| `LossyQueue` | abstract: a queue that may lose its oldest value to a writer, and in which a value may follow one still being put | |
| `LfRingbufferProof` | lemmas and theorems about `LfRingbuffer`, and its refinement of `LossyQueue` | |
| `MtCoder` | caller and threads, and what they do when something fails | `MtCoder.c`, `Threads.c` |
| `OrderedPipe` | abstract: blocks in, the same blocks out | |
| `MtCoderProof` | lemmas and theorems about `MtCoder`, its refinement of `OrderedPipe` among them | |
| `LzFindMt` | hash thread, bt thread, encoder | `LzFindMt.c`, `Threads.c` |
| `LzFindMtProof` | lemmas and theorems about `LzFindMt` | |

### SocketLoop: how state and actions correspond to the code

The code is single-threaded, so a step is the code between two points where
control can change hands: `coroutine.resume`, `coroutine.yield`, the end or
the error of a coroutine, a luasocket call that may block.

* `rwt` is the pair of tables `read` and `write`; `stop` is the upvalue
  `stop`. The other variables are Lua's and the kernel's state: `status` and
  `chain` (who is active, resumed by whom), `call` (the `wait()` a coroutine
  is in, or the socket function it is back in), `err` (an error travels down
  the chain), `skt`, `ready`. `pc`, `todo` and `waking` are the program
  counter and the locals of `start()`, `dispatch()` and `wake()`. `owner` is
  the variable of the program that holds a socket; `asked` is history.
* `Wait` is `wait()` up to the yield. What `wait()` does when it is resumed
  (`rwt[skt] = nil`) is the first thing that runs after the resume, so it is
  part of `Resume`, which is `wake()` up to `coroutine.resume`. `AfterWake`
  is the rest of `wake()`: the test and the `close()`. Between the two the
  coroutine runs, and whatever it resumes.
* `ReceiveOrSend`, `ReturnFromCall`, `Close`, `ConnectNow`, `ConnectWait`,
  `ConnectReturn`, `NewThread`, `NewServer`, `ServerAccept`, `AcceptReturn`,
  `Stop` and `Start` are the functions of the API and of the wrapped sockets,
  split at their `wait()`. A connection that `accept()` returned is marked
  `"blocking"`, because the code sets `settimeout(0)` only in `connect()` and
  `newserver()`.
* `Select`, `NothingToWaitFor`, `Wake`, `EndDispatch` are `dispatch()` and the
  loop of `start()`.
* `Finish`, `Raise`, `Propagate`, `Catch`, `MainRaise` are the ends of a
  coroutine, and `assert_resume()`, which raises a coroutine's error again in
  the one that resumed it. A failed `assert()` in `accept()`, `connect()`,
  `newserver()` or `close()` is a `Raise` of the coroutine that called it. An
  error that reaches the main program leaves `start()` and drops what is left
  of `select()`'s answer.
* `Arrive` is the peer and the kernel, external code modelled from how the
  loop uses it.

Three constants say how the program uses the loop. `Shared` (socketloop.md:
"if each socket is used from its own coroutine"), `MaxOwned` (how many sockets
a coroutine holds at a time) and `Stalls` (may a peer stop in the middle of a
message).

### The ring buffer

The Lua functions return tuples and these operators records of the same
numbers. `cdatabuffer` counts from 0, and so do `start` and the array there; its
`buf` is the Lua table `b`, which `checksize()` gives a new array and a new size.
`io` in both buffers is history: the last call and what went in or out. An
assertion that fails in the code is a step with `io.op = "error"`, which
includes the growth that came before the failure.

The elements of a `cdatabuffer` have a width: `ffi.copy()` takes bytes and the
code passes it elements, so `Whole(n)` elements of `n` are copied. With
`ElemSize = 1`, as in the repository's test, they all are.

### liblfds

A step is one access to a word that threads share, in the order of the code,
or `lfds611_abstraction_dcas()`, which swaps two words. `volatile` words are
accessed in program order; the freelist's `next` fields are not volatile, and
their two words are accessed in either order. The memory is sequentially
consistent: the code is written for x86, and its barriers stand around the
swaps. A thread may stop for ever between any two steps.

* `Freelist`: `PopReadCounter` ... `PopRetry` are `lfds611_freelist_pop()`,
  `PushStamp` ... `PushRetry` are `lfds611_freelist_push()`. `compare` and
  `exchange` are the locals of both; `todo` says which words of a `next` field
  are still to be read or written; `held` is what callers have.
* `LfQueue`: `Enqueue`, `GuaranteedEnqueue`, `InitPointer`, `InitCounter`
  prepare an element, `EnqueueReads` ... `EnqueueReturn` are
  `lfds611_queue_internal_queue()`, `Dequeue` ... `DequeueReturn` are
  `lfds611_queue_dequeue()`. `enq`, `deq` and `nxt` are the locals. The dummy's
  counter is what `malloc()` left in `aba_counter`, which is read before it is
  set to 0 (`Garbage`).
* `LfRingbuffer` is a composition: its freelist is the atomic one that
  `Freelist` implements, and its queue is `LooseQueue`, which `LfQueue`
  implements in all its behaviours, misplaced links included. An enqueue either
  appends its element (`Enqueue`) or hangs it, with what hangs behind it, behind
  the element of another enqueue that has not ended (`EnqueueBehind`, the
  `Hang` of `LooseQueue`); `row` is the element a thread enqueues, and those
  that hang there. No dequeue finds these until that enqueue takes effect, and
  none ever does if its thread has stopped. A queue's node is taken before its
  element goes in, and given back after its element came out, in steps of their
  own. `LooseQueue` lets an enqueue hang behind any other in progress, where the
  code needs an element that is just being prepared or the queue's first dummy:
  the ring buffer is checked, and proved, over a queue that may do more than
  liblfds' does.

The mappings put the moment of an operation at its swap, or at the read of a
null pointer; for a `dequeue` that finds nothing, `sawEmpty` remembers that the
queue was empty at some moment of the call.

### MtCoder

`mpc` is where the caller is in `MtCoder_Code()` (`MtCoder_Code`,
`CreateThreads`, `Start`, `WaitSubThread`, `Close` and the ways each fails for
some thread), `pc` where each thread is in `LoopThreadFunc()`, `ThreadFunc()`
and `MtThread_Process()`. An event is `"closed"`, `"unset"` or `"set"`, and
resets itself when a wait takes it, as in `Threads.c`. The streams and the
encoder are the caller's code: an input has `total` blocks, of which the last
is short, and each of reading, coding, reporting progress and writing may fail
(`ReadFails` ... `WriteFails`). `occurred` is history: what failed.

### LzFindMt

Both links are the same `CMtSync`, so that the actions of
`MtSync_GetNextBlock()` (`GetStart` ... `EnterSection`) and
`MtSync_StopWriting()` (`StopNothing` ... `Drained`) have the link as a
parameter, and so has what `HashThreadFunc()` and `BtThreadFunc()` share
(`WaitStart` ... `ReleaseFilled`). `NeedMove` ... `FillHash` are the hash
thread, `BeginFill` ... `EndFill` the bt thread's `BtFillBlock()`, `Create` ...
`WaitExit` the encoder's calls. A block is the stream it is of and its index;
what is in it is left out, and so is when the window has to move: the hash
thread may do it before any block. The encoder is modelled from `LzmaEnc.c`
and from the comment at `LzFindMt.c:514`: it releases the stream before it
destroys the match finder.

## The runs

Every run ends within two minutes on two workers.

| run | bounds | what it shows |
|---|---|---|
| `SocketLoop_own` | 3 coroutines, 1 listener, 2 connections, each socket used by one coroutine, one socket each, peers that may stall | `NoLostThread`, `NoWaitOnClosed`, and that the loop implements `BlockingIO` |
| `SocketLoop_shared` | the same with shared sockets and two per coroutine | `WaitTablesSound` whatever coroutines do to each other's sockets |
| `SocketLoop_live` | 2 coroutines, 1 listener, 2 connections | `Served` and `StopEnds` under `FairSpec` |
| `RingBuffer` | rings of 1 to 7 cells, every state and every length | the arcs, the free arcs, the offsets, what push and pull take and give back |
| `ValueBuffer` | sizes 1 to 3 growing up to 6, 2 values | growth in every position; no value is kept alive after its pull; refines `Deque` |
| `CDataBuffer` | sizes 1 and 3 growing up to 6, batches of 1 and 2 | refines `Deque`; nothing unwritten is ever inside the occupied arc |
| `Freelist` | 2 threads, one of which may stop; 2 elements and a third from `malloc()`; 2 pushes besides the first two | `EveryElementOnce`, `NoStaleNext`, refines `AtomicStack`, `OperationsReturn` |
| `LfQueue` | 2 threads, one of which may stop; 1 element and a second from `malloc()`, besides the dummy; 3 enqueues | `EveryElementOnce`, `EveryValueOnce`, `EnqueueInList`, refines `LooseQueue`, `OperationsReturn` |
| `LfRingbuffer` | 3 threads, two of which may stop; 3 elements; 2 writes each; elements may hang behind any enqueue in progress | `EveryElementOnce`, refines `LossyQueue`, `GetWriteReturns` |
| `MtCoder` | 3 threads, inputs of up to 4 blocks, 2 calls, a failure of a stream, the coder, the progress function, an allocation or a thread at any point | `TypeOK`, `StreamsExclusive`, `ResultIsCause`, `NobodyLeft`, refines `OrderedPipe`, `CodeReturns` |
| `LzFindMt` | 2 blocks per link, 3 blocks and 2 streams | `TypeOK`, `MovesAlone`, `BlocksIntact`, `BlocksCount`, `Quiescent`, `CallReturns` |
| `LfQueue_order` | 2 threads, 3 elements, 4 enqueues | violated: see below |

### Where code and words differ

`LfQueue_order` is there to be violated. `lfds611_queue_internal_queue()` reads
`next` in two accesses, and `lfds611_queue_internal_init_element()` writes it
in two. A thread that stopped between its reads can hold the null pointer of
one life of an element and the counter of the next, and its swap succeeds in
the moment in which another thread, preparing the element once more, has
written the pointer and not the counter. The value hangs behind an element
that is not in the queue; it is not lost, because that element is enqueued in
its turn, but a value that the same thread enqueues meanwhile overtakes it.
`lfds611_queue_queue.c:78-79` says that the check before the swap excludes
this, and `test/src/test_queue.c:93-94` expects the values of a thread in
order. The queue is therefore no atomic one, and `ImplementsQueue` does not
say so: it says that such a value hangs behind another that is being enqueued,
and enters right after it (`LooseQueue`'s `Hang`, in which `misplaced` becomes
true; before it the queue is first in, first out). Like the run `LfQueue`, it
takes `Garbage = {0}`.

The ring buffer inherits this. An element that hangs behind that of a thread
which has stopped for ever is in no place where `get_write_element()` looks for
one, so that with as many elements as threads it can find the freelist and the
queue empty for ever: `GetWriteReturns` is false without its second disjunct,
which names exactly this case. "These operations are lock-free", says
`lfds611_ringbuffer_get_and_put.c:46`.

The Lua modules have disagreements of their own, which their models show when
the constants let them:

* A coroutine that holds two sockets (a proxy; `MaxOwned = 2`) loses the first
  when it waits on the second: `wake()` closes a socket when nobody waits on
  it, "because the coroutine finished" (`socketloop.lua:80-81`).
* `stop` is never reset, and `stop()` outside `start()` sets it too: the next
  `start()` dispatches once (`socketloop.md:30`, "Stop the dispatch loop if
  started").
* Accepted sockets stay blocking, so that a peer that stalls in mid-message
  (`Stalls = TRUE`) stops everybody (`socketloop.md:18`, "different sockets
  won't block each other"). No run with `Served` has such peers.
* `checksize()` on an empty buffer leaves `start = newsize + 1`, and the next
  growth loses values (`GrowsEmpty = TRUE`; `ringbuffer2.md:8-9`, "`start` is
  in the `[1, size]` interval").
* A batch pushed at the head of a `cdatabuffer` across the wrap is stored
  rotated, elsewhere not (`HeadBatch = 2`; `ringbuffer2.md:34`, "add data to
  tail (or head if len < 0)").
* `ffi.copy()` is given elements and counts bytes (`ElemSize > 1`;
  `ringbuffer2.md:12`, "adding/removing elements in bulk").
* `cdatabuffer` passes a signed length to `checksize()`, so that a full
  auto-growing buffer grows for a push at the tail and raises for one at the
  head; the model does the same.

The runs stay clear of these: `MaxOwned = 1` in `own` and `live`,
`Stalls = FALSE` in `live`, `GrowsEmpty = FALSE`, `HeadBatch = 1`,
`ElemSize = 1`.

### Why the bounds are enough

The loop's tables relate one coroutine to one socket, and what can go wrong
takes a victim, whoever disturbs it, and a server or a creator that resumes
the one or the other: three coroutines, a listener and two connections give
every such case, including the one where a coroutine that is woken closes the
socket that is next in `select()`'s answer. Coroutines and connections are
interchangeable, which `Symmetry` uses (not in the run with liveness
properties). `newthread` creates each coroutine once and a socket is used
once: identities are not reused in Lua either.

For the ring, 7 cells leave room for an arc with cells on both sides of the
wrap, a gap on both sides, and lengths beyond both; what goes wrong in
index arithmetic shows on rings of 1, 2 and 3. The buffers grow from sizes at
which each of the two segments is the longer, equal, or empty, and twice in a
row. `MaxSize` ends the exploration: a step that would grow further is not
looked at. That the arithmetic is right for larger rings is proved.

For liblfds, what can go wrong takes a thread that stops in the middle of an
operation and another that goes through whole operations meanwhile, over
elements that come back: two threads, and as many elements as it takes to
remove two, put one back and have a third below. The counters are bounded by
the number of operations; the machine's word wraps after 2^32 or 2^64, and a
thread that sleeps through exactly that many operations is not looked at. In
the ring buffer three threads make the freelist and the queue empty and full
in turn. `MaxElements`, `MaxNodes`, `MaxCounter`, `MaxCalls` (per
thread), `MaxAllCalls` (together) and `MaxPuts` end the exploration.

In `MtCoder` a thread has a neighbour before it, one behind it and, with three
threads, one that is neither; four blocks let every thread have a block and
the first a second; the second call meets what the first left. In `LzFindMt`
two blocks per link are the least with which a producer can be ahead; two
streams give a stop, a restart and a second stop, at any point of each.

### Fairness

In the socket loop, `FairSpec` assumes that the loop, which is sequential code, takes its next step (`WF(Loop)`),
and that a coroutine which runs comes to a socket call or to its end: nothing
preempts a coroutine, so the module is only usable by programs of which this
is true. Nothing is assumed of peers, of `select()`'s order, of `start()` and
of `stop()`. `Served` holds as long as `start()` has not returned. No strong
fairness is needed: `select()` lists every loaded socket and each dispatch
wakes them all.

`OperationsReturn` and `GetWriteReturns` are lock freedom: weak fairness is
assumed only of the threads in `Running` and only inside an operation; all
others may stop anywhere, for ever. They hold because the operations of the
others are bounded; liblfds does not promise that one thread gets ahead of
infinitely many operations of others. `GetWriteReturns` needs as many elements
as there are threads, each of which may have stopped with one, and excepts the
case in which more elements than that are out of reach: those that hang behind
the element of a thread that has stopped in an enqueue.

In `MtCoder` and `LzFindMt` each thread is assumed to be scheduled, and the
caller's streams and encoder to return; whether the caller calls again is its
business. Weak fairness is enough: an event, a semaphore or a token has one thread that
waits for it, and between two moves of the window, the only thing that competes
for a critical section, the hash thread needs a free block.

`CHECK_DEADLOCK FALSE` in the loop's configurations: a program whose
coroutines have ended, with nothing to wait for, has stopped. The coroutines
and sockets of the bounds are also used up at some point. In `MtCoder` and
`LzFindMt` everything has been destroyed in the end, and in `LfRingbuffer` all
writes are done and everything is read.

## What is proved

Each theorem is about the specification with its constants left open: any sets
of coroutines, sockets and threads, any number of elements and blocks, rings
of any size.

* `SocketLoopProof!Invariant`: `Spec => []IInv`. `IInv` holds the type
  invariant, `ChainSound` (the active coroutines are exactly those of the
  chain of resumers, each once), `InItsCall` (a suspended coroutine is in a
  socket call) and `WaitTablesSound`; and, unless sockets are shared,
  `HoldsItsSocket` and `NoLostThread`. None of the interesting parts is
  inductive alone: that `wake()` resumes only suspended coroutines needs that
  an entry is removed in the step that resumes its coroutine and that the
  coroutine that yields is the last of the chain and in it only once; that no
  registration is overwritten needs that the other coroutines' calls are on
  sockets they hold. `EnterChain` and `BackChain` do the first for every
  action that resumes or leaves a coroutine, `WaitStep` and `OwnWait` the
  second for every action that waits; the rest is one step per action.
  From it: `TypeCorrect`, `TablesSound` (`[]WaitTablesSound`, with or without
  sharing) and `NothingLost` (`~Shared => []NoLostThread`).
* `SocketLoopProof!NobodyWaitsOnClosed` and `LoopIsBlockingIO`, of programs in
  which each socket is used from one coroutine and each coroutine uses one
  socket at a time (`~Shared /\ MaxOwned = 1`; the premises are the ones
  socketloop.md asks for, and without the second both are false). `wake()`
  closes the socket for which it woke a coroutine when nobody waits on it
  afterwards. `Held` says why this closes nothing that is still used:
  a coroutine has one socket (`OneEach`), so it waits on that one again or has
  ended; a closed socket that still has an owner was left by a dead coroutine
  (`ClosedIsLeft`); what `select()` found still has its coroutine waiting
  (`FoundStillWaits`). The refinement has one lemma for each kind of action.
* `RingBufferProof!TupleCorrect`: `[]TupleOK`, the head stays in `1..size`
  although only some steps normalise it.
* `RingBufferProof!SweepsEveryArc`: `[]SweepsArc`, `segments()` returns the
  cells of the arc, in order, for every head and every length of at most a
  turn, in both directions. It rests on the uniqueness of the remainder
  (`ModUnique`) and on `NormalizeWalk`: within a turn, a walk is brought back
  by at most one turn.
* `RingBufferProof!Offsets`, `Free` and `Changes`: `[]OffsetsAgree`,
  `[]FreeIsRest` and `SegmentsAreTheChange`. The cells of less than a turn are
  all different and those of a turn are all there are (`ArcInjective`), so
  cutting an arc, joining its parts and normalising its head
  (`ArcParts`, `ArcMoved`, `ArcOfNewHead`) are arithmetic on its two ends. There
  is one lemma for each end of `push()` and `pull()`; an empty and a full
  buffer are cases of their own in `Free`.
* `RingBufferProof!TypeCorrect`, `OccupiedWritten` (`[]OccupiedIsWritten`) and
  `CDataIsDeque` (`Spec => ImplementsDeque`), about `CDataBuffer`: the first for
  elements, batches and buffers of every size; the second for
  elements of one byte (`ElemSize = 1`), batches at both ends included; the third
  if, further, a negative length is -1 (`HeadBatch <= 1`). The premises are
  the two disagreements above: with wider elements `ffi.copy()` leaves
  cells unwritten, and a batch at the head comes out rotated, which keeps every cell
  written but not the order. The inductive invariant is `Sound` (the type) with
  `Filled` (every cell from head to tail was written). Swept backwards, the
  segments are the same cells as the arc, in another order (`SegsBackwards`),
  and that is all that `Filled` needs; swept forwards they are in the arc's order
  (`SegsForwards`). `TailPushed`, `HeadPushed`, `HeadPulled`, `TailPulled` and
  `CheckSizeKeeps` say where each element is after each operation, and
  `RowAppended` ... `RowWithoutLast` what that makes of the sequence.
* `ValueBufferProof!TypeCorrect`, `NothingKept` (`[]FreeSlotsEmpty`) and
  `BufferIsDeque` (`Spec => ImplementsDeque`), for sizes and values of any
  number, fixed or growing, when `checksize()` is not called on an empty buffer
  (`~GrowsEmpty`; see above for what happens otherwise). With the head in
  `1..size` a cell is at most a turn away (`NormalizeNear`), so element `k` is
  in `Cell(b, k)` and no two elements share one (`CellsOfTurn`). A push
  or pull changes one cell, at an end of the arc (`PushTail` ... `PullTail`).
  Growth moves one of the two segments to where the other
  goes on in the larger circle (`SecondAfterFirst`, `FirstToTheEnd`), clears
  what it left, and keeps each element's place in the order
  (`CheckSizeKeeps`).

* `FreelistProof!Invariant`. That the freelist is never corrupted is about
  what its elements are linked to, but following the list from its top is
  induction over data. `IInv` describes the list without following it: an
  element that no thread has is in the list (`Listed`), and what points to an
  element of the list is either `top` or the `next` of exactly one other
  (`Linked`). A swap succeeds for a pair of pointer and counter, so the rest
  is about counters: a push has a counter of its own that nothing in the list
  carries and no other thread has read (`Stamped`, `Unseen`), and therefore a
  pair that is `top` when the swap happens has been linked all the time since
  it was read; as long as it is (`Links`), its `next` is what `pop()` has read
  (`ReadsFresh`), and what `push()` wrote is still there (`Wrote`). From it:
  `NoneStale` (`[]NoStaleNext`: no ABA) and `OneOwnerOnly` (an element is with
  at most one thread, and then not in the list).
* `FreelistProof!ElementsOnce` (`[]EveryElementOnce`) and `FreelistIsStack`
  (`Spec => ImplementsStack`). To them `HasList` is added: there is a sequence
  of the elements of the list, each once, that starts at `top` and follows
  `next` (`InOrder`). A pop takes its head and a push puts an element in front;
  with `IInv` both are a few lines (`PopInOrder`, `PushInOrder`). That the
  recursive function `Chain` of the model is this sequence (`ChainIsList`)
  takes induction: `NatSetInduction` gets it for sets of numbers out of
  `WFMin` (every set of numbers has a least member), which needs no operator
  as a parameter, and `BodyHasSolution` shows that the equation by which
  `Chain` is defined has a solution at all.
* `LfQueueProof`, for any number of threads, elements and calls and for every
  `Garbage`. The invariant `IInv` has to say where each element is although
  the list cannot be followed without induction, and although, after a
  misplaced link, a whole list may hang behind an element that a thread
  prepares. It says that there are `rows`, sequences of elements: the queue's,
  from `dequeue` on, and one for each thread, of the element it holds with what
  hangs behind it (`Shape`: each element once, each linked to the next, the
  rest free). Every step acts on the rows in one of a few ways: a new row of
  one element, a row joined to another (`Links`), the queue's first element
  passed to the thread that dequeued it (`Advance`), a row emptied. A swap of
  two words is right because of the counters: the ones an element carries are
  not ahead of `aba_counter` (`Times`), and what a thread has read of
  `enqueue` and `dequeue` still tells where they are as long as their counters
  are what they were (`Knows`). For the swap of a null pointer it gives less,
  and exactly what is left is the misplaced link: the element is in the
  queue's row, or is half prepared by its thread (`Since`). `Kept` says that
  each accepted value is in one element or has been delivered, and `Emptied`
  which dequeues have been under way while the queue was empty.
  From it: `TypeCorrect` (`[]TypeOK`; no null pointer is followed),
  `EnqueueStaysInList` (`[]EnqueueInList`), `ElementsOnce`
  (`[]EveryElementOnce`), `ValuesOnce` (`[]EveryValueOnce`) and `QueueRefines`
  (`Spec => ImplementsQueue`), misplaced links included. For the last, the rows
  are read as values: the queue's without its first are the contents, and a
  thread's are what its enqueue brings (`Brings`). A link to the queue's row
  appends the thread's (`LinkedContents`), one to another thread's row is a
  `Hang` (`LinkedBrings`, `LinksLoose`), the swap in `dequeue()` removes the
  first value, and no other step changes a row's values.
* `LfRingbufferProof!Invariant`. `Once` is `EveryElementOnce` place by place.
  By itself it is not inductive: `put_write_element()` drops the element when
  the queue has no node left. `NodesCount` says that the free nodes and the
  elements that need one (`NeedNode`: in the queue, about to be, or just
  dequeued while the node is on its way back) are together `NumberElements`,
  so that a writer, whose element is one that needs none yet, finds one; an
  element that hangs keeps its node. From it: `NoneLost`
  (`[]EveryElementOnce`: freelist, queue, one thread, or behind one enqueue in
  progress), and `Refinement` (`Spec => ImplementsLossyQueue`), one step of
  `LossyQueue` or a stutter for each action; `DequeueContents` and
  `ConcatContent` say that taking an element, and adding a row of them, is
  taking and adding their values. Both theorems carry over to the code because
  `QueueRefines` is about every behaviour of the queue below.
* `MtCoderProof!Invariant`. Mutual exclusion by tokens rests on there being
  one token of each kind, but errors give tokens away: `MtThread_Process()`
  sets the next thread's events whether or not it has the token. `ReadToken`
  and `WriteToken` say that a token counts only while its thread has not been
  told to stop, and that behind a thread that told its successor to stop none
  comes any more (`ReadsNoMore`). `Phase` ties the threads' `startEvent` and
  `finishedEvent` to what the caller waits for, `Ready` and `EventsOpen` say
  which events are open and reset, `Causes` that an error is in `p->res` before
  anybody is stopped by it. From it: `TypeCorrect` (with it, no wait on a
  closed event), `Exclusive` (`[]StreamsExclusive`), `Cause`
  (`[]ResultIsCause`) and `Nobody` (`[]NobodyLeft`).
* `MtCoderProof!TakesTurns` and `Refinement`: `Spec => ImplementsPipe`, for any number of
  threads. `Order` says whose turn it is: the live tokens are with thread
  `taken % numThreads` and thread `Len(written) % numThreads`, and each block
  between the two counts is with the thread that read it, or that thread has
  failed and reads none any more (`Pending`). So a thread that reads has no
  block pending, which is the pipe's bound of `numThreads` blocks, and the
  block a thread writes is the next. Without an error no thread ends before
  the last block was read (`GoesOn`), hence `SZ_OK` only when all is written.
* `LzFindMtProof!Invariant`, for any number of blocks. A link's consumer knows
  from `needStart` whether the link is on, and from the events how far its
  producer is; `Links` lists the places where the two threads can be together.
  The bt thread is the consumer of one link and the producer of the other, and
  the hash link is on only while the bt link is. With that, `Sections` says who
  is in which critical section, and `Counts` relates what the semaphores count
  to the blocks the producer has filled and the consumer has used, in every
  phase, also while `MtSync_StopWriting()` drains: only there does one see that
  no release is refused. Hence a producer that has a free block is less than a
  turn ahead of its consumer (`Apart`), and the blocks from the consumer's to
  the last stay what they were filled with (`Intact`). From it: `TypeCorrect`,
  `Alone` (`[]MovesAlone`), `Count` (`[]BlocksCount`), `AtRest`
  (`[]Quiescent`) and `Whole` (`[]BlocksIntact`).

The assumptions are those named in the modules: the names are distinct, a
size is positive, the options are Booleans, an element is not the mark of an
unwritten cell. In the modules about C code they
are, further, what the models take for granted: a step's accesses are
sequentially consistent, `lfds611_abstraction_dcas()` swaps both words at
once, and events and semaphores behave as Windows defines them.

Only model-checked: liveness, which is out of the provers' reach. Every safety
property and every refinement that a passing run checks is proved. That a thread's values may change their order is
an execution the run `LfQueue_order` shows; no theorem is about it.
`TypeOK` of a module whose run does not list it says what the variables are.

## What is not modelled

Of the loop: programs that call `dispatch()` themselves in place of `start()`;
`loop.wrap()` of a socket the program made (it is a socket like the others);
a socket handed over from one coroutine to a new one; sockets closed by the
garbage collector; socket calls made from the main program, which the code
refuses with an error. The data that is sent and received is left out, except
for whether a message is there in part or as a whole.

Of the ring buffer: custom `alloc`, `read` and `write` functions, a length of
0 for the buffers' `push` and `pull` (nothing happens), and pre-filled buffers
that are not laid out as the code would.

Of liblfds: `delete` and `query` of all three, which need to be alone or are
approximate by their own words; the init functions a user may pass; the stack,
which is the freelist's algorithm over a freelist of its own, and the list,
which only grows. `Garbage`, the counter that `malloc()` leaves in the queue's
dummy, is 0 in the runs. Weaker memory than sequential consistency is left out.

Of the LZMA encoder: what is encoded; the match finder's tables, hash
functions, `GetMatches` and the normalisation of positions; where in the
window blocks are; the window's own reads. Of the failures in
`MatchFinderMt_Create()` only that of the second thread is followed. In `MtCoder`, calls
on events that fail are left out: their creation at `MtCoder.c:161-162`, and
the waits and sets of `MtThread_Process()`. Allocation, and the creation and
start of threads, may fail.

Every other part is listed in PROJECT.json with the reason.

## Plan

The first version of this plan began with the socket loop and the ring buffer;
liblfds' containers, `MtCoder` and `LzFindMt` came next, because threads that
share memory are what tests reach least. Left, in this order:

1. `SocketLoopCoro`: `coro.transfer` and the loop over it; the thread a
   coroutine finishes into; the same `BlockingIO` as its specification.
2. `TLSSocket`: `sock_libtls`, its callbacks, slots and the slots' free list;
   abstract specification: a stream that never delivers into another call's
   buffer. Hazards: the second call on a connection between want and recall,
   a slot reused after `close()`, a slot lost on a failed connect.
3. `UndoBuffer`: `codedit_buffer`'s lines, groups and stacks; abstract
   specification: a history of texts with a cursor.
4. `ReadBuffer` and the framing of HTTP bodies over it; abstract
   specification: a stream cut into the same pieces however it arrives.
5. liblfds' stack and list; `freelist.lua`, `hashmap.t` (a refinement of a
   function), topological orders (pure, against a reference), and the nonces
   and retries of `acme`.
