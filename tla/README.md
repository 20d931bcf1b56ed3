# libSTF in TLA+

libSTF is a library for data-processing hardware on Coyote FPGAs: SystemVerilog modules
(`hardware/src/hdl`) and the C++ software that drives them (`software/libstf`). This directory holds
TLA+ specifications of its concurrent parts, TLC configurations that check them on small instances,
and TLAPS proofs. `PROJECT.json` is the index: which definition stands for which lines, which run checks
what, which mutation of the model breaks which property, and at which line each hazard bites.

    tlc -workers 2 -config MCStreamWriter.cfg StreamWriter.tla
    tlapm StreamWriterProofs.tla

## 1. The system

| Part | State it keeps | Operations | Must hold | Module |
|---|---|---|---|---|
| StreamWriter (`memory/stream_writer.sv`) | data and length FIFO, output state machine, current buffer, pending notifications, completion counter | cut the stream into transfers, take a buffer, request, transfer, end an empty stream, complete, notify, flush | notified buffers are complete and in order, requests stay in their buffer, every stream ends in a notification | StreamWriter |
| OutputWriter, StreamWriterArbiter, MetaIntfArbiter, CQDemultiplexer (`memory`, `util`) | input buffers and turn of each arbiter, order FIFOs, demultiplexer registers | arbitrate requests and interrupts, forward data and completions in request order | data meets its request, completions their writer, nobody starves | OutputWriter, MetaIntfArbiter |
| ReplayBuffer (`replay_buffer/`) with StreamReader (`memory/stream_reader.sv`) | ring position, free bytes, tail, extents, segments, reads and releases; outstanding transfers | configure, grant, issue, link, first read, replay, release; split a read into transfers, receive | streams are replayed exactly, no byte of the ring is lost, no deadlock | ReplayBuffer |
| Configs (`config/`) with FIFOs and skid buffers (`util/`), `configuration.cpp` | AXI-Lite handshake, register stages, command FIFOs, levels and pulses; what software read at the start | discover, read, write, enqueue a command, flush pulse | no command is lost within the limits the software reads, each read gets its register | ConfigPath, ConfigHardware, MehdiFIFO, ReadyValid |
| OutputBufferManager (`output_buffer_manager.cpp`) | per stream: queues of enqueued buffers and handles | acquire (managed, by size), interrupt, top-up, flush, destroy | software and FPGA agree on the buffers, output reaches its handle, no buffer leaks | OutputBufferManager |
| OutputHandle (`output_handle.cpp`) | per stream: queue of buffers, finished streams, condition variable, callback thread | get next, has more, push, mark done, callback, destroy | no lost wakeup, each buffer once, a nullptr is final | OutputHandle |
| Memory pools, buffers, TLBManager (`memory_pool.cpp`, `buffer.cpp`, `tlb_manager.cpp`, `util.cpp`) | jemalloc arena over huge pages, thread caches, bump pointer, statistics, mapped pages | allocate, reallocate, free, shrink, map, post transfers, destroy | data is intact, no overlap, the FPGA reaches its buffers, counters agree | HostMemory, HugePageMemoryPool, SimpleMemoryPool, PoolState |
| Crossbar, Reorder, Creditor, Dictionary, DataNormalizer, stream helpers, AXI routing, NullBeatSuppressor | serial numbers, credits, masks, partial beats | route, reorder, compact, merge, split | every element once, in order | none, see 7 |
| Hashing, bitmask, profiling, logging, utilities, tests, examples | none, or counters | pure functions, wording | - | none, see 7 |

How they interact. The software first discovers the design through `GlobalConfig`, then enqueues
buffers by register writes (`MemConfig`), which reach the StreamWriter of a port through a FIFO. The
design sends a stream to the writer; it is written into the buffers by requests to the Coyote shell,
whose completions come back on one channel for all streams. When a buffer is full or the stream ends,
an interrupt tells the OutputBufferManager the port, the bytes and whether it was the last. It shrinks
the oldest enqueued buffer, moves it to the oldest handle, refills the stream's buffers from the memory
pool, maps them, and marks the handle's stream done. Application threads block in the handle; callbacks
run in threads of their own, and whoever drops a buffer last returns it to the pool. Nothing names a
buffer or a stream on the way: everything is matched by the order of queues on both sides. The ReplayBuffer uses one
StreamWriter and one StreamReader on card memory, with a link for written transfers and one for released bytes.

What is hard: queues that must stay in step across the PCIe bus with no identifiers; notifications
checked for space long before they are sent; completions that are counted, not matched; empty
streams, which have a length and a notification but no data; exceptions half way through an acquire;
locks held while waiting for callbacks; sharing one channel between writers that may block each other;
ring arithmetic with skipped bytes; a reader that follows a writer through the same memory; FIFOs on
the config path that nobody pushes back on; a pool whose hook, caches and statistics are
updated by several threads in separate steps.

## 2. The modules

**StreamWriter** has one action per handshake or step of the state machine: `Accept` (the input logic
and both FIFOs), `TakeBuffer`, `Request`, `TransferBeat`, `EndEmptyStream`, the flush actions,
`HostComplete`, `Notify`. The blocks of the circuit meet only at FIFOs and ready/valid handshakes, so
interleaving these actions covers every clocked behaviour with any FIFO latency. Shell, design and
software are actions too. `hist` counts requests and completions for the properties only.

**OutputContract** is what the software relies on: buffers are used in the order they were enqueued and none is lost. A buffer
leaves the queue in two ways only: at the front, with the notification that hands it over (`NotifyBuffer`; `NotifyEmpty` if empty
streams are configured to use one up), or in a flush, which drops those that nothing was written to (`Drop`) and ends when none is left.
`StreamWriter!ImplementsContract` maps the pending notifications, the current buffer and the mem_config FIFO to one queue;
`filled` counts the pending notifications that give a buffer up.

**OutputBufferManager** has `enqueued_buffers_mutex` as the variable `cs` (who is inside, and how far),
so that acquires, interrupts and callbacks interleave where the lock is free and block where it is
not. `Restart` destroys the manager with buffers still on the FPGA, and with it the handles that only its queues referred to.
The pool is a set of buffers that may be empty; allocation then throws (`AllocationFails`). The guard unlocks, what was enqueued stays
enqueued, the handle of the failed acquire included, and the manager stays usable: the application may catch the exception and acquire
again. Only in the interrupt thread and in a callback, where nobody catches it, the exception ends the process. Two history
variables say whom this harms: `spoilt` has the streams where a failed acquire left its handle, `misled` those streams of each handle that
were spoilt when it was acquired. Constants choose managed streams, chunk sizes and what callbacks do.

**OutputHandle** zooms into the blocking calls: `Enter`, `Sleep`, `Return`, and the interrupt thread's
`push_buffer` and `mark_done`, which notify. **HandleContract** is the same interface without mutex and
condition variable: a call waits until what it asks for is there.

**OutputWriter** composes the ports. A writer is reduced to request, beats, completion count and
notification; **MetaIntfArbiter** has the arbiter's registers as operators and is used three times
(writers of a stream, streams, notifications). The model's requests and completions carry their port
and transfer, which the circuit's do not; guards never look at them, except where the source reads a
destination or its own record of the order.

**ReplayBuffer** composes the ring buffer's writer and reader with the StreamReader. Register stages that only delay (the two stages of
`next_fits`, the three of the unreserved bytes, the extent FIFO's output) are single steps; as
`free_bytes` only grows while a transfer waits to be granted, a late `next_fits` is only a later
`Grant`. Memory is an array of beats; `Grant` fills the granted transfer with junk, because the writer may
write any time from then on, and `Link` makes the written data appear. `IssueRead`, `RequestTransfer` and
`Receive` are the StreamReader: the first of its transfers can return while later ones are still to be
requested, the data of one transfer arrives in one step, and the read is released with its last one. The
cycle-counting deadlock detector is not modelled: `AllStreamsRead` says there is none to detect.

**HostMemory** puts the host's memory together. **PoolState** holds the memory, the blocks in use, the
statistics and what callers do with a result; **HugePageMemoryPool** has a jemalloc that may place a block anywhere in its arena where it fits, and adds
the extent hook with its bump pointer and alignment, **SimpleMemoryPool** is malloc with tracking. A call of
the pool is several steps (`enter`, `tcache`, `create`, `jemalloc`, `count`), so that threads interleave
between the lookup of a thread cache, the allocation and the statistics. Objects are what callers hold: input memory of the application, which
it resizes, posts to the FPGA in pieces and frees, and output buffers, which the manager enqueues,
shrinks (or fails to) and hands out, and which may outlive it. `PagesOf` gives the pages that the recursion of `ensure_tlb_mapping` visits.
A reallocate of a zero-size block is an allocate, which overwrites the caller's pointer also when it fails: the object then has
`NullPointer`, and its owner may free or resize it. What jemalloc does with nullptr is undefined; where it returns, it did nothing
(`JemallocOfNull`), and `null_frees` counts how often the statistics were taken down for nothing.
**PoolContract** is a pool without any of it. Each owner has at most one block; blocks lie inside memory and do not overlap. A block appears,
changes or disappears only in a call of its owner (`Ask`), once in each call, and is then of the size asked for; a call that fails (`Fail`)
leaves it as it is, and `Free` never fails. `HostMemory!ImplementsPool` maps each object to the block at its pointer, and to the size its call asks for until
the call has done it. The contract is about blocks, not about the caller's pointer, which a failed call may overwrite.

**ConfigPath** is clocked, because its FIFOs hide an element for a cycle and cannot push back: `Clock` moves **ConfigHardware** (address
splitters, response order, command FIFOs, pulses, levels) by one edge, built from **MehdiFIFO** (pointers,
`almost_empty`, registered output) and **ReadyValid** (skid buffer, shift register). Software calls happen
between edges: the constructor's reads, then writes from several threads, a ring's two registers as two writes that others may come between.
**FifoContract** is a bounded queue that may show its front late.

What these models abstract. Addresses are offsets into one region, counters are integers
(where the code's would wrap, a type invariant or `CountersExact` says when), the pool's three
atomic counters are updated in one step. Memory holds the owner of each byte, not a value; the transfers of one post are queued in one step, with
`last` set as every caller sets it. On the config path, write acknowledgements and zero strobes are left
out and `rready` is always high, as in the driver; a response to an address no config answers is any value. The two halves of
a split read or write are taken together. The FIFO depth is a constant (4 instead of 256 and 64), and the read stage's
optional skid buffer is not instantiated. Reads of a config are restricted to its first and last register.

## 3. The runs

| Run | Question | States |
|---|---|---|
| `stream_writer` | Are notified buffers complete, framed, in order and inside memory; does the writer implement OutputContract; does every stream end? | 1.2 M |
| `flush_midstream` | *violated*: a flush during a transfer forgets requests under way | |
| `output_buffers` | Three streams, callbacks that acquire: do manager and FPGA agree, does each handle get its output, across failures, drops and a restart? | 1.4 M |
| `failed_acquire` | One buffer for three streams, acquires that fail in the middle and are tried again: does each handle get its output and end, but on streams where a failed acquire left its handle? | 215 k |
| `retry_after_failure` | *violated*: the handle of a retry never ends, as the one left behind takes its output | |
| `unmanaged_chunks` | *violated*: an unmanaged output in several chunks confuses the next handle | |
| `callback_deadlock` | *violated*: a callback that acquires deadlocks with the interrupt handler | |
| `output_handle` | Two callers, two streams: wakeups, exactly-once, finality, refinement, termination | small |
| `output_writer` | Two ports on one stream, one on another, a foreign completion: pairing, routing, fairness, progress | 285 k |
| `replay_buffer` | Up to three streams read once or twice through rings of 3.5 transfers | 760 k |
| `host_memory` | Two threads, both pools: is data intact, mapped and counted; do both pools implement PoolContract? | 758 k |
| `config_path` | Two threads discover, read and write one config of each kind: does every command arrive, every read get its register, and each FIFO implement a queue? | 369 k |

Bounds. StreamWriter has transfers of two beats and buffers of one or two transfers: a transfer can
be full, short or empty, a buffer can end with the stream, by being full, or both. FIFO depths of
two let each FIFO fill up; four beats allow an empty stream between others. OutputBufferManager
needs two handles for one output to reach the wrong one, lengths of nothing and of more than one
buffer, and fewer buffers than all acquires want; `failed_acquire` has one buffer for all streams, so that the second stream of an acquire
fails as long as the first has it, and three handles: one acquired before, the one that failed, and its retry. It checks what the proofs cannot: that
the handles end. Its callbacks only read, as one that acquires may block the manager (`callback_deadlock`). OutputWriter needs three ports for a wait of more than one,
`CQ_ORDER_DEPTH = 2` so that three requests block on it, and transfers of two beats so that data could
interleave. ReplayBuffer uses rings of three transfers and a beat: lengths 0, 3, 9 and 15 bytes with
beats of 2 and transfers of 4 make streams that are empty, unaligned, wrap with and without skipped bytes, and
are larger than the ring (15, read once only). A read of a whole segment is up to four transfers of the StreamReader, of which two are outstanding. Two bases let a reconfiguration move the ring.
A workload is limited to 18 bytes in three streams. HostMemory has eight units of memory in pages of two and
extents of two or four: two objects of up to three units exhaust an arena,
fragment it, cross a page border and need alignment padding; `MAX_REQUESTS = 4` allows an allocation of each and a resize
or failure of both; transfers of two units split the objects. Threads are symmetric. ConfigPath allows six
calls after the discovery, a read counting as three, to at most two registers per behaviour: a FIFO of four can fill up, and calls of two threads
to one register or two can meet in every stage of the path. Each address and value differs from every other of its register.

Streams that are read several times must fit the ring. `FitsRing` makes that precise: the transfers are
reserved whole, so the length counts rounded up to transfers, plus the most that can be skipped.

Fairness. A circuit never stops, so every action of it is weakly fair. The shell takes requests and
data and completes them, and the host takes interrupts: without that no output ever arrives. The
completion of one stream in OutputWriter is strongly fair because completions of other streams use
the same channel, which the shell serves in the order of the writes. On the software side, threads that can run
do run (weak fairness of mark_done, Return, the interrupt handler and callbacks); entering a call,
acquiring, dropping a handle and restarting are never forced. A StreamWriter in the flush state
ends it if the software stops enqueuing: it takes a buffer every cycle. HostMemory and ConfigPath state safety only.

## 4. What the violated runs show

* `unmanaged_chunks`: `acquire_output_handle(stream, size)` enqueues the handle once per chunk
  (`output_buffer_manager.cpp:184`) and an interrupt pops it once per stream (`:249-252`). Output of more
  than one chunk leaves the handle in the queue, and the next handle never gets its output.
* `callback_deadlock`: `mark_done` joins the handle's callback thread under `enqueued_buffers_mutex`; a
  callback that acquires waits for the same mutex. The same happens when the interrupt thread pops the last reference to a handle that the application
  dropped, as the destructor joins the callback (`output_handle.cpp:39-55`), so one stream is enough.
* `flush_midstream`: the flush takes the state machine away from a transfer without accounting for
  the requests of its buffer, so the next notification is sent too early. `flush_buffers` is public; the application of
  `examples/01_output_buffer_manager` calls it before its first acquire (`main.cpp:120-121`), to drop what an earlier process left, which is harmless
  as no output is under way then (`FLUSH_MIDSTREAM = FALSE` in the other run, `FlushBuffers` in OutputBufferManager).
* `retry_after_failure`: an acquire that throws for its second stream has already enqueued its handle on the first
  (`output_buffer_manager.cpp:136-138`; the same between chunks, `:174-184`). The application catches the exception and acquires again; the output of the
  first stream goes to the handle that nobody got, and the new handle waits for ever. `failed_acquire` shows how far the harm
  goes: it is confined to those streams, and to handles acquired there afterwards, until the manager is destroyed.

Other observations, met while modelling. Three are about the pool; the models contain them, and `CountersExact` says where they end its promise:

* `reallocate` of a `ZeroSizePointer` is `allocate` (`memory_pool.cpp:252-255`), which writes nullptr to `*ptr` before it
  looks at it (`:234`), against "Updated on success" (`memory_pool.hpp:50`). The owner of the zero-size block frees it later as nullptr of size 0, which is not
  taken for a zero-size block: `num_allocs_` goes down, even below zero, and jemalloc gets a nullptr. `null_frees` counts these in the model.
* `free` decrements `num_allocs_` (`memory_pool.cpp:293`), which `memory_pool.hpp:91` documents as the "total number of allocation
  and reallocation requests". The comment at `memory_pool.cpp:242` shows that the code means what is in use, and so `CountersExact` reads it.
* A partly filled output buffer is shrunk (`output_buffer_manager.cpp:227`), which takes the difference off
  `bytes_allocated`, and later freed with its old capacity (`buffer.cpp:9`, `output_handle.cpp:51`), which takes it off again. The counter ends below
  what is in use, against `memory_pool.hpp:76`; `CountersExact` therefore speaks of the bytes only as long as nothing was shrunk.

The others are covered by no model: `make_buffer` leaves its pointer uninitialized when the pool is
exhausted; `get_tcache_id` uses its iterator after the read
lock was released; `acquire_output_handle(stream, size)` never checks how many buffers the FPGA can hold; a StreamConfig has no
register for the depth of its FIFO, so commands beyond it are dropped silently (`CommandsArrive` says exactly that:
some subset arrives, in order); GlobalConfig can merge two write acknowledges; port 0 of the write splitter takes
any address below its bound; `vaddr + size` of a ring can wrap around in 64 bits (`configuration.cpp:154`);
`add_callback` replaces the callback without a lock.

## 5. The proofs

All theorems hold for every value of the constants under the ASSUMEs of their modules.

* **StreamWriterProofs**. `TypeCorrect`: the type invariant is inductive together with `LengthHeld` (a
  transfer's length stays in the FIFO until the transfer ends). `RequestsStayInBuffer`: needs two more
  facts, `LengthsFit` (what was cut fits a transfer; only full transfers are followed by
  more of the same stream) and `BufferFits` (in REQUEST a whole transfer still fits). The arithmetic is that buffers are multiples
  of TRANSFER, hence of BEAT (`Multiple`, `TransferInBeats`).
  `NotificationsFit`: space that was there at the request is still there
  at the end of the transfer, as only the state machine itself adds entries. `NotifiedAfterCompletion`:
  the counter `num_completions` does not name requests, so the invariant `CompletionInv`
  partitions all requests ever made: attributed to sent notifications, belonging to pending ones
  (`UptoFollows`), and of the open buffer (`Open`); completions arrive in that order, so a count of
  at least the head's number means that the head's own requests completed.
  The theorems of the second part of the module assume `~FLUSH_MIDSTREAM`, as a flush inside a stream tears requests apart
  (the run FlushMidstream). The beats that were accepted and not yet notified (`undelivered`) are cut three ways, and `Parts` relates
  the cuts: `P` at the pending notifications, `L` at the lengths that wait to become requests, and `X`, `G`, which cut the beats that are
  at Coyote or in the data FIFO into one block for each request and each waiting length. A null beat that ends
  a stream is a piece of its own and takes no place in the FIFO. `RequestsGetTheirBeats` follows from `X`:
  a request has exactly the beats of its length, the last of them marked.
  `NotifiedDataArrived` follows from `P`: memory holds, for each pending notification, what `Stored` says, the beats of
  its piece from offset 0, up to what Coyote has yet to write; when the requests completed (`CompletionInv`), that is all of them.
  `IdsInv` keeps the buffers apart, so that a later buffer is not written over an earlier one. One lemma per action and part
  (`AcceptBlocks`, `RequestRequests`, `NotifyMemory` and so on) shows that the cuts move along.
  `WriterImplementsContract` is the refinement of OutputContract, for every step of the writer and of the software. Its `enqueued` is `Held`, the buffers of the pending notifications that give
  one up, then the current buffer, then the mem_config FIFO; a buffer only moves along between them until it is notified or flushed. What
  the notification owes, a buffer that is full unless the stream ends, is `FillInv`: as long as a stream goes on, only whole transfers are in a buffer (`InTransfers`),
  so one that cannot take another is full. `Held` is a recursive function; the lemmas `HeldOfPush` and `HeldOfPop` say what it does when
  the notifications change, by `NumberInduction`.
* **ReplayBufferProofs**. The invariant of all three theorems is `Inv`, which follows the memory of the ring around it. `RouteInv`: all memory that is in
  use is one route of blocks that begins at `released_end` and takes in turn the reads that are to be released, what the reader keeps to replay, what it
  has not read, the transfers on their way to the link, and the transfer the writer was granted. A `Path` goes over a sequence of blocks; each begins where the
  one before it ended or else at the base of the ring, which it does once at most (`Point`s have a lap). What is free, what is not yet unreserved and the
  length of the route are all of the ring; so nothing leaks (`NoMemoryIsLost`), and nothing is counted twice (`EndsAfterStart`, in `ReplayTypesCorrect`).
  Each step moves a block from one part of the route to the next, cuts a block in two where a read ends inside it, or takes a whole read off the front
  (`RouteIssue`, `RouteFirstRead`, `RouteReplay`, `RouteReceive` and so on, by `PathJoin`, `PathCut` and `JoinAt`).
  `BreakInv`: an extent ends before its stream does only because the next transfer is elsewhere. The extents of one stream
  are a path that turns once, hence two extents (`AtMostTwoSegments`); a stream that is replayed is released as the span of both. `OwnerInv`
  says which read each transfer under way belongs to, for the release to be that of its own read.
* **OutputHandleProofs**. `HandleTypes`, `NoWakeupLost`, `OutputTakenOnce` are inductive as they
  stand, given types. `NoOutputMeansEnd` is an action property from the types. `HandleImplementsContract`
  maps initial states and each step to HandleContract: sleeping and waking are stutters, a return is the answer.
* **OutputWriterProofs**. `NobodyStarves`: the invariant `TurnInv` bounds what a notification has waited plus the distance of
  the arbiter's turn to its port by NUM_PORTS - 1. `LoadApproaches` is the step: whichever port the arbiter selects, the
  turn of every port that still waits comes at least one closer.
  `CompletionsReachWriters`: `Chain(s)` is all that stream s has under way, from the completion at the demultiplexer back to the
  requests that just left the writers. Most steps hand an element from one part of it to the next and leave it as it is. `ChainInv` says that it holds, for
  each port, exactly the transfers from the completed to the fired ones, in order (`Successive`), and that the order FIFO names their writers (`Ordered`).
  A request counts as fired when it has left the arbiter of the writers; `RequestInv` says which that is: a port has
  one request at most in the arbiter or in the data's order FIFO, the last.
  `DataReachesItsRequest` parts the same requests in two (`Parted`): the first ones have all their data sent to the shell, the others are
  named by the data's order FIFO, one by one. Only the oldest of those may have begun (`OnlyHead`), and the beats in the skid buffer are
  the data of the first part less what the shell took of the oldest request, then what was sent of the first of the others (`Follows`, in `Paced`). A beat that is sent, a last beat
  that moves a request from one part to the other, and a beat that the shell takes keep this (`PacedEnter`, `PacedSend`, `PacedTake`).
  `WriterTypesCorrect` adds the depths of the FIFOs (`DepthInv`), which every push guards by the room it finds. The ports of the streams (`PortFacts`) are found by
  `SetInduction` (module **NumberInduction**), as every set of numbers has a least one.
* **OutputBufferManagerProofs**. `NoBufferLeaks` sees all queues as one family of slots: `<<0, s>>` is what stream s has
  enqueued, `<<h, s>>` the output of handle h. `Placed` says that no buffer is in two places of the slots, none in a slot is free,
  and the slots and the free buffers are all of the pool. Three lemmas carry it: `AppendPlaced`, `TailPlaced` and `ClearPlaced`; each action is
  one or two of them. The types it needs (who may be in the critical section with which handle, that only created handles wait,
  and that the interrupt still has its handle when it marks it done) are `ManagerTypeCorrect`. `ManagerAssumption` asks that a
  callback that acquires has a managed stream to acquire, as an acquire of no stream would end without a handle in a queue.
  Two more theorems count the positions of the interrupt queue that hold an interrupt of a stream.
  `ManagerAgreesWithFpga`: by `BuffersAgree`, each stream's queue is its interrupts' used buffers followed by what the FPGA has (`Synced`), every
  buffer has room, so that an empty output never uses one up (`Room`), nothing is under way before the first use (`Unused`), and
  when an interrupt's turn comes a buffer is still in the queue, also for one that used none (`BufferWaits`). `InterruptFindsHandle`: the jobs under way,
  the last interrupts, and the handle that the critical section is still to use or to mark done are never more than the
  handles queued (`HandleWaits`); only the last interrupt of an output pops the handle, so the others rely
  on one that comes later (`EndComes`).
  `HandlesGetTheirOutput` says which data a handle gets, and has one hypothesis, `SingleChunk`: no unmanaged output is larger than a buffer. A larger one is
  enqueued as several handles of one output (`output_buffer_manager.cpp:184`), and then the property is false, as the run `unmanaged_chunks` shows.
  Its invariant is `FlowInv`. A cursor is a handle, a buffer and how much of the handle's output is out. `Pipe` gives each stream the manager's
  cursor, and the interrupts under way lead from it (`Steps`, `Linked`) to the cursor of the FPGA; the buffer of each interrupt holds the
  part of the output that its cursor says (`Filled`), and the FPGA's jobs are the outputs of the handles that are left (`Feeds`, `Ends`).
  The handles that the outputs are meant for and the handles that wait are two sequences (`StreamFlows`). They are the same, up to the handle whose design is still to
  be started (`Expected`), until an acquire fails with its handle enqueued. From then on they drift apart, but the handles acquired before keep their
  places at the front (`InPlace`), and whoever is acquired later is misled (`Warned`). `Rightful` is the one or the other; `Clean` handles are those the property is about.
  At the other end, what a handle has received and still holds are the first parts of its output (`Holds`), how many follows from its place
  in the queue (`Level`), and the caller has taken them in order (`Reached`). `OrderInv` adds that a handle waits once per stream, and not once
  it is done. A step of the pipe is one of `PipeSends`, `PipePops`, `PipeMore`, `PipeWaits` and `PipeStarts`; `PipeKept` is for the streams a step leaves alone.
* **HostMemoryProofs**. `HugePagesAccounted` says that what the hook gives out and what remains add up, padding included: the blocks do
  not overlap and lie below the start of the free memory (`BlocksOK`), and so does the arena (`BumpOK`).
  `PoolImplementsContract`: every step of either pool is a step or a stutter of PoolContract. By the invariant `FullInv` (`Data` and `Calls`
  of the next lines) an object shows its owner the block its pointer and its size say (`View`, `BlocksShown`), beside all others (`ViewsFit`), and what
  is asked for it is what the one call about it asks until it counts (`AskedShown`). A step of a call is then one of the contract's answers, or shows nothing
  (`Answers`, with one lemma per pool, `SimpleAnswers` and `HugeAnswers`), `BeginRefines` is the contract's `Ask`, `PoolGoneRefines` its `Destroy`, and the steps of
  the managers and of the FPGA show nothing.
  `MemoryKeepsData` is not inductive, as it does not say what else lies in a block. The invariant `Data` does: every object that has memory owns a block of the size
  its state says (`Owned`; an output keeps its capacity until it is shrunk), these blocks are `Apart`, and memory that is not zero lies in the block of the object it names (`DataInside`).
  `DataStep` then covers every step that changes one object: it may keep, place, move, fill or release its own block. `Calls` says what a call under way knows
  (`CallsFit`: the size it passes is that of the object's block, no transfer of its object is posted; `OneCall`: no two calls are about
  one object), as another thread runs between its steps. `FpgaReachesItsMemory`: `Reach` adds that posted pieces stay in their object (`PiecesFit`), and
  that a page whose address is known is the page that would be mapped (`PagesKnown`: huge pages have one size, and addresses of the
  simple pool are never used again), so that skipping it is right. `MemoryTypeCorrect` follows from the same invariant.
  `CountersAreExact` adds the invariant `Ledger`: the statistics and what the calls under way owe them agree with the blocks (`Agree`), what a
  call will subtract is the size of the block it is about (`OldFits`, with `DeliveredWhole` for outputs that were not shrunk), and a thread in no call
  owes nothing. A step of a call changes the blocks and settles or passes on what it owes (`CallAccounts`, one lemma per action under it).
  The counters never go below zero because each call that owes something is about a block of its own, which is at least as large (`OwingCalls`, `OwingApart`, `SumUnder`).
  The sums are those of the community modules' `MapThenSumSet`; the lemmas before (`SumExists`, `AnyFirst`, `SumPlus`, `SumChanged`) show, by
  `NumberInduction` on the size of the set, that they exist and that elements can be added, taken and changed in any order. This needs
  the threads to be finitely many, which `HostAssumption` says.
* **ConfigPathProofs**. `FifosImplementContract`: for any number of configs, threads and any depth of at least four,
  each FIFO of the path is a bounded queue. `FifoOK` relates the pointers to the filling level and the flags
  `almost_empty` and `o_valid` to them; one clock edge is a push, a pop, both or neither on `Contents`.
  `ReadsGetTheirRegisters` proves `ReadsAnswered` for every design that `DesignAssumption` allows, with the invariant `ReadsInv`. Its first part (`UnderWayInv`)
  says that the reads not yet answered are, in this order, those whose ports the splitter's FIFO names, each served by its own port
  (`Served`), the one in front of the splitter and the one on the channel. A port serves one read at a time, so a read waits for a
  busy port and the FIFO never holds a port twice. The second part (`Known`) says what the reads of the discovery have returned so
  far: the number of configs, their bounds and their ids. The address space is proved apart from that: `AddressRead` shows, by
  induction over `Bound` and `FlattenSeq`, that the port of an address answers with the register at that address of the whole
  space. `DesignAssumption` asks that a design has one config of a kind, which the constructor of `GlobalConfig` asserts, that it
  has the kinds the application uses, and that the registers of a config fit into its address space.

Only model-checked: all liveness (fairness and ENABLED are out of the prover's reach), `OutputIsReplayed`, which follows the
bytes of every read through the ring and is stated with a fold, and `CommandsArrive` of the configuration path.
Where a proof needs induction over a sequence, it uses sets of numbers (`SetInduction`), since the provers cannot instantiate the
library's induction theorems.

## 6. How the parts fit

StreamWriter implements OutputContract: every behaviour of the circuit is one the contract allows, which TLC and TLAPS check. OutputBufferManager has
an FPGA of its own, which follows the contract action by action; this correspondence is by reading, and no tool checks it. `FpgaOutput` is `NotifyBuffer`, `FpgaEmptyOutput` is `NotifyEmpty`,
`EnqueueBuffer` is `Enqueue`, and `FlushBuffers` is a whole flush, `Flush`, its `Drop`s and `FlushEnd`; `Fill` is a part of `FpgaOutput`, as the two differ only
for a flush in between, which the manager's application does before its first acquire. Input is in the `jobs`, which count transfers instead of beats. OutputHandle implements
HandleContract, whose calls OutputBufferManager uses as single steps. HostMemory implements PoolContract; the pool of OutputBufferManager is a set of buffers,
which is what the contract leaves when sizes do not matter: an allocation takes one that nobody has, or fails, and only its owner gives it back. This too is by reading. ConfigPath shows that the commands enqueued by software arrive in order
within the limit, which StreamWriter and ReplayBuffer assume of their FIFOs of buffers and of numbers of reads;
OutputWriter shows what each StreamWriter assumes of the shell when it shares a stream.

## 7. Not modelled

* Crossbar, Reorder and Creditor, and Dictionary, which is built from them: a data path of duplicators,
  multiplexers and skid buffers with per-element serial numbers. It has no part in the memory and buffer protocols
  above, and its question (is every element routed once, are serial numbers unique within the
  credits) needs models of their own.
* DataNormalizer, stream helpers, AXI routing and adapters, hashing, casts: data movement and pure functions in a pipeline,
  which a simulation against a reference function tests well. The null beat suppressor is used by its result in StreamWriter.
* Profiling, SortedSeqToBitmask, logging, formatting: counters and wording no other part reads.
* Unit tests and examples: read for the behaviour they expect.
* In modelled parts: resets (initial states only), clock-cycle timing outside ConfigPath, error responses of AXI-Lite,
  adding a callback after the design was started (no code of the repository adds one), the
  28-bit size of a notification, since buffers are limited to less when they are enqueued by size, and jemalloc's own algorithm.
