------------------------ MODULE OutputBufferManager ------------------------
(***************************************************************************)
(* OutputBufferManager of software/libstf/output_buffer_manager.cpp with   *)
(* the handles it fills: the application acquires a handle per run of the  *)
(* design, the manager keeps the FPGA supplied with buffers, and every     *)
(* interrupt of the FPGA moves a buffer to the handle whose turn it is.    *)
(*                                                                         *)
(* enqueued_buffers_mutex is the variable cs: who is in the critical       *)
(* section and how far.  The calls on a handle are atomic here, which its  *)
(* own mutex makes them; how its callers wait is the module OutputHandle.  *)
(* The FPGA is the environment and behaves as OutputContract says, buffer  *)
(* by buffer; sizes are counted in transfers.                              *)
(***************************************************************************)
EXTENDS Integers, FiniteSets, SequencesExt

CONSTANTS
  Streams,          \* output streams, as natural numbers
  Managed,          \* MANAGED_STREAMS
  NUM_BUFFERS,      \* NUM_BUFFERS_TO_ENQUEUE
  CAPACITY,         \* BUFFER_CAPACITY
  MAX_CAPACITY,     \* MAXIMUM_OUTPUT_WRITER_BUFFER_SIZE
  BufferIds,        \* memory of the pool: a buffer is a natural number
  MAX_HANDLES,      \* bound: handles the application acquires
  Lengths,          \* possible lengths of one output of a managed stream
  Sizes,            \* sizes the application asks for unmanaged streams
  CALLBACK          \* what the callbacks do: "none", "read" or "acquire"

ASSUME ManagerAssumption ==
  /\ Streams \subseteq Nat /\ IsFiniteSet(Streams)
  /\ Managed \subseteq Streams
  /\ NUM_BUFFERS \in Nat \ {0}
  /\ CAPACITY \in Nat \ {0} /\ MAX_CAPACITY \in Nat \ {0}
  /\ BufferIds \subseteq Nat \ {0} /\ IsFiniteSet(BufferIds)
  /\ MAX_HANDLES \in Nat
  /\ Lengths \subseteq Nat /\ Sizes \subseteq Nat \ {0}
  /\ CALLBACK \in {"none", "read", "acquire"}
  /\ CALLBACK = "acquire" => Managed # {}

Handles == 1 .. MAX_HANDLES

VARIABLES
  enqueued_buffers,  \* per stream, the buffers the FPGA has according to us
  enqueued_handles,  \* per stream, the handles that wait for output
  free,              \* memory of the pool that is not allocated
  cs,                \* the critical section of enqueued_buffers_mutex
  num_handles,       \* handles created so far
  active_streams,    \* per handle
  output_buffers,    \* per handle and stream, output not yet taken
  finished_streams,  \* per handle, the streams marked done
  callback_thread,   \* per handle, its callback: "none", "idle" or "running"
  dropped,           \* handles the application let go of, or never got
  state,             \* of the process, see below
  fpga_buffers,      \* FPGA: buffers enqueued and not yet used up
  jobs,              \* FPGA: outputs each stream still has to produce
  interrupts,        \* notifications on their way to handle_fpga_interrupt
  memory,            \* what the FPGA wrote to each buffer
  consumes,          \* empty_stream_consumes_buffer
  received,          \* history: output the application read, per handle and stream
  produced,          \* history: the whole output of a run, per handle and stream
  spoilt,            \* history: streams whose queue has held a handle nobody got
  misled             \* history: per handle, its streams that were spoilt before

handleVars == <<active_streams, output_buffers, finished_streams, callback_thread, dropped>>
fpgaVars == <<jobs, memory, consumes>>
failVars == <<spoilt, misled>>
histVars == <<received, produced, failVars>>
vars == <<enqueued_buffers, enqueued_handles, free, cs, num_handles, handleVars,
          state, fpga_buffers, interrupts, fpgaVars, histVars>>

\* The application has not flushed what an earlier manager left in the FPGA; the
\* manager is in use; an exception ended the process.
States == {"stale", "running", "terminated"}

Nobody == [who |-> "nobody"]

Lowest(S) == CHOOSE x \in S : \A y \in S : x <= y

\* The output of handle h on stream s, from its i-th to its j-th part.
Output(h, s, i, j) == [k \in 1 .. j - i + 1 |-> <<h, s, i + k - 1>>]

Init ==
  /\ enqueued_buffers = [s \in Streams |-> <<>>]
  /\ enqueued_handles = [s \in Streams |-> <<>>]
  /\ free = BufferIds
  /\ cs = Nobody
  /\ num_handles = 0
  /\ active_streams = [h \in Handles |-> {}]
  /\ output_buffers = [h \in Handles |-> [s \in Streams |-> <<>>]]
  /\ finished_streams = [h \in Handles |-> {}]
  /\ callback_thread = [h \in Handles |-> "none"]
  /\ dropped = {}
  /\ state = "stale"
  /\ fpga_buffers = [s \in Streams |-> <<>>]
  /\ jobs = [s \in Streams |-> <<>>]
  /\ interrupts = <<>>
  /\ memory = [b \in BufferIds |-> <<>>]
  /\ consumes \in BOOLEAN
  /\ received = [h \in Handles |-> [s \in Streams |-> <<>>]]
  /\ produced = [h \in Handles |-> [s \in Streams |-> <<>>]]
  /\ spoilt = {}
  /\ misled = [h \in Handles |-> {}]

----------------------------------------------------------------------------
(* Buffers.                                                                 *)

IdsIn(queues) == UNION {{queues[s][i].id : i \in DOMAIN queues[s]} : s \in Streams}

ForgetsToFree(ids) == UNCHANGED <<free, memory>>

\* What freed memory holds does not matter.
Free(ids) ==
  /\ free' = free \cup ids
  /\ memory' = [b \in BufferIds |-> IF b \in ids THEN <<>> ELSE memory[b]]

\* Allocates a buffer, remembers it and writes it to the FPGA.
EnqueueBuffer(s, capacity) ==
  /\ free # {}
  /\ LET buffer == [id |-> Lowest(free), capacity |-> capacity]
     IN /\ free' = free \ {buffer.id}
        /\ enqueued_buffers' = [enqueued_buffers EXCEPT ![s] = Append(@, buffer)]
        /\ fpga_buffers' = [fpga_buffers EXCEPT ![s] = Append(@, buffer)]

HasBuffers(s) == Len(enqueued_buffers[s]) >= NUM_BUFFERS

\* flush_buffers, which the application calls before the first use: the FPGA drops
\* what is enqueued.
ForgetsToFlush == fpga_buffers
Flushed == [s \in Streams |-> <<>>]

FlushBuffers ==
  /\ state = "stale"
  /\ state' = "running"
  /\ fpga_buffers' = Flushed
  /\ UNCHANGED <<enqueued_buffers, enqueued_handles, free, cs, num_handles,
                 handleVars, interrupts, fpgaVars, histVars>>

----------------------------------------------------------------------------
(* acquire_output_handle for a set of managed streams.                      *)

\* by is the handle whose callback acquires, 0 for the application.
BeginAcquire(mask, by) ==
  /\ state = "running"
  /\ cs = Nobody
  /\ num_handles < MAX_HANDLES
  /\ num_handles' = num_handles + 1
  /\ cs' = [who |-> "acquire", handle |-> num_handles + 1, left |-> mask,
            by |-> by]
  /\ active_streams' = [active_streams EXCEPT ![num_handles + 1] = mask]
  /\ misled' = [misled EXCEPT ![num_handles + 1] = mask \cap spoilt]
  /\ UNCHANGED <<enqueued_buffers, enqueued_handles, free, output_buffers,
                 finished_streams, callback_thread, dropped, state, fpga_buffers,
                 interrupts, fpgaVars, received, produced, spoilt>>

\* The application adds its callback to the handle and starts the design.
StartDesign(h, lengths) ==
  /\ jobs' = [s \in Streams |-> IF s \in active_streams[h]
                THEN Append(jobs[s], [handle |-> h, len |-> lengths[s], done |-> 0])
                ELSE jobs[s]]
  /\ produced' = [produced EXCEPT ![h] = [s \in Streams |->
                    IF s \in active_streams[h] THEN Output(h, s, 1, lengths[s]) ELSE <<>>]]

Calls == IF CALLBACK = "none" THEN "none" ELSE "idle"

\* Handle h is acquired, by the callback of handle by if that is not 0.
AddCallback(h, by) ==
  callback_thread' = [k \in Handles |-> IF k = h THEN Calls
                                        ELSE IF k = by THEN "idle" ELSE callback_thread[k]]

\* One round of the loop over the streams.
AcquireStream ==
  /\ cs.who = "acquire"
  /\ LET s == Lowest(cs.left)
         left == cs.left \ {s}
     IN IF ~HasBuffers(s)
          THEN /\ EnqueueBuffer(s, CAPACITY)
               /\ UNCHANGED <<enqueued_handles, cs, callback_thread, jobs, produced>>
          ELSE /\ enqueued_handles' = [enqueued_handles EXCEPT ![s] = Append(@, cs.handle)]
               /\ UNCHANGED <<enqueued_buffers, free, fpga_buffers>>
               /\ IF left # {}
                    THEN /\ cs' = [cs EXCEPT !.left = left]
                         /\ UNCHANGED <<callback_thread, jobs, produced>>
                    ELSE /\ cs' = Nobody
                         /\ AddCallback(cs.handle, cs.by)
                         /\ \E lengths \in [active_streams[cs.handle] -> Lengths] :
                              StartDesign(cs.handle, lengths)
  /\ UNCHANGED <<num_handles, active_streams, output_buffers, finished_streams, dropped, state,
                 interrupts, memory, consumes, received, failVars>>

----------------------------------------------------------------------------
(* acquire_output_handle for an unmanaged stream and a size.                *)

BeginAcquireSize(s, size) ==
  /\ state = "running"
  /\ cs = Nobody
  /\ num_handles < MAX_HANDLES
  /\ num_handles' = num_handles + 1
  /\ cs' = [who |-> "acquire_size", handle |-> num_handles + 1, stream |-> s,
            size |-> size, remaining |-> size]
  /\ active_streams' = [active_streams EXCEPT ![num_handles + 1] = {s}]
  /\ misled' = [misled EXCEPT ![num_handles + 1] = {s} \cap spoilt]
  /\ UNCHANGED <<enqueued_buffers, enqueued_handles, free, output_buffers,
                 finished_streams, callback_thread, dropped, state, fpga_buffers,
                 interrupts, fpgaVars, received, produced, spoilt>>

\* One chunk; every chunk enqueues the handle again (line 184).
AcquireChunk ==
  /\ cs.who = "acquire_size"
  /\ LET chunk == IF cs.remaining < MAX_CAPACITY THEN cs.remaining ELSE MAX_CAPACITY
     IN /\ EnqueueBuffer(cs.stream, chunk)
        /\ enqueued_handles' = [enqueued_handles EXCEPT ![cs.stream] = Append(@, cs.handle)]
        /\ IF chunk < cs.remaining
             THEN /\ cs' = [cs EXCEPT !.remaining = @ - chunk]
                  /\ UNCHANGED <<callback_thread, jobs, produced>>
             ELSE /\ cs' = Nobody
                  /\ AddCallback(cs.handle, 0)
                  /\ StartDesign(cs.handle, [s \in {cs.stream} |-> cs.size])
  /\ UNCHANGED <<num_handles, active_streams, output_buffers, finished_streams, dropped, state,
                 interrupts, memory, consumes, received, failVars>>

----------------------------------------------------------------------------
(* handle_fpga_interrupt.                                                   *)

\* A plausible slip: an empty stream pushes its buffer too.
AnyInterrupt(bytes) == bytes >= 0
HasOutput(bytes) == bytes > 0

KeepsEmptyBuffer == FALSE
FreesEmptyBuffer == consumes

\* What move_current_buffer_to_handle does with the buffer.

MoveCurrentBuffer(s, bytes) ==
  LET h == Head(enqueued_handles[s])
      buffer == Head(enqueued_buffers[s])
      Pop == enqueued_buffers' = [enqueued_buffers EXCEPT ![s] = Tail(@)]
  IN IF HasOutput(bytes)
       THEN /\ output_buffers' =
                 [output_buffers EXCEPT ![h][s] = Append(@, [id |-> buffer.id, size |-> bytes])]
            /\ Pop
            /\ UNCHANGED <<free, memory>>
       ELSE /\ IF FreesEmptyBuffer
                 THEN Free({buffer.id}) /\ Pop
                 ELSE UNCHANGED <<free, memory, enqueued_buffers>>
            /\ UNCHANGED output_buffers

TreatsAsLast(i) == TRUE
IsLast(i) == i.last

HandleInterrupt ==
  /\ state # "terminated"
  /\ cs = Nobody
  /\ interrupts # <<>>
  /\ LET i == Head(interrupts)
     IN /\ enqueued_handles[i.stream] # <<>>   \* line 210
        /\ enqueued_buffers[i.stream] # <<>>
        /\ MoveCurrentBuffer(i.stream, i.bytes)
        /\ cs' = [who |-> "interrupt", stream |-> i.stream, last |-> IsLast(i), destroy |-> 0]
  /\ interrupts' = Tail(interrupts)
  /\ UNCHANGED <<enqueued_handles, num_handles, active_streams, finished_streams,
                 callback_thread, dropped, state, fpga_buffers, jobs, consumes, histVars>>

\* Does a queue of the manager still refer to the handle?
Waiting(h, queues) == \E s \in Streams : \E i \in DOMAIN queues[s] : queues[s][i] = h

\* mark_done first joins the previous callback of the handle, with
\* enqueued_buffers_mutex held, then tells the callers and starts the callback.
\* Popping the last reference destroys the handle.
KeepsHandle(s) == enqueued_handles
PopHandle(s) == [enqueued_handles EXCEPT ![s] = Tail(@)]

MarkDone ==
  /\ cs.who = "interrupt"
  /\ cs.last
  /\ LET s == cs.stream
         h == Head(enqueued_handles[s])
     IN /\ callback_thread[h] # "running"
        /\ finished_streams' = [finished_streams EXCEPT ![h] = @ \cup {s}]
        /\ callback_thread' = [callback_thread EXCEPT ![h] = IF @ = "none" THEN @ ELSE "running"]
        /\ enqueued_handles' = PopHandle(s)
        /\ cs' = [cs EXCEPT !.last = FALSE,
                 !.destroy = IF h \in dropped /\ ~Waiting(h, enqueued_handles') THEN h ELSE 0]
  /\ UNCHANGED <<enqueued_buffers, free, num_handles, active_streams, output_buffers,
                 dropped, state, fpga_buffers, interrupts, fpgaVars, histVars>>

\* ~OutputHandle: joins the callback and frees what was not taken.
FreeOutput(h) ==
  /\ callback_thread[h] # "running"
  /\ Free(IdsIn(output_buffers[h]))
  /\ output_buffers' = [output_buffers EXCEPT ![h] = [s \in Streams |-> <<>>]]

DestroyHandle ==
  /\ cs.who = "interrupt"
  /\ cs.destroy # 0
  /\ FreeOutput(cs.destroy)
  /\ cs' = [cs EXCEPT !.destroy = 0]
  /\ UNCHANGED <<enqueued_buffers, enqueued_handles, num_handles, active_streams,
                 finished_streams, callback_thread, dropped, state, fpga_buffers,
                 interrupts, jobs, consumes, histVars>>

TopUp ==
  /\ cs.who = "interrupt"
  /\ ~cs.last /\ cs.destroy = 0
  /\ IF cs.stream \in Managed /\ ~HasBuffers(cs.stream)
       THEN EnqueueBuffer(cs.stream, CAPACITY) /\ UNCHANGED cs
       ELSE cs' = Nobody /\ UNCHANGED <<enqueued_buffers, free, fpga_buffers>>
  /\ UNCHANGED <<enqueued_handles, num_handles, handleVars, state, interrupts,
                 fpgaVars, histVars>>

\* A plausible slip: unlocking by hand, which the exception jumps over.
StaysLocked == UNCHANGED cs
Unlock == cs' = Nobody

\* An allocation fails: the exception leaves the function and the guard unlocks.
\* An acquire that fails leaves what it has enqueued; its handle stays enqueued
\* too, where nobody else refers to it.  The application may catch the exception
\* and acquire again; nobody catches it in the interrupt thread or in a callback.
AllocationFails ==
  /\ free = {}
  /\ \/ cs.who = "acquire" /\ ~HasBuffers(Lowest(cs.left))
     \/ cs.who = "acquire_size"
     \/ /\ cs.who = "interrupt" /\ ~cs.last /\ cs.destroy = 0
        /\ cs.stream \in Managed /\ ~HasBuffers(cs.stream)
  /\ Unlock
  /\ state' = IF cs.who = "interrupt" \/ (cs.who = "acquire" /\ cs.by # 0)
                THEN "terminated" ELSE state
  /\ IF cs.who = "interrupt"
       THEN UNCHANGED <<dropped, spoilt>>
       ELSE /\ dropped' = dropped \cup {cs.handle}
            /\ spoilt' = spoilt \cup {s \in Streams : cs.handle \in Range(enqueued_handles[s])}
  /\ UNCHANGED <<enqueued_buffers, enqueued_handles, free, num_handles, active_streams,
                 output_buffers, finished_streams, callback_thread, fpga_buffers, interrupts,
                 fpgaVars, received, produced, misled>>

----------------------------------------------------------------------------
(* The application and the callbacks.                                       *)

\* get_next_stream_output returns a buffer, the application reads it and drops it.
Read(h, s) ==
  /\ state # "terminated"
  /\ h \notin dropped
  /\ output_buffers[h][s] # <<>>
  /\ LET buffer == Head(output_buffers[h][s])
     IN /\ received' = [received EXCEPT ![h][s] = @ \o memory[buffer.id]]
        /\ Free({buffer.id})
  /\ output_buffers' = [output_buffers EXCEPT ![h][s] = Tail(@)]
  /\ UNCHANGED <<enqueued_buffers, enqueued_handles, cs, num_handles, active_streams,
                 finished_streams, callback_thread, dropped, state, fpga_buffers,
                 interrupts, jobs, consumes, produced, failVars>>

\* The callback thread; what a "read" callback reads is a Read.
Callback(h) ==
  /\ state # "terminated"
  /\ callback_thread[h] = "running"
  /\ CALLBACK = "acquire" => num_handles = MAX_HANDLES
  /\ callback_thread' = [callback_thread EXCEPT ![h] = "idle"]
  /\ UNCHANGED <<enqueued_buffers, enqueued_handles, free, cs, num_handles,
                 active_streams, output_buffers, finished_streams, dropped, state,
                 fpga_buffers, interrupts, fpgaVars, histVars>>

\* The application drops its reference, maybe the last one.
DropHandle(h) ==
  /\ state # "terminated"
  /\ h \in 1 .. num_handles \ dropped
  /\ cs.who \in {"acquire", "acquire_size"} => cs.handle # h
  /\ dropped' = dropped \cup {h}
  /\ IF Waiting(h, enqueued_handles)
       THEN UNCHANGED <<free, memory, output_buffers>>
       ELSE FreeOutput(h)
  /\ UNCHANGED <<enqueued_buffers, enqueued_handles, cs, num_handles, active_streams,
                 finished_streams, callback_thread, state, fpga_buffers, interrupts,
                 jobs, consumes, histVars>>

\* The manager is destroyed when the outputs are complete, and another one is
\* made.  What the FPGA still has is freed, and so is the output of handles that
\* only the queues referred to.
Restart ==
  /\ state = "running"
  /\ cs = Nobody
  /\ interrupts = <<>>
  /\ \A s \in Streams : jobs[s] = <<>>
  /\ \E s \in Streams : enqueued_buffers[s] # <<>> \/ enqueued_handles[s] # <<>>
  /\ LET orphans == {h \in dropped : Waiting(h, enqueued_handles)}
     IN /\ \A h \in orphans : callback_thread[h] # "running"
        /\ Free(IdsIn(enqueued_buffers) \cup UNION {IdsIn(output_buffers[h]) : h \in orphans})
        /\ output_buffers' = [h \in Handles |-> IF h \in orphans THEN [s \in Streams |-> <<>>]
                                                ELSE output_buffers[h]]
  /\ enqueued_buffers' = [s \in Streams |-> <<>>]
  /\ enqueued_handles' = [s \in Streams |-> <<>>]
  /\ state' = "stale"
  /\ spoilt' = {}
  /\ UNCHANGED <<cs, num_handles, active_streams, finished_streams, callback_thread, dropped,
                 fpga_buffers, interrupts, jobs, consumes, received, produced, misled>>

----------------------------------------------------------------------------
(* The FPGA, as OutputContract describes it.                                *)

Interrupt(s, bytes, last) ==
  interrupts' = Append(interrupts, [stream |-> s, bytes |-> bytes, last |-> last])

FpgaOutput(s) ==
  /\ jobs[s] # <<>>
  /\ fpga_buffers[s] # <<>>
  /\ LET job == Head(jobs[s])
         buffer == Head(fpga_buffers[s])
         left == job.len - job.done
         bytes == IF left < buffer.capacity THEN left ELSE buffer.capacity
     IN /\ job.len > 0
        /\ memory' = [memory EXCEPT ![buffer.id] =
                        Output(job.handle, s, job.done + 1, job.done + bytes)]
        /\ jobs' = [jobs EXCEPT ![s] = IF bytes = left THEN Tail(@)
                                       ELSE <<[job EXCEPT !.done = @ + bytes]>> \o Tail(@)]
        /\ Interrupt(s, bytes, bytes = left)
  /\ fpga_buffers' = [fpga_buffers EXCEPT ![s] = Tail(@)]
  /\ UNCHANGED <<enqueued_buffers, enqueued_handles, free, cs, num_handles,
                 handleVars, state, consumes, histVars>>

FpgaEmptyOutput(s) ==
  /\ jobs[s] # <<>>
  /\ fpga_buffers[s] # <<>>
  /\ Head(jobs[s]).len = 0
  /\ jobs' = [jobs EXCEPT ![s] = Tail(@)]
  /\ Interrupt(s, 0, TRUE)
  /\ fpga_buffers' = IF consumes THEN [fpga_buffers EXCEPT ![s] = Tail(@)] ELSE fpga_buffers
  /\ UNCHANGED <<enqueued_buffers, enqueued_handles, free, cs, num_handles,
                 handleVars, state, memory, consumes, histVars>>

----------------------------------------------------------------------------
Acquire == \E mask \in (SUBSET Managed) \ {{}} : BeginAcquire(mask, 0)
AcquireSize == \E s \in Streams \ Managed, size \in Sizes : BeginAcquireSize(s, size)
CallbackAcquires ==
  /\ CALLBACK = "acquire"
  /\ \E h \in Handles : callback_thread[h] = "running" /\ BeginAcquire(Managed, h)
CallbackEnds == \E h \in Handles : Callback(h)
ReadOutput == \E h \in Handles, s \in Streams : Read(h, s)
Drop == \E h \in Handles : DropHandle(h)
Fpga == \E s \in Streams : FpgaOutput(s) \/ FpgaEmptyOutput(s)

Next ==
  \/ FlushBuffers
  \/ Acquire
  \/ AcquireStream
  \/ AcquireSize
  \/ AcquireChunk
  \/ HandleInterrupt
  \/ MarkDone
  \/ DestroyHandle
  \/ TopUp
  \/ AllocationFails
  \/ CallbackAcquires
  \/ CallbackEnds
  \/ ReadOutput
  \/ Drop
  \/ Restart
  \/ Fpga

(* Threads that are not blocked run, the mutex is handed on, and the FPGA   *)
(* produces its outputs.  Nothing makes the application acquire, read, drop  *)
(* or restart.                                                              *)
Fairness ==
  /\ WF_vars(AcquireStream) /\ WF_vars(AcquireChunk) /\ WF_vars(AllocationFails)
  /\ WF_vars(HandleInterrupt) /\ WF_vars(MarkDone) /\ WF_vars(DestroyHandle)
  /\ WF_vars(TopUp)
  /\ WF_vars(CallbackAcquires)
  /\ \A h \in Handles : WF_vars(Callback(h))
  /\ \A s \in Streams : WF_vars(FpgaOutput(s)) /\ WF_vars(FpgaEmptyOutput(s))

SafeSpec == Init /\ [][Next]_vars
Spec == SafeSpec /\ Fairness

----------------------------------------------------------------------------
Buffer == [id : BufferIds, capacity : Nat]

(* Type invariant.  A handle only finishes streams it is active for and      *)
(* never holds an empty buffer.                                             *)
TypeOK ==
  /\ enqueued_buffers \in [Streams -> Seq(Buffer)]
  /\ enqueued_handles \in [Streams -> Seq(Handles)]
  /\ free \subseteq BufferIds
  /\ cs.who \in {"nobody", "acquire", "acquire_size", "interrupt"}
  /\ num_handles \in 0 .. MAX_HANDLES
  /\ active_streams \in [Handles -> SUBSET Streams]
  /\ \A h \in Handles : \A s \in Streams :
       output_buffers[h][s] \in Seq([id : BufferIds, size : Nat \ {0}])
  /\ \A h \in Handles : finished_streams[h] \subseteq active_streams[h]
  /\ callback_thread \in [Handles -> {"none", "idle", "running"}]
  /\ dropped \subseteq Handles
  /\ state \in States
  /\ fpga_buffers \in [Streams -> Seq(Buffer)]
  /\ \A s \in Streams : \A i \in DOMAIN jobs[s] : jobs[s][i].done < jobs[s][i].len \/ jobs[s][i].len = 0
  /\ \A i \in DOMAIN interrupts : interrupts[i].stream \in Streams
  /\ consumes \in BOOLEAN
  /\ spoilt \subseteq Streams
  /\ misled \in [Handles -> SUBSET Streams]

(* Every buffer of the pool is in exactly one place: free, with the FPGA,   *)
(* or in a handle.  Nothing leaks and nothing is freed twice, whatever      *)
(* fails and whenever handles and managers are destroyed.                   *)
Slots(b, queues) ==
  {p \in Streams \X (1 .. Cardinality(BufferIds)) :
     p[2] \in DOMAIN queues[p[1]] /\ queues[p[1]][p[2]].id = b}

BuffersAccounted ==
  \A b \in BufferIds :
    LET places == Slots(b, enqueued_buffers)
                    \cup UNION {{<<h, p>> : p \in Slots(b, output_buffers[h])} : h \in Handles}
    IN IF b \in free THEN places = {} ELSE Cardinality(places) = 1

(* The manager and the FPGA agree on the buffers enqueued: the FPGA has     *)
(* what the manager has, without what the interrupts under way used up.     *)
UsesBuffer(i) == i.bytes > 0 \/ consumes
UsedUp(s) == {i \in DOMAIN interrupts : interrupts[i].stream = s /\ UsesBuffer(interrupts[i])}

FpgaAgrees ==
  state # "stale" =>
    \A s \in Streams :
      SubSeq(enqueued_buffers[s], Cardinality(UsedUp(s)) + 1, Len(enqueued_buffers[s]))
        = fpga_buffers[s]

(* An interrupt always finds a handle and a buffer: the assertion of        *)
(* output_buffer_manager.cpp:210, without which line 213 reads the front of *)
(* an empty queue.                                                          *)
InterruptHasHandle ==
  interrupts # <<>> /\ cs = Nobody =>
    LET s == Head(interrupts).stream
    IN enqueued_handles[s] # <<>> /\ enqueued_buffers[s] # <<>>

(* What a handle returns and still holds is the output of the run it was    *)
(* acquired for, in order, without gaps and not overwritten; once a stream  *)
(* is marked done it is all of it.  Failing allocations harm no handle that *)
(* was acquired before, and none of another stream: only those acquired on  *)
(* a stream after an acquire failed with its handle enqueued there are left *)
(* out, until the manager is destroyed.                                     *)
Returned(h, s) ==
  LET parts[i \in 0 .. Len(output_buffers[h][s])] ==
        IF i = 0 THEN received[h][s] ELSE parts[i - 1] \o memory[output_buffers[h][s][i].id]
  IN parts[Len(output_buffers[h][s])]

GetsItsOutput(h, s) ==
  /\ IsPrefix(Returned(h, s), produced[h][s])
  /\ s \in finished_streams[h] => Returned(h, s) = produced[h][s]

HandleGetsItsOutput ==
  \A h \in Handles \ dropped : \A s \in Streams \ misled[h] : GetsItsOutput(h, s)

(* Every output the FPGA starts is eventually complete at its handle, so    *)
(* that no call blocks forever on it, unless an exception ends the process  *)
(* or a handle that nobody got takes its place.                             *)
HandlesEnd ==
  \A h \in Handles, s \in Streams :
    (\E i \in DOMAIN jobs[s] : jobs[s][i].handle = h)
      ~> (s \in finished_streams[h] \/ s \in misled[h] \/ state = "terminated")

(* What the documentation of acquire_output_handle promises of every handle *)
(* it returns and the application keeps, whatever failed before: that its   *)
(* data can be retrieved eventually (output_buffer_manager.hpp:56-58).      *)
EveryHandleEnds ==
  \A h \in Handles, s \in Streams :
    (\E i \in DOMAIN jobs[s] : jobs[s][i].handle = h)
      ~> (s \in finished_streams[h] \/ h \in dropped \/ state = "terminated")

=============================================================================
