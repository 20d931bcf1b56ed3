------------------------------ MODULE HostMemory ------------------------------
(***************************************************************************)
(* The memory that host and FPGA share: a memory pool, the TLBManager that *)
(* maps it for the FPGA, the buffers that the OutputBufferManager enqueues *)
(* and hands out, and the input memory of the application. Several threads *)
(* call the pool at once: the application, the interrupt thread, and       *)
(* whoever drops the last reference to a buffer.                           *)
(***************************************************************************)
EXTENDS SimpleMemoryPool, HugePageMemoryPool, FiniteSets, FiniteSetsExt, SequencesExt

CONSTANTS
  Kinds,               \* the memory pools to check
  Sizes,               \* of input memory
  Alignments,          \* of input memory
  Capacities,          \* of output buffers
  MAX_TRANSFER_SIZE,   \* of the transfers the application posts
  MAX_REQUESTS         \* bounds the allocations and reallocations

ASSUME HostAssumption ==
  /\ Kinds \subseteq {"huge", "simple"}
  /\ Sizes \subseteq Nat /\ Alignments \subseteq Nat \ {0}
  /\ Capacities \subseteq Nat \ {0} /\ MAX_REQUESTS \in Nat
  /\ MAX_TRANSFER_SIZE \in Nat \ {0}
  /\ IsFiniteSet(Threads)

VARIABLES
  requests,            \* the allocations and reallocations so far
  tlb,                 \* the mappings of the FPGA; their addresses are existing_tlb_mappings
  transfers,           \* per direction, what was posted to the FPGA and is not done yet
  phase                \* how far the program got: "running", "closing", "obm_gone", "tlb_gone"

memoryVars == <<next_free, remaining_capacity, arena, blocks, mem, stats, tcaches, kind>>
vars == <<memoryVars, requests, call, objects, shrunk, null_frees, tlb,
          transfers, phase>>

Directions == {"read", "write"}

\* The application waits for its transfers before it gives their memory back.
Posted(o) == \E d \in Directions : \E i \in DOMAIN transfers[d] : transfers[d][i].obj = o
Busy(o) == \E t \in Threads : ~Idle(t) /\ call[t].obj = o

-----------------------------------------------------------------------------
(* The callers of the pool.                                                *)

Begin(t, o, op, old, new, alignment) ==
  /\ kind # "destroyed"
  /\ Idle(t) /\ ~Busy(o)
  /\ requests' = requests + (IF op = "free" THEN 0 ELSE 1)
  /\ requests' <= MAX_REQUESTS
  /\ call' = [call EXCEPT ![t] = [op |-> op, obj |-> o, old |-> old, new |-> new,
                                  alignment |-> alignment, pc |-> "enter"]]
  /\ UNCHANGED <<memoryVars, shrunk, null_frees, tlb, transfers, phase>>

\* Objects are numbered in the order they are allocated.
Fresh(o) ==
  /\ objects[o].use = "none"
  /\ \A p \in Objects : p < o => objects[p].use # "none"

\* The application allocates input memory, or resizes or frees its own.
AllocateInput(t, o) ==
  /\ phase = "running" /\ Fresh(o)
  /\ \E n \in Sizes, a \in Alignments : Begin(t, o, "allocate", 0, n, a)
  /\ objects' = [objects EXCEPT ![o].use = "asked"]

ReallocateInput(t, o) ==
  /\ phase = "running" /\ objects[o].use = "input" /\ ~Posted(o)
  /\ \E n \in Sizes \ {objects[o].size}, a \in Alignments :
       Begin(t, o, "reallocate", objects[o].size, n, a)
  /\ UNCHANGED objects

FreeInput(t, o) ==
  /\ phase = "running" /\ objects[o].use = "input" /\ ~Posted(o)
  /\ Begin(t, o, "free", objects[o].size, 0, DEFAULT_ALIGNMENT)
  /\ UNCHANGED objects

\* The OutputBufferManager allocates a buffer, maps it and enqueues it.
AllocateOutput(t, o) ==
  /\ phase = "running" /\ Fresh(o)
  /\ \E n \in Capacities : Begin(t, o, "allocate", 0, n, DEFAULT_ALIGNMENT)
  /\ objects' = [objects EXCEPT ![o].use = "output"]

\* ensure_tlb_mapping: while the data goes on after a page, the recursion goes on at the
\* page's end, so it sees the page of each address. A page whose address is known is not
\* mapped again.
Page(a) == IF kind = "huge" THEN HugePage(a) ELSE SimplePage(a)
\* Mutation: only the page of the first byte is mapped.
FirstPageOnly(first, last) == {Page(first)}

PagesOf(first, last) == {Page(a) : a \in first .. last}
ensure_tlb_mapping(ptr, size) ==
  tlb' = tlb \cup {page \in PagesOf(ptr, ptr + size - 1) : \A m \in tlb : m.ptr # page.ptr}

EnqueueOutput(o) ==
  /\ phase = "running" /\ objects[o].use = "output" /\ ~Busy(o)
  /\ ensure_tlb_mapping(objects[o].ptr, objects[o].capacity)
  /\ objects' = [objects EXCEPT ![o].use = "enqueued"]
  /\ UNCHANGED <<memoryVars, requests, call, shrunk, null_frees, transfers, phase>>

\* The examples map all huge pages when they start.
PreMap ==
  /\ phase = "running" /\ requests = 0 /\ kind = "huge"
  /\ ensure_tlb_mapping(0, CAPACITY)
  /\ UNCHANGED <<memoryVars, requests, call, objects, shrunk, null_frees, transfers, phase>>

\* enqueue_stream_input, and enqueue_stream_output of the examples: the application posts
\* its memory for the FPGA to read or to write, in pieces that one transfer can hold.
Pieces(o) ==
  LET size == objects[o].size IN
  [k \in 1 .. (size + MAX_TRANSFER_SIZE - 1) \div MAX_TRANSFER_SIZE |->
     LET off == (k - 1) * MAX_TRANSFER_SIZE IN
     [obj |-> o, ptr |-> objects[o].ptr + off, len |-> MinOf(size - off, MAX_TRANSFER_SIZE),
      last |-> off + MAX_TRANSFER_SIZE >= size]]

PostTransfers(o, d) ==
  /\ phase = "running" /\ objects[o].use = "input" /\ objects[o].size > 0
  /\ ~Busy(o) /\ ~Posted(o)
  /\ ensure_tlb_mapping(objects[o].ptr, objects[o].size)
  /\ transfers' = [transfers EXCEPT ![d] = @ \o Pieces(o)]
  /\ UNCHANGED <<memoryVars, requests, call, objects, shrunk, null_frees, phase>>

\* The FPGA is done with the oldest transfer of a direction.
Transfer(d) ==
  /\ transfers[d] # <<>>
  /\ LET done == Head(transfers[d])
     IN mem' = IF d = "write" THEN Fill(mem, done.obj, done.ptr, done.len) ELSE mem
  /\ transfers' = [transfers EXCEPT ![d] = Tail(@)]
  /\ UNCHANGED <<next_free, remaining_capacity, arena, blocks, stats, tcaches, kind, requests,
                 call, objects, shrunk, null_frees, tlb, phase>>

\* The FPGA fills a buffer with some bytes, and its interrupt says how many.
FpgaWrites(o) ==
  /\ objects[o].use = "enqueued"
  /\ \E n \in 0 .. objects[o].capacity :
       /\ mem' = Fill(mem, o, objects[o].ptr, n)
       /\ objects' = [objects EXCEPT ![o].use = "written", ![o].size = n, ![o].valid = n]
  /\ UNCHANGED <<next_free, remaining_capacity, arena, blocks, stats, tcaches, kind, requests,
                 call, shrunk, null_frees, tlb, transfers, phase>>

\* The interrupt handler shrinks a buffer to what was written before it hands it out.
ShrinkOutput(t, o) ==
  /\ phase = "running" /\ objects[o].use = "written"
  /\ objects[o].size \in 1 .. objects[o].capacity - 1
  /\ Begin(t, o, "reallocate", objects[o].capacity, objects[o].size, DEFAULT_ALIGNMENT)
  /\ UNCHANGED objects

DeliverFullOutput(o) ==
  /\ phase = "running" /\ objects[o].use = "written"
  /\ objects[o].size = objects[o].capacity
  /\ objects' = [objects EXCEPT ![o].use = "delivered"]
  /\ UNCHANGED <<memoryVars, requests, call, shrunk, null_frees, tlb, transfers, phase>>

\* An empty buffer that the hardware skipped is freed, and so is an output buffer
\* when its last reference goes (BufferDeleter).
FreeOutput(t, o) ==
  /\ \/ phase = "running" /\ objects[o].use = "written" /\ objects[o].size = 0
     \/ objects[o].use = "delivered"
  /\ Begin(t, o, "free", objects[o].capacity, 0, DEFAULT_ALIGNMENT)
  /\ UNCHANGED objects

-----------------------------------------------------------------------------
(* The program ends. The OutputBufferManager holds the TLBManager, both    *)
(* and every delivered buffer hold the pool.                               *)

StartClosing ==
  /\ phase = "running"
  /\ \A t \in Threads : Idle(t)
  /\ \A d \in Directions : transfers[d] = <<>>
  /\ phase' = "closing"
  /\ UNCHANGED <<memoryVars, requests, call, objects, shrunk, null_frees, tlb, transfers>>

InManager == {"output", "enqueued", "written", "kept"}

\* ~OutputBufferManager frees the buffers of its queues.
FreeEnqueued(t, o) ==
  /\ phase = "closing" /\ objects[o].use \in InManager
  /\ Begin(t, o, "free", objects[o].capacity, 0, DEFAULT_ALIGNMENT)
  /\ UNCHANGED objects

DestroyManager ==
  /\ phase = "closing"
  /\ \A o \in Objects : objects[o].use \notin InManager
  /\ phase' = "obm_gone"
  /\ UNCHANGED <<memoryVars, requests, call, objects, shrunk, null_frees, tlb, transfers>>

\* ~TLBManager unmaps everything.
DestroyTLBManager ==
  /\ phase = "obm_gone"
  /\ tlb' = {}
  /\ phase' = "tlb_gone"
  /\ UNCHANGED <<memoryVars, requests, call, objects, shrunk, null_frees, transfers>>

\* No shared_ptr to the pool is left.
Unreferenced ==
  /\ phase = "tlb_gone"
  /\ \A o \in Objects : objects[o].use # "delivered"
  /\ \A t \in Threads : Idle(t)

DestroyPool ==
  /\ kind # "destroyed" /\ Unreferenced
  /\ SimpleDestroy \/ HugeDestroy
  /\ kind' = "destroyed"
  /\ mem' = [a \in Addr |-> 0]
  /\ objects' = [o \in Objects |-> IF objects[o].use = "input" THEN NoObject ELSE objects[o]]
  /\ UNCHANGED <<next_free, remaining_capacity, stats, requests, call, shrunk, null_frees, tlb,
                 transfers, phase>>

Init ==
  /\ kind \in Kinds
  /\ blocks = {} /\ arena = {} /\ tcaches = {} /\ tlb = {}
  /\ next_free = 0 /\ remaining_capacity = CAPACITY
  /\ stats = [bytes |-> 0, total |-> 0, num |-> 0]
  /\ mem = [a \in Addr |-> 0]
  /\ call = [t \in Threads |-> NoCall]
  /\ objects = [o \in Objects |-> [NoObject EXCEPT !.use = "none"]]
  /\ requests = 0 /\ shrunk = FALSE /\ null_frees = 0 /\ phase = "running"
  /\ transfers = [d \in Directions |-> <<>>]

Call(t) == (SimpleCall(t) \/ HugeCall(t)) /\ UNCHANGED <<requests, tlb, transfers, phase>>

Callers(t, o) ==
  \/ AllocateInput(t, o) \/ ReallocateInput(t, o) \/ FreeInput(t, o)
  \/ AllocateOutput(t, o) \/ ShrinkOutput(t, o) \/ FreeOutput(t, o) \/ FreeEnqueued(t, o)

Posting == \E d \in Directions : Transfer(d) \/ \E o \in Objects : PostTransfers(o, d)

Manager(o) == EnqueueOutput(o) \/ FpgaWrites(o) \/ DeliverFullOutput(o)

Closing == StartClosing \/ DestroyManager \/ DestroyTLBManager \/ DestroyPool

Next ==
  \/ \E t \in Threads : Call(t)
  \/ \E t \in Threads, o \in Objects : Callers(t, o)
  \/ \E o \in Objects : Manager(o)
  \/ Posting \/ PreMap \/ Closing

Spec == Init /\ [][Next]_vars

-----------------------------------------------------------------------------
CallType == [op : {"none", "allocate", "reallocate", "free"}, obj : 0 .. MAX_OBJECTS,
             old : Nat, new : Nat, alignment : Nat \ {0},
             pc : {"none", "enter", "tcache", "create", "jemalloc", "count"}]

Uses == {"none", "asked", "input", "output", "enqueued", "written", "kept", "delivered", "gone"}

ObjectType == [use : Uses, ptr : 0 .. NullPointer, size : Nat, capacity : Nat, valid : Nat]

PoolOK ==
  /\ kind \in {"huge", "simple", "destroyed"}
  /\ blocks \subseteq [ptr : Nat, size : Nat \ {0}]
  /\ next_free \in 0 .. CAPACITY /\ remaining_capacity \in 0 .. CAPACITY
  /\ arena \subseteq Addr

CallOK == call \in [Threads -> CallType]

ObjectsOK == objects \in [Objects -> ObjectType]

\* The variables have their types, and the free memory of the pool stays inside it.
TypeOK ==
  /\ PoolOK /\ CallOK /\ ObjectsOK
  /\ stats \in [bytes : Int, total : Int, num : Int]
  /\ tcaches \subseteq Threads
  /\ mem \in [Addr -> 0 .. MAX_OBJECTS]
  /\ tlb \subseteq [ptr : Nat, size : Nat \ {0}]
  /\ phase \in {"running", "closing", "obm_gone", "tlb_gone"}
  /\ transfers \in [Directions ->
       Seq([obj : Objects, ptr : Addr, len : Nat \ {0}, last : BOOLEAN])]
  /\ requests \in 0 .. MAX_REQUESTS /\ shrunk \in BOOLEAN /\ null_frees \in Nat

\* Memory keeps the data of its owner: whatever other threads allocate, free and resize,
\* and however often a block is moved, what was written to an object is still there, also
\* in buffers that outlive the managers.
DataIntact ==
  \A o \in Objects : objects[o].use \notin {"none", "gone"} =>
    \A i \in 0 .. objects[o].valid - 1 : mem[objects[o].ptr + i] = o

\* The FPGA can reach each byte of each buffer it was given and of each posted transfer,
\* which holds no other object's data and ends with the object it was posted for. Nothing
\* that the FPGA can reach has been returned to the system.
Mapped(p, n) == \A a \in Area(p, n) : \E m \in tlb : a \in Area(m.ptr, m.size)

MappedForFpga ==
  /\ \A o \in Objects : objects[o].use = "enqueued" /\ phase = "running" =>
       Mapped(objects[o].ptr, objects[o].capacity)
  /\ \A d \in Directions : \A i \in DOMAIN transfers[d] :
       LET piece == transfers[d][i] IN
       /\ Mapped(piece.ptr, piece.len)
       /\ \A a \in Area(piece.ptr, piece.len) : mem[a] \in {0, piece.obj}
       /\ piece.last <=>
            piece.ptr + piece.len = objects[piece.obj].ptr + objects[piece.obj].size
  /\ kind = "destroyed" => tlb = {}

\* The statistics count what is in use, up to what a call under way still has to add or
\* has already subtracted. The bytes are exact as long as no output was shrunk; the number
\* of allocations is too low by the times that nullptr was freed, which only the owner of
\* a zero-size block can have, after it failed to grow. Unsigned in the code, the
\* statistics do not go below zero before one of these two happens.
GivingBack(t) == GivesBack(t) /\ call[t].pc \in {"tcache", "create", "jemalloc"}

PendingBytes(t) ==
  IF At(t, "count") THEN call[t].new - call[t].old
  ELSE IF GivingBack(t) THEN call[t].old
  ELSE 0

PendingAllocs(t) ==
  IF GivingBack(t) \/ (At(t, "count") /\ call[t].op = "allocate") THEN 1 ELSE 0

NoNull == null_frees = 0 /\ \A o \in Objects : objects[o].ptr # NullPointer

StatsOK ==
  /\ shrunk \/ stats.bytes \in Nat
  /\ stats.total \in Nat
  /\ NoNull => stats.num \in Nat

InUse == MapThenSumSet(LAMBDA b : b.size, blocks)

CountersExact ==
  /\ StatsOK
  /\ kind # "destroyed" =>
       /\ stats.num + MapThenSumSet(PendingAllocs, Threads) + null_frees = Cardinality(blocks)
       /\ shrunk \/ stats.bytes + MapThenSumSet(PendingBytes, Threads) = InUse

\* The pool behind the pointer implements the contract of MemoryPool. Each object is the
\* owner of the block its pointer shows, and has asked until the call did what it was for;
\* the statistics are counted after that.
BlockOf(o) ==
  IF \E b \in blocks : b.ptr = objects[o].ptr
    THEN CHOOSE b \in blocks : b.ptr = objects[o].ptr
    ELSE Block(0, 0)

Serving(t, o) == ~Idle(t) /\ call[t].obj = o /\ ~At(t, "count")
AskedBy(o) ==
  IF \E t \in Threads : Serving(t, o)
    THEN call[CHOOSE t \in Threads : Serving(t, o)].new
    ELSE -1

Contract == INSTANCE PoolContract
  WITH Owners <- Objects, blocks <- [o \in Objects |-> BlockOf(o)],
       asked <- [o \in Objects |-> AskedBy(o)], destroyed <- kind = "destroyed"
ImplementsPool == Contract!Spec
=============================================================================
