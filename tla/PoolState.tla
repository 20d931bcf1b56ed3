------------------------------ MODULE PoolState ------------------------------
(***************************************************************************)
(* State that both memory pools of memory_pool.hpp have, as their callers  *)
(* and the allocators below them see it. Addresses are offsets in units    *)
(* from the start of the pool's memory, which is aligned to every          *)
(* alignment in use.                                                       *)
(***************************************************************************)
EXTENDS Integers

CONSTANTS
  CAPACITY,            \* total_capacity_ of the huge pages, size_ of the linear allocator
  DEFAULT_ALIGNMENT,
  Threads,
  MAX_OBJECTS          \* bounds the objects that are ever allocated

ASSUME PoolAssumption ==
  /\ CAPACITY \in Nat
  /\ DEFAULT_ALIGNMENT \in Nat \ {0}
  /\ MAX_OBJECTS \in Nat

VARIABLES
  kind,                \* which MemoryPool is behind the pointer: "huge", "simple" or "destroyed"
  blocks,              \* memory in use: jemalloc's allocations, allocated_buffers
  next_free,           \* next_free_addr of the huge pages, offset_ of the linear allocator
  remaining_capacity,  \* of the huge pages
  arena,               \* the addresses that jemalloc obtained by the hook
  tcaches,             \* the threads in tcache_ids
  stats,               \* bytes_allocated_, total_bytes_allocated_, num_allocs_
  mem,                 \* the object whose data each address holds, or 0
  call,                \* the call each thread is in
  objects,             \* what the callers allocated
  shrunk,              \* whether an output buffer was ever shrunk; for the properties only
  null_frees           \* how often nullptr was freed; for the properties only

poolVars == <<kind, blocks, next_free, remaining_capacity, arena>>

Objects == 1 .. MAX_OBJECTS
Addr == 0 .. CAPACITY - 1
ZeroSizePointer == CAPACITY        \* an address outside of the pool; nullptr in the simple pool
NullPointer == CAPACITY + 1        \* nullptr in the huge page pool, which takes it for a block
Area(p, n) == p .. p + n - 1

MinOf(a, b) == IF a < b THEN a ELSE b

\* Rounds up to a multiple of the alignment.
AlignUp(x, alignment) == alignment * ((x + alignment - 1) \div alignment)

Block(p, n) == [ptr |-> p, size |-> n]

NoCall == [op |-> "none", obj |-> 0, old |-> 0, new |-> 0, alignment |-> 1, pc |-> "none"]

Idle(t) == call[t].op = "none"
At(t, pc) == call[t].pc = pc
Goto(t, pc) == call' = [call EXCEPT ![t].pc = pc]

\* The object, the pointer and the block that the call of a thread is about.
Obj(t) == objects[call[t].obj]
Target(t) == CHOOSE b \in blocks : b.ptr = Obj(t).ptr

\* free and a reallocate to nothing give the block back.
GivesBack(t) == call[t].op = "free" \/ (call[t].op = "reallocate" /\ call[t].new = 0)

\* Mutation: the counter of allocations is not decremented.
CountsOnlyUp(bytes, total, num) ==
  stats' = [bytes |-> stats.bytes + bytes, total |-> stats.total + total,
            num |-> IF num > 0 THEN stats.num + num ELSE stats.num]

Counted(bytes, total, num) ==
  stats' = [bytes |-> stats.bytes + bytes, total |-> stats.total + total, num |-> stats.num + num]

-----------------------------------------------------------------------------
(* What the caller does with the result of a call. A caller of allocate    *)
(* fills the block; an output buffer is filled by the FPGA later.          *)

Fill(m, o, p, n) == [a \in Addr |-> IF a \in Area(p, n) THEN o ELSE m[a]]

\* Mutation: a block that moved is not copied.
CopiesNothing(m, from, to, n) ==
  [a \in Addr |-> IF a \in Area(from.ptr, from.size) THEN 0 ELSE m[a]]

\* std::memcpy, which the simple pool calls and je_rallocx contains. Memory that is no
\* longer in use holds nothing.
Copy(m, from, to, n) ==
  [a \in Addr |-> IF a \in Area(to, n) THEN m[a - to + from.ptr]
                  ELSE IF a \in Area(from.ptr, from.size) THEN 0 ELSE m[a]]

\* The call returns, with the object as it is now.
Return(t, o) ==
  /\ objects' = [objects EXCEPT ![call[t].obj] = o]
  /\ call' = [call EXCEPT ![t] = NoCall]

NoObject == [use |-> "gone", ptr |-> ZeroSizePointer, size |-> 0, capacity |-> 0, valid |-> 0]

Allocated(t, p) ==
  [use |-> IF Obj(t).use = "output" THEN "output" ELSE "input", ptr |-> p,
   size |-> call[t].new, capacity |-> call[t].new,
   valid |-> IF Obj(t).use = "output" THEN 0 ELSE call[t].new]

\* The OutputBufferManager sets the size of a buffer it shrank, not its capacity.
Reallocated(t, p) ==
  IF Obj(t).use = "written"
    THEN [Obj(t) EXCEPT !.use = "delivered", !.ptr = p, !.size = call[t].new]
    ELSE [Obj(t) EXCEPT !.ptr = p, !.size = call[t].new, !.capacity = call[t].new,
                        !.valid = MinOf(Obj(t).valid, call[t].new)]

\* What the object is after free, or after a reallocate to nothing.
GivenBack(t) == IF call[t].op = "free" THEN NoObject ELSE Reallocated(t, ZeroSizePointer)

\* An allocation that failed wrote nullptr to *out. Its caller drops that, unless it is a
\* reallocate of a zero-size block: the block's owner still has it, now as nullptr.
AllocateFailed(t) ==
  IF Obj(t).use = "input" THEN [Obj(t) EXCEPT !.ptr = NullPointer] ELSE NoObject
\* A reallocation that failed leaves the block; the OutputBufferManager throws and keeps it.
ReallocateFailed(t) ==
  IF Obj(t).use = "written" THEN [Obj(t) EXCEPT !.use = "kept"] ELSE Obj(t)
=============================================================================
