--------------------------- MODULE SimpleMemoryPool ---------------------------
(***************************************************************************)
(* SimpleMemoryPool and its LinearAllocator (memory_pool.cpp). Every       *)
(* operation holds the recursive mutex from its first to its last access,  *)
(* so each is one action.                                                  *)
(***************************************************************************)
EXTENDS PoolState

\* LinearAllocator: where the next block starts; nothing is ever used again.
LinearStart(alignment) == AlignUp(next_free, alignment)
LinearFits(size, alignment) == LinearStart(alignment) + size <= CAPACITY

LinearAllocate(size, alignment) ==
  /\ LinearFits(size, alignment)
  /\ next_free' = LinearStart(alignment) + size

\* Mutation: the allocator goes back to what is freed.
ReusesMemory(ptr) == next_free' = ptr

LinearFree(ptr) == UNCHANGED next_free

simpleRest == <<kind, remaining_capacity, arena, tcaches, shrunk, null_frees>>

SimpleAllocateNothing(t) ==
  /\ call[t].op = "allocate" /\ call[t].new = 0
  /\ Return(t, Allocated(t, ZeroSizePointer))
  /\ UNCHANGED <<blocks, next_free, stats, mem, simpleRest>>

\* allocate, also for a reallocate of nullptr
SimpleAllocate(t) ==
  /\ call[t].op = "allocate" \/ Obj(t).ptr = ZeroSizePointer
  /\ call[t].op # "free" /\ call[t].new > 0
  /\ LET p == LinearStart(call[t].alignment)
         n == call[t].new IN
     \/ /\ LinearAllocate(n, call[t].alignment)
        /\ blocks' = blocks \cup {Block(p, n)}
        /\ Counted(n, n, 1)
        /\ mem' = IF Obj(t).use = "output" THEN mem ELSE Fill(mem, call[t].obj, p, n)
        /\ Return(t, Allocated(t, p))
     \/ /\ ~LinearFits(n, call[t].alignment)
        /\ Return(t, IF call[t].op = "allocate" THEN AllocateFailed(t) ELSE Obj(t))
        /\ UNCHANGED <<blocks, next_free, stats, mem>>
  /\ UNCHANGED simpleRest

SimpleReallocate(t) ==
  /\ call[t].op = "reallocate" /\ call[t].new > 0 /\ Obj(t).ptr # ZeroSizePointer
  /\ LET p == LinearStart(call[t].alignment)
         n == call[t].new
         old == call[t].old IN
     \/ /\ LinearAllocate(n, call[t].alignment)
        /\ mem' = Copy(mem, Target(t), p, MinOf(old, n))
        /\ blocks' = (blocks \ {Target(t)}) \cup {Block(p, n)}
        /\ Counted(n - old, IF n > old THEN n - old ELSE 0, 0)
        /\ Return(t, Reallocated(t, p))
     \/ /\ ~LinearFits(n, call[t].alignment)
        /\ Return(t, ReallocateFailed(t))
        /\ UNCHANGED <<blocks, next_free, stats, mem>>
  /\ shrunk' = (shrunk \/ Obj(t).use = "written")
  /\ UNCHANGED <<kind, remaining_capacity, arena, tcaches, null_frees>>

\* The block that free gives back, unless it is nullptr.
SimpleFree(t) ==
  /\ GivesBack(t)
  /\ \/ /\ Obj(t).ptr = ZeroSizePointer
        /\ UNCHANGED <<blocks, next_free, stats, mem>>
     \/ /\ Obj(t).ptr # ZeroSizePointer
        /\ Counted(-call[t].old, 0, -1)
        /\ LinearFree(Obj(t).ptr)
        /\ blocks' = blocks \ {Target(t)}
        /\ mem' = Fill(mem, 0, Target(t).ptr, Target(t).size)
  /\ Return(t, GivenBack(t))
  /\ UNCHANGED simpleRest

SimpleCall(t) ==
  /\ kind = "simple" /\ ~Idle(t)
  /\ SimpleAllocateNothing(t) \/ SimpleAllocate(t) \/ SimpleReallocate(t) \/ SimpleFree(t)

\* get_page_boundaries: the buffer that holds the address
SimplePage(a) == CHOOSE b \in blocks : a \in Area(b.ptr, b.size)

\* The destructor frees what nobody freed, and then the memory itself.
SimpleDestroy ==
  /\ kind = "simple"
  /\ blocks' = {}
  /\ UNCHANGED <<arena, tcaches>>
=============================================================================
