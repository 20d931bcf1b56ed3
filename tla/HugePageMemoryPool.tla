-------------------------- MODULE HugePageMemoryPool --------------------------
(***************************************************************************)
(* HugePageMemoryPool (memory_pool.cpp): pre-allocated 1 GiB pages that    *)
(* jemalloc gets by a hook and divides. Only the map of thread caches and  *)
(* the hook have a lock. Between the steps of a call other threads run.    *)
(* jemalloc is modelled by how the pool uses it: a block lies anywhere in  *)
(* the arena's free memory, or in memory it asks the hook for.             *)
(***************************************************************************)
EXTENDS PoolState

CONSTANTS
  PAGE_SIZE,
  ExtentSizes          \* how much jemalloc asks the hook for

ASSUME HugePageAssumption ==
  /\ PAGE_SIZE \in Nat \ {0} /\ CAPACITY % PAGE_SIZE = 0
  /\ ExtentSizes \subseteq Nat

hugeRest == <<kind, shrunk, null_frees>>
hugeMemory == <<blocks, next_free, remaining_capacity, arena>>

\* huge_page_alloc: std::align and the bump of the free memory, under allocations_mutex_.
HookFits(size, alignment) ==
  (AlignUp(next_free, alignment) - next_free) + size <= remaining_capacity

\* Mutation: the padding is not taken off the capacity.
ForgetsPadding(size, alignment) ==
  /\ HookFits(size, alignment)
  /\ remaining_capacity' = remaining_capacity - size
  /\ next_free' = AlignUp(next_free, alignment) + size
  /\ arena' = arena \cup Area(AlignUp(next_free, alignment), size)

HookAlloc(size, alignment) ==
  LET aligned == AlignUp(next_free, alignment) IN
  /\ HookFits(size, alignment)
  /\ remaining_capacity' = remaining_capacity - (aligned - next_free) - size
  /\ next_free' = aligned + size
  /\ arena' = arena \cup Area(aligned, size)

\* A block that jemalloc may return, beside the given blocks in use.
FromArena(b, alignment, used) ==
  /\ b.ptr % alignment = 0
  /\ Area(b.ptr, b.size) \subseteq arena
  /\ \A c \in used : b.ptr + b.size <= c.ptr \/ c.ptr + c.size <= b.ptr
  /\ UNCHANGED <<next_free, remaining_capacity, arena>>

FromHook(b, alignment) ==
  \E size \in ExtentSizes :
    /\ size >= b.size
    /\ b.ptr = AlignUp(next_free, alignment)
    /\ HookAlloc(size, alignment)

\* jemalloc gives up when the hook does not even have what is needed now. It may
\* do so with free memory in the arena, as that may be in another thread's cache.
OutOfMemory(size, alignment) ==
  \A extent \in ExtentSizes : extent >= size => ~HookFits(extent, alignment)

-----------------------------------------------------------------------------
\* The entry of allocate, reallocate and free; free counts before it gives back.
HugeEnter(t) ==
  /\ At(t, "enter")
  /\ \/ /\ call[t].op # "free" /\ call[t].new > 0
        /\ call' = [call EXCEPT ![t].pc = "tcache",
                                ![t].op = IF Obj(t).ptr = ZeroSizePointer THEN "allocate" ELSE @]
        /\ UNCHANGED <<stats, objects>>
     \/ /\ GivesBack(t) /\ Obj(t).ptr # ZeroSizePointer
        /\ Counted(-call[t].old, 0, -1)
        /\ Goto(t, "tcache")
        /\ UNCHANGED objects
     \/ /\ call[t].new = 0 /\ Obj(t).ptr = ZeroSizePointer
        /\ Return(t, IF call[t].op = "free" THEN NoObject
                     ELSE IF call[t].op = "allocate" THEN Allocated(t, ZeroSizePointer) ELSE Obj(t))
        /\ UNCHANGED stats
  /\ UNCHANGED <<hugeMemory, mem, tcaches, hugeRest>>

\* get_tcache_id_for_calling_thread: found with the read lock, or created with the write lock
FindTcache(t) ==
  /\ At(t, "tcache")
  /\ Goto(t, IF t \in tcaches THEN "jemalloc" ELSE "create")
  /\ UNCHANGED <<hugeMemory, stats, mem, tcaches, objects, hugeRest>>

CreateTcache(t) ==
  /\ At(t, "create")
  /\ tcaches' = tcaches \cup {t}
  /\ Goto(t, "jemalloc")
  /\ UNCHANGED <<hugeMemory, stats, mem, objects, hugeRest>>

Mallocx(t) ==
  /\ At(t, "jemalloc") /\ call[t].op = "allocate"
  /\ \/ \E p \in Addr :
          LET b == Block(p, call[t].new) IN
          /\ FromArena(b, call[t].alignment, blocks) \/ FromHook(b, call[t].alignment)
          /\ blocks' = blocks \cup {b}
          /\ mem' = IF Obj(t).use = "output" THEN mem ELSE Fill(mem, call[t].obj, p, b.size)
          /\ objects' = [objects EXCEPT ![call[t].obj] = Allocated(t, p)]
          /\ Goto(t, "count")
     \/ /\ OutOfMemory(call[t].new, call[t].alignment)
        /\ Return(t, AllocateFailed(t))
        /\ UNCHANGED <<hugeMemory, mem>>
  /\ UNCHANGED <<stats, tcaches, hugeRest>>

\* The block is resized in its place or copied to another one.
Rallocx(t) ==
  /\ At(t, "jemalloc") /\ call[t].op = "reallocate" /\ call[t].new > 0
  /\ Obj(t).ptr # NullPointer
  /\ \/ \E p \in Addr :
          LET b == Block(p, call[t].new)
              others == IF p = Obj(t).ptr THEN blocks \ {Target(t)} ELSE blocks IN
          /\ FromArena(b, call[t].alignment, others) \/ FromHook(b, call[t].alignment)
          /\ blocks' = (blocks \ {Target(t)}) \cup {b}
          /\ mem' = Copy(mem, Target(t), p, MinOf(Target(t).size, b.size))
          /\ objects' = [objects EXCEPT ![call[t].obj] = Reallocated(t, p)]
          /\ Goto(t, "count")
          /\ shrunk' = (shrunk \/ Obj(t).use = "written")
     \/ /\ OutOfMemory(call[t].new, call[t].alignment)
        /\ Return(t, ReallocateFailed(t))
        /\ UNCHANGED <<hugeMemory, mem, shrunk>>
  /\ UNCHANGED <<stats, tcaches, kind, null_frees>>

Dallocx(t) ==
  /\ At(t, "jemalloc") /\ GivesBack(t) /\ Obj(t).ptr # NullPointer
  /\ blocks' = blocks \ {Target(t)}
  /\ Return(t, GivenBack(t))
  /\ mem' = Fill(mem, 0, Target(t).ptr, Target(t).size)
  /\ UNCHANGED <<next_free, remaining_capacity, arena, stats, tcaches, hugeRest>>

\* je_rallocx and je_dallocx of nullptr are undefined. Where they return, they did nothing;
\* where they crash, the call just goes no further.
JemallocOfNull(t) ==
  /\ At(t, "jemalloc") /\ Obj(t).ptr = NullPointer
  /\ IF GivesBack(t)
       THEN Return(t, GivenBack(t)) /\ null_frees' = null_frees + 1
       ELSE Return(t, ReallocateFailed(t)) /\ UNCHANGED null_frees
  /\ UNCHANGED <<hugeMemory, stats, mem, tcaches, kind, shrunk>>

\* The three statistics are atomics; a call that succeeded updates them last.
Count(t) ==
  /\ At(t, "count")
  /\ LET grows == call[t].new - call[t].old IN
     IF call[t].op = "allocate"
       THEN Counted(call[t].new, call[t].new, 1)
       ELSE Counted(grows, IF grows > 0 THEN grows ELSE 0, 0)
  /\ Return(t, Obj(t))
  /\ UNCHANGED <<hugeMemory, mem, tcaches, hugeRest>>

HugeCall(t) ==
  /\ kind = "huge" /\ ~Idle(t)
  /\ \/ HugeEnter(t) \/ FindTcache(t) \/ CreateTcache(t)
     \/ Mallocx(t) \/ Rallocx(t) \/ Dallocx(t) \/ JemallocOfNull(t) \/ Count(t)

\* get_page_boundaries
HugePage(a) == Block(PAGE_SIZE * (a \div PAGE_SIZE), PAGE_SIZE)

\* The destructor destroys the thread caches, the arena and the mapping of the huge pages.
HugeDestroy ==
  /\ kind = "huge"
  /\ tcaches' = {} /\ arena' = {} /\ blocks' = {}
=============================================================================
