---------------------------- MODULE PoolContract ----------------------------
(***************************************************************************)
(* What MemoryPool (memory_pool.hpp) promises its callers, whichever pool  *)
(* stands behind it.  Every block in use has an owner.  Blocks never       *)
(* overlap and lie in the pool's memory.  A block appears, changes or      *)
(* disappears only in a call of its owner, once in each call, and has then *)
(* the size that was asked for; a call that fails leaves the block as it   *)
(* is, and giving a block back never fails.                                *)
(* What becomes of the caller's pointer is not part of it: a reallocate    *)
(* that fails may overwrite the pointer of a zero-size block.              *)
(***************************************************************************)
EXTENDS Integers

CONSTANTS
  CAPACITY,      \* the memory of the pool, in units
  Owners         \* whoever can have a block

VARIABLES
  blocks,        \* the block of each owner, or Nothing
  asked,         \* the size each owner's call asks for, until it is served; or NoCall
  destroyed      \* is the pool gone?

vars == <<blocks, asked, destroyed>>

Block == [ptr : 0 .. CAPACITY, size : 1 .. CAPACITY]
Nothing == [ptr |-> 0, size |-> 0]
NoCall == -1

Disjoint(b, c) == b.ptr + b.size <= c.ptr \/ c.ptr + c.size <= b.ptr

Fits(b, owner) ==
  /\ b.ptr + b.size <= CAPACITY
  /\ \A other \in Owners \ {owner} : Disjoint(b, blocks[other])

Init ==
  /\ blocks = [o \in Owners |-> Nothing]
  /\ asked = [o \in Owners |-> NoCall]
  /\ destroyed = FALSE

\* An owner calls allocate or reallocate with a size; free asks for nothing.
Ask(o) ==
  /\ ~destroyed
  /\ asked[o] = NoCall
  /\ asked'[o] \in Nat
  /\ \A other \in Owners \ {o} : asked'[other] = asked[other]
  /\ UNCHANGED <<blocks, destroyed>>

Served(o, b) ==
  /\ blocks' = [blocks EXCEPT ![o] = b]
  /\ asked' = [asked EXCEPT ![o] = NoCall]
  /\ UNCHANGED destroyed

\* The block that is asked for takes the place of the one the owner has, if any. It may
\* overlap that one.
Allocate(o) ==
  /\ asked[o] > 0
  /\ \E b \in Block : b.size = asked[o] /\ Fits(b, o) /\ Served(o, b)

Free(o) == asked[o] = 0 /\ Served(o, Nothing)

Fail(o) == asked[o] > 0 /\ Served(o, blocks[o])

\* The pool is destroyed with the blocks that nobody freed.
Destroy ==
  /\ ~destroyed
  /\ \A o \in Owners : asked[o] = NoCall
  /\ blocks' = [o \in Owners |-> Nothing]
  /\ destroyed' = TRUE
  /\ UNCHANGED asked

Next == (\E o \in Owners : Ask(o) \/ Allocate(o) \/ Free(o) \/ Fail(o)) \/ Destroy

Spec == Init /\ [][Next]_vars
=============================================================================
