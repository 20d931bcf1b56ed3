--------------------------- MODULE HostMemoryProofs ---------------------------
(***************************************************************************)
(* Both memory pools implement the contract of MemoryPool, for any number  *)
(* of threads and any sizes. The argument: whatever is in use, and         *)
(* whatever jemalloc was given, lies below the start of the free memory,   *)
(* and that start only moves up, by at least what is handed out. A step of *)
(* a call is then the answer its owner gets, or shows the owner nothing.   *)
(*                                                                         *)
(* On top of that, data stays where its owner put it, and the FPGA reaches *)
(* what it was given. The argument: each object holds a block of its own   *)
(* and all data lies with its object, a call knows the block it is about   *)
(* until it is done, and what was posted or mapped stays as it was.        *)
(*                                                                         *)
(* And the statistics are exact. The argument: they and what the calls     *)
(* under way still owe them add up to the blocks in use, and what a call   *)
(* owes is never more than the block it is about, which is its own.        *)
(***************************************************************************)
EXTENDS HostMemory, NumberInduction, TLAPS

----
(* Arithmetic                                                              *)

\* Rounding up stays above and gives a natural number.
LEMMA AlignUpFacts ==
  ASSUME NEW x \in Nat, NEW a \in Nat \ {0}
  PROVE  AlignUp(x, a) \in Nat /\ AlignUp(x, a) >= x
  <1> DEFINE n == x + a - 1
             q == n \div a
             r == n % a
  <1>1. n \in Nat  OBVIOUS
  <1>2. q \in Nat /\ r \in 0 .. a - 1 /\ n = a * q + r  BY <1>1, Z3
  <1>3. a * q \in Nat  BY <1>2
  <1> HIDE DEF q, r
  <1>4. a * q >= x  BY <1>2, <1>3
  <1> QED BY <1>3, <1>4 DEF AlignUp, q

\* What lies below a start lies below a later one.
LEMMA IntervalGrows ==
  ASSUME NEW m \in Nat, NEW n \in Nat, m <= n
  PROVE  0 .. m - 1 \subseteq 0 .. n - 1
  OBVIOUS

----
(* Types. Only what a call writes about itself and its object matters.     *)

\* A thread that is not idle works on an object.
Engaged == \A t \in Threads : call[t] = NoCall \/ call[t].obj \in Objects

Types == CallOK /\ ObjectsOK /\ Engaged

LEMMA RecordTypes ==
  /\ NoCall \in CallType
  /\ NoObject \in ObjectType
  BY PoolAssumption DEF NoCall, CallType, NoObject, ObjectType, Uses, ZeroSizePointer, NullPointer

\* What the calls make of their objects are objects.
LEMMA ResultTypes ==
  ASSUME Types, NEW t \in Threads, ~Idle(t), NEW p \in 0 .. CAPACITY
  PROVE  /\ Obj(t) \in ObjectType
         /\ Allocated(t, p) \in ObjectType
         /\ Reallocated(t, p) \in ObjectType
         /\ GivenBack(t) \in ObjectType
         /\ AllocateFailed(t) \in ObjectType
         /\ ReallocateFailed(t) \in ObjectType
  <1>0. call[t].obj \in Objects  BY DEF Types, Engaged, Idle, NoCall
  <1>1. Obj(t) \in ObjectType  BY <1>0 DEF Types, ObjectsOK, Obj
  <1>2. call[t].new \in Nat  BY DEF Types, CallOK, CallType
  <1>3. \A q \in 0 .. CAPACITY : q \in 0 .. NullPointer  BY PoolAssumption DEF NullPointer
  <1>4. NullPointer \in 0 .. NullPointer /\ ZeroSizePointer \in 0 .. CAPACITY
    BY PoolAssumption DEF NullPointer, ZeroSizePointer
  <1>5. Allocated(t, p) \in ObjectType  BY <1>1, <1>2, <1>3 DEF Allocated, ObjectType, Uses
  <1>6. ASSUME NEW q \in 0 .. CAPACITY
        PROVE  Reallocated(t, q) \in ObjectType
    <2>1. MinOf(Obj(t).valid, call[t].new) \in Nat  BY <1>1, <1>2 DEF MinOf, ObjectType
    <2> QED BY <1>1, <1>2, <1>3, <2>1 DEF Reallocated, ObjectType, Uses
  <1>7. GivenBack(t) \in ObjectType  BY <1>4, <1>6, RecordTypes DEF GivenBack
  <1>8. AllocateFailed(t) \in ObjectType  BY <1>1, <1>4, RecordTypes DEF AllocateFailed, ObjectType
  <1>9. ReallocateFailed(t) \in ObjectType  BY <1>1 DEF ReallocateFailed, ObjectType, Uses
  <1> QED BY <1>1, <1>5, <1>6, <1>7, <1>8, <1>9

LEMMA ReturnTypes ==
  ASSUME Types, NEW t \in Threads, NEW o \in ObjectType, Return(t, o)
  PROVE  Types'
  <1>1. ObjectsOK'  BY DEF Types, ObjectsOK, Return
  <1>2. CallOK'  BY RecordTypes DEF Types, CallOK, Return
  <1>3. Engaged'  BY DEF Types, CallOK, Engaged, Return
  <1> QED BY <1>1, <1>2, <1>3 DEF Types

LEMMA GotoTypes ==
  ASSUME Types, NEW t \in Threads, ~Idle(t), NEW pc \in {"tcache", "create", "jemalloc", "count"},
         Goto(t, pc), NEW o \in ObjectType,
         objects' = objects \/ objects' = [objects EXCEPT ![call[t].obj] = o]
  PROVE  Types'
  <1>1. ObjectsOK'  BY DEF Types, ObjectsOK
  <1>2. [call[t] EXCEPT !.pc = pc] \in CallType  BY DEF Types, CallOK, CallType
  <1>3. CallOK'  BY <1>2 DEF Types, CallOK, Goto
  <1>4. Engaged'
    <2>1. call[t].obj \in Objects  BY DEF Types, Engaged, Idle, NoCall
    <2>2. [call[t] EXCEPT !.pc = pc].obj = call[t].obj  BY DEF Types, CallOK, CallType
    <2> QED BY <2>1, <2>2 DEF Types, CallOK, Engaged, Goto
  <1> QED BY <1>1, <1>3, <1>4 DEF Types

----
(* Where the blocks are.                                                   *)

BlocksOK ==
  /\ blocks \subseteq [ptr : Nat, size : Nat \ {0}]
  /\ \A b \in blocks : b.ptr + b.size <= next_free
  /\ \A b, c \in blocks : b # c => Contract!Disjoint(b, c)

\* What jemalloc was given lies below the free memory, and the capacity is accounted for.
BumpOK ==
  /\ kind \in {"huge", "simple", "destroyed"}
  /\ next_free \in 0 .. CAPACITY /\ remaining_capacity \in 0 .. CAPACITY
  /\ kind = "huge" => next_free + remaining_capacity = CAPACITY
  /\ arena \subseteq 0 .. next_free - 1

\* jemalloc is never asked for nothing.
AsksForSomething ==
  \A t \in Threads :
    call[t].op = "allocate" /\ call[t].pc \in {"tcache", "create", "jemalloc"} => call[t].new > 0

Space == BlocksOK /\ BumpOK /\ AsksForSomething

\* Putting a block where nothing is, in place of the old ones.
LEMMA BlockPlaced ==
  ASSUME BlocksOK, BumpOK, NEW old, NEW b \in [ptr : Nat, size : Nat \ {0}],
         \A c \in blocks \ old : Contract!Disjoint(b, c),
         next_free' \in next_free .. CAPACITY, b.ptr + b.size <= next_free',
         blocks' = (blocks \ old) \cup {b}
  PROVE  BlocksOK'
  <1>2. \A c \in blocks' : c.ptr + c.size <= next_free'  BY DEF BlocksOK, BumpOK
  <1>3. \A c \in blocks \ old : Contract!Disjoint(c, b)  BY DEF Contract!Disjoint
  <1>4. \A c, d \in blocks' : c # d => Contract!Disjoint(c, d)  BY <1>3 DEF BlocksOK
  <1> QED BY <1>2, <1>4 DEF BlocksOK

\* Fewer blocks are as good.
LEMMA BlocksRemoved ==
  ASSUME BlocksOK, blocks' \subseteq blocks, next_free' = next_free
  PROVE  BlocksOK'
  BY DEF BlocksOK

\* Memory above the start of the free memory is not in use.
LEMMA FreshIsDisjoint ==
  ASSUME BlocksOK, BumpOK, NEW b \in [ptr : Nat, size : Nat \ {0}], b.ptr >= next_free
  PROVE  \A c \in blocks : Contract!Disjoint(b, c)
  BY DEF BlocksOK, BumpOK, Contract!Disjoint
----
(* The steps.                                                              *)

IInv == Types /\ Space

\* The pool keeps its memory, and the calls stay as they should be.
Quiet ==
  /\ UNCHANGED <<blocks, next_free, remaining_capacity, arena, kind>>
  /\ Types' /\ AsksForSomething'

LEMMA QuietStep ==
  ASSUME IInv, Quiet
  PROVE  IInv'
  <1>1. BlocksOK'  BY DEF Quiet, IInv, Space, BlocksOK
  <1>2. BumpOK'  BY DEF Quiet, IInv, Space, BumpOK
  <1> QED BY <1>1, <1>2 DEF Quiet, IInv, Space

\* A call that returns asks jemalloc for nothing more.
LEMMA ReturnAsks ==
  ASSUME IInv, NEW t \in Threads, NEW o, Return(t, o)
  PROVE  AsksForSomething'
  BY DEF IInv, Types, CallOK, Space, AsksForSomething, Return, NoCall

\* A call that goes on asks for what it asked for.
LEMMA GotoAsks ==
  ASSUME IInv, NEW t \in Threads, NEW pc, Goto(t, pc),
         call[t].op = "allocate" => pc = "count" \/ call[t].pc \in {"tcache", "create", "jemalloc"}
  PROVE  AsksForSomething'
  <1>1. \A u \in Threads : u # t => call'[u] = call[u]  BY DEF IInv, Types, CallOK, Goto
  <1>2. call'[t] = [call[t] EXCEPT !.pc = pc]  BY DEF IInv, Types, CallOK, Goto
  <1>3. call[t] \in CallType  BY DEF IInv, Types, CallOK
  <1>4. call'[t].op = call[t].op /\ call'[t].new = call[t].new /\ call'[t].pc = pc
    BY <1>2, <1>3 DEF CallType
  <1> QED BY <1>1, <1>4 DEF IInv, Space, AsksForSomething

LEMMA BeginStep ==
  ASSUME IInv, NEW t \in Threads, NEW o \in Objects, NEW op \in {"allocate", "reallocate", "free"},
         NEW old \in Nat, NEW new \in Nat, NEW alignment \in Nat \ {0},
         Begin(t, o, op, old, new, alignment), ObjectsOK'
  PROVE  IInv'
  <1> DEFINE c == [op |-> op, obj |-> o, old |-> old, new |-> new,
                   alignment |-> alignment, pc |-> "enter"]
  <1>1. c \in CallType  BY PoolAssumption DEF CallType, Objects
  <1>2. call' = [call EXCEPT ![t] = c]  BY DEF Begin
  <1>3. CallOK'  BY <1>1, <1>2 DEF IInv, Types, CallOK
  <1>4. Engaged'
    <2>1. c.obj \in Objects  OBVIOUS
    <2> QED BY <2>1, <1>2 DEF IInv, Types, CallOK, Engaged
  <1>5. AsksForSomething'
    <2>1. c.pc = "enter"  OBVIOUS
    <2> QED BY <2>1, <1>2 DEF IInv, Types, CallOK, Space, AsksForSomething
  <1>6. UNCHANGED <<blocks, next_free, remaining_capacity, arena, kind>>  BY DEF Begin, memoryVars
  <1>7. Quiet  BY <1>3, <1>4, <1>5, <1>6 DEF Quiet, Types
  <1> QED BY <1>7, QuietStep

----
(* The calls that place a block: where it lies.                            *)

\* A block of a call that asks for something.
LEMMA PlacedStep ==
  ASSUME IInv, NEW old, old = {} \/ \E c \in blocks : old = {c},
         NEW b \in [ptr : Nat, size : Nat \ {0}],
         \A c \in blocks \ old : Contract!Disjoint(b, c),
         next_free' \in next_free .. CAPACITY, b.ptr + b.size <= next_free',
         blocks' = (blocks \ old) \cup {b}
  PROVE  BlocksOK'
  <1>1. BlocksOK /\ BumpOK  BY DEF IInv, Space
  <1> QED BY <1>1, BlockPlaced

\* The linear allocator hands out what lies above the free start.
LEMMA LinearFacts ==
  ASSUME IInv, NEW n \in Nat \ {0}, NEW a \in Nat \ {0}, LinearAllocate(n, a)
  PROVE  /\ Block(LinearStart(a), n) \in [ptr : Nat, size : Nat \ {0}]
         /\ \A c \in blocks : Contract!Disjoint(Block(LinearStart(a), n), c)
         /\ next_free' \in next_free .. CAPACITY
         /\ LinearStart(a) + n <= next_free'
  <1>1. BlocksOK /\ BumpOK  BY DEF IInv, Space
  <1>2. next_free \in Nat /\ next_free <= CAPACITY /\ CAPACITY \in Nat
    BY <1>1, PoolAssumption DEF BumpOK
  <1>3. LinearStart(a) \in Nat /\ LinearStart(a) >= next_free  BY <1>2, AlignUpFacts DEF LinearStart
  <1>4. next_free' = LinearStart(a) + n /\ LinearStart(a) + n <= CAPACITY
    BY DEF LinearAllocate, LinearFits
  <1>5. Block(LinearStart(a), n) \in [ptr : Nat, size : Nat \ {0}]  BY <1>3 DEF Block
  <1>6. Block(LinearStart(a), n).ptr = LinearStart(a)  BY DEF Block
  <1>7. \A c \in blocks : Contract!Disjoint(Block(LinearStart(a), n), c)
    BY <1>1, <1>3, <1>5, <1>6, FreshIsDisjoint
  <1> QED BY <1>2, <1>3, <1>4, <1>5, <1>7

\* jemalloc's new memory lies above the free start, and becomes part of the arena.
LEMMA HookFacts ==
  ASSUME IInv, kind = "huge", UNCHANGED kind, NEW b \in [ptr : Nat, size : Nat \ {0}],
         NEW a \in Nat \ {0}, FromHook(b, a)
  PROVE  /\ \A c \in blocks : Contract!Disjoint(b, c)
         /\ next_free' \in next_free .. CAPACITY
         /\ b.ptr + b.size <= next_free'
         /\ BumpOK'
  <1>1. BlocksOK /\ BumpOK  BY DEF IInv, Space
  <1>2. PICK size \in ExtentSizes : size >= b.size /\ b.ptr = AlignUp(next_free, a) /\ HookAlloc(size, a)
    BY DEF FromHook
  <1> DEFINE p == AlignUp(next_free, a)
  <1>3. size \in Nat  BY HugePageAssumption
  <1>4. next_free \in Nat /\ remaining_capacity \in Nat /\ CAPACITY \in Nat
    BY <1>1, PoolAssumption DEF BumpOK
  <1>5. next_free + remaining_capacity = CAPACITY  BY <1>1 DEF BumpOK
  <1>6. p \in Nat /\ p >= next_free  BY <1>4, AlignUpFacts
  <1>7. /\ (p - next_free) + size <= remaining_capacity
        /\ remaining_capacity' = remaining_capacity - (p - next_free) - size
        /\ next_free' = p + size
        /\ arena' = arena \cup Area(p, size)
    BY <1>2 DEF HookAlloc, HookFits
  <1>8. b.ptr = p  BY <1>2
  <1> HIDE DEF p
  <1>9. next_free' \in next_free .. CAPACITY /\ remaining_capacity' \in 0 .. CAPACITY
    BY <1>3, <1>4, <1>5, <1>6, <1>7
  <1>10. next_free' + remaining_capacity' = CAPACITY  BY <1>3, <1>4, <1>5, <1>6, <1>7
  <1>11. b.size \in Nat /\ b.size <= size  BY <1>2
  <1>12. b.ptr + b.size <= next_free'  BY <1>3, <1>6, <1>7, <1>8, <1>11
  <1>13. arena' \subseteq 0 .. next_free' - 1
    <2>1. arena \subseteq 0 .. next_free - 1  BY <1>1 DEF BumpOK
    <2>2. Area(p, size) \subseteq 0 .. next_free' - 1  BY <1>3, <1>6, <1>7 DEF Area
    <2>3. next_free <= next_free' /\ next_free' \in Nat  BY <1>4, <1>9
    <2>4. 0 .. next_free - 1 \subseteq 0 .. next_free' - 1  BY <1>4, <2>3, IntervalGrows
    <2> QED BY <1>7, <2>1, <2>2, <2>4
  <1>14. BumpOK'
    <2>1. next_free' \in 0 .. CAPACITY  BY <1>4, <1>9
    <2> QED BY <1>9, <1>10, <1>13, <2>1 DEF BumpOK
  <1>15. b.ptr >= next_free  BY <1>6, <1>8
  <1>16. \A c \in blocks : Contract!Disjoint(b, c)  BY <1>1, <1>15, FreshIsDisjoint
  <1> QED BY <1>9, <1>12, <1>14, <1>16

\* What the arena holds is below the free start already.
LEMMA ArenaFacts ==
  ASSUME IInv, UNCHANGED kind, NEW b \in [ptr : Nat, size : Nat \ {0}],
         NEW a, NEW used, FromArena(b, a, used)
  PROVE  /\ \A c \in used : Contract!Disjoint(b, c)
         /\ next_free' \in next_free .. CAPACITY
         /\ b.ptr + b.size <= next_free'
         /\ BumpOK'
  <1>1. BumpOK  BY DEF IInv, Space
  <1>2. UNCHANGED <<next_free, remaining_capacity, arena>>  BY DEF FromArena
  <1>3. BumpOK'  BY <1>1, <1>2 DEF BumpOK
  <1>4. next_free \in Nat /\ next_free <= CAPACITY /\ CAPACITY \in Nat
    BY <1>1, PoolAssumption DEF BumpOK
  <1>5. b.ptr + b.size - 1 \in Area(b.ptr, b.size)  BY DEF Area
  <1>6. b.ptr + b.size - 1 \in 0 .. next_free - 1  BY <1>1, <1>5 DEF FromArena, BumpOK
  <1>7. b.ptr + b.size <= next_free'  BY <1>2, <1>4, <1>6
  <1>8. \A c \in used : Contract!Disjoint(b, c)  BY DEF FromArena, Contract!Disjoint
  <1> QED BY <1>2, <1>3, <1>4, <1>7, <1>8

\* A block from jemalloc, wherever it is from.
LEMMA JemallocStep ==
  ASSUME IInv, kind = "huge", UNCHANGED kind, NEW p \in Addr, NEW n \in Nat \ {0},
         NEW a \in Nat \ {0}, NEW used \in SUBSET blocks, NEW old,
         old = {} \/ \E c \in blocks : old = {c}, blocks \ old \subseteq used,
         FromArena(Block(p, n), a, used) \/ FromHook(Block(p, n), a),
         blocks' = (blocks \ old) \cup {Block(p, n)}
  PROVE  BlocksOK' /\ BumpOK'
  <1> DEFINE b == Block(p, n)
  <1>1. b \in [ptr : Nat, size : Nat \ {0}]  BY PoolAssumption DEF Block, Addr
  <1> HIDE DEF b
  <1>2. FromArena(b, a, used) \/ FromHook(b, a)  BY DEF b
  <1>3. /\ \A c \in blocks \ old : Contract!Disjoint(b, c)
        /\ next_free' \in next_free .. CAPACITY
        /\ b.ptr + b.size <= next_free'
        /\ BumpOK'
    <2>1. CASE FromArena(b, a, used)
      <3>1. /\ \A c \in used : Contract!Disjoint(b, c)
            /\ next_free' \in next_free .. CAPACITY
            /\ b.ptr + b.size <= next_free'
            /\ BumpOK'
        BY <1>1, <2>1, ArenaFacts
      <3> QED BY <3>1
    <2>2. CASE FromHook(b, a)
      <3>1. /\ \A c \in blocks : Contract!Disjoint(b, c)
            /\ next_free' \in next_free .. CAPACITY
            /\ b.ptr + b.size <= next_free'
            /\ BumpOK'
        BY <1>1, <2>2, HookFacts
      <3> QED BY <3>1
    <2> QED BY <1>2, <2>1, <2>2
  <1>4. blocks' = (blocks \ old) \cup {b}  BY DEF b
  <1> QED BY <1>1, <1>3, <1>4, PlacedStep

----
(* The steps that only free, or touch no block.                            *)

LEMMA RemovedStep ==
  ASSUME IInv, NEW b, blocks' = blocks \ {b}, UNCHANGED <<next_free, remaining_capacity, arena, kind>>
  PROVE  BlocksOK' /\ BumpOK'
  <1>1. BlocksOK'  BY BlocksRemoved DEF IInv, Space
  <1>2. BumpOK'  BY DEF IInv, Space, BumpOK
  <1> QED BY <1>1, <1>2

\* What a call asks for, typed.
LEMMA CallFacts ==
  ASSUME IInv, NEW t \in Threads
  PROVE  /\ call[t].new \in Nat /\ call[t].alignment \in Nat \ {0}
         /\ ~Idle(t) => call[t].obj \in Objects
  BY DEF IInv, Types, CallOK, CallType, Engaged, Idle, NoCall

\* The old block of a reallocation, as a set; none if there is no such block.
LEMMA OldBlock ==
  ASSUME NEW t
  PROVE  \E old : /\ old = {} \/ \E c \in blocks : old = {c}
                  /\ blocks \ {Target(t)} = blocks \ old
  <1>1. CASE Target(t) \in blocks
    <2> WITNESS {Target(t)}
    <2> QED BY <1>1
  <1>2. CASE Target(t) \notin blocks
    <2> WITNESS {}
    <2> QED BY <1>2
  <1> QED BY <1>1, <1>2

----
(* The simple pool.                                                        *)

LEMMA SimplePlaces ==
  ASSUME IInv, NEW t \in Threads, kind = "simple", call[t].new > 0,
         LinearAllocate(call[t].new, call[t].alignment),
         UNCHANGED <<kind, remaining_capacity, arena>>,
         NEW old, old = {} \/ \E c \in blocks : old = {c},
         blocks' = (blocks \ old) \cup {Block(LinearStart(call[t].alignment), call[t].new)}
  PROVE  BlocksOK' /\ BumpOK'
  <1> DEFINE n == call[t].new
             a == call[t].alignment
             b == Block(LinearStart(a), n)
  <1>1. n \in Nat \ {0} /\ a \in Nat \ {0}  BY CallFacts
  <1>2. LinearAllocate(n, a) /\ blocks' = (blocks \ old) \cup {b}  OBVIOUS
  <1>3. b.ptr = LinearStart(a) /\ b.size = n  BY DEF Block
  <1> HIDE DEF n, a
  <1>4. /\ b \in [ptr : Nat, size : Nat \ {0}]
        /\ \A c \in blocks : Contract!Disjoint(b, c)
        /\ next_free' \in next_free .. CAPACITY
        /\ LinearStart(a) + n <= next_free'
    BY <1>1, <1>2, LinearFacts
  <1> HIDE DEF b
  <1>5. BumpOK'
    <2>1. BumpOK /\ CAPACITY \in Nat  BY PoolAssumption DEF IInv, Space
    <2>2. next_free <= next_free' /\ next_free' \in 0 .. CAPACITY /\ next_free \in Nat
      BY <1>4, <2>1 DEF BumpOK
    <2>3. next_free' \in Nat  BY <2>2
    <2>4. 0 .. next_free - 1 \subseteq 0 .. next_free' - 1  BY <2>2, <2>3, IntervalGrows
    <2>5. arena' \subseteq 0 .. next_free' - 1  BY <2>1, <2>4 DEF BumpOK
    <2> QED BY <2>1, <2>2, <2>5 DEF BumpOK
  <1>6. \A c \in blocks \ old : Contract!Disjoint(b, c)  BY <1>4
  <1>7. b.ptr + b.size <= next_free'  BY <1>3, <1>4
  <1>8. BlocksOK'  BY <1>2, <1>4, <1>6, <1>7, PlacedStep
  <1> QED BY <1>5, <1>8

\* A call that returns with an object it may return.
LEMMA ReturnStep ==
  ASSUME IInv, NEW t \in Threads, NEW o \in ObjectType, Return(t, o)
  PROVE  Types' /\ AsksForSomething'
  <1>1. Types'  BY ReturnTypes DEF IInv
  <1>2. AsksForSomething'  BY ReturnAsks
  <1> QED BY <1>1, <1>2

\* Where the linear allocator starts is an address, or the end, if the block fits.
LEMMA LinearStartInPool ==
  ASSUME IInv, NEW n \in Nat, NEW a \in Nat \ {0}, LinearFits(n, a)
  PROVE  LinearStart(a) \in 0 .. CAPACITY
  <1>1. next_free \in Nat /\ CAPACITY \in Nat  BY PoolAssumption DEF IInv, Space, BumpOK
  <1>2. LinearStart(a) \in Nat  BY <1>1, AlignUpFacts DEF LinearStart
  <1> QED BY <1>1, <1>2 DEF LinearFits

LEMMA SimpleStep ==
  ASSUME IInv, NEW t \in Threads, SimpleCall(t)
  PROVE  IInv'
  <1>0. kind = "simple" /\ ~Idle(t)  BY DEF SimpleCall
  <1>1. call[t].new \in Nat /\ call[t].alignment \in Nat \ {0}  BY CallFacts
  <1>2. Types /\ CAPACITY \in Nat  BY PoolAssumption DEF IInv
  <1>3. \A p \in 0 .. CAPACITY :
          /\ Obj(t) \in ObjectType /\ Allocated(t, p) \in ObjectType
          /\ Reallocated(t, p) \in ObjectType
          /\ AllocateFailed(t) \in ObjectType /\ ReallocateFailed(t) \in ObjectType
    BY <1>0, <1>2, ResultTypes
  <1>4. ZeroSizePointer \in 0 .. CAPACITY  BY <1>2 DEF ZeroSizePointer
  <1>5. Obj(t) \in ObjectType /\ AllocateFailed(t) \in ObjectType /\ ReallocateFailed(t) \in ObjectType
    BY <1>3, <1>4
  <1> DEFINE p == LinearStart(call[t].alignment)
             n == call[t].new
  <1>6. LinearAllocate(n, call[t].alignment) => p \in 0 .. CAPACITY
    BY <1>1, LinearStartInPool DEF LinearAllocate
  <1>7. ASSUME Types', AsksForSomething', UNCHANGED <<blocks, next_free, remaining_capacity, arena, kind>>
        PROVE  IInv'
    BY <1>7, QuietStep DEF Quiet
  <1>8. ASSUME Types', AsksForSomething', BlocksOK', BumpOK'
        PROVE  IInv'
    BY <1>8 DEF IInv, Space
  <1>9. CASE SimpleAllocateNothing(t)
    <2>1. Return(t, Allocated(t, ZeroSizePointer))  BY <1>9 DEF SimpleAllocateNothing
    <2>2. Allocated(t, ZeroSizePointer) \in ObjectType  BY <1>3, <1>4
    <2>3. Types' /\ AsksForSomething'  BY <2>1, <2>2, ReturnStep
    <2>4. UNCHANGED <<blocks, next_free, remaining_capacity, arena, kind>>
      BY <1>9 DEF SimpleAllocateNothing, simpleRest
    <2> QED BY <1>7, <2>3, <2>4
  <1>10. CASE SimpleAllocate(t)
    <2>0. UNCHANGED <<kind, remaining_capacity, arena>> /\ n > 0
      BY <1>10 DEF SimpleAllocate, simpleRest
    <2>1. CASE LinearAllocate(n, call[t].alignment) /\ blocks' = blocks \cup {Block(p, n)}
               /\ Return(t, Allocated(t, p))
      <3>1. Allocated(t, p) \in ObjectType  BY <1>3, <1>6, <2>1
      <3>2. Types' /\ AsksForSomething'  BY <2>1, <3>1, ReturnStep
      <3>3. blocks' = (blocks \ {}) \cup {Block(p, n)}  BY <2>1
      <3>4. BlocksOK' /\ BumpOK'  BY <1>0, <2>0, <2>1, <3>3, SimplePlaces
      <3> QED BY <1>8, <3>2, <3>4
    <2>2. CASE /\ Return(t, IF call[t].op = "allocate" THEN AllocateFailed(t) ELSE Obj(t))
               /\ UNCHANGED <<blocks, next_free>>
      <3>1. (IF call[t].op = "allocate" THEN AllocateFailed(t) ELSE Obj(t)) \in ObjectType  BY <1>5
      <3>2. Types' /\ AsksForSomething'  BY <2>2, <3>1, ReturnStep
      <3> QED BY <1>7, <2>0, <2>2, <3>2
    <2> QED BY <1>10, <2>1, <2>2 DEF SimpleAllocate
  <1>11. CASE SimpleReallocate(t)
    <2>0. UNCHANGED <<kind, remaining_capacity, arena>> /\ n > 0  BY <1>11 DEF SimpleReallocate
    <2>1. CASE LinearAllocate(n, call[t].alignment)
               /\ blocks' = (blocks \ {Target(t)}) \cup {Block(p, n)}
               /\ Return(t, Reallocated(t, p))
      <3>1. Reallocated(t, p) \in ObjectType  BY <1>3, <1>6, <2>1
      <3>2. Types' /\ AsksForSomething'  BY <2>1, <3>1, ReturnStep
      <3>3. PICK old : /\ old = {} \/ \E c \in blocks : old = {c}
                       /\ blocks \ {Target(t)} = blocks \ old
        BY OldBlock
      <3>4. blocks' = (blocks \ old) \cup {Block(p, n)}  BY <2>1, <3>3
      <3>5. BlocksOK' /\ BumpOK'  BY <1>0, <2>0, <2>1, <3>3, <3>4, SimplePlaces
      <3> QED BY <1>8, <3>2, <3>5
    <2>2. CASE Return(t, ReallocateFailed(t)) /\ UNCHANGED <<blocks, next_free>>
      <3>1. Types' /\ AsksForSomething'  BY <1>5, <2>2, ReturnStep
      <3> QED BY <1>7, <2>0, <2>2, <3>1
    <2> QED BY <1>11, <2>1, <2>2 DEF SimpleReallocate
  <1>12. CASE SimpleFree(t)
    <2>0. UNCHANGED <<kind, remaining_capacity, arena>>  BY <1>12 DEF SimpleFree, simpleRest
    <2>1. Types' /\ AsksForSomething'
      <3>1. GivenBack(t) \in ObjectType  BY <1>0, <1>2, <1>4, ResultTypes
      <3>2. Return(t, GivenBack(t))  BY <1>12 DEF SimpleFree
      <3> QED BY <3>1, <3>2, ReturnStep
    <2>2. CASE UNCHANGED <<blocks, next_free>>  BY <1>7, <2>0, <2>1, <2>2
    <2>3. CASE LinearFree(Obj(t).ptr) /\ blocks' = blocks \ {Target(t)}
      <3>1. UNCHANGED <<next_free, remaining_capacity, arena, kind>>  BY <2>0, <2>3 DEF LinearFree
      <3>2. BlocksOK' /\ BumpOK'  BY <2>3, <3>1, RemovedStep
      <3> QED BY <2>1, <3>2 DEF IInv, Space
    <2> QED BY <1>12, <2>2, <2>3 DEF SimpleFree
  <1> QED BY <1>9, <1>10, <1>11, <1>12 DEF SimpleCall

----
(* The pool of huge pages.                                                 *)

LEMMA HugeEnterStep ==
  ASSUME IInv, NEW t \in Threads, ~Idle(t), HugeEnter(t)
  PROVE  IInv'
  <1>1. UNCHANGED <<blocks, next_free, remaining_capacity, arena, kind>>
    BY DEF HugeEnter, hugeMemory, hugeRest
  <1>2. CAPACITY \in Nat /\ Types  BY PoolAssumption DEF IInv
  <1>3. ZeroSizePointer \in 0 .. CAPACITY  BY <1>2 DEF ZeroSizePointer
  <1>4. Types' /\ AsksForSomething'
    <2>1. CASE /\ call[t].new > 0
               /\ call' = [call EXCEPT ![t].pc = "tcache",
                              ![t].op = IF Obj(t).ptr = ZeroSizePointer THEN "allocate" ELSE @]
               /\ UNCHANGED objects
      <3> DEFINE op == IF Obj(t).ptr = ZeroSizePointer THEN "allocate" ELSE call[t].op
                 c == [call[t] EXCEPT !.pc = "tcache", !.op = op]
      <3>1. call[t] \in CallType  BY DEF IInv, Types, CallOK
      <3>2. op \in {"none", "allocate", "reallocate", "free"}  BY <3>1 DEF CallType
      <3>3. c \in CallType /\ c.new = call[t].new /\ c.obj = call[t].obj  BY <3>1, <3>2 DEF CallType
      <3>4. call' = [call EXCEPT ![t] = c]  BY <2>1
      <3> HIDE DEF c
      <3>5. CallOK'  BY <3>3, <3>4 DEF IInv, Types, CallOK
      <3>6. c.obj \in Objects  BY <3>3, CallFacts
      <3>7. Engaged'  BY <3>4, <3>6 DEF IInv, Types, CallOK, Engaged
      <3>8. c.new > 0  BY <2>1, <3>3
      <3>9. AsksForSomething'  BY <3>4, <3>8 DEF IInv, Types, CallOK, Space, AsksForSomething
      <3>10. ObjectsOK'  BY <2>1 DEF IInv, Types, ObjectsOK
      <3> QED BY <3>5, <3>7, <3>9, <3>10 DEF Types
    <2>2. CASE GivesBack(t) /\ Goto(t, "tcache") /\ UNCHANGED objects
      <3>1. Types'  BY <1>2, <2>2, RecordTypes, GotoTypes
      <3>2. call[t].op # "allocate"  BY <2>2 DEF GivesBack
      <3>3. AsksForSomething'  BY <2>2, <3>2, GotoAsks
      <3> QED BY <3>1, <3>3
    <2>3. CASE Return(t, IF call[t].op = "free" THEN NoObject
                         ELSE IF call[t].op = "allocate" THEN Allocated(t, ZeroSizePointer)
                         ELSE Obj(t))
      <3>1. Allocated(t, ZeroSizePointer) \in ObjectType /\ Obj(t) \in ObjectType
        BY <1>2, <1>3, ResultTypes
      <3>2. (IF call[t].op = "free" THEN NoObject
             ELSE IF call[t].op = "allocate" THEN Allocated(t, ZeroSizePointer)
             ELSE Obj(t)) \in ObjectType
        BY <3>1, RecordTypes
      <3> QED BY <2>3, <3>2, ReturnStep
    <2> QED BY <2>1, <2>2, <2>3 DEF HugeEnter
  <1> QED BY <1>1, <1>4, QuietStep DEF Quiet

\* The thread cache is found or created; nothing else happens.
LEMMA TcacheStep ==
  ASSUME IInv, NEW t \in Threads, ~Idle(t), FindTcache(t) \/ CreateTcache(t)
  PROVE  IInv'
  <1>1. UNCHANGED <<blocks, next_free, remaining_capacity, arena, kind, objects>>
    BY DEF FindTcache, CreateTcache, hugeMemory, hugeRest
  <1>2. PICK pc \in {"jemalloc", "create"} : Goto(t, pc)  BY DEF FindTcache, CreateTcache
  <1>3. call[t].pc \in {"tcache", "create", "jemalloc"}  BY DEF FindTcache, CreateTcache, At
  <1>4. Types  BY DEF IInv
  <1>5. Types'  BY <1>1, <1>2, <1>4, GotoTypes, RecordTypes
  <1>6. AsksForSomething'  BY <1>2, <1>3, GotoAsks
  <1> QED BY <1>1, <1>5, <1>6, QuietStep DEF Quiet

\* What jemalloc gave is an object of its caller, and the call goes on to count it.
LEMMA GotoCount ==
  ASSUME IInv, NEW t \in Threads, ~Idle(t), NEW o \in ObjectType, Goto(t, "count"),
         objects' = [objects EXCEPT ![call[t].obj] = o]
  PROVE  Types' /\ AsksForSomething'
  <1>1. Types  BY DEF IInv
  <1>2. Types'  BY <1>1, GotoTypes
  <1>3. AsksForSomething'  BY GotoAsks
  <1> QED BY <1>2, <1>3

LEMMA MallocxStep ==
  ASSUME IInv, kind = "huge", NEW t \in Threads, ~Idle(t), Mallocx(t)
  PROVE  IInv'
  <1> DEFINE n == call[t].new
             a == call[t].alignment
  <1>0. UNCHANGED kind /\ At(t, "jemalloc") /\ call[t].op = "allocate"  BY DEF Mallocx, hugeRest
  <1>1. n \in Nat /\ a \in Nat \ {0}  BY CallFacts
  <1>2. n > 0  BY <1>0 DEF IInv, Space, AsksForSomething, At
  <1>3. Types /\ CAPACITY \in Nat  BY PoolAssumption DEF IInv
  <1>4. CASE \E p \in Addr :
               /\ FromArena(Block(p, n), a, blocks) \/ FromHook(Block(p, n), a)
               /\ blocks' = blocks \cup {Block(p, n)}
               /\ objects' = [objects EXCEPT ![call[t].obj] = Allocated(t, p)]
               /\ Goto(t, "count")
    <2>1. PICK p \in Addr :
               /\ FromArena(Block(p, n), a, blocks) \/ FromHook(Block(p, n), a)
               /\ blocks' = blocks \cup {Block(p, n)}
               /\ objects' = [objects EXCEPT ![call[t].obj] = Allocated(t, p)]
               /\ Goto(t, "count")
      BY <1>4
    <2>2. p \in 0 .. CAPACITY  BY <1>3 DEF Addr
    <2>3. Allocated(t, p) \in ObjectType  BY <1>3, <2>2, ResultTypes
    <2>4. Types' /\ AsksForSomething'  BY <2>1, <2>3, GotoCount
    <2>5. n \in Nat \ {0}  BY <1>1, <1>2
    <2>6. blocks' = (blocks \ {}) \cup {Block(p, n)} /\ blocks \ {} \subseteq blocks  BY <2>1
    <2> HIDE DEF n, a
    <2>7. BlocksOK' /\ BumpOK'  BY <1>0, <1>1, <2>1, <2>5, <2>6, JemallocStep
    <2> QED BY <2>4, <2>7 DEF IInv, Space
  <1>5. CASE Return(t, AllocateFailed(t)) /\ UNCHANGED hugeMemory
    <2>1. 0 \in 0 .. CAPACITY  BY <1>3
    <2>2. AllocateFailed(t) \in ObjectType  BY <1>3, <2>1, ResultTypes
    <2>3. Types' /\ AsksForSomething'  BY <1>5, <2>2, ReturnStep
    <2> QED BY <1>0, <1>5, <2>3, QuietStep DEF Quiet, hugeMemory
  <1> QED BY <1>4, <1>5 DEF Mallocx

LEMMA RallocxStep ==
  ASSUME IInv, kind = "huge", NEW t \in Threads, ~Idle(t), Rallocx(t)
  PROVE  IInv'
  <1> DEFINE n == call[t].new
             a == call[t].alignment
             Others(p) == IF p = Obj(t).ptr THEN blocks \ {Target(t)} ELSE blocks
  <1>0. UNCHANGED kind /\ n > 0  BY DEF Rallocx
  <1>1. n \in Nat /\ a \in Nat \ {0}  BY CallFacts
  <1>3. Types /\ CAPACITY \in Nat  BY PoolAssumption DEF IInv
  <1>4. CASE \E p \in Addr :
               /\ FromArena(Block(p, n), a, Others(p)) \/ FromHook(Block(p, n), a)
               /\ blocks' = (blocks \ {Target(t)}) \cup {Block(p, n)}
               /\ objects' = [objects EXCEPT ![call[t].obj] = Reallocated(t, p)]
               /\ Goto(t, "count")
    <2>1. PICK p \in Addr :
               /\ FromArena(Block(p, n), a, Others(p)) \/ FromHook(Block(p, n), a)
               /\ blocks' = (blocks \ {Target(t)}) \cup {Block(p, n)}
               /\ objects' = [objects EXCEPT ![call[t].obj] = Reallocated(t, p)]
               /\ Goto(t, "count")
      BY <1>4
    <2>2. p \in 0 .. CAPACITY  BY <1>3 DEF Addr
    <2>3. Reallocated(t, p) \in ObjectType  BY <1>3, <2>2, ResultTypes
    <2>4. Types' /\ AsksForSomething'  BY <2>1, <2>3, GotoCount
    <2>5. n \in Nat \ {0}  BY <1>0, <1>1
    <2>6. PICK old : /\ old = {} \/ \E c \in blocks : old = {c}
                     /\ blocks \ {Target(t)} = blocks \ old
      BY OldBlock
    <2>7. Others(p) \in SUBSET blocks /\ blocks \ old \subseteq Others(p)  BY <2>6
    <2>8. blocks' = (blocks \ old) \cup {Block(p, n)}  BY <2>1, <2>6
    <2> HIDE DEF n, a, Others
    <2>9. BlocksOK' /\ BumpOK'  BY <1>0, <1>1, <2>1, <2>5, <2>6, <2>7, <2>8, JemallocStep
    <2> QED BY <2>4, <2>9 DEF IInv, Space
  <1>5. CASE Return(t, ReallocateFailed(t)) /\ UNCHANGED hugeMemory
    <2>1. 0 \in 0 .. CAPACITY  BY <1>3
    <2>2. ReallocateFailed(t) \in ObjectType  BY <1>3, <2>1, ResultTypes
    <2>3. Types' /\ AsksForSomething'  BY <1>5, <2>2, ReturnStep
    <2> QED BY <1>0, <1>5, <2>3, QuietStep DEF Quiet, hugeMemory
  <1> QED BY <1>4, <1>5 DEF Rallocx

LEMMA DallocxStep ==
  ASSUME IInv, NEW t \in Threads, ~Idle(t), Dallocx(t)
  PROVE  IInv'
  <1>1. /\ blocks' = blocks \ {Target(t)}
        /\ UNCHANGED <<next_free, remaining_capacity, arena, kind>>
    BY DEF Dallocx, hugeRest
  <1>2. Types /\ ZeroSizePointer \in 0 .. CAPACITY  BY PoolAssumption DEF IInv, ZeroSizePointer
  <1>4. GivenBack(t) \in ObjectType  BY <1>2, ResultTypes
  <1>5. Return(t, GivenBack(t))  BY DEF Dallocx
  <1>6. Types' /\ AsksForSomething'  BY <1>4, <1>5, ReturnStep
  <1>7. BlocksOK' /\ BumpOK'  BY <1>1, RemovedStep
  <1> QED BY <1>6, <1>7 DEF IInv, Space

LEMMA JemallocOfNullStep ==
  ASSUME IInv, NEW t \in Threads, ~Idle(t), JemallocOfNull(t)
  PROVE  IInv'
  <1>1. UNCHANGED <<blocks, next_free, remaining_capacity, arena, kind>>
    BY DEF JemallocOfNull, hugeMemory
  <1>2. Types /\ 0 \in 0 .. CAPACITY  BY PoolAssumption DEF IInv
  <1>3. GivenBack(t) \in ObjectType /\ ReallocateFailed(t) \in ObjectType  BY <1>2, ResultTypes
  <1>4. Return(t, GivenBack(t)) \/ Return(t, ReallocateFailed(t))  BY DEF JemallocOfNull
  <1>5. Types' /\ AsksForSomething'  BY <1>3, <1>4, ReturnStep
  <1> QED BY <1>1, <1>5, QuietStep DEF Quiet

LEMMA CountStep ==
  ASSUME IInv, NEW t \in Threads, ~Idle(t), Count(t)
  PROVE  IInv'
  <1>1. UNCHANGED <<blocks, next_free, remaining_capacity, arena, kind>>
    BY DEF Count, hugeMemory, hugeRest
  <1>2. Types /\ 0 \in 0 .. CAPACITY  BY PoolAssumption DEF IInv
  <1>3. Obj(t) \in ObjectType  BY <1>2, ResultTypes
  <1>4. Types' /\ AsksForSomething'  BY <1>3, ReturnStep DEF Count
  <1> QED BY <1>1, <1>4, QuietStep DEF Quiet

LEMMA HugeStep ==
  ASSUME IInv, NEW t \in Threads, HugeCall(t)
  PROVE  IInv'
  <1>1. kind = "huge" /\ ~Idle(t)  BY DEF HugeCall
  <1>2. CASE HugeEnter(t)  BY <1>1, <1>2, HugeEnterStep
  <1>3. CASE FindTcache(t) \/ CreateTcache(t)  BY <1>1, <1>3, TcacheStep
  <1>4. CASE Mallocx(t)  BY <1>1, <1>4, MallocxStep
  <1>5. CASE Rallocx(t)  BY <1>1, <1>5, RallocxStep
  <1>6. CASE Dallocx(t)  BY <1>1, <1>6, DallocxStep
  <1>7. CASE JemallocOfNull(t)  BY <1>1, <1>7, JemallocOfNullStep
  <1>8. CASE Count(t)  BY <1>1, <1>8, CountStep
  <1> QED BY <1>2, <1>3, <1>4, <1>5, <1>6, <1>7, <1>8 DEF HugeCall

----
(* The callers of the pool, the manager and the end of the program.        *)

\* An object of a caller gets another use, and nothing else.
LEMMA UseTypes ==
  ASSUME ObjectsOK, NEW o \in Objects, NEW use \in Uses,
         objects' = [objects EXCEPT ![o].use = use]
  PROVE  ObjectsOK'
  <1>1. [objects[o] EXCEPT !.use = use] \in ObjectType  BY DEF ObjectsOK, ObjectType
  <1>2. objects' = [objects EXCEPT ![o] = [objects[o] EXCEPT !.use = use]]  BY DEF ObjectsOK
  <1> QED BY <1>1, <1>2 DEF ObjectsOK

LEMMA CallersStep ==
  ASSUME IInv, NEW t \in Threads, NEW o \in Objects, Callers(t, o)
  PROVE  IInv'
  <1>1. ObjectsOK  BY DEF IInv, Types
  <1>2. objects[o].size \in Nat /\ objects[o].capacity \in Nat  BY <1>1 DEF ObjectsOK, ObjectType
  <1>3. DEFAULT_ALIGNMENT \in Nat \ {0}  BY PoolAssumption
  <1>4. Sizes \subseteq Nat /\ Alignments \subseteq Nat \ {0} /\ Capacities \subseteq Nat
    BY HostAssumption
  <1>5. objects' = objects => ObjectsOK'  BY <1>1 DEF ObjectsOK
  <1>6. CASE AllocateInput(t, o)
    <2>1. PICK n \in Sizes, a \in Alignments : Begin(t, o, "allocate", 0, n, a)
      BY <1>6 DEF AllocateInput
    <2>2. n \in Nat /\ a \in Nat \ {0}  BY <1>4
    <2>3. ObjectsOK'  BY <1>1, <1>6, UseTypes DEF AllocateInput, Uses
    <2> QED BY <2>1, <2>2, <2>3, BeginStep
  <1>7. CASE ReallocateInput(t, o)
    <2>1. PICK n \in Sizes, a \in Alignments : Begin(t, o, "reallocate", objects[o].size, n, a)
      BY <1>7 DEF ReallocateInput
    <2>2. n \in Nat /\ a \in Nat \ {0}  BY <1>4
    <2>3. ObjectsOK'  BY <1>5, <1>7 DEF ReallocateInput
    <2> QED BY <1>2, <2>1, <2>2, <2>3, BeginStep
  <1>8. CASE AllocateOutput(t, o)
    <2>1. PICK n \in Capacities : Begin(t, o, "allocate", 0, n, DEFAULT_ALIGNMENT)
      BY <1>8 DEF AllocateOutput
    <2>2. n \in Nat  BY <1>4
    <2>3. ObjectsOK'  BY <1>1, <1>8, UseTypes DEF AllocateOutput, Uses
    <2> QED BY <1>3, <2>1, <2>2, <2>3, BeginStep
  <1>9. CASE ShrinkOutput(t, o)
    <2>1. ObjectsOK'  BY <1>5, <1>9 DEF ShrinkOutput
    <2>2. Begin(t, o, "reallocate", objects[o].capacity, objects[o].size, DEFAULT_ALIGNMENT)
      BY <1>9 DEF ShrinkOutput
    <2> QED BY <1>2, <1>3, <2>1, <2>2, BeginStep
  <1>10. CASE FreeInput(t, o)
    <2>1. ObjectsOK'  BY <1>5, <1>10 DEF FreeInput
    <2>2. Begin(t, o, "free", objects[o].size, 0, DEFAULT_ALIGNMENT)  BY <1>10 DEF FreeInput
    <2> QED BY <1>2, <1>3, <2>1, <2>2, BeginStep
  <1>11. CASE FreeOutput(t, o) \/ FreeEnqueued(t, o)
    <2>1. ObjectsOK'  BY <1>5, <1>11 DEF FreeOutput, FreeEnqueued
    <2>2. Begin(t, o, "free", objects[o].capacity, 0, DEFAULT_ALIGNMENT)
      BY <1>11 DEF FreeOutput, FreeEnqueued
    <2> QED BY <1>2, <1>3, <2>1, <2>2, BeginStep
  <1> QED BY <1>6, <1>7, <1>8, <1>9, <1>10, <1>11 DEF Callers

\* A step that is not about the pool leaves its calls alone.
LEMMA OtherStep ==
  ASSUME IInv, UNCHANGED <<blocks, next_free, remaining_capacity, arena, kind, call>>, ObjectsOK'
  PROVE  IInv'
  <1>1. Types'  BY DEF IInv, Types, CallOK, Engaged
  <1>2. AsksForSomething'  BY DEF IInv, Space, AsksForSomething
  <1> QED BY <1>1, <1>2, QuietStep DEF Quiet

LEMMA ManagerStep ==
  ASSUME IInv, NEW o \in Objects, Manager(o)
  PROVE  IInv'
  <1>1. ObjectsOK  BY DEF IInv, Types
  <1>2. CASE EnqueueOutput(o)
    <2>1. ObjectsOK'  BY <1>1, <1>2, UseTypes DEF EnqueueOutput, Uses
    <2> QED BY <1>2, <2>1, OtherStep DEF EnqueueOutput, memoryVars
  <1>3. CASE FpgaWrites(o)
    <2>1. PICK n \in 0 .. objects[o].capacity :
            objects' = [objects EXCEPT ![o].use = "written", ![o].size = n, ![o].valid = n]
      BY <1>3 DEF FpgaWrites
    <2>2. objects[o] \in ObjectType  BY <1>1 DEF ObjectsOK
    <2>3. n \in Nat  BY <2>2 DEF ObjectType
    <2>4. [objects[o] EXCEPT !.use = "written", !.size = n, !.valid = n] \in ObjectType
      BY <2>2, <2>3 DEF ObjectType, Uses
    <2>5. objects' = [objects EXCEPT ![o] = [objects[o] EXCEPT !.use = "written", !.size = n, !.valid = n]]
      BY <1>1, <2>1 DEF ObjectsOK
    <2>6. ObjectsOK'  BY <1>1, <2>4, <2>5 DEF ObjectsOK
    <2> QED BY <1>3, <2>6, OtherStep DEF FpgaWrites
  <1>4. CASE DeliverFullOutput(o)
    <2>1. ObjectsOK'  BY <1>1, <1>4, UseTypes DEF DeliverFullOutput, Uses
    <2> QED BY <1>4, <2>1, OtherStep DEF DeliverFullOutput, memoryVars
  <1> QED BY <1>2, <1>3, <1>4 DEF Manager

LEMMA DestroyPoolStep ==
  ASSUME IInv, DestroyPool
  PROVE  IInv'
  <1>1. /\ blocks' = {} /\ kind' = "destroyed"
        /\ UNCHANGED <<next_free, remaining_capacity, call>>
        /\ arena' = arena \/ arena' = {}
    BY DEF DestroyPool, SimpleDestroy, HugeDestroy
  <1>2. BlocksOK'  BY <1>1 DEF BlocksOK
  <1>3. BumpOK'  BY <1>1 DEF IInv, Space, BumpOK
  <1>4. ObjectsOK'  BY RecordTypes DEF IInv, Types, ObjectsOK, DestroyPool
  <1>5. Types' /\ AsksForSomething'
    BY <1>1, <1>4 DEF IInv, Types, CallOK, Engaged, Space, AsksForSomething
  <1> QED BY <1>2, <1>3, <1>5 DEF IInv, Space

----
(* The theorems.                                                           *)

LEMMA InitInv == Init => IInv
  <1> SUFFICES ASSUME Init PROVE IInv  OBVIOUS
  <1>1. CallOK /\ Engaged /\ AsksForSomething
    BY RecordTypes DEF Init, CallOK, Engaged, AsksForSomething, NoCall
  <1>2. [NoObject EXCEPT !.use = "none"] \in ObjectType  BY RecordTypes DEF ObjectType, Uses
  <1>3. ObjectsOK  BY <1>2 DEF Init, ObjectsOK
  <1>4. BlocksOK  BY DEF Init, BlocksOK
  <1>5. BumpOK  BY PoolAssumption, HostAssumption DEF Init, BumpOK
  <1> QED BY <1>1, <1>3, <1>4, <1>5 DEF IInv, Types, Space

LEMMA NextStep ==
  ASSUME IInv, [Next]_vars
  PROVE  IInv'
  <1>1. ASSUME NEW t \in Threads, Call(t)
        PROVE  IInv'
    BY <1>1, SimpleStep, HugeStep DEF Call
  <1>2. ASSUME NEW t \in Threads, NEW o \in Objects, Callers(t, o)
        PROVE  IInv'
    BY <1>2, CallersStep
  <1>3. ASSUME NEW o \in Objects, Manager(o)
        PROVE  IInv'
    BY <1>3, ManagerStep
  <1>4. objects' = objects => ObjectsOK'  BY DEF IInv, Types, ObjectsOK
  <1>8. CASE Posting
    <2>1. ASSUME NEW d \in Directions, Transfer(d)
          PROVE  IInv'
      BY <1>4, <2>1, OtherStep DEF Transfer
    <2>2. ASSUME NEW d \in Directions, NEW o \in Objects, PostTransfers(o, d)
          PROVE  IInv'
      BY <1>4, <2>2, OtherStep DEF PostTransfers, memoryVars
    <2> QED BY <1>8, <2>1, <2>2 DEF Posting
  <1>5. CASE PreMap \/ StartClosing \/ DestroyManager \/ DestroyTLBManager  BY <1>4, <1>5, OtherStep
    DEF PreMap, StartClosing, DestroyManager, DestroyTLBManager, memoryVars
  <1>6. CASE DestroyPool  BY <1>6, DestroyPoolStep
  <1>7. CASE UNCHANGED vars  BY <1>4, <1>7, OtherStep DEF vars, memoryVars
  <1> QED BY <1>1, <1>2, <1>3, <1>5, <1>6, <1>7, <1>8 DEF Next, Closing

\* What the padding and the extents of huge_page_alloc take is accounted for: the free
\* memory never leaves the huge pages, and nothing in use or in the arena lies above it.
THEOREM HugePagesAccounted == Spec => []BumpOK
  <1>1. Init => IInv  BY InitInv
  <1>2. IInv /\ [Next]_vars => IInv'  BY NextStep
  <1>3. IInv => BumpOK  BY DEF IInv, Space
  <1> QED BY <1>1, <1>2, <1>3, PTL DEF Spec

----
(* What the objects hold. The size of a block is the size of its object,   *)
(* but the manager keeps the capacity of an output until it is shrunk.     *)

BlockSize(x) == IF x.use \in {"written", "kept"} THEN x.capacity ELSE x.size
\* A pointer that shows no memory: to a block of no size, or nullptr after such a block
\* could not grow.
NoMemory(x) == x.ptr \in {ZeroSizePointer, NullPointer}
Held(x) == IF NoMemory(x) THEN {} ELSE Area(x.ptr, BlockSize(x))

Shape(x) ==
  /\ NoMemory(x) => x.size = 0 /\ x.capacity = 0
  /\ x.use \in {"none", "asked", "gone"} => x.ptr = ZeroSizePointer
  /\ x.ptr = NullPointer => x.use = "input" /\ kind # "simple"
  /\ x.valid <= x.size /\ x.size <= x.capacity
  /\ x.use \in {"input", "output", "enqueued"} => x.size = x.capacity

Holds(x, B) == ~NoMemory(x) => Block(x.ptr, BlockSize(x)) \in B
Full(m, x, o) == \A i \in 0 .. x.valid - 1 : m[x.ptr + i] = o

Shapes == \A o \in Objects : Shape(objects[o])
Owned == \A o \in Objects : Holds(objects[o], blocks)
Apart == \A o, p \in Objects : o # p => Held(objects[o]) \cap Held(objects[p]) = {}
MemOK == mem \in [Addr -> 0 .. MAX_OBJECTS]
DataInside == \A a \in Addr : mem[a] # 0 => a \in Held(objects[mem[a]])
Intact == \A o \in Objects : Full(mem, objects[o], o)

Data == Shapes /\ Owned /\ Apart /\ MemOK /\ DataInside /\ Intact

\* A step in which only one object changes, with its block and its data.
Replaces(o, r) ==
  /\ r \in ObjectType /\ Shape(r)
  /\ objects' = [objects EXCEPT ![o] = r]
  /\ Holds(r, blocks')
  /\ \A p \in Objects \ {o} : Holds(objects[p], blocks')
  /\ \A p \in Objects \ {o} : Held(objects[p]) \cap Held(r) = {}

Rewrites(o, r) ==
  /\ MemOK'
  /\ \A a \in Addr : a \notin Held(objects[o]) /\ a \notin Held(r) => mem'[a] = mem[a]
  /\ \A a \in Addr : a \in Held(objects[o]) \/ a \in Held(r) => mem'[a] \in {0, o}
  /\ \A a \in Addr : mem'[a] = o => a \in Held(r)
  /\ Full(mem', r, o)

\* A pointer into the pool, or to nothing, is not nullptr.
LEMMA PoolPointer ==
  ASSUME NEW x, x.ptr \in 0 .. CAPACITY
  PROVE  /\ x.ptr # NullPointer
         /\ NoMemory(x) <=> x.ptr = ZeroSizePointer
         /\ x.ptr \in Addr => ~NoMemory(x)
  BY PoolAssumption DEF NoMemory, NullPointer, ZeroSizePointer, Addr

\* An object of this shape is what its type and its block say.
LEMMA ObjectFacts ==
  ASSUME NEW x \in ObjectType, Shape(x)
  PROVE  /\ x.ptr \in Nat /\ x.size \in Nat /\ x.capacity \in Nat /\ x.valid \in Nat
         /\ x.use \in Uses
         /\ BlockSize(x) \in Nat /\ x.size <= BlockSize(x) /\ x.valid <= BlockSize(x)
         /\ BlockSize(x) <= x.capacity
         /\ NoMemory(x) => x.valid = 0 /\ BlockSize(x) = 0
  <1>1. CAPACITY \in Nat  BY PoolAssumption
  <1>2. x.ptr \in Nat /\ x.size \in Nat /\ x.capacity \in Nat /\ x.valid \in Nat /\ x.use \in Uses
    BY <1>1 DEF ObjectType
  <1> QED BY <1>2 DEF Shape, BlockSize

LEMMA HeldFacts ==
  ASSUME BlocksOK, BumpOK, NEW x \in ObjectType, Shape(x), Holds(x, blocks)
  PROVE  /\ Held(x) \subseteq Addr
         /\ \A i \in 0 .. x.valid - 1 : x.ptr + i \in Held(x)
         /\ ~NoMemory(x) => x.ptr \in Held(x) /\ BlockSize(x) > 0
  <1>1. /\ x.ptr \in Nat /\ x.valid \in Nat /\ BlockSize(x) \in Nat /\ x.valid <= BlockSize(x)
        /\ NoMemory(x) => x.valid = 0
    BY ObjectFacts
  <1>2. CASE NoMemory(x)  BY <1>1, <1>2 DEF Held
  <1>3. CASE ~NoMemory(x)
    <2>1. Block(x.ptr, BlockSize(x)) \in blocks  BY <1>3 DEF Holds
    <2>2. BlockSize(x) > 0 /\ x.ptr + BlockSize(x) <= next_free  BY <2>1 DEF BlocksOK, Block
    <2>3. next_free <= CAPACITY /\ next_free \in Nat /\ CAPACITY \in Nat
      BY PoolAssumption DEF BumpOK
    <2>4. Held(x) = x.ptr .. x.ptr + BlockSize(x) - 1  BY <1>3 DEF Held, Area
    <2>5. Held(x) \subseteq Addr  BY <1>1, <2>2, <2>3, <2>4 DEF Addr
    <2> QED BY <1>1, <2>2, <2>4, <2>5
  <1> QED BY <1>2, <1>3

LEMMA ReplacedAt ==
  ASSUME ObjectsOK, NEW o \in Objects, NEW r, objects' = [objects EXCEPT ![o] = r]
  PROVE  objects'[o] = r /\ \A p \in Objects : p # o => objects'[p] = objects[p]
  BY DEF ObjectsOK

\* The data of all objects survives a step that changes one of them.
LEMMA DataStep ==
  ASSUME IInv, IInv', Data, UNCHANGED kind, NEW o \in Objects, NEW r,
         Replaces(o, r), Rewrites(o, r)
  PROVE  Data'
  <1>0. ObjectsOK /\ BlocksOK /\ BumpOK  BY DEF IInv, Types, Space
  <1>1. objects'[o] = r /\ \A p \in Objects : p # o => objects'[p] = objects[p]
    BY <1>0, ReplacedAt DEF Replaces
  <1>2. Shapes'  BY <1>1 DEF Data, Shapes, Replaces, Shape, NoMemory, ZeroSizePointer, NullPointer
  <1>3. Owned'  BY <1>1 DEF Replaces, Owned
  <1>4. Apart'  BY <1>1 DEF Data, Apart, Replaces
  <1>5. MemOK /\ MemOK'  BY DEF Data, Rewrites
  <1>6. ASSUME NEW p \in Objects, p # o, NEW a \in Held(objects[p])
        PROVE  a \in Addr /\ mem'[a] = mem[a]
    <2>1. objects[p] \in ObjectType /\ Shape(objects[p]) /\ Holds(objects[p], blocks)
      BY <1>0 DEF ObjectsOK, Data, Shapes, Owned
    <2>2. a \in Addr  BY <1>0, <1>6, <2>1, HeldFacts
    <2>3. a \notin Held(objects[o]) /\ a \notin Held(r)  BY <1>6 DEF Data, Apart, Replaces
    <2> QED BY <2>2, <2>3 DEF Rewrites
  <1>7. DataInside'
    <2> SUFFICES ASSUME NEW a \in Addr, mem'[a] # 0
                 PROVE  a \in Held(objects'[mem'[a]])
      BY DEF DataInside, Held, Area, BlockSize, ZeroSizePointer
    <2>1. CASE mem'[a] = o  BY <1>1, <2>1 DEF Rewrites
    <2>2. CASE mem'[a] # o
      <3>1. mem'[a] = mem[a]  BY <2>2 DEF Rewrites
      <3>2. mem[a] \in Objects  BY <1>5, <3>1, PoolAssumption DEF MemOK, Objects
      <3> QED BY <1>1, <2>2, <3>1, <3>2 DEF Data, DataInside
    <2> QED BY <2>1, <2>2
  <1>8. Intact'
    <2> SUFFICES ASSUME NEW p \in Objects PROVE Full(mem', objects'[p], p)  BY DEF Intact, Full
    <2>1. CASE p = o  BY <1>1, <2>1 DEF Rewrites
    <2>2. CASE p # o
      <3>1. objects[p] \in ObjectType /\ Shape(objects[p]) /\ Holds(objects[p], blocks)
        BY <1>0 DEF ObjectsOK, Data, Shapes, Owned
      <3>2. \A i \in 0 .. objects[p].valid - 1 : objects[p].ptr + i \in Held(objects[p])
        BY <1>0, <3>1, HeldFacts
      <3>3. Full(mem, objects[p], p)  BY DEF Data, Intact
      <3> QED BY <1>1, <1>6, <2>2, <3>2, <3>3 DEF Full
    <2> QED BY <2>1, <2>2
  <1> QED BY <1>2, <1>3, <1>4, <1>5, <1>7, <1>8 DEF Data

----
(* What a step may do to the block and the data of its object.             *)

\* A block holds data of its object only, and free memory holds none.
LEMMA OnlyOwnData ==
  ASSUME Data, NEW o \in Objects, NEW a \in Addr,
         \A p \in Objects : p # o => a \notin Held(objects[p])
  PROVE  mem[a] \in {0, o} /\ (mem[a] = o => a \in Held(objects[o]))
  <1>1. mem[a] \in 0 .. MAX_OBJECTS  BY DEF Data, MemOK
  <1>2. mem[a] # 0 => mem[a] \in Objects  BY <1>1, PoolAssumption DEF Objects
  <1>3. mem[a] # 0 => a \in Held(objects[mem[a]])  BY DEF Data, DataInside
  <1>4. CASE mem[a] = 0
    <2>1. o # 0  BY PoolAssumption DEF Objects
    <2> QED BY <1>4, <2>1
  <1>5. CASE mem[a] # 0
    <2>1. mem[a] \in Objects /\ a \in Held(objects[mem[a]])  BY <1>2, <1>3, <1>5
    <2>2. mem[a] = o  BY <2>1
    <2> QED BY <2>1, <2>2
  <1> QED BY <1>4, <1>5

LEMMA HeldIsApart ==
  ASSUME Data, NEW o \in Objects, NEW a \in Held(objects[o])
  PROVE  \A p \in Objects : p # o => a \notin Held(objects[p])
  BY DEF Data, Apart

\* The object is another one, with the same block, which keeps its data.
LEMMA KeepsBlock ==
  ASSUME IInv, Data, NEW o \in Objects, NEW r \in ObjectType, Shape(r),
         objects' = [objects EXCEPT ![o] = r], UNCHANGED <<blocks, mem>>,
         r.ptr = objects[o].ptr \/ (NoMemory(r) /\ NoMemory(objects[o])),
         BlockSize(r) = BlockSize(objects[o]), r.valid <= objects[o].valid
  PROVE  Replaces(o, r) /\ Rewrites(o, r)
  <1>0. ObjectsOK /\ objects[o] \in ObjectType /\ Shape(objects[o])
    BY DEF IInv, Types, ObjectsOK, Data, Shapes
  <1>1. Held(r) = Held(objects[o])  BY DEF Held, NoMemory
  <1>2. Holds(r, blocks')  BY DEF Data, Owned, Holds, NoMemory
  <1>3. \A p \in Objects \ {o} : Holds(objects[p], blocks')  BY DEF Data, Owned, Holds
  <1>4. \A p \in Objects \ {o} : Held(objects[p]) \cap Held(r) = {}  BY <1>1 DEF Data, Apart
  <1>5. Replaces(o, r)  BY <1>2, <1>3, <1>4 DEF Replaces
  <1>6. MemOK'  BY DEF Data, MemOK
  <1>7. \A a \in Addr : a \in Held(objects[o]) => mem'[a] \in {0, o}  BY OnlyOwnData, HeldIsApart
  <1>8. \A a \in Addr : mem'[a] = o => a \in Held(r)
    <2>1. o # 0  BY PoolAssumption DEF Objects
    <2> QED BY <1>1, <2>1 DEF Data, DataInside
  <1>9. Full(mem', r, o)
    <2>1. r.valid \in Nat /\ objects[o].valid \in Nat
          /\ (NoMemory(r) => r.valid = 0)
      BY <1>0, ObjectFacts
    <2>2. CASE r.ptr = objects[o].ptr  BY <2>1, <2>2 DEF Data, Intact, Full
    <2>3. CASE NoMemory(r)  BY <2>1, <2>3 DEF Full
    <2> QED BY <2>2, <2>3
  <1>10. Rewrites(o, r)  BY <1>1, <1>6, <1>7, <1>8, <1>9 DEF Rewrites
  <1> QED BY <1>5, <1>10

\* A block beside the ones in use holds nothing that an object holds.
LEMMA BesideHeld ==
  ASSUME IInv, Data, NEW p \in Objects, NEW old, NEW b \in [ptr : Nat, size : Nat \ {0}],
         \A c \in blocks \ old : Contract!Disjoint(b, c),
         Block(objects[p].ptr, BlockSize(objects[p])) \notin old
  PROVE  Held(objects[p]) \cap Area(b.ptr, b.size) = {}
  <1>1. CASE NoMemory(objects[p])  BY <1>1 DEF Held
  <1>2. CASE ~NoMemory(objects[p])
    <2> DEFINE c == Block(objects[p].ptr, BlockSize(objects[p]))
    <2>1. c \in blocks \ old  BY <1>2 DEF Data, Owned, Holds
    <2>2. c.ptr = objects[p].ptr /\ c.size = BlockSize(objects[p])  BY DEF Block
    <2>3. Contract!Disjoint(b, c)  BY <2>1
    <2>4. c.ptr \in Nat /\ c.size \in Nat  BY <2>1 DEF IInv, Space, BlocksOK
    <2>5. Held(objects[p]) = Area(c.ptr, c.size)  BY <1>2, <2>2 DEF Held
    <2> HIDE DEF c
    <2>6. Area(c.ptr, c.size) \cap Area(b.ptr, b.size) = {}
      BY <2>3, <2>4 DEF Contract!Disjoint, Area
    <2> QED BY <2>5, <2>6
  <1> QED BY <1>1, <1>2

\* Objects that hold something hold different blocks.
LEMMA OwnBlocks ==
  ASSUME IInv, Data, NEW o \in Objects, NEW p \in Objects, o # p,
         ~NoMemory(objects[o])
  PROVE  ~NoMemory(objects[p]) => objects[p].ptr # objects[o].ptr
  <1>1. BlocksOK /\ BumpOK  BY DEF IInv, Space
  <1>2. \A q \in Objects : objects[q] \in ObjectType /\ Shape(objects[q]) /\ Holds(objects[q], blocks)
    BY DEF IInv, Types, ObjectsOK, Data, Shapes, Owned
  <1>3. objects[o].ptr \in Held(objects[o])  BY <1>1, <1>2, HeldFacts
  <1>4. ~NoMemory(objects[p]) => objects[p].ptr \in Held(objects[p])  BY <1>1, <1>2, HeldFacts
  <1>5. Held(objects[o]) \cap Held(objects[p]) = {}  BY DEF Data, Apart
  <1> QED BY <1>3, <1>4, <1>5

\* The object gets a block where nothing is, and may fill it.
LEMMA PlacesBlock ==
  ASSUME IInv, IInv', Data, NEW o \in Objects, NEW r \in ObjectType, Shape(r),
         objects' = [objects EXCEPT ![o] = r], NoMemory(objects[o]),
         NEW b \in [ptr : Nat, size : Nat \ {0}], \A c \in blocks : Contract!Disjoint(b, c),
         blocks' = blocks \cup {b}, r.ptr = b.ptr, BlockSize(r) = b.size, ~NoMemory(b),
         \/ r.valid = 0 /\ mem' = mem
         \/ r.valid = b.size /\ mem' = Fill(mem, o, b.ptr, b.size)
  PROVE  Replaces(o, r) /\ Rewrites(o, r)
  <1>1. Held(objects[o]) = {} /\ Held(r) = Area(b.ptr, b.size)  BY DEF Held, NoMemory
  <1>2. b = Block(b.ptr, b.size)  BY DEF Block
  <1>3. \A p \in Objects \ {o} : Held(objects[p]) \cap Held(r) = {}  BY <1>1, BesideHeld
  <1>4. Replaces(o, r)
    <2>1. Holds(r, blocks')  BY <1>2 DEF Holds
    <2>2. \A p \in Objects \ {o} : Holds(objects[p], blocks')  BY DEF Data, Owned, Holds
    <2> QED BY <1>3, <2>1, <2>2 DEF Replaces
  <1>5. \A a \in Addr : a \in Held(r) => mem[a] \in {0, o}  BY <1>1, <1>3, OnlyOwnData
  <1>6. \A a \in Addr : mem[a] # o
    <2>1. o # 0  BY PoolAssumption DEF Objects
    <2> QED BY <1>1, <2>1 DEF Data, DataInside
  <1>7. MAX_OBJECTS \in Nat /\ o \in 0 .. MAX_OBJECTS  BY PoolAssumption DEF Objects
  <1>8. CASE r.valid = 0 /\ mem' = mem
    <2>1. MemOK'  BY <1>8 DEF Data, MemOK
    <2>2. Full(mem', r, o)  BY <1>8 DEF Full
    <2>3. Rewrites(o, r)  BY <1>1, <1>5, <1>6, <1>8, <2>1, <2>2 DEF Rewrites
    <2> QED BY <1>4, <2>3
  <1>9. CASE r.valid = b.size /\ mem' = Fill(mem, o, b.ptr, b.size)
    <2>1. \A a \in Addr : mem'[a] = IF a \in Held(r) THEN o ELSE mem[a]  BY <1>1, <1>9 DEF Fill
    <2>2. MemOK'  BY <1>7, <1>9 DEF Data, MemOK, Fill
    <2>3. \A i \in 0 .. r.valid - 1 : r.ptr + i \in Held(r) /\ r.ptr + i \in Addr
      <3>1. b.ptr + b.size <= next_free' /\ next_free' <= CAPACITY /\ next_free' \in Nat
        BY PoolAssumption DEF IInv, Space, BlocksOK, BumpOK
      <3>2. CAPACITY \in Nat /\ b.ptr \in Nat /\ b.size \in Nat  BY PoolAssumption
      <3> QED BY <1>1, <1>9, <3>1, <3>2 DEF Area, Addr
    <2>4. Full(mem', r, o)  BY <2>1, <2>3 DEF Full
    <2>5. Rewrites(o, r)  BY <1>1, <1>6, <2>1, <2>2, <2>4 DEF Rewrites
    <2> QED BY <1>4, <2>5
  <1> QED BY <1>8, <1>9

\* The object's block goes, with its data.
LEMMA ReleasesBlock ==
  ASSUME IInv, Data, NEW o \in Objects, NEW r \in ObjectType, Shape(r),
         objects' = [objects EXCEPT ![o] = r], NoMemory(r),
         ~NoMemory(objects[o]),
         NEW b, b = Block(objects[o].ptr, BlockSize(objects[o])),
         blocks' = blocks \ {b}, mem' = Fill(mem, 0, b.ptr, b.size)
  PROVE  Replaces(o, r) /\ Rewrites(o, r)
  <1>1. b.ptr = objects[o].ptr /\ b.size = BlockSize(objects[o])  BY DEF Block
  <1>2. Held(r) = {} /\ Held(objects[o]) = Area(b.ptr, b.size)  BY <1>1 DEF Held
  <1>3. \A p \in Objects \ {o} : Holds(objects[p], blocks')
    <2> SUFFICES ASSUME NEW p \in Objects, p # o, ~NoMemory(objects[p])
                 PROVE  Block(objects[p].ptr, BlockSize(objects[p])) \in blocks'
      BY DEF Holds
    <2> DEFINE c == Block(objects[p].ptr, BlockSize(objects[p]))
    <2>1. c \in blocks /\ c.ptr = objects[p].ptr  BY DEF Data, Owned, Holds, Block
    <2>2. c.ptr # b.ptr  BY <1>1, <2>1, OwnBlocks
    <2> QED BY <2>1, <2>2
  <1>4. Replaces(o, r)  BY <1>2, <1>3 DEF Replaces, Holds
  <1>5. r.valid = 0  BY ObjectFacts
  <1>6. \A a \in Addr : mem'[a] = IF a \in Held(objects[o]) THEN 0 ELSE mem[a]  BY <1>2 DEF Fill
  <1>7. MemOK'  BY PoolAssumption DEF Data, MemOK, Fill
  <1>8. \A a \in Addr : mem'[a] # o
    <2>1. o # 0  BY PoolAssumption DEF Objects
    <2> QED BY <1>6, <2>1 DEF Data, DataInside
  <1>9. Full(mem', r, o)  BY <1>5 DEF Full
  <1>10. Rewrites(o, r)  BY <1>2, <1>6, <1>7, <1>8, <1>9 DEF Rewrites
  <1> QED BY <1>4, <1>10

\* Data of the object is written into its block.
LEMMA WritesBlock ==
  ASSUME IInv, Data, NEW o \in Objects, NEW r \in ObjectType, Shape(r),
         objects' = [objects EXCEPT ![o] = r], UNCHANGED blocks,
         r.ptr = objects[o].ptr, BlockSize(r) = BlockSize(objects[o]),
         NEW p \in Nat, NEW n \in Nat, Area(p, n) \subseteq Held(objects[o]),
         mem' = Fill(mem, o, p, n),
         r.valid <= objects[o].valid \/ (r.ptr = p /\ r.valid = n)
  PROVE  Replaces(o, r) /\ Rewrites(o, r)
  <1>0. ObjectsOK /\ objects[o] \in ObjectType /\ Shape(objects[o])
    BY DEF IInv, Types, ObjectsOK, Data, Shapes
  <1>1. Held(r) = Held(objects[o])  BY DEF Held, NoMemory
  <1>2. Holds(r, blocks')  BY DEF Data, Owned, Holds, NoMemory
  <1>3. \A q \in Objects \ {o} : Holds(objects[q], blocks')  BY DEF Data, Owned, Holds
  <1>4. \A q \in Objects \ {o} : Held(objects[q]) \cap Held(r) = {}  BY <1>1 DEF Data, Apart
  <1>5. Replaces(o, r)  BY <1>2, <1>3, <1>4 DEF Replaces
  <1>6. \A a \in Addr : mem'[a] = IF a \in Area(p, n) THEN o ELSE mem[a]  BY DEF Fill
  <1>7. MAX_OBJECTS \in Nat /\ o \in 0 .. MAX_OBJECTS /\ o # 0  BY PoolAssumption DEF Objects
  <1>8. MemOK'  BY <1>7 DEF Data, MemOK, Fill
  <1>9. \A a \in Addr : a \in Held(objects[o]) => mem[a] \in {0, o}  BY OnlyOwnData, HeldIsApart
  <1>10. \A a \in Addr : mem[a] = o => a \in Held(objects[o])  BY <1>7 DEF Data, DataInside
  <1>11. BlocksOK /\ BumpOK /\ Holds(objects[o], blocks)  BY DEF IInv, Space, Data, Owned
  <1>12. Held(objects[o]) \subseteq Addr  BY <1>0, <1>11, HeldFacts
  <1>13. Full(mem', r, o)
    <2>1. CASE r.valid <= objects[o].valid
      <3>1. r.valid \in Nat /\ objects[o].valid \in Nat  BY <1>0, ObjectFacts
      <3>2. \A i \in 0 .. r.valid - 1 : i \in 0 .. objects[o].valid - 1  BY <2>1, <3>1
      <3>3. \A i \in 0 .. r.valid - 1 : objects[o].ptr + i \in Addr /\ mem[objects[o].ptr + i] = o
        BY <1>0, <1>11, <1>12, <3>2, HeldFacts DEF Data, Intact, Full
      <3> QED BY <1>6, <3>3 DEF Full
    <2>2. CASE r.ptr = p /\ r.valid = n
      <3>1. \A i \in 0 .. n - 1 : p + i \in Area(p, n)  BY DEF Area
      <3> QED BY <1>6, <1>12, <2>2, <3>1 DEF Full
    <2> QED BY <2>1, <2>2
  <1>14. Rewrites(o, r)  BY <1>1, <1>6, <1>8, <1>9, <1>10, <1>13 DEF Rewrites
  <1> QED BY <1>5, <1>14

\* The block moves, and its data with it, as much of it as fits.
LEMMA MovesBlock ==
  ASSUME IInv, IInv', Data, NEW o \in Objects, NEW r \in ObjectType, Shape(r),
         objects' = [objects EXCEPT ![o] = r], ~NoMemory(objects[o]),
         NEW old, old = Block(objects[o].ptr, BlockSize(objects[o])),
         NEW b \in [ptr : Nat, size : Nat \ {0}],
         \A c \in blocks \ {old} : Contract!Disjoint(b, c),
         blocks' = (blocks \ {old}) \cup {b}, ~NoMemory(b),
         r.ptr = b.ptr, BlockSize(r) = b.size, r.valid <= objects[o].valid,
         NEW n \in Nat, n <= b.size, n <= old.size, r.valid <= n,
         mem' = Copy(mem, old, b.ptr, n)
  PROVE  Replaces(o, r) /\ Rewrites(o, r)
  <1>0. ObjectsOK /\ objects[o] \in ObjectType /\ Shape(objects[o])
    BY DEF IInv, Types, ObjectsOK, Data, Shapes
  <1>1. old.ptr = objects[o].ptr /\ old.size = BlockSize(objects[o])  BY DEF Block
  <1>2. Held(r) = Area(b.ptr, b.size) /\ Held(objects[o]) = Area(old.ptr, old.size)
    BY <1>1 DEF Held, NoMemory
  <1>3. b = Block(b.ptr, b.size)  BY DEF Block
  <1>4. \A p \in Objects \ {o} : Block(objects[p].ptr, BlockSize(objects[p])) # old
                                 \/ NoMemory(objects[p])
    BY <1>1, OwnBlocks DEF Block
  <1>5. \A p \in Objects \ {o} : Held(objects[p]) \cap Held(r) = {}
    <2> SUFFICES ASSUME NEW p \in Objects, p # o PROVE Held(objects[p]) \cap Held(r) = {}  OBVIOUS
    <2>1. CASE NoMemory(objects[p])  BY <2>1 DEF Held
    <2>2. CASE ~NoMemory(objects[p])
      <3>1. Block(objects[p].ptr, BlockSize(objects[p])) \notin {old}  BY <1>4, <2>2
      <3> QED BY <1>2, <3>1, BesideHeld
    <2> QED BY <2>1, <2>2
  <1>6. Replaces(o, r)
    <2>1. Holds(r, blocks')  BY <1>3 DEF Holds
    <2>2. \A p \in Objects \ {o} : Holds(objects[p], blocks')  BY <1>4 DEF Data, Owned, Holds
    <2> QED BY <1>5, <2>1, <2>2 DEF Replaces
  <1> DEFINE From(a) == a - b.ptr + old.ptr
  <1>7. \A a \in Addr : mem'[a] = IF a \in Area(b.ptr, n) THEN mem[From(a)]
                                  ELSE IF a \in Held(objects[o]) THEN 0 ELSE mem[a]
    BY <1>2 DEF Copy
  <1>8. objects[o].ptr \in Nat /\ BlockSize(objects[o]) \in Nat  BY <1>0, ObjectFacts
  <1>9. BlocksOK /\ BumpOK /\ Holds(objects[o], blocks)  BY DEF IInv, Space, Data, Owned
  <1>10. Held(objects[o]) \subseteq Addr  BY <1>0, <1>9, HeldFacts
  <1>11. Area(b.ptr, n) \subseteq Held(r)  BY <1>2 DEF Area
  <1>12. \A a \in Area(b.ptr, n) : From(a) \in Held(objects[o])
    <2>1. b.ptr \in Nat /\ old.ptr \in Nat /\ old.size \in Nat /\ n \in Nat /\ n <= old.size
      BY <1>1, <1>8
    <2>2. \A a \in b.ptr .. b.ptr + n - 1 :
            a - b.ptr + old.ptr \in old.ptr .. old.ptr + old.size - 1
      BY <2>1
    <2> QED BY <1>2, <2>2 DEF Area
  <1>13. \A a \in Held(objects[o]) : mem[a] \in {0, o}  BY <1>10, OnlyOwnData, HeldIsApart
  <1>14. o \in 0 .. MAX_OBJECTS /\ MAX_OBJECTS \in Nat /\ o # 0  BY PoolAssumption DEF Objects
  <1>15. \A a \in Addr : mem[a] = o => a \in Held(objects[o])  BY <1>14 DEF Data, DataInside
  <1>16. \A a \in Held(r) : a \in Addr /\ a \notin Held(objects[o]) => mem[a] \in {0, o}
    BY <1>5, OnlyOwnData
  <1> HIDE DEF From
  <1>17. \A a \in Addr : mem'[a] \in 0 .. MAX_OBJECTS  BY <1>7, <1>12, <1>13, <1>14 DEF Data, MemOK
  <1>18. MemOK'
    <2>1. mem' = [a \in Addr |-> mem'[a]]  BY DEF Copy
    <2> QED BY <1>17, <2>1 DEF MemOK
  <1>19. \A a \in Addr : a \notin Held(objects[o]) /\ a \notin Held(r) => mem'[a] = mem[a]
    BY <1>7, <1>11
  <1>20. \A a \in Addr : a \in Held(objects[o]) \/ a \in Held(r) => mem'[a] \in {0, o}
    BY <1>7, <1>12, <1>13, <1>16
  <1>21. \A a \in Addr : mem'[a] = o => a \in Held(r)  BY <1>7, <1>11, <1>14, <1>15
  <1>22. Full(mem', r, o)
    <2>1. r.valid \in Nat /\ objects[o].valid \in Nat  BY <1>0, ObjectFacts
    <2> SUFFICES ASSUME NEW i \in 0 .. r.valid - 1 PROVE mem'[b.ptr + i] = o  BY DEF Full
    <2>2. b.ptr + i \in Area(b.ptr, n)  BY <2>1 DEF Area
    <2>3. From(b.ptr + i) = objects[o].ptr + i  BY <1>1, <1>8, <2>1 DEF From
    <2>4. mem[objects[o].ptr + i] = o  BY <2>1 DEF Data, Intact, Full
    <2>5. b.ptr + i \in Addr
      <3>1. b.ptr + b.size <= next_free' /\ next_free' <= CAPACITY /\ next_free' \in Nat
        BY PoolAssumption DEF IInv, Space, BlocksOK, BumpOK
      <3> QED BY <2>1, <3>1, PoolAssumption DEF Addr
    <2> QED BY <1>7, <2>2, <2>3, <2>4, <2>5
  <1> QED BY <1>6, <1>18, <1>19, <1>20, <1>21, <1>22 DEF Rewrites

----
(* What the calls under way are about.                                     *)

InJemalloc(t) == call[t].pc \in {"tcache", "create", "jemalloc"}

\* Until the result is there, an allocation is for an object without memory, and a
\* resize knows the block it resizes; the manager only shrinks.
CallFits(t) ==
  /\ call[t].op = "allocate" /\ call[t].pc # "count" =>
       Obj(t).ptr = ZeroSizePointer /\ Obj(t).use \in {"asked", "input", "output"}
  /\ call[t].op = "allocate" /\ call[t].pc = "enter" => Obj(t).use # "input"
  /\ call[t].op = "reallocate" /\ call[t].pc # "count" =>
       \/ Obj(t).use = "input" /\ call[t].old = Obj(t).size
       \/ /\ Obj(t).use = "written" /\ call[t].old = Obj(t).capacity
          /\ call[t].new = Obj(t).size /\ 0 < call[t].new /\ call[t].new < call[t].old
  /\ call[t].op = "free" => call[t].new = 0
  /\ call[t].op # "allocate" /\ InJemalloc(t) => Obj(t).ptr # ZeroSizePointer
  /\ kind = "simple" => call[t].pc = "enter"
  /\ phase # "running" => call[t].op = "free"
  /\ ~Posted(call[t].obj)

CallsFit == \A t \in Threads : ~Idle(t) => CallFits(t)
OneCall == \A t, u \in Threads : ~Idle(t) /\ ~Idle(u) /\ t # u => call[t].obj # call[u].obj

Calls == CallsFit /\ OneCall

\* What a step of a call does: its object and its block change, and the call goes on
\* or is over. Nothing becomes a buffer of the manager by it.
Serves(t, r, c) ==
  /\ Replaces(call[t].obj, r) /\ Rewrites(call[t].obj, r)
  /\ call' = [call EXCEPT ![t] = c]
  /\ c = NoCall \/ (c.obj = call[t].obj /\ CallFits(t)')
  /\ r.use \in InManager => Obj(t).use \in InManager
  /\ r.use = "enqueued" => r.ptr = Obj(t).ptr /\ r.capacity = Obj(t).capacity
                            /\ Obj(t).use = "enqueued"

LEMMA ServedTypes ==
  ASSUME IInv, Data, NEW t \in Threads, ~Idle(t)
  PROVE  /\ call[t].obj \in Objects /\ Obj(t) = objects[call[t].obj]
         /\ Obj(t) \in ObjectType /\ Shape(Obj(t))
         /\ Holds(Obj(t), blocks) /\ BlocksOK /\ BumpOK
         /\ call[t] \in CallType /\ call[t].new \in Nat /\ call[t].old \in Nat
         /\ call[t].op \in {"allocate", "reallocate", "free"}
         /\ ZeroSizePointer \in 0 .. CAPACITY
  <1>1. call[t].obj \in Objects  BY CallFacts
  <1>2. call[t] \in CallType  BY DEF IInv, Types, CallOK
  <1>3. ZeroSizePointer \in 0 .. CAPACITY  BY PoolAssumption DEF ZeroSizePointer
  <1>4. Obj(t) = objects[call[t].obj] /\ objects[call[t].obj] \in ObjectType
    BY <1>1 DEF Obj, IInv, Types, ObjectsOK
  <1>5. Shape(Obj(t)) /\ Holds(Obj(t), blocks)  BY <1>1, <1>4 DEF Data, Shapes, Owned
  <1>6. call[t].op \in {"allocate", "reallocate", "free"}  BY <1>2 DEF CallType, Idle
  <1>7. call[t].new \in Nat /\ call[t].old \in Nat  BY <1>2 DEF CallType
  <1> QED BY <1>1, <1>2, <1>3, <1>4, <1>5, <1>6, <1>7 DEF IInv, Space

\* The block that a call is about is the one its object holds.
LEMMA TargetIs ==
  ASSUME IInv, Data, NEW t \in Threads, ~Idle(t), ~NoMemory(Obj(t))
  PROVE  Target(t) = Block(Obj(t).ptr, BlockSize(Obj(t))) /\ Target(t) \in blocks
  <1> DEFINE b == Block(Obj(t).ptr, BlockSize(Obj(t)))
  <1>1. b \in blocks  BY ServedTypes DEF Holds
  <1>2. b.ptr = Obj(t).ptr  BY DEF Block
  <1>3. \A c \in blocks : c.ptr = Obj(t).ptr => c = b
    <2> SUFFICES ASSUME NEW c \in blocks, c.ptr = Obj(t).ptr PROVE c = b  OBVIOUS
    <2>1. BlocksOK  BY DEF IInv, Space
    <2>2. b.ptr \in Nat /\ b.size \in Nat \ {0} /\ c.ptr \in Nat /\ c.size \in Nat \ {0}
      BY <1>1, <2>1 DEF BlocksOK
    <2>3. c # b => Contract!Disjoint(c, b)  BY <1>1, <2>1 DEF BlocksOK
    <2> HIDE DEF b
    <2> QED BY <1>2, <2>2, <2>3 DEF Contract!Disjoint
  <1> HIDE DEF b
  <1>4. Target(t) = b  BY <1>1, <1>2, <1>3 DEF Target
  <1> QED BY <1>1, <1>4 DEF b

LEMMA AllocatedFacts ==
  ASSUME IInv, Data, NEW t \in Threads, ~Idle(t), NEW p \in 0 .. CAPACITY,
         p # ZeroSizePointer \/ call[t].new = 0
  PROVE  /\ Allocated(t, p) \in ObjectType /\ Shape(Allocated(t, p))
         /\ Allocated(t, p).ptr = p /\ BlockSize(Allocated(t, p)) = call[t].new
         /\ Allocated(t, p).valid = IF Obj(t).use = "output" THEN 0 ELSE call[t].new
         /\ Allocated(t, p).use \in {"input", "output"}
         /\ Allocated(t, p).use = "output" => Obj(t).use = "output"
  <1>1. Types /\ call[t].new \in Nat  BY ServedTypes DEF IInv
  <1>2. Allocated(t, p) \in ObjectType  BY <1>1, ResultTypes
  <1> DEFINE r == Allocated(t, p)
  <1>3. /\ r.ptr = p /\ r.size = call[t].new /\ r.capacity = call[t].new
        /\ r.valid = IF Obj(t).use = "output" THEN 0 ELSE call[t].new
        /\ r.use = IF Obj(t).use = "output" THEN "output" ELSE "input"
    BY DEF Allocated
  <1> HIDE DEF r
  <1>4. r.ptr # NullPointer /\ (NoMemory(r) => r.size = 0 /\ r.capacity = 0)  BY <1>3, PoolPointer
  <1>5. Shape(r) /\ BlockSize(r) = call[t].new  BY <1>1, <1>3, <1>4 DEF Shape, BlockSize
  <1> QED BY <1>2, <1>3, <1>5 DEF r

\* What a resize makes of the object, wherever its block is now.
LEMMA ReallocatedFacts ==
  ASSUME IInv, Data, NEW t \in Threads, ~Idle(t), NEW p \in 0 .. CAPACITY,
         p # ZeroSizePointer \/ call[t].new = 0,
         CallFits(t), call[t].op = "reallocate", call[t].pc # "count"
  PROVE  /\ Reallocated(t, p) \in ObjectType /\ Shape(Reallocated(t, p))
         /\ Reallocated(t, p).ptr = p /\ BlockSize(Reallocated(t, p)) = call[t].new
         /\ Reallocated(t, p).valid <= Obj(t).valid
         /\ Reallocated(t, p).valid <= MinOf(BlockSize(Obj(t)), call[t].new)
         /\ Reallocated(t, p).use \in {"input", "delivered"}
         /\ call[t].old = BlockSize(Obj(t))
  <1>1. Types /\ call[t].new \in Nat /\ Obj(t) \in ObjectType /\ Shape(Obj(t))
    BY ServedTypes DEF IInv
  <1>2. Reallocated(t, p) \in ObjectType  BY <1>1, ResultTypes
  <1>3. /\ Obj(t).size \in Nat /\ Obj(t).capacity \in Nat /\ Obj(t).valid \in Nat
        /\ Obj(t).valid <= Obj(t).size /\ Obj(t).size <= Obj(t).capacity
    BY <1>1, ObjectFacts DEF Shape
  <1>4. CASE Obj(t).use = "input" /\ call[t].old = Obj(t).size
    <2> DEFINE r == Reallocated(t, p)
    <2>1. /\ r.use = "input" /\ r.ptr = p /\ r.size = call[t].new /\ r.capacity = call[t].new
          /\ r.valid = MinOf(Obj(t).valid, call[t].new)
      BY <1>1, <1>4 DEF Reallocated, ObjectType
    <2>2. BlockSize(Obj(t)) = Obj(t).size  BY <1>4 DEF BlockSize
    <2> HIDE DEF r
    <2>3. r.valid <= Obj(t).valid /\ r.valid <= call[t].new  BY <1>1, <1>3, <2>1 DEF MinOf
    <2>4. r.valid <= MinOf(BlockSize(Obj(t)), call[t].new)  BY <1>1, <1>3, <2>1, <2>2 DEF MinOf
    <2>5. BlockSize(r) = call[t].new  BY <2>1 DEF BlockSize
    <2>6. r.valid <= r.size /\ r.size <= r.capacity  BY <1>1, <2>1, <2>3
    <2>7. Shape(r)
      <3>1. r.ptr # NullPointer /\ (NoMemory(r) => r.size = 0 /\ r.capacity = 0)
        BY <2>1, PoolPointer
      <3> QED BY <2>1, <2>6, <3>1 DEF Shape
    <2> QED BY <1>2, <1>4, <2>1, <2>2, <2>3, <2>4, <2>5, <2>7 DEF r
  <1>5. CASE /\ Obj(t).use = "written" /\ call[t].old = Obj(t).capacity
             /\ call[t].new = Obj(t).size /\ 0 < call[t].new /\ call[t].new < call[t].old
    <2> DEFINE r == Reallocated(t, p)
    <2>1. /\ r.use = "delivered" /\ r.ptr = p /\ r.size = call[t].new
          /\ r.capacity = Obj(t).capacity /\ r.valid = Obj(t).valid
      BY <1>1, <1>5 DEF Reallocated, ObjectType
    <2>2. BlockSize(Obj(t)) = Obj(t).capacity  BY <1>5 DEF BlockSize
    <2> HIDE DEF r
    <2>3. r.valid <= MinOf(BlockSize(Obj(t)), call[t].new)
      BY <1>1, <1>3, <1>5, <2>1, <2>2 DEF MinOf
    <2>4. BlockSize(r) = call[t].new  BY <2>1 DEF BlockSize
    <2>5. r.ptr # ZeroSizePointer /\ r.valid <= r.size /\ r.size <= r.capacity
      BY <1>1, <1>3, <1>5, <2>1
    <2>6. Shape(r)
      <3>1. r.ptr # NullPointer /\ ~NoMemory(r)  BY <2>1, <2>5, PoolPointer
      <3> QED BY <2>1, <2>5, <3>1 DEF Shape
    <2>7. r.valid <= Obj(t).valid  BY <1>3, <2>1
    <2> QED BY <1>2, <1>5, <2>1, <2>2, <2>3, <2>4, <2>6, <2>7 DEF r
  <1> QED BY <1>4, <1>5 DEF CallFits

\* What is left of an object whose block was given back.
LEMMA NoObjectFacts ==
  /\ NoObject \in ObjectType /\ Shape(NoObject) /\ NoObject.ptr = ZeroSizePointer
  /\ NoMemory(NoObject) /\ NoObject.use \notin InManager
  <1>1. ZeroSizePointer # NullPointer  BY PoolAssumption DEF ZeroSizePointer, NullPointer
  <1>2. NoObject.ptr = ZeroSizePointer /\ NoObject.size = 0 /\ NoObject.capacity = 0
        /\ NoObject.valid = 0 /\ NoObject.use = "gone"
    BY DEF NoObject
  <1>3. NoObject.use \notin InManager /\ NoMemory(NoObject)  BY <1>2 DEF InManager, NoMemory
  <1>4. Shape(NoObject)  BY <1>1, <1>2 DEF Shape
  <1> QED BY <1>2, <1>3, <1>4, RecordTypes

LEMMA GivenBackFacts ==
  ASSUME IInv, Data, NEW t \in Threads, ~Idle(t), CallFits(t), GivesBack(t), call[t].pc # "count"
  PROVE  /\ GivenBack(t) \in ObjectType /\ Shape(GivenBack(t))
         /\ GivenBack(t).ptr = ZeroSizePointer
         /\ GivenBack(t).use \notin InManager
  <1>1. ZeroSizePointer \in 0 .. CAPACITY  BY ServedTypes
  <1>2. NoObject \in ObjectType /\ Shape(NoObject) /\ NoObject.ptr = ZeroSizePointer
        /\ NoObject.use \notin InManager
    BY NoObjectFacts
  <1>3. CASE call[t].op = "free"  BY <1>2, <1>3 DEF GivenBack
  <1>4. CASE call[t].op # "free"
    <2>1. call[t].op = "reallocate" /\ call[t].new = 0  BY <1>4 DEF GivesBack
    <2>2. /\ Reallocated(t, ZeroSizePointer) \in ObjectType
          /\ Shape(Reallocated(t, ZeroSizePointer))
          /\ Reallocated(t, ZeroSizePointer).ptr = ZeroSizePointer
          /\ Reallocated(t, ZeroSizePointer).use \in {"input", "delivered"}
      BY <1>1, <2>1, ReallocatedFacts
    <2>3. Reallocated(t, ZeroSizePointer).use \notin InManager  BY <2>2 DEF InManager
    <2> QED BY <1>4, <2>2, <2>3 DEF GivenBack
  <1> QED BY <1>3, <1>4

\* A call that changes no memory: its object is another one with the same block.
LEMMA ServesInPlace ==
  ASSUME IInv, Data, NEW t \in Threads, ~Idle(t), NEW r \in ObjectType, Shape(r), NEW c,
         objects' = [objects EXCEPT ![call[t].obj] = r], UNCHANGED <<blocks, mem>>,
         call' = [call EXCEPT ![t] = c], c = NoCall \/ (c.obj = call[t].obj /\ CallFits(t)'),
         r.ptr = Obj(t).ptr \/ (NoMemory(r) /\ NoMemory(Obj(t))),
         BlockSize(r) = BlockSize(Obj(t)), r.valid <= Obj(t).valid,
         r.use \in InManager => Obj(t).use \in InManager,
         r.use = "enqueued" => r = Obj(t)
  PROVE  Serves(t, r, c)
  <1>1. call[t].obj \in Objects /\ Obj(t) = objects[call[t].obj]  BY ServedTypes
  <1>2. Replaces(call[t].obj, r) /\ Rewrites(call[t].obj, r)  BY <1>1, KeepsBlock
  <1> QED BY <1>2 DEF Serves

LEMMA ServesSame ==
  ASSUME IInv, Data, NEW t \in Threads, ~Idle(t), NEW c, UNCHANGED <<blocks, mem>>,
         UNCHANGED objects \/ objects' = [objects EXCEPT ![call[t].obj] = Obj(t)],
         call' = [call EXCEPT ![t] = c], c = NoCall \/ (c.obj = call[t].obj /\ CallFits(t)')
  PROVE  Serves(t, Obj(t), c)
  <1>1. /\ call[t].obj \in Objects /\ Obj(t) = objects[call[t].obj]
        /\ Obj(t) \in ObjectType /\ Shape(Obj(t))
    BY ServedTypes
  <1>2. objects' = [objects EXCEPT ![call[t].obj] = Obj(t)]  BY <1>1 DEF IInv, Types, ObjectsOK
  <1> DEFINE r == Obj(t)
  <1>3. r.valid \in Nat  BY <1>1, ObjectFacts
  <1>4. r \in ObjectType /\ Shape(r) /\ r.valid <= r.valid  BY <1>1, <1>3
  <1>5. /\ r.ptr = Obj(t).ptr /\ BlockSize(r) = BlockSize(Obj(t)) /\ r.valid <= Obj(t).valid
        /\ r = Obj(t)
    BY <1>4
  <1>6. objects' = [objects EXCEPT ![call[t].obj] = r]  BY <1>2
  <1> HIDE DEF r
  <1>7. Serves(t, r, c)  BY <1>4, <1>5, <1>6, ServesInPlace
  <1> QED BY <1>7 DEF r

\* The object without a block that stays, or goes.
LEMMA ServesNothing ==
  ASSUME IInv, Data, NEW t \in Threads, ~Idle(t), NEW r \in ObjectType, Shape(r), Return(t, r),
         UNCHANGED <<blocks, mem>>, NoMemory(r), NoMemory(Obj(t)),
         r.use \notin InManager \/ (r.use = "output" /\ Obj(t).use = "output")
  PROVE  Serves(t, r, NoCall)
  <1>1. Obj(t) \in ObjectType /\ Shape(Obj(t))  BY ServedTypes
  <1>2. BlockSize(r) = 0 /\ BlockSize(Obj(t)) = 0 /\ r.valid = 0 /\ Obj(t).valid = 0
    BY <1>1, ObjectFacts
  <1>3. r.use \in InManager => Obj(t).use \in InManager  OBVIOUS
  <1>4. r.use # "enqueued"  BY DEF InManager
  <1>5. r.valid <= Obj(t).valid  BY <1>2
  <1> QED BY <1>2, <1>3, <1>4, <1>5, ServesInPlace DEF Return

\* A failed resize leaves the block as it was.
LEMMA ServesFailed ==
  ASSUME IInv, Data, NEW t \in Threads, ~Idle(t), CallFits(t),
         call[t].op = "reallocate", call[t].pc # "count",
         Return(t, ReallocateFailed(t)), UNCHANGED <<blocks, mem>>
  PROVE  Serves(t, ReallocateFailed(t), NoCall)
  <1> DEFINE r == ReallocateFailed(t)
  <1>1. /\ Obj(t) \in ObjectType /\ Shape(Obj(t)) /\ ZeroSizePointer \in 0 .. CAPACITY
        /\ Types
    BY ServedTypes DEF IInv
  <1>2. r \in ObjectType  BY <1>1, ResultTypes
  <1>3. Obj(t).use \in {"input", "written"}  BY DEF CallFits
  <1>4. CASE Obj(t).use = "input"
    <2>1. r = Obj(t)  BY <1>4 DEF ReallocateFailed
    <2> QED BY <2>1, ServesSame DEF Return
  <1>5. CASE Obj(t).use = "written"
    <2>1. /\ r.use = "kept" /\ r.ptr = Obj(t).ptr /\ r.size = Obj(t).size
          /\ r.capacity = Obj(t).capacity /\ r.valid = Obj(t).valid
      BY <1>1, <1>5 DEF ReallocateFailed, ObjectType
    <2> HIDE DEF r
    <2>2. Shape(r) /\ BlockSize(r) = BlockSize(Obj(t))
      <3>1. NoMemory(r) <=> NoMemory(Obj(t))  BY <2>1 DEF NoMemory
      <3>2. r.ptr # NullPointer  BY <1>1, <1>5, <2>1 DEF Shape
      <3> QED BY <1>1, <1>5, <2>1, <3>1, <3>2 DEF Shape, BlockSize
    <2>3. r.valid <= Obj(t).valid  BY <1>1, <2>1, ObjectFacts
    <2>4. r.use \in InManager => Obj(t).use \in InManager  BY <1>5 DEF InManager
    <2>5. objects' = [objects EXCEPT ![call[t].obj] = r] /\ call' = [call EXCEPT ![t] = NoCall]
      BY DEF Return, r
    <2>6. r.use # "enqueued"  BY <2>1
    <2>7. Serves(t, r, NoCall)  BY <1>2, <2>1, <2>2, <2>3, <2>4, <2>5, <2>6, ServesInPlace
    <2> QED BY <2>7 DEF r
  <1> QED BY <1>3, <1>4, <1>5

\* A failed allocation leaves nothing, or nullptr.
LEMMA ServesNoMemory ==
  ASSUME IInv, Data, NEW t \in Threads, ~Idle(t), CallFits(t),
         call[t].op = "allocate", call[t].pc # "count", kind = "simple" => call[t].pc = "enter",
         Return(t, AllocateFailed(t)), UNCHANGED <<blocks, mem>>
  PROVE  Serves(t, AllocateFailed(t), NoCall)
  <1> DEFINE r == AllocateFailed(t)
  <1>1. Obj(t) \in ObjectType /\ Shape(Obj(t)) /\ Types /\ ZeroSizePointer \in 0 .. CAPACITY
    BY ServedTypes DEF IInv
  <1>2. r \in ObjectType  BY <1>1, ResultTypes
  <1>3. Obj(t).ptr = ZeroSizePointer /\ NoMemory(Obj(t))  BY DEF CallFits, NoMemory
  <1>4. CASE Obj(t).use = "input"
    <2>1. /\ r.use = "input" /\ r.ptr = NullPointer /\ r.size = Obj(t).size
          /\ r.capacity = Obj(t).capacity /\ r.valid = Obj(t).valid
      BY <1>1, <1>4 DEF AllocateFailed, ObjectType
    <2>2. kind # "simple"  BY <1>4 DEF CallFits
    <2>3. Return(t, r)  OBVIOUS
    <2> HIDE DEF r
    <2>4. NoMemory(r) /\ r.ptr # ZeroSizePointer
      BY <2>1, PoolAssumption DEF NoMemory, ZeroSizePointer, NullPointer
    <2>5. Shape(r)  BY <1>1, <1>3, <2>1, <2>2, <2>4 DEF Shape
    <2>6. r.use \notin InManager  BY <2>1 DEF InManager
    <2>7. Serves(t, r, NoCall)  BY <1>2, <1>3, <2>3, <2>4, <2>5, <2>6, ServesNothing
    <2> QED BY <2>7 DEF r
  <1>5. CASE Obj(t).use # "input"
    <2>1. NoObject \in ObjectType /\ NoObject.ptr = ZeroSizePointer /\ Shape(NoObject)
          /\ NoObject.use \notin InManager
      BY NoObjectFacts
    <2>2. AllocateFailed(t) = NoObject /\ NoMemory(NoObject)
      BY <1>5, <2>1 DEF AllocateFailed, NoMemory
    <2>3. Return(t, NoObject)  BY <2>2
    <2>4. Serves(t, NoObject, NoCall)  BY <1>3, <2>1, <2>2, <2>3, ServesNothing
    <2> QED BY <2>2, <2>4
  <1> QED BY <1>4, <1>5

\* The block of a call is given back.
LEMMA ServesRelease ==
  ASSUME IInv, Data, NEW t \in Threads, ~Idle(t), CallFits(t), GivesBack(t),
         call[t].pc # "count", ~NoMemory(Obj(t)), Return(t, GivenBack(t)),
         blocks' = blocks \ {Target(t)}, mem' = Fill(mem, 0, Target(t).ptr, Target(t).size)
  PROVE  Serves(t, GivenBack(t), NoCall)
  <1>1. call[t].obj \in Objects /\ Obj(t) = objects[call[t].obj]  BY ServedTypes
  <1>2. /\ GivenBack(t) \in ObjectType /\ Shape(GivenBack(t))
        /\ GivenBack(t).ptr = ZeroSizePointer /\ GivenBack(t).use \notin InManager
    BY GivenBackFacts
  <1>3. Target(t) = Block(objects[call[t].obj].ptr, BlockSize(objects[call[t].obj]))
    BY <1>1, TargetIs
  <1>4. objects' = [objects EXCEPT ![call[t].obj] = GivenBack(t)]
        /\ call' = [call EXCEPT ![t] = NoCall]
    BY DEF Return
  <1>a. NoMemory(GivenBack(t))  BY <1>2 DEF NoMemory
  <1>5. Replaces(call[t].obj, GivenBack(t)) /\ Rewrites(call[t].obj, GivenBack(t))
    BY <1>1, <1>2, <1>3, <1>4, <1>a, ReleasesBlock
  <1>6. GivenBack(t).use # "enqueued"  BY <1>2 DEF InManager
  <1> QED BY <1>2, <1>4, <1>5, <1>6 DEF Serves

\* A new block, and a moved one.
LEMMA ServesPlace ==
  ASSUME IInv, IInv', Data, NEW t \in Threads, ~Idle(t), NEW p \in Addr,
         call[t].new > 0, NoMemory(Obj(t)), NEW c,
         \A b \in blocks : Contract!Disjoint(Block(p, call[t].new), b),
         blocks' = blocks \cup {Block(p, call[t].new)},
         mem' = IF Obj(t).use = "output" THEN mem ELSE Fill(mem, call[t].obj, p, call[t].new),
         objects' = [objects EXCEPT ![call[t].obj] = Allocated(t, p)],
         call' = [call EXCEPT ![t] = c], c = NoCall \/ (c.obj = call[t].obj /\ CallFits(t)')
  PROVE  Serves(t, Allocated(t, p), c)
  <1> DEFINE b == Block(p, call[t].new)
             r == Allocated(t, p)
  <1>0. call[t].obj \in Objects /\ Obj(t) = objects[call[t].obj] /\ call[t].new \in Nat
    BY ServedTypes
  <1>1. p \in 0 .. CAPACITY /\ p # ZeroSizePointer /\ p \in Nat
    BY PoolAssumption DEF Addr, ZeroSizePointer
  <1>2. /\ r \in ObjectType /\ Shape(r) /\ r.ptr = p /\ BlockSize(r) = call[t].new
        /\ r.valid = IF Obj(t).use = "output" THEN 0 ELSE call[t].new
        /\ r.use \in {"input", "output"} /\ (r.use = "output" => Obj(t).use = "output")
    BY <1>1, AllocatedFacts
  <1>3. /\ b \in [ptr : Nat, size : Nat \ {0}] /\ b.ptr = p /\ b.size = call[t].new
        /\ ~NoMemory(b)
    BY <1>0, <1>1, PoolPointer DEF Block
  <1>4. objects' = [objects EXCEPT ![call[t].obj] = r] /\ blocks' = blocks \cup {b}
        /\ \A d \in blocks : Contract!Disjoint(b, d)
    OBVIOUS
  <1>5. \/ r.valid = 0 /\ mem' = mem
        \/ r.valid = b.size /\ mem' = Fill(mem, call[t].obj, b.ptr, b.size)
    BY <1>2, <1>3
  <1> HIDE DEF b, r
  <1>6. Replaces(call[t].obj, r) /\ Rewrites(call[t].obj, r)
    BY <1>0, <1>1, <1>2, <1>3, <1>4, <1>5, PlacesBlock
  <1>7. r.use \in InManager => Obj(t).use \in InManager  BY <1>2 DEF InManager
  <1>8. Serves(t, r, c)  BY <1>2, <1>6, <1>7 DEF Serves
  <1> QED BY <1>8 DEF r

LEMMA ServesMove ==
  ASSUME IInv, IInv', Data, NEW t \in Threads, ~Idle(t), NEW p \in Addr, CallFits(t),
         call[t].op = "reallocate", call[t].pc # "count", call[t].new > 0,
         ~NoMemory(Obj(t)), NEW c,
         \A b \in blocks \ {Target(t)} : Contract!Disjoint(Block(p, call[t].new), b),
         blocks' = (blocks \ {Target(t)}) \cup {Block(p, call[t].new)},
         mem' = Copy(mem, Target(t), p, MinOf(Target(t).size, call[t].new)),
         objects' = [objects EXCEPT ![call[t].obj] = Reallocated(t, p)],
         call' = [call EXCEPT ![t] = c], c = NoCall \/ (c.obj = call[t].obj /\ CallFits(t)')
  PROVE  Serves(t, Reallocated(t, p), c)
  <1> DEFINE b == Block(p, call[t].new)
             r == Reallocated(t, p)
             n == MinOf(Target(t).size, call[t].new)
             old == Target(t)
  <1>0. call[t].obj \in Objects /\ Obj(t) = objects[call[t].obj] /\ call[t].new \in Nat
        /\ Obj(t) \in ObjectType /\ Shape(Obj(t))
    BY ServedTypes
  <1>1. p \in 0 .. CAPACITY /\ p # ZeroSizePointer /\ p \in Nat
    BY PoolAssumption DEF Addr, ZeroSizePointer
  <1>2. /\ r \in ObjectType /\ Shape(r) /\ r.ptr = p /\ BlockSize(r) = call[t].new
        /\ r.valid <= Obj(t).valid
        /\ r.valid <= MinOf(BlockSize(Obj(t)), call[t].new)
        /\ r.use \in {"input", "delivered"}
    BY <1>1, ReallocatedFacts
  <1>3. /\ b \in [ptr : Nat, size : Nat \ {0}] /\ b.ptr = p /\ b.size = call[t].new
        /\ ~NoMemory(b)
    BY <1>0, <1>1, PoolPointer DEF Block
  <1>4. old = Block(objects[call[t].obj].ptr, BlockSize(objects[call[t].obj]))
        /\ old.size = BlockSize(Obj(t))
    BY <1>0, TargetIs DEF Block
  <1>5. BlockSize(Obj(t)) \in Nat  BY <1>0, ObjectFacts
  <1>6. n \in Nat /\ n <= b.size /\ n <= old.size /\ r.valid <= n
    BY <1>0, <1>2, <1>3, <1>4, <1>5 DEF MinOf
  <1>7. /\ objects' = [objects EXCEPT ![call[t].obj] = r]
        /\ blocks' = (blocks \ {old}) \cup {b}
        /\ \A d \in blocks \ {old} : Contract!Disjoint(b, d)
        /\ mem' = Copy(mem, old, b.ptr, n)
    BY <1>3
  <1> HIDE DEF b, r, n, old
  <1>8. Replaces(call[t].obj, r) /\ Rewrites(call[t].obj, r)
    BY <1>0, <1>1, <1>2, <1>3, <1>4, <1>6, <1>7, MovesBlock
  <1>9. r.use \notin InManager  BY <1>2 DEF InManager
  <1>10. Serves(t, r, c)  BY <1>2, <1>8, <1>9 DEF Serves
  <1> QED BY <1>10 DEF r

----
(* The steps of the calls.                                                 *)

\* Where the linear allocator puts a block, and that there is nothing.
LEMMA LinearPlaces ==
  ASSUME IInv, NEW t \in Threads, call[t].new > 0, LinearAllocate(call[t].new, call[t].alignment)
  PROVE  /\ LinearStart(call[t].alignment) \in Addr
         /\ \A c \in blocks :
              Contract!Disjoint(Block(LinearStart(call[t].alignment), call[t].new), c)
         /\ LinearStart(call[t].alignment) >= next_free /\ next_free' >= next_free
  <1> DEFINE n == call[t].new
             a == call[t].alignment
  <1>1. n \in Nat \ {0} /\ a \in Nat \ {0} /\ LinearAllocate(n, a)  BY CallFacts
  <1> HIDE DEF n, a
  <1>2. \A c \in blocks : Contract!Disjoint(Block(LinearStart(a), n), c)  BY <1>1, LinearFacts
  <1>3. next_free \in Nat /\ CAPACITY \in Nat  BY PoolAssumption DEF IInv, Space, BumpOK
  <1>4. LinearStart(a) \in Nat /\ LinearStart(a) >= next_free
    BY <1>1, <1>3, AlignUpFacts DEF LinearStart
  <1>5. LinearStart(a) + n <= CAPACITY /\ next_free' = LinearStart(a) + n
    BY <1>1 DEF LinearAllocate, LinearFits
  <1>6. LinearStart(a) \in Addr /\ next_free' >= next_free  BY <1>1, <1>3, <1>4, <1>5 DEF Addr
  <1> QED BY <1>2, <1>4, <1>6 DEF n, a

LEMMA SimpleServes ==
  ASSUME IInv, IInv', Data, NEW t \in Threads, CallFits(t), SimpleCall(t)
  PROVE  \E r, c : Serves(t, r, c)
  <1>0. kind = "simple" /\ ~Idle(t) /\ call[t].pc # "count"  BY DEF SimpleCall, CallFits
  <1>1. /\ call[t].op \in {"allocate", "reallocate", "free"} /\ call[t].new \in Nat
        /\ ZeroSizePointer \in 0 .. CAPACITY /\ Obj(t) \in ObjectType /\ Shape(Obj(t))
    BY <1>0, ServedTypes
  <1>2. \A r : Return(t, r) => call' = [call EXCEPT ![t] = NoCall]
                               /\ objects' = [objects EXCEPT ![call[t].obj] = r]
    BY DEF Return
  <1> DEFINE p == LinearStart(call[t].alignment)
             n == call[t].new
  <1>3. LinearAllocate(n, call[t].alignment) /\ n > 0 =>
          p \in Addr /\ \A c \in blocks : Contract!Disjoint(Block(p, n), c)
    BY LinearPlaces
  <1>4. CASE SimpleAllocateNothing(t)
    <2>1. /\ call[t].op = "allocate" /\ call[t].new = 0
          /\ Return(t, Allocated(t, ZeroSizePointer)) /\ UNCHANGED <<blocks, mem>>
      BY <1>4 DEF SimpleAllocateNothing
    <2>2. NoMemory(Obj(t))  BY <1>0, <2>1 DEF CallFits, NoMemory
    <2> DEFINE r == Allocated(t, ZeroSizePointer)
    <2>3. /\ r \in ObjectType /\ Shape(r) /\ NoMemory(r)
          /\ r.use \in {"input", "output"} /\ (r.use = "output" => Obj(t).use = "output")
      BY <1>0, <1>1, <2>1, AllocatedFacts DEF NoMemory
    <2>4. Return(t, r)  BY <2>1
    <2> HIDE DEF r
    <2>5. r.use \notin InManager \/ (r.use = "output" /\ Obj(t).use = "output")
      BY <2>3 DEF InManager
    <2> QED BY <1>0, <2>1, <2>2, <2>3, <2>4, <2>5, ServesNothing
  <1>5. CASE SimpleAllocate(t)
    <2>0. n > 0 /\ call[t].op # "free"  BY <1>5 DEF SimpleAllocate
    <2>1. NoMemory(Obj(t))  BY <1>0, <1>5 DEF SimpleAllocate, CallFits, NoMemory
    <2>2. CASE /\ LinearAllocate(n, call[t].alignment) /\ blocks' = blocks \cup {Block(p, n)}
               /\ mem' = IF Obj(t).use = "output" THEN mem ELSE Fill(mem, call[t].obj, p, n)
               /\ Return(t, Allocated(t, p))
      <3>1. p \in Addr /\ \A c \in blocks : Contract!Disjoint(Block(p, n), c)  BY <1>3, <2>0, <2>2
      <3> QED BY <1>0, <1>2, <2>0, <2>1, <2>2, <3>1, ServesPlace
    <2>3. CASE /\ Return(t, IF call[t].op = "allocate" THEN AllocateFailed(t) ELSE Obj(t))
               /\ UNCHANGED <<blocks, mem>>
      <3>1. CASE call[t].op = "allocate"
        <4>1. Return(t, AllocateFailed(t)) /\ call[t].pc = "enter"  BY <1>0, <2>3, <3>1 DEF CallFits
        <4> QED BY <1>0, <2>3, <3>1, <4>1, ServesNoMemory
      <3>2. CASE call[t].op # "allocate"
        <4>1. Return(t, Obj(t))  BY <2>3, <3>2
        <4> QED BY <1>0, <1>2, <2>3, <4>1, ServesSame
      <3> QED BY <3>1, <3>2
    <2> QED BY <1>5, <2>2, <2>3 DEF SimpleAllocate
  <1>6. CASE SimpleReallocate(t)
    <2>0. call[t].op = "reallocate" /\ n > 0 /\ ~NoMemory(Obj(t))
      BY <1>0, <1>1, <1>6 DEF SimpleReallocate, Shape, NoMemory
    <2>1. CASE /\ LinearAllocate(n, call[t].alignment)
               /\ mem' = Copy(mem, Target(t), p, MinOf(call[t].old, n))
               /\ blocks' = (blocks \ {Target(t)}) \cup {Block(p, n)}
               /\ Return(t, Reallocated(t, p))
      <3>1. p \in Addr /\ \A c \in blocks : Contract!Disjoint(Block(p, n), c)  BY <1>3, <2>0, <2>1
      <3>2. call[t].old = Target(t).size
        <4>1. p \in 0 .. CAPACITY /\ p # ZeroSizePointer
          BY <3>1, PoolAssumption DEF Addr, ZeroSizePointer
        <4>2. call[t].old = BlockSize(Obj(t))  BY <1>0, <2>0, <4>1, ReallocatedFacts
        <4> QED BY <1>0, <2>0, <4>2, TargetIs DEF Block
      <3>3. mem' = Copy(mem, Target(t), p, MinOf(Target(t).size, n))  BY <2>1, <3>2
      <3> QED BY <1>0, <1>2, <2>0, <2>1, <3>1, <3>3, ServesMove
    <2>2. CASE Return(t, ReallocateFailed(t)) /\ UNCHANGED <<blocks, mem>>
      BY <1>0, <2>0, <2>2, ServesFailed
    <2> QED BY <1>6, <2>1, <2>2 DEF SimpleReallocate
  <1>7. CASE SimpleFree(t)
    <2>0. GivesBack(t) /\ Return(t, GivenBack(t))  BY <1>7 DEF SimpleFree
    <2>1. CASE Obj(t).ptr = ZeroSizePointer /\ UNCHANGED <<blocks, mem>>
      <3>1. /\ GivenBack(t) \in ObjectType /\ Shape(GivenBack(t))
            /\ NoMemory(GivenBack(t)) /\ GivenBack(t).use \notin InManager
        BY <1>0, <2>0, GivenBackFacts DEF NoMemory
      <3>2. NoMemory(Obj(t))  BY <2>1 DEF NoMemory
      <3> QED BY <1>0, <2>0, <2>1, <3>1, <3>2, ServesNothing
    <2>2. CASE /\ Obj(t).ptr # ZeroSizePointer /\ blocks' = blocks \ {Target(t)}
               /\ mem' = Fill(mem, 0, Target(t).ptr, Target(t).size)
      <3>1. ~NoMemory(Obj(t))  BY <1>0, <1>1, <2>2 DEF Shape, NoMemory
      <3> QED BY <1>0, <2>0, <2>2, <3>1, ServesRelease
    <2> QED BY <1>7, <2>1, <2>2 DEF SimpleFree
  <1> QED BY <1>4, <1>5, <1>6, <1>7 DEF SimpleCall

\* Nothing is where jemalloc puts a block.
LEMMA JemallocPlaces ==
  ASSUME IInv, kind = "huge", UNCHANGED kind, NEW p \in Addr, NEW n \in Nat \ {0},
         NEW a \in Nat \ {0}, NEW used, NEW others \in SUBSET used, others \subseteq blocks,
         FromArena(Block(p, n), a, used) \/ FromHook(Block(p, n), a)
  PROVE  \A c \in others : Contract!Disjoint(Block(p, n), c)
  <1> DEFINE b == Block(p, n)
  <1>1. b \in [ptr : Nat, size : Nat \ {0}]  BY PoolAssumption DEF Block, Addr
  <1>2. FromArena(b, a, used) \/ FromHook(b, a)  OBVIOUS
  <1> HIDE DEF b
  <1>3. CASE FromArena(b, a, used)
    <2>1. \A c \in used : Contract!Disjoint(b, c)  BY <1>1, <1>3, ArenaFacts
    <2> QED BY <2>1 DEF b
  <1>4. CASE FromHook(b, a)
    <2>1. \A c \in blocks : Contract!Disjoint(b, c)  BY <1>1, <1>4, HookFacts
    <2> QED BY <2>1 DEF b
  <1> QED BY <1>2, <1>3, <1>4

\* A call that only goes on stays about what it was.
LEMMA GoesOn ==
  ASSUME IInv, NEW t \in Threads, ~Idle(t), CallFits(t), kind = "huge", Obj(t)' = Obj(t),
         NEW pc \in {"tcache", "create", "jemalloc"},
         call' = [call EXCEPT ![t] = [call[t] EXCEPT !.pc = pc]],
         call[t].pc # "count", call[t].op = "allocate" \/ Obj(t).ptr # ZeroSizePointer,
         UNCHANGED <<kind, phase, transfers>>
  PROVE  call'[t].obj = call[t].obj /\ CallFits(t)'
  <1>1. call[t] \in CallType /\ call'[t] = [call[t] EXCEPT !.pc = pc]  BY DEF IInv, Types, CallOK
  <1>2. /\ call'[t].op = call[t].op /\ call'[t].obj = call[t].obj
        /\ call'[t].old = call[t].old /\ call'[t].new = call[t].new /\ call'[t].pc = pc
    BY <1>1 DEF CallType
  <1>3. Posted(call[t].obj)' <=> Posted(call[t].obj)  BY <1>2 DEF Posted
  <1>4. CallFits(t)'  BY <1>2, <1>3 DEF CallFits, InJemalloc
  <1> QED BY <1>2, <1>4

\* A call that only has to count is no longer about a block.
LEMMA GoesToCount ==
  ASSUME IInv, NEW t \in Threads, ~Idle(t), CallFits(t), kind = "huge",
         call' = [call EXCEPT ![t] = [call[t] EXCEPT !.pc = "count"]],
         UNCHANGED <<kind, phase, transfers>>
  PROVE  call'[t].obj = call[t].obj /\ CallFits(t)'
  <1>1. call[t] \in CallType /\ call'[t] = [call[t] EXCEPT !.pc = "count"]
    BY DEF IInv, Types, CallOK
  <1>2. /\ call'[t].op = call[t].op /\ call'[t].obj = call[t].obj
        /\ call'[t].old = call[t].old /\ call'[t].new = call[t].new /\ call'[t].pc = "count"
    BY <1>1 DEF CallType
  <1>3. Posted(call[t].obj)' <=> Posted(call[t].obj)  BY <1>2 DEF Posted
  <1>4. CallFits(t)'  BY <1>2, <1>3 DEF CallFits, InJemalloc
  <1> QED BY <1>2, <1>4

LEMMA EnterServes ==
  ASSUME IInv, IInv', Data, NEW t \in Threads, ~Idle(t), kind = "huge", CallFits(t), HugeEnter(t),
         UNCHANGED <<phase, transfers>>
  PROVE  \E r, c : Serves(t, r, c)
  <1>0. /\ call[t].op \in {"allocate", "reallocate", "free"} /\ call[t].new \in Nat
        /\ ZeroSizePointer \in 0 .. CAPACITY /\ Obj(t) \in ObjectType /\ Shape(Obj(t))
        /\ call[t] \in CallType /\ call[t].pc = "enter"
    BY ServedTypes DEF HugeEnter, At
  <1>1. UNCHANGED <<blocks, mem, kind>>  BY DEF HugeEnter, hugeMemory, hugeRest
  <1>2. CASE /\ call[t].op # "free" /\ call[t].new > 0 /\ UNCHANGED objects
             /\ call' = [call EXCEPT ![t].pc = "tcache",
                            ![t].op = IF Obj(t).ptr = ZeroSizePointer THEN "allocate" ELSE @]
    <2> DEFINE op == IF Obj(t).ptr = ZeroSizePointer THEN "allocate" ELSE call[t].op
               c == [call[t] EXCEPT !.pc = "tcache", !.op = op]
    <2>1. call' = [call EXCEPT ![t] = c]  BY <1>2
    <2>2. c.op = op /\ c.pc = "tcache" /\ c.obj = call[t].obj /\ c.old = call[t].old /\ c.new = call[t].new
      BY <1>0 DEF CallType
    <2>3. call'[t] = c  BY <2>1 DEF IInv, Types, CallOK
    <2>4. Obj(t)' = Obj(t)  BY <1>2, <2>2, <2>3 DEF Obj
    <2>5. Posted(call[t].obj)' <=> Posted(call[t].obj)  BY <2>2, <2>3 DEF Posted
    <2>6. phase = "running"  BY <1>2 DEF CallFits
    <2>7. Obj(t).ptr = ZeroSizePointer => Obj(t).use \in {"asked", "input", "output"}
      BY <1>0, <1>2 DEF CallFits, Shape, NoMemory
    <2> HIDE DEF c
    <2>8. CallFits(t)'
      BY <1>0, <1>1, <1>2, <2>2, <2>3, <2>4, <2>5, <2>6, <2>7 DEF CallFits, InJemalloc
    <2>9. c.obj = call[t].obj  BY <2>2
    <2> QED BY <1>1, <1>2, <2>1, <2>8, <2>9, ServesSame
  <1>3. CASE GivesBack(t) /\ Obj(t).ptr # ZeroSizePointer /\ Goto(t, "tcache") /\ UNCHANGED objects
    <2> DEFINE c == [call[t] EXCEPT !.pc = "tcache"]
    <2>1. call' = [call EXCEPT ![t] = c] /\ call'[t] = c  BY <1>3 DEF Goto, IInv, Types, CallOK
    <2>2. c.obj = call[t].obj  BY <1>0 DEF CallType
    <2>3. Obj(t)' = Obj(t)  BY <1>3, <2>1, <2>2 DEF Obj
    <2>4. CallFits(t)'  BY <1>0, <1>1, <1>3, <2>1, <2>3, GoesOn
    <2> HIDE DEF c
    <2> QED BY <1>1, <1>3, <2>1, <2>2, <2>4, ServesSame
  <1>4. CASE /\ call[t].new = 0 /\ Obj(t).ptr = ZeroSizePointer
             /\ Return(t, IF call[t].op = "free" THEN NoObject
                          ELSE IF call[t].op = "allocate" THEN Allocated(t, ZeroSizePointer)
                          ELSE Obj(t))
    <2>0. NoMemory(Obj(t))  BY <1>4 DEF NoMemory
    <2>1. CASE call[t].op = "free"
      <3>1. /\ NoObject \in ObjectType /\ Shape(NoObject) /\ NoMemory(NoObject)
            /\ NoObject.use \notin InManager
        BY NoObjectFacts
      <3>2. Return(t, NoObject)  BY <1>4, <2>1
      <3> QED BY <1>1, <2>0, <3>1, <3>2, ServesNothing
    <2>2. CASE call[t].op = "allocate"
      <3> DEFINE r == Allocated(t, ZeroSizePointer)
      <3>1. /\ r \in ObjectType /\ Shape(r) /\ NoMemory(r)
            /\ r.use \in {"input", "output"} /\ (r.use = "output" => Obj(t).use = "output")
        BY <1>0, <1>4, AllocatedFacts DEF NoMemory
      <3>2. Return(t, r)  BY <1>4, <2>2
      <3> HIDE DEF r
      <3>3. r.use \notin InManager \/ (r.use = "output" /\ Obj(t).use = "output")
        BY <3>1 DEF InManager
      <3> QED BY <1>1, <2>0, <3>1, <3>2, <3>3, ServesNothing
    <2>3. CASE call[t].op = "reallocate"
      <3>1. Return(t, Obj(t))  BY <1>4, <2>3
      <3> QED BY <1>1, <3>1, ServesSame DEF Return
    <2> QED BY <1>0, <2>1, <2>2, <2>3
  <1> QED BY <1>2, <1>3, <1>4 DEF HugeEnter

LEMMA TcacheServes ==
  ASSUME IInv, Data, NEW t \in Threads, ~Idle(t), kind = "huge", CallFits(t),
         FindTcache(t) \/ CreateTcache(t), UNCHANGED <<phase, transfers>>
  PROVE  \E r, c : Serves(t, r, c)
  <1>1. UNCHANGED <<blocks, mem, objects, kind>>
    BY DEF FindTcache, CreateTcache, hugeMemory, hugeRest
  <1>2. PICK pc \in {"jemalloc", "create"} : Goto(t, pc)  BY DEF FindTcache, CreateTcache
  <1>3. call[t].pc \in {"tcache", "create"}  BY DEF FindTcache, CreateTcache, At
  <1> DEFINE c == [call[t] EXCEPT !.pc = pc]
  <1>4. call' = [call EXCEPT ![t] = c] /\ call'[t] = c  BY <1>2 DEF Goto, IInv, Types, CallOK
  <1>5. c.obj = call[t].obj  BY ServedTypes DEF CallType
  <1>6. Obj(t)' = Obj(t)  BY <1>1, <1>4, <1>5 DEF Obj
  <1>7. call[t].op = "allocate" \/ Obj(t).ptr # ZeroSizePointer  BY <1>3 DEF CallFits, InJemalloc
  <1>8. CallFits(t)'  BY <1>1, <1>3, <1>4, <1>6, <1>7, GoesOn
  <1> HIDE DEF c
  <1> QED BY <1>1, <1>4, <1>5, <1>8, ServesSame

LEMMA MallocxServes ==
  ASSUME IInv, IInv', Data, NEW t \in Threads, ~Idle(t), kind = "huge", CallFits(t), Mallocx(t),
         UNCHANGED <<phase, transfers>>
  PROVE  \E r, c : Serves(t, r, c)
  <1> DEFINE n == call[t].new
             a == call[t].alignment
             c == [call[t] EXCEPT !.pc = "count"]
  <1>0. UNCHANGED kind /\ call[t].pc = "jemalloc" /\ call[t].op = "allocate"
    BY DEF Mallocx, hugeRest, At
  <1>1. n \in Nat /\ a \in Nat \ {0}  BY CallFacts
  <1>2. n > 0  BY <1>0 DEF IInv, Space, AsksForSomething
  <1>3. NoMemory(Obj(t))  BY <1>0 DEF CallFits, NoMemory
  <1>4. CASE \E p \in Addr :
               /\ FromArena(Block(p, n), a, blocks) \/ FromHook(Block(p, n), a)
               /\ blocks' = blocks \cup {Block(p, n)}
               /\ mem' = IF Obj(t).use = "output" THEN mem ELSE Fill(mem, call[t].obj, p, n)
               /\ objects' = [objects EXCEPT ![call[t].obj] = Allocated(t, p)]
               /\ Goto(t, "count")
    <2>1. PICK p \in Addr :
               /\ FromArena(Block(p, n), a, blocks) \/ FromHook(Block(p, n), a)
               /\ blocks' = blocks \cup {Block(p, n)}
               /\ mem' = IF Obj(t).use = "output" THEN mem ELSE Fill(mem, call[t].obj, p, n)
               /\ objects' = [objects EXCEPT ![call[t].obj] = Allocated(t, p)]
               /\ Goto(t, "count")
      BY <1>4
    <2>2. n \in Nat \ {0} /\ blocks \in SUBSET blocks /\ blocks \subseteq blocks  BY <1>1, <1>2
    <2>3. \A b \in blocks : Contract!Disjoint(Block(p, n), b)
      <3> HIDE DEF n, a
      <3> QED BY <1>0, <1>1, <2>1, <2>2, JemallocPlaces
    <2>4. call' = [call EXCEPT ![t] = c]  BY <2>1 DEF Goto
    <2>5. c.obj = call[t].obj /\ call'[t] = c
      BY <2>4, ServedTypes DEF CallType, IInv, Types, CallOK
    <2>6. CallFits(t)'  BY <1>0, <2>4, GoesToCount
    <2> HIDE DEF c
    <2> QED BY <1>2, <1>3, <2>1, <2>3, <2>4, <2>5, <2>6, ServesPlace
  <1>5. CASE Return(t, AllocateFailed(t)) /\ UNCHANGED <<blocks, mem>>
    BY <1>0, <1>5, ServesNoMemory
  <1>6. \A p \in Addr : Block(p, n).size = n  BY DEF Block
  <1> QED BY <1>4, <1>5, <1>6 DEF Mallocx, hugeMemory

LEMMA RallocxServes ==
  ASSUME IInv, IInv', Data, NEW t \in Threads, ~Idle(t), kind = "huge", CallFits(t), Rallocx(t),
         UNCHANGED <<phase, transfers>>
  PROVE  \E r, c : Serves(t, r, c)
  <1> DEFINE n == call[t].new
             a == call[t].alignment
             c == [call[t] EXCEPT !.pc = "count"]
             Others(p) == IF p = Obj(t).ptr THEN blocks \ {Target(t)} ELSE blocks
  <1>0. /\ UNCHANGED kind /\ call[t].pc = "jemalloc" /\ call[t].op = "reallocate" /\ n > 0
    BY DEF Rallocx, At
  <1>1. n \in Nat /\ a \in Nat \ {0}  BY CallFacts
  <1>3. ~NoMemory(Obj(t))  BY <1>0 DEF CallFits, InJemalloc, Rallocx, NoMemory
  <1>4. CASE \E p \in Addr :
               /\ FromArena(Block(p, n), a, Others(p)) \/ FromHook(Block(p, n), a)
               /\ blocks' = (blocks \ {Target(t)}) \cup {Block(p, n)}
               /\ mem' = Copy(mem, Target(t), p, MinOf(Target(t).size, Block(p, n).size))
               /\ objects' = [objects EXCEPT ![call[t].obj] = Reallocated(t, p)]
               /\ Goto(t, "count")
    <2>1. PICK p \in Addr :
               /\ FromArena(Block(p, n), a, Others(p)) \/ FromHook(Block(p, n), a)
               /\ blocks' = (blocks \ {Target(t)}) \cup {Block(p, n)}
               /\ mem' = Copy(mem, Target(t), p, MinOf(Target(t).size, Block(p, n).size))
               /\ objects' = [objects EXCEPT ![call[t].obj] = Reallocated(t, p)]
               /\ Goto(t, "count")
      BY <1>4
    <2>2. n \in Nat \ {0} /\ blocks \ {Target(t)} \in SUBSET Others(p)
          /\ blocks \ {Target(t)} \subseteq blocks
      BY <1>0, <1>1
    <2>3. \A b \in blocks \ {Target(t)} : Contract!Disjoint(Block(p, n), b)
      <3> HIDE DEF n, a, Others
      <3> QED BY <1>0, <1>1, <2>1, <2>2, JemallocPlaces
    <2>4. call' = [call EXCEPT ![t] = c]  BY <2>1 DEF Goto
    <2>5. c.obj = call[t].obj /\ call'[t] = c
      BY <2>4, ServedTypes DEF CallType, IInv, Types, CallOK
    <2>6. CallFits(t)'  BY <1>0, <2>4, GoesToCount
    <2>7. mem' = Copy(mem, Target(t), p, MinOf(Target(t).size, n)) /\ call[t].pc # "count"
      BY <1>0, <2>1 DEF Block
    <2> HIDE DEF c
    <2> QED BY <1>0, <1>3, <2>1, <2>3, <2>4, <2>5, <2>6, <2>7, ServesMove
  <1>5. CASE Return(t, ReallocateFailed(t)) /\ UNCHANGED <<blocks, mem>>
    BY <1>0, <1>5, ServesFailed
  <1> QED BY <1>4, <1>5 DEF Rallocx, hugeMemory

LEMMA HugeServes ==
  ASSUME IInv, IInv', Data, NEW t \in Threads, CallFits(t), HugeCall(t), UNCHANGED <<phase, transfers>>
  PROVE  \E r, c : Serves(t, r, c)
  <1>1. kind = "huge" /\ ~Idle(t)  BY DEF HugeCall
  <1>2. CASE HugeEnter(t)  BY <1>1, <1>2, EnterServes
  <1>3. CASE FindTcache(t) \/ CreateTcache(t)  BY <1>1, <1>3, TcacheServes
  <1>4. CASE Mallocx(t)  BY <1>1, <1>4, MallocxServes
  <1>5. CASE Rallocx(t)  BY <1>1, <1>5, RallocxServes
  <1>6. CASE Dallocx(t)
    <2>1. /\ GivesBack(t) /\ call[t].pc = "jemalloc" /\ blocks' = blocks \ {Target(t)}
          /\ Return(t, GivenBack(t)) /\ mem' = Fill(mem, 0, Target(t).ptr, Target(t).size)
      BY <1>6 DEF Dallocx, At
    <2>2. call[t].op # "allocate"  BY <2>1 DEF GivesBack
    <2>3. ~NoMemory(Obj(t))  BY <1>6, <2>1, <2>2 DEF CallFits, InJemalloc, Dallocx, NoMemory
    <2> QED BY <1>1, <2>1, <2>3, ServesRelease
  <1>8. CASE JemallocOfNull(t)
    <2>1. /\ call[t].pc = "jemalloc" /\ Obj(t).ptr = NullPointer
          /\ UNCHANGED <<blocks, mem>>
      BY <1>8 DEF JemallocOfNull, At, hugeMemory
    <2>2. NoMemory(Obj(t)) /\ Obj(t).ptr # ZeroSizePointer
      BY <2>1, PoolAssumption DEF NoMemory, ZeroSizePointer, NullPointer
    <2>3. call[t].op # "allocate"  BY <2>1, <2>2 DEF CallFits
    <2>4. CASE GivesBack(t)
      <3>1. Return(t, GivenBack(t))  BY <1>8, <2>4 DEF JemallocOfNull
      <3>2. /\ GivenBack(t) \in ObjectType /\ Shape(GivenBack(t))
            /\ NoMemory(GivenBack(t)) /\ GivenBack(t).use \notin InManager
        BY <1>1, <2>1, <2>4, GivenBackFacts DEF NoMemory
      <3> QED BY <1>1, <2>1, <2>2, <3>1, <3>2, ServesNothing
    <2>5. CASE ~GivesBack(t)
      <3>1. Return(t, ReallocateFailed(t))  BY <1>8, <2>5 DEF JemallocOfNull
      <3>2. call[t].op = "reallocate" /\ call[t].pc # "count"
        BY <1>1, <2>1, <2>3, <2>5, ServedTypes DEF GivesBack
      <3> QED BY <1>1, <2>1, <3>1, <3>2, ServesFailed
    <2> QED BY <2>4, <2>5
  <1>7. CASE Count(t)
    <2>1. UNCHANGED <<blocks, mem>> /\ Return(t, Obj(t))  BY <1>7 DEF Count, hugeMemory
    <2>2. /\ objects' = [objects EXCEPT ![call[t].obj] = Obj(t)]
          /\ call' = [call EXCEPT ![t] = NoCall]
      BY <2>1 DEF Return
    <2>3. Serves(t, Obj(t), NoCall)  BY <1>1, <2>1, <2>2, ServesSame
    <2> QED BY <2>3
  <1> QED BY <1>1, <1>2, <1>3, <1>4, <1>5, <1>6, <1>7, <1>8 DEF HugeCall

----
(* What the FPGA can reach.                                                *)

PieceType == [obj : Objects, ptr : Addr, len : Nat \ {0}, last : BOOLEAN]

\* A posted transfer stays inside the memory of its object, and the last one ends with it.
PieceFits(x) ==
  /\ objects[x.obj].use = "input"
  /\ Area(x.ptr, x.len) \subseteq Held(objects[x.obj])
  /\ Mapped(x.ptr, x.len)
  /\ x.last <=> x.ptr + x.len = objects[x.obj].ptr + objects[x.obj].size

PiecesFit ==
  /\ transfers \in [Directions -> Seq(PieceType)]
  /\ \A d \in Directions : \A i \in DOMAIN transfers[d] : PieceFits(transfers[d][i])

EnqueuedMapped ==
  phase = "running" =>
    \A o \in Objects : objects[o].use = "enqueued" => Mapped(objects[o].ptr, objects[o].capacity)

\* A page whose address is known is the page that would be mapped: all pages are of
\* one size, or are blocks whose addresses are never used again.
PagesKnown ==
  /\ tlb \subseteq [ptr : Nat, size : Nat \ {0}]
  /\ kind = "huge" => \A m \in tlb : m.size = PAGE_SIZE
  /\ kind = "simple" =>
       \A m \in tlb : m.ptr + m.size <= next_free /\ \A b \in blocks : b.ptr = m.ptr => b = m

PhaseFits ==
  /\ phase \in {"running", "closing", "obm_gone", "tlb_gone"}
  /\ phase # "running" => \A d \in Directions : transfers[d] = <<>>
  /\ phase \in {"obm_gone", "tlb_gone"} => \A o \in Objects : objects[o].use \notin InManager
  /\ phase = "tlb_gone" => tlb = {}
  /\ kind = "destroyed" => phase = "tlb_gone"

Reach == PiecesFit /\ EnqueuedMapped /\ PagesKnown /\ PhaseFits

\* What is mapped stays mapped when mappings are added.
LEMMA MappedGrows ==
  ASSUME tlb \subseteq tlb', NEW p, NEW n, Mapped(p, n)
  PROVE  Mapped(p, n)'
  BY DEF Mapped, Area

LEMMA PieceKept ==
  ASSUME NEW x, PieceFits(x), tlb \subseteq tlb', objects'[x.obj] = objects[x.obj]
  PROVE  PieceFits(x)'
  <1>1. Mapped(x.ptr, x.len)'  BY MappedGrows DEF PieceFits
  <1>2. Held(objects[x.obj])' = Held(objects[x.obj])
    BY DEF Held, NoMemory, BlockSize, Area, ZeroSizePointer, NullPointer
  <1> QED BY <1>1, <1>2 DEF PieceFits, Area

\* The posted transfers, when their objects and the mappings stay.
LEMMA PiecesKept ==
  ASSUME PiecesFit, UNCHANGED transfers, tlb \subseteq tlb',
         \A p \in Objects : Posted(p) => objects'[p] = objects[p]
  PROVE  PiecesFit'
  <1>1. ASSUME NEW d \in Directions, NEW i \in DOMAIN transfers[d], NEW x, x = transfers[d][i]
        PROVE  PieceFits(x)'
    <2>1. x \in PieceType /\ PieceFits(x)  BY <1>1 DEF PiecesFit
    <2>2. x.obj \in Objects /\ Posted(x.obj)  BY <1>1, <2>1 DEF PieceType, Posted
    <2> QED BY <2>1, <2>2, PieceKept
  <1>2. \A d \in Directions : \A i \in DOMAIN transfers[d] :
          \A x : x = transfers[d][i] => PieceFits(x)'
    BY <1>1
  <1> QED BY <1>2 DEF PiecesFit

\* The buffers that the FPGA has, when none is new.
LEMMA EnqueuedKept ==
  ASSUME EnqueuedMapped, phase' = "running" => phase = "running", tlb \subseteq tlb',
         \A p \in Objects : objects'[p].use = "enqueued" =>
           /\ objects[p].use = "enqueued" /\ objects'[p].ptr = objects[p].ptr
           /\ objects'[p].capacity = objects[p].capacity
  PROVE  EnqueuedMapped'
  <1> SUFFICES ASSUME phase' = "running", NEW p \in Objects, objects'[p].use = "enqueued"
               PROVE  Mapped(objects[p].ptr, objects[p].capacity)'
    BY DEF EnqueuedMapped
  <1>1. Mapped(objects[p].ptr, objects[p].capacity)  BY DEF EnqueuedMapped
  <1>2. objects'[p].ptr = objects[p].ptr /\ objects'[p].capacity = objects[p].capacity  OBVIOUS
  <1> QED BY <1>1, <1>2 DEF Mapped, Area

\* No block comes back to where one was mapped.
LEMMA PagesKept ==
  ASSUME BumpOK, PagesKnown, UNCHANGED kind, tlb' \subseteq tlb,
         kind = "simple" => next_free' >= next_free /\ next_free' \in Nat
                            /\ \A b \in blocks' : b \in blocks \/ b.ptr >= next_free
  PROVE  PagesKnown'
  <1>1. next_free \in Nat  BY PoolAssumption DEF BumpOK
  <1>2. ASSUME kind = "simple", NEW m \in tlb, NEW b \in blocks', b.ptr = m.ptr
        PROVE  b = m
    <2>1. m.ptr \in Nat /\ m.size \in Nat \ {0} /\ m.ptr + m.size <= next_free
      BY <1>2 DEF PagesKnown
    <2>2. b \in blocks  BY <1>1, <1>2, <2>1
    <2> QED BY <1>2, <2>2 DEF PagesKnown
  <1>3. ASSUME kind = "simple", NEW m \in tlb
        PROVE  m.ptr + m.size <= next_free'
    <2>1. m.ptr \in Nat /\ m.size \in Nat \ {0} /\ m.ptr + m.size <= next_free
      BY <1>3 DEF PagesKnown
    <2> QED BY <1>1, <1>3, <2>1
  <1> QED BY <1>2, <1>3 DEF PagesKnown

----
(* The calls keep all of this.                                             *)

\* A call keeps what it is about, as long as nobody else touches its object.
LEMMA FitsStill ==
  ASSUME NEW t \in Threads, CallFits(t), call'[t] = call[t], UNCHANGED <<kind, phase>>,
         objects'[call[t].obj] = objects[call[t].obj],
         Posted(call[t].obj)' => Posted(call[t].obj)
  PROVE  CallFits(t)'
  BY DEF CallFits, Obj, InJemalloc, Posted

LEMMA ServesCalls ==
  ASSUME IInv, Data, Calls, NEW t \in Threads, ~Idle(t), NEW r, NEW c, Serves(t, r, c),
         UNCHANGED <<kind, phase, transfers>>
  PROVE  Calls'
  <1>1. call[t].obj \in Objects /\ ObjectsOK /\ CallOK  BY ServedTypes DEF IInv, Types
  <1>2. \A p \in Objects : p # call[t].obj => objects'[p] = objects[p]
    BY <1>1, ReplacedAt DEF Serves, Replaces
  <1>3. call'[t] = c /\ \A u \in Threads : u # t => call'[u] = call[u]  BY <1>1 DEF Serves, CallOK
  <1>4. c = NoCall \/ (c.obj = call[t].obj /\ CallFits(t)')  BY DEF Serves
  <1>5. \A u \in Threads : ~Idle(u) /\ u # t => call[u].obj # call[t].obj /\ call[u].obj \in Objects
    BY CallFacts DEF Calls, OneCall
  <1>6. CallsFit'
    <2> SUFFICES ASSUME NEW u \in Threads, ~Idle(u)' PROVE CallFits(u)'  BY DEF CallsFit
    <2>1. CASE u = t  BY <1>3, <1>4, <2>1 DEF Idle, NoCall
    <2>2. CASE u # t
      <3>1. call'[u] = call[u] /\ ~Idle(u)  BY <1>3, <2>2 DEF Idle
      <3>2. objects'[call[u].obj] = objects[call[u].obj]  BY <1>2, <1>5, <2>2, <3>1
      <3>3. CallFits(u)  BY <3>1 DEF Calls, CallsFit
      <3>4. Posted(call[u].obj)' => Posted(call[u].obj)  BY <3>1 DEF Posted
      <3> QED BY <3>1, <3>2, <3>3, <3>4, FitsStill
    <2> QED BY <2>1, <2>2
  <1>7. OneCall'
    <2>1. \A u \in Threads : ~Idle(u)' => ~Idle(u) /\ call'[u].obj = call[u].obj
      BY <1>3, <1>4 DEF Idle, NoCall
    <2> QED BY <2>1 DEF Calls, OneCall
  <1> QED BY <1>6, <1>7 DEF Calls

LEMMA ServesReach ==
  ASSUME IInv, Data, Calls, Reach, NEW t \in Threads, ~Idle(t), NEW r, NEW c, Serves(t, r, c),
         UNCHANGED <<kind, phase, transfers, tlb>>,
         kind = "simple" => next_free' >= next_free /\ next_free' \in Nat
                            /\ \A b \in blocks' : b \in blocks \/ b.ptr >= next_free
  PROVE  Reach'
  <1>1. call[t].obj \in Objects /\ ObjectsOK /\ Obj(t) = objects[call[t].obj] /\ BumpOK
    BY ServedTypes DEF IInv, Types
  <1>2. objects'[call[t].obj] = r /\ \A p \in Objects : p # call[t].obj => objects'[p] = objects[p]
    BY <1>1, ReplacedAt DEF Serves, Replaces
  <1>3. ~Posted(call[t].obj)  BY DEF Calls, CallsFit, CallFits
  <1>4. PiecesFit'  BY <1>2, <1>3, PiecesKept DEF Reach
  <1>5. \A p \in Objects : objects'[p].use = "enqueued" =>
           /\ objects[p].use = "enqueued" /\ objects'[p].ptr = objects[p].ptr
           /\ objects'[p].capacity = objects[p].capacity
    BY <1>1, <1>2 DEF Serves
  <1>6. EnqueuedMapped'  BY <1>5, EnqueuedKept DEF Reach
  <1>7. PagesKnown'  BY <1>1, PagesKept DEF Reach
  <1>8. \A p \in Objects : objects'[p].use \in InManager => objects[p].use \in InManager
    BY <1>1, <1>2 DEF Serves
  <1>9. PhaseFits'  BY <1>8 DEF Reach, PhaseFits
  <1> QED BY <1>4, <1>6, <1>7, <1>9 DEF Reach

\* The linear allocator only puts blocks above the start of the free memory.
LEMMA SimpleAbove ==
  ASSUME IInv, IInv', NEW t \in Threads, SimpleCall(t)
  PROVE  /\ next_free' >= next_free /\ next_free' \in Nat
         /\ \A b \in blocks' : b \in blocks \/ b.ptr >= next_free
  <1>1. next_free \in Nat /\ next_free' \in Nat  BY PoolAssumption DEF IInv, Space, BumpOK
  <1> DEFINE p == LinearStart(call[t].alignment)
  <1>2. CASE UNCHANGED next_free /\ blocks' \subseteq blocks  BY <1>1, <1>2
  <1>3. CASE /\ call[t].new > 0 /\ LinearAllocate(call[t].new, call[t].alignment)
             /\ blocks' \subseteq blocks \cup {Block(p, call[t].new)}
    <2>1. p >= next_free /\ next_free' >= next_free  BY <1>3, LinearPlaces
    <2>2. Block(p, call[t].new).ptr = p  BY DEF Block
    <2> HIDE DEF p
    <2> QED BY <1>1, <1>3, <2>1, <2>2
  <1>4. CASE SimpleAllocateNothing(t)  BY <1>2, <1>4 DEF SimpleAllocateNothing
  <1>5. CASE SimpleAllocate(t)  BY <1>2, <1>3, <1>5 DEF SimpleAllocate
  <1>6. CASE SimpleReallocate(t)  BY <1>2, <1>3, <1>6 DEF SimpleReallocate
  <1>7. CASE SimpleFree(t)  BY <1>2, <1>7 DEF SimpleFree, LinearFree
  <1> QED BY <1>4, <1>5, <1>6, <1>7 DEF SimpleCall

LEMMA CallStep ==
  ASSUME IInv, IInv', Data, Calls, Reach, NEW t \in Threads, Call(t)
  PROVE  Data' /\ Calls' /\ Reach'
  <1>1. UNCHANGED <<requests, tlb, transfers, phase>> /\ ~Idle(t)  BY DEF Call, SimpleCall, HugeCall
  <1>2. CallFits(t)  BY <1>1 DEF Calls, CallsFit
  <1>3. UNCHANGED kind
    <2>1. SimpleCall(t) => UNCHANGED kind
      BY DEF SimpleCall, SimpleAllocateNothing, SimpleAllocate, SimpleReallocate, SimpleFree, simpleRest
    <2>2. HugeCall(t) => UNCHANGED kind
      BY DEF HugeCall, HugeEnter, FindTcache, CreateTcache, Mallocx, Rallocx, Dallocx,
             JemallocOfNull, Count, hugeRest
    <2> QED BY <2>1, <2>2 DEF Call
  <1>4. PICK r, c : Serves(t, r, c)  BY <1>1, <1>2, SimpleServes, HugeServes DEF Call
  <1>5. kind = "simple" => next_free' >= next_free /\ next_free' \in Nat
                           /\ \A b \in blocks' : b \in blocks \/ b.ptr >= next_free
    <2>1. kind = "simple" => SimpleCall(t)  BY DEF Call, HugeCall
    <2> QED BY <2>1, SimpleAbove
  <1>6. call[t].obj \in Objects  BY <1>1, ServedTypes
  <1>7. Data'  BY <1>3, <1>4, <1>6, DataStep DEF Serves
  <1>8. Calls'  BY <1>1, <1>3, <1>4, ServesCalls
  <1>9. Reach'  BY <1>1, <1>3, <1>4, <1>5, ServesReach
  <1> QED BY <1>7, <1>8, <1>9

----
(* The callers of the pool.                                                *)

LEMMA DataSame ==
  ASSUME Data, UNCHANGED <<objects, blocks, mem, kind>>
  PROVE  Data'
  <1>1. Shapes' /\ Owned' /\ Apart'
    BY DEF Data, Shapes, Owned, Apart, Held, NoMemory, Area, BlockSize, Holds, Shape,
           ZeroSizePointer, NullPointer, Block
  <1>2. MemOK' /\ DataInside' /\ Intact'
    BY DEF Data, MemOK, DataInside, Intact, Full, Held, NoMemory, Area, BlockSize,
           ZeroSizePointer, NullPointer, Addr
  <1> QED BY <1>1, <1>2 DEF Data

\* A posted object is input memory.
LEMMA PostedIsInput ==
  ASSUME PiecesFit, NEW o \in Objects, Posted(o)
  PROVE  objects[o].use = "input"
  BY DEF PiecesFit, PieceFits, Posted

\* A new call, about an object that no other call is about.
LEMMA BeginCalls ==
  ASSUME IInv, IInv', Calls, NEW t \in Threads, NEW o \in Objects, NEW op, NEW old, NEW new,
         NEW alignment, Begin(t, o, op, old, new, alignment), CallFits(t)',
         \A p \in Objects : p # o => objects'[p] = objects[p]
  PROVE  Calls'
  <1>1. /\ ~Busy(o) /\ UNCHANGED <<phase, transfers, kind>> /\ CallOK
        /\ call' = [call EXCEPT ![t] = [op |-> op, obj |-> o, old |-> old, new |-> new,
                                        alignment |-> alignment, pc |-> "enter"]]
    BY DEF Begin, memoryVars, IInv, Types
  <1>2. call'[t].obj = o /\ \A u \in Threads : u # t => call'[u] = call[u]  BY <1>1 DEF CallOK
  <1>3. \A u \in Threads : ~Idle(u) => call[u].obj # o /\ call[u].obj \in Objects
    BY <1>1, CallFacts DEF Busy
  <1>4. CallsFit'
    <2> SUFFICES ASSUME NEW u \in Threads, ~Idle(u)' PROVE CallFits(u)'  BY DEF CallsFit
    <2>1. CASE u = t  BY <2>1
    <2>2. CASE u # t
      <3>1. call'[u] = call[u] /\ ~Idle(u)  BY <1>2, <2>2 DEF Idle
      <3>2. objects'[call[u].obj] = objects[call[u].obj]  BY <1>3, <3>1
      <3>3. CallFits(u)  BY <3>1 DEF Calls, CallsFit
      <3>4. Posted(call[u].obj)' => Posted(call[u].obj)  BY <1>1, <3>1 DEF Posted
      <3> QED BY <1>1, <3>1, <3>2, <3>3, <3>4, FitsStill
    <2> QED BY <2>1, <2>2
  <1>5. OneCall'
    <2>1. \A u \in Threads : u # t /\ ~Idle(u)' => ~Idle(u) /\ call'[u].obj = call[u].obj
      BY <1>2 DEF Idle
    <2> QED BY <1>2, <1>3, <2>1 DEF Calls, OneCall
  <1> QED BY <1>4, <1>5 DEF Calls

\* What a new call is about, from what its caller knows of the object.
LEMMA BeginFits ==
  ASSUME IInv, Reach, NEW t \in Threads, NEW o \in Objects, NEW op \in {"allocate", "reallocate", "free"},
         NEW old, NEW new, NEW alignment, Begin(t, o, op, old, new, alignment),
         op = "allocate" => objects'[o].ptr = ZeroSizePointer /\ objects'[o].use \in {"asked", "output"},
         op = "reallocate" =>
           \/ objects'[o].use = "input" /\ old = objects'[o].size
           \/ /\ objects'[o].use = "written" /\ old = objects'[o].capacity
              /\ new = objects'[o].size /\ 0 < new /\ new < old,
         op = "free" => new = 0, phase # "running" => op = "free", ~Posted(o)
  PROVE  CallFits(t)'
  <1> DEFINE c == [op |-> op, obj |-> o, old |-> old, new |-> new,
                   alignment |-> alignment, pc |-> "enter"]
  <1>1. call' = [call EXCEPT ![t] = c] /\ UNCHANGED <<kind, phase, transfers>>
    BY DEF Begin, memoryVars
  <1>2. c.op = op /\ c.obj = o /\ c.old = old /\ c.new = new /\ c.pc = "enter"  OBVIOUS
  <1>3. call'[t] = c  BY <1>1 DEF IInv, Types, CallOK
  <1> HIDE DEF c
  <1>4. Obj(t)' = objects'[o]  BY <1>2, <1>3 DEF Obj
  <1>5. ~Posted(call[t].obj)'  BY <1>1, <1>2, <1>3 DEF Posted
  <1> QED BY <1>1, <1>2, <1>3, <1>4, <1>5 DEF CallFits, InJemalloc, ZeroSizePointer

\* An object without a block gets a use.
LEMMA UseGiven ==
  ASSUME IInv, Data, NEW o \in Objects, Fresh(o), NEW use \in {"asked", "output"},
         objects' = [objects EXCEPT ![o].use = use], UNCHANGED <<blocks, mem>>
  PROVE  /\ \E r : Replaces(o, r) /\ Rewrites(o, r)
         /\ objects'[o].ptr = ZeroSizePointer /\ objects'[o].use = use
         /\ \A p \in Objects : p # o => objects'[p] = objects[p]
  <1>1. ObjectsOK /\ objects[o] \in ObjectType /\ Shape(objects[o]) /\ objects[o].use = "none"
    BY DEF IInv, Types, ObjectsOK, Data, Shapes, Fresh
  <1> DEFINE r == [objects[o] EXCEPT !.use = use]
  <1>2. /\ r \in ObjectType /\ r.use = use /\ r.ptr = objects[o].ptr /\ r.size = objects[o].size
        /\ r.capacity = objects[o].capacity /\ r.valid = objects[o].valid
    BY <1>1 DEF ObjectType, Uses
  <1>a. objects[o].ptr = ZeroSizePointer /\ NoMemory(objects[o])  BY <1>1 DEF Shape, NoMemory
  <1>3. objects[o].ptr = ZeroSizePointer /\ r.size = 0 /\ r.capacity = 0
    BY <1>1, <1>2, <1>a DEF Shape
  <1>4. BlockSize(objects[o]) = 0 /\ objects[o].valid = 0  BY <1>1, <1>a, ObjectFacts
  <1>b. ZeroSizePointer # NullPointer  BY PoolAssumption DEF ZeroSizePointer, NullPointer
  <1>5. objects' = [objects EXCEPT ![o] = r]  BY <1>1 DEF ObjectsOK
  <1> HIDE DEF r
  <1>6. Shape(r) /\ BlockSize(r) = 0  BY <1>2, <1>3, <1>4, <1>b DEF Shape, BlockSize
  <1>7. r.valid <= objects[o].valid  BY <1>2, <1>4
  <1>8. Replaces(o, r) /\ Rewrites(o, r)  BY <1>2, <1>4, <1>5, <1>6, <1>7, KeepsBlock
  <1>9. objects'[o] = r /\ \A p \in Objects : p # o => objects'[p] = objects[p]
    BY <1>1, <1>5, ReplacedAt
  <1> QED BY <1>2, <1>3, <1>8, <1>9

\* When an object gets memory, nothing that is posted or enqueued changes.
LEMMA BeginReach ==
  ASSUME IInv, IInv', Reach, UNCHANGED <<transfers, tlb, phase, kind, blocks, next_free>>,
         UNCHANGED objects \/ \E o \in Objects :
           /\ phase = "running" /\ objects[o].use = "none" /\ objects'[o].use \in {"asked", "output"}
           /\ \A p \in Objects : p # o => objects'[p] = objects[p]
  PROVE  Reach'
  <1>1. \A p \in Objects : objects[p].use # "none" => objects'[p] = objects[p]  OBVIOUS
  <1>2. PiecesFit'  BY <1>1, PostedIsInput, PiecesKept DEF Reach
  <1>3. \A p \in Objects : objects'[p].use = "enqueued" => objects'[p] = objects[p]  OBVIOUS
  <1>4. EnqueuedMapped'  BY <1>3, EnqueuedKept DEF Reach
  <1>5. BumpOK /\ next_free' \in Nat /\ next_free \in Nat  BY PoolAssumption DEF IInv, Space, BumpOK
  <1>6. PagesKnown'  BY <1>5, PagesKept DEF Reach
  <1>7. PhaseFits'  BY DEF Reach, PhaseFits
  <1> QED BY <1>2, <1>4, <1>6, <1>7 DEF Reach

LEMMA CallersData ==
  ASSUME IInv, IInv', Data, Calls, Reach, NEW t \in Threads, NEW o \in Objects, Callers(t, o)
  PROVE  Data' /\ Calls' /\ Reach'
  <1>1. PiecesFit /\ (Posted(o) => objects[o].use = "input")  BY PostedIsInput DEF Reach
  <1>2. ASSUME NEW op \in {"allocate", "reallocate", "free"}, NEW old, NEW new, NEW alignment,
               Begin(t, o, op, old, new, alignment)
        PROVE  UNCHANGED <<blocks, mem, next_free, kind, tlb, transfers, phase>>
    BY <1>2 DEF Begin, memoryVars
  <1>3. objects[o] \in ObjectType /\ Shape(objects[o])  BY DEF IInv, Types, ObjectsOK, Data, Shapes
  <1>4. ASSUME NEW new, NEW alignment, Begin(t, o, "allocate", 0, new, alignment), Fresh(o),
               NEW use \in {"asked", "output"}, objects' = [objects EXCEPT ![o].use = use],
               phase = "running"
        PROVE  Data' /\ Calls' /\ Reach'
    <2>1. UNCHANGED <<blocks, mem, next_free, kind, tlb, transfers, phase>>  BY <1>2, <1>4
    <2>2. /\ \E r : Replaces(o, r) /\ Rewrites(o, r)
          /\ objects'[o].ptr = ZeroSizePointer /\ objects'[o].use = use
          /\ \A p \in Objects : p # o => objects'[p] = objects[p]
      BY <1>4, <2>1, UseGiven
    <2>3. Data'  BY <2>1, <2>2, DataStep
    <2>4. objects[o].use = "none"  BY <1>4 DEF Fresh
    <2>5. CallFits(t)'  BY <1>1, <1>4, <2>2, <2>4, BeginFits
    <2>6. Calls'  BY <1>4, <2>2, <2>5, BeginCalls
    <2>7. Reach'  BY <1>4, <2>1, <2>2, <2>4, BeginReach
    <2> QED BY <2>3, <2>6, <2>7
  <1>5. ASSUME NEW op \in {"reallocate", "free"}, NEW old, NEW new, NEW alignment,
               Begin(t, o, op, old, new, alignment), UNCHANGED objects, CallFits(t)'
        PROVE  Data' /\ Calls' /\ Reach'
    <2>1. UNCHANGED <<blocks, mem, next_free, kind, tlb, transfers, phase>>  BY <1>2, <1>5
    <2>2. Data'  BY <1>5, <2>1, DataSame
    <2>3. \A p \in Objects : p # o => objects'[p] = objects[p]  BY <1>5
    <2>4. Calls'  BY <1>5, <2>3, BeginCalls
    <2>5. Reach'  BY <1>5, <2>1, BeginReach
    <2> QED BY <2>2, <2>4, <2>5
  <1>6. CASE AllocateInput(t, o)  BY <1>4, <1>6 DEF AllocateInput
  <1>7. CASE AllocateOutput(t, o)  BY <1>4, <1>7 DEF AllocateOutput
  <1>8. CASE ReallocateInput(t, o)
    <2>1. /\ phase = "running" /\ objects[o].use = "input" /\ ~Posted(o) /\ UNCHANGED objects
          /\ \E n \in Sizes, a \in Alignments : Begin(t, o, "reallocate", objects[o].size, n, a)
      BY <1>8 DEF ReallocateInput
    <2>2. PICK n \in Sizes, a \in Alignments : Begin(t, o, "reallocate", objects[o].size, n, a)
      BY <2>1
    <2>3. CallFits(t)'  BY <2>1, <2>2, BeginFits
    <2> QED BY <1>5, <2>1, <2>2, <2>3
  <1>9. CASE FreeInput(t, o)
    <2>1. /\ phase = "running" /\ objects[o].use = "input" /\ ~Posted(o) /\ UNCHANGED objects
          /\ Begin(t, o, "free", objects[o].size, 0, DEFAULT_ALIGNMENT)
      BY <1>9 DEF FreeInput
    <2>2. CallFits(t)'  BY <2>1, BeginFits
    <2> QED BY <1>5, <2>1, <2>2
  <1>10. CASE ShrinkOutput(t, o)
    <2>1. /\ phase = "running" /\ objects[o].use = "written" /\ UNCHANGED objects
          /\ objects[o].size \in 1 .. objects[o].capacity - 1
          /\ Begin(t, o, "reallocate", objects[o].capacity, objects[o].size, DEFAULT_ALIGNMENT)
      BY <1>10 DEF ShrinkOutput
    <2>2. 0 < objects[o].size /\ objects[o].size < objects[o].capacity  BY <1>3, <2>1, ObjectFacts
    <2>3. ~Posted(o)  BY <1>1, <2>1
    <2>4. CallFits(t)'  BY <2>1, <2>2, <2>3, BeginFits
    <2> QED BY <1>5, <2>1, <2>4
  <1>11. CASE FreeOutput(t, o) \/ FreeEnqueued(t, o)
    <2>1. /\ objects[o].use # "input" /\ UNCHANGED objects
          /\ Begin(t, o, "free", objects[o].capacity, 0, DEFAULT_ALIGNMENT)
      BY <1>11 DEF FreeOutput, FreeEnqueued, InManager
    <2>2. CallFits(t)'  BY <1>1, <2>1, BeginFits
    <2> QED BY <1>5, <2>1, <2>2
  <1> QED BY <1>6, <1>7, <1>8, <1>9, <1>10, <1>11 DEF Callers

----
(* The mappings of the TLBManager.                                         *)

\* Every address lies in its huge page.
LEMMA HugePageFacts ==
  ASSUME NEW a \in Nat
  PROVE  /\ HugePage(a) \in [ptr : Nat, size : Nat \ {0}] /\ HugePage(a).size = PAGE_SIZE
         /\ a \in Area(HugePage(a).ptr, HugePage(a).size)
  <1> DEFINE q == a \div PAGE_SIZE
             r == a % PAGE_SIZE
  <1>1. PAGE_SIZE \in Nat \ {0}  BY HugePageAssumption
  <1>2. q \in Nat /\ r \in 0 .. PAGE_SIZE - 1 /\ a = PAGE_SIZE * q + r  BY <1>1, Z3
  <1>3. PAGE_SIZE * q \in Nat  BY <1>1, <1>2
  <1>4. HugePage(a).ptr = PAGE_SIZE * q /\ HugePage(a).size = PAGE_SIZE  BY DEF HugePage, Block
  <1>5. HugePage(a) \in [ptr : Nat, size : Nat \ {0}]  BY <1>1, <1>3 DEF HugePage, Block
  <1> HIDE DEF q, r
  <1>6. a \in PAGE_SIZE * q .. PAGE_SIZE * q + PAGE_SIZE - 1  BY <1>1, <1>2, <1>3
  <1> QED BY <1>4, <1>5, <1>6 DEF Area

\* So does every address of a block in the simple pool.
LEMMA SimplePageFacts ==
  ASSUME BlocksOK, NEW b \in blocks, NEW a \in Area(b.ptr, b.size)
  PROVE  /\ SimplePage(a) \in blocks
         /\ a \in Area(SimplePage(a).ptr, SimplePage(a).size)
  BY DEF SimplePage

\* Blocks at the same address are one block.
LEMMA OneBlock ==
  ASSUME BlocksOK, NEW b \in blocks, NEW c \in blocks, b.ptr = c.ptr
  PROVE  b = c
  <1>1. b.ptr \in Nat /\ b.size \in Nat \ {0} /\ c.ptr \in Nat /\ c.size \in Nat \ {0}
    BY DEF BlocksOK
  <1>2. b # c => Contract!Disjoint(b, c)  BY DEF BlocksOK
  <1> QED BY <1>1, <1>2 DEF Contract!Disjoint

\* Data that lies in the huge pages, or in a block of the simple pool, can be mapped.
Mappable(p, n) ==
  \/ kind = "huge"
  \/ kind = "simple" /\ \A a \in Area(p, n) : \E b \in blocks : a \in Area(b.ptr, b.size)

LEMMA PageFacts ==
  ASSUME IInv, NEW p \in Nat, NEW n \in Nat, Mappable(p, n), NEW a \in Area(p, n)
  PROVE  /\ Page(a) \in [ptr : Nat, size : Nat \ {0}] /\ a \in Area(Page(a).ptr, Page(a).size)
         /\ kind = "huge" => Page(a).size = PAGE_SIZE
         /\ kind = "simple" => Page(a) \in blocks
  <1>1. a \in Nat  BY DEF Area
  <1>2. CASE kind = "huge"  BY <1>1, <1>2, HugePageFacts DEF Page
  <1>3. CASE kind = "simple"
    <2>1. BlocksOK /\ blocks \subseteq [ptr : Nat, size : Nat \ {0}]  BY DEF IInv, Space, BlocksOK
    <2>2. PICK b \in blocks : a \in Area(b.ptr, b.size)  BY <1>3 DEF Mappable
    <2>3. SimplePage(a) \in blocks /\ a \in Area(SimplePage(a).ptr, SimplePage(a).size)
      BY <2>1, <2>2, SimplePageFacts
    <2> QED BY <1>3, <2>1, <2>3 DEF Page
  <1> QED BY <1>2, <1>3 DEF Mappable

\* ensure_tlb_mapping maps what it is asked for, and keeps what was mapped.
LEMMA EnsureMapped ==
  ASSUME IInv, PagesKnown, NEW p \in Nat, NEW n \in Nat, Mappable(p, n),
         ensure_tlb_mapping(p, n), UNCHANGED <<blocks, next_free, kind>>
  PROVE  Mapped(p, n)' /\ PagesKnown' /\ tlb \subseteq tlb'
  <1> DEFINE New == {page \in PagesOf(p, p + n - 1) : \A m \in tlb : m.ptr # page.ptr}
  <1>1. tlb' = tlb \cup New  BY DEF ensure_tlb_mapping
  <1>2. PagesOf(p, p + n - 1) = {Page(a) : a \in Area(p, n)}  BY DEF PagesOf, Area
  <1>3. \A page \in New : \E a \in Area(p, n) : page = Page(a)  BY <1>2
  <1>4. \A a \in Area(p, n) : Page(a) \in New \/ \E m \in tlb : m.ptr = Page(a).ptr  BY <1>2
  <1> HIDE DEF New
  <1>5. BlocksOK /\ BumpOK  BY DEF IInv, Space
  <1>6. \A page \in New : /\ page \in [ptr : Nat, size : Nat \ {0}]
                          /\ kind = "huge" => page.size = PAGE_SIZE
                          /\ kind = "simple" => page \in blocks
    BY <1>3, PageFacts
  <1>7. Mapped(p, n)'
    <2> SUFFICES ASSUME NEW a \in Area(p, n) PROVE \E m \in tlb' : a \in Area(m.ptr, m.size)
      BY DEF Mapped, Area
    <2>1. /\ a \in Area(Page(a).ptr, Page(a).size)
          /\ kind = "huge" => Page(a).size = PAGE_SIZE
          /\ kind = "simple" => Page(a) \in blocks
      BY PageFacts
    <2>2. CASE Page(a) \in New  BY <1>1, <2>1, <2>2
    <2>3. CASE \E m \in tlb : m.ptr = Page(a).ptr
      <3>1. PICK m \in tlb : m.ptr = Page(a).ptr  BY <2>3
      <3>2. m.size = Page(a).size  BY <2>1, <3>1 DEF PagesKnown, Mappable
      <3> QED BY <1>1, <2>1, <3>1, <3>2
    <2> QED BY <1>4, <2>2, <2>3
  <1>8. PagesKnown'
    <2>1. tlb' \subseteq [ptr : Nat, size : Nat \ {0}]  BY <1>1, <1>6 DEF PagesKnown
    <2>2. kind = "huge" => \A m \in tlb' : m.size = PAGE_SIZE  BY <1>1, <1>6 DEF PagesKnown
    <2>3. ASSUME kind = "simple", NEW m \in New
          PROVE  m.ptr + m.size <= next_free /\ \A b \in blocks : b.ptr = m.ptr => b = m
      BY <1>5, <1>6, <2>3, OneBlock DEF BlocksOK
    <2>4. kind = "simple" =>
            \A m \in tlb' : m.ptr + m.size <= next_free /\ \A b \in blocks : b.ptr = m.ptr => b = m
      BY <1>1, <2>3 DEF PagesKnown
    <2> QED BY <2>1, <2>2, <2>4 DEF PagesKnown
  <1> QED BY <1>1, <1>7, <1>8

\* What an object holds can be mapped.
LEMMA HeldMappable ==
  ASSUME IInv, Data, Reach, phase = "running", NEW o \in Objects, NEW n \in Nat,
         n <= BlockSize(objects[o]), n > 0
  PROVE  /\ objects[o].ptr \in Nat /\ ~NoMemory(objects[o])
         /\ Mappable(objects[o].ptr, n)
  <1>1. objects[o] \in ObjectType /\ Shape(objects[o]) /\ Holds(objects[o], blocks)
    BY DEF IInv, Types, ObjectsOK, Data, Shapes, Owned
  <1>2. objects[o].ptr \in Nat /\ BlockSize(objects[o]) \in Nat  BY <1>1, ObjectFacts
  <1>3. ~NoMemory(objects[o])  BY <1>1, <1>2, ObjectFacts
  <1>4. kind \in {"huge", "simple"}  BY DEF IInv, Space, BumpOK, Reach, PhaseFits
  <1> DEFINE b == Block(objects[o].ptr, BlockSize(objects[o]))
  <1>5. b \in blocks /\ b.ptr = objects[o].ptr /\ b.size = BlockSize(objects[o])
    BY <1>1, <1>3 DEF Holds, Block
  <1> HIDE DEF b
  <1>6. Area(objects[o].ptr, n) \subseteq Area(b.ptr, b.size)  BY <1>2, <1>5 DEF Area
  <1> QED BY <1>2, <1>3, <1>4, <1>5, <1>6 DEF Mappable

----
(* The transfers of the application.                                       *)

\* A piece starts inside what it is a piece of.
LEMMA PieceStart ==
  ASSUME NEW size \in Nat \ {0}, NEW M \in Nat \ {0}, NEW k \in 1 .. (size + M - 1) \div M
  PROVE  (k - 1) * M \in Nat /\ (k - 1) * M < size
  <1> DEFINE n == size + M - 1
             K == n \div M
             r == n % M
  <1>1. n \in Nat  OBVIOUS
  <1>2. K \in Nat /\ r \in 0 .. M - 1 /\ n = M * K + r  BY <1>1, Z3
  <1>3. k \in 1 .. K  OBVIOUS
  <1> HIDE DEF K, r
  <1> DEFINE d == K - k
             j == k - 1
  <1>4. d \in Nat /\ j \in Nat  BY <1>2, <1>3
  <1>5. d * M \in Nat /\ j * M \in Nat  BY <1>4
  <1>6. M * K = M * j + M * d + M  BY <1>2, <1>3, <1>4, Z3
  <1>7. j * M = M * j /\ d * M = M * d  BY <1>4, Z3
  <1>8. M * j < size  BY <1>2, <1>4, <1>5, <1>6, <1>7
  <1> QED BY <1>5, <1>7, <1>8

\* The pieces of an object lie in it, and the last one ends with it.
LEMMA PiecesFacts ==
  ASSUME IInv, Data, Reach, phase = "running", NEW o \in Objects,
         objects[o].use = "input", objects[o].size > 0,
         ensure_tlb_mapping(objects[o].ptr, objects[o].size),
         UNCHANGED <<objects, blocks, next_free, kind>>
  PROVE  /\ Pieces(o) \in Seq(PieceType)
         /\ \A x : (\E k \in DOMAIN Pieces(o) : x = Pieces(o)[k]) => PieceFits(x)'
  <1> DEFINE size == objects[o].size
             ptr == objects[o].ptr
             M == MAX_TRANSFER_SIZE
             K == (size + M - 1) \div M
             Off(k) == (k - 1) * M
  <1>1. objects[o] \in ObjectType /\ Shape(objects[o]) /\ Holds(objects[o], blocks)
        /\ BlocksOK /\ BumpOK
    BY DEF IInv, Types, Space, ObjectsOK, Data, Shapes, Owned
  <1>2. size \in Nat \ {0} /\ M \in Nat \ {0} /\ BlockSize(objects[o]) = size
    BY <1>1, ObjectFacts, HostAssumption DEF BlockSize
  <1>3. ptr \in Nat /\ ~NoMemory(objects[o]) /\ Mappable(ptr, size)  BY <1>2, HeldMappable
  <1>4. \A a \in Area(ptr, size) : \E m \in tlb' : a \in Area(m.ptr, m.size)
    <2>1. \A p, n : p = ptr /\ n = size => Mapped(p, n)'  BY <1>2, <1>3, EnsureMapped DEF Reach
    <2> QED BY <2>1 DEF Mapped, Area
  <1>5. Held(objects[o]) = Area(ptr, size) /\ Held(objects[o]) \subseteq Addr
    BY <1>1, <1>2, <1>3, HeldFacts DEF Held
  <1>6. Pieces(o) = [k \in 1 .. K |->
                       [obj |-> o, ptr |-> ptr + Off(k), len |-> MinOf(size - Off(k), M),
                        last |-> Off(k) + M >= size]]
    BY DEF Pieces
  <1>7. K \in Nat
    <2> DEFINE n == size + M - 1
    <2>1. n \in Nat  BY <1>2
    <2> HIDE DEF n
    <2>2. n \div M \in Nat  BY <1>2, <2>1, Z3
    <2> QED BY <2>2 DEF n
  <1>8. ASSUME NEW k \in 1 .. K, NEW x, x = Pieces(o)[k]
        PROVE  x \in PieceType /\ PieceFits(x)'
    <2>1. Off(k) \in Nat /\ Off(k) < size
      <3> HIDE DEF size, M
      <3> QED BY <1>2, PieceStart
    <2> DEFINE off == Off(k)
               len == MinOf(size - off, M)
    <2>2. x = [obj |-> o, ptr |-> ptr + off, len |-> len, last |-> off + M >= size]  BY <1>6, <1>8
    <2>3. off \in Nat /\ off < size  BY <2>1
    <2> HIDE DEF Off, off
    <2>4. len \in Nat \ {0} /\ off + len <= size /\ (off + M >= size <=> off + len = size)
      BY <1>2, <2>3 DEF MinOf
    <2> HIDE DEF len
    <2>5. /\ x.obj = o /\ x.ptr = ptr + off /\ x.len = len
          /\ x.last = (off + M >= size)
      BY <2>2
    <2>6. Area(ptr + off, len) \subseteq Area(ptr, size)  BY <1>2, <1>3, <2>3, <2>4 DEF Area
    <2>7. ptr + off \in Area(ptr, size)  BY <1>2, <1>3, <2>3 DEF Area
    <2>8. x \in PieceType  BY <1>5, <2>2, <2>4, <2>7 DEF PieceType
    <2>9. x.last <=> x.ptr + x.len = ptr + size
      <3>0. \A p, f, l, n \in Nat : p + f + l = p + n <=> f + l = n  OBVIOUS
      <3>1. ptr + off + len = ptr + size <=> off + len = size
        <4>1. ptr \in Nat /\ off \in Nat /\ len \in Nat /\ size \in Nat  BY <1>2, <1>3, <2>3, <2>4
        <4> HIDE DEF ptr, size
        <4> QED BY <3>0, <4>1
      <3>2. x.ptr + x.len = ptr + off + len  BY <2>5
      <3>3. x.last <=> off + M >= size  BY <2>5
      <3>4. off + M >= size <=> off + len = size  BY <2>4
      <3>5. x.ptr + x.len = ptr + size <=> ptr + off + len = ptr + size  BY <3>2, Zenon
      <3> QED BY <3>1, <3>3, <3>4, <3>5, Zenon
    <2>10. \A a \in Area(x.ptr, x.len) : \E m \in tlb' : a \in Area(m.ptr, m.size)
      BY <1>4, <2>5, <2>6
    <2>12. PieceFits(x)'
      <3>1. objects' = objects /\ Held(objects[o])' = Held(objects[o])
        BY DEF Held, Area, BlockSize, NoMemory, ZeroSizePointer, NullPointer
      <3>2. Area(x.ptr, x.len) \subseteq Held(objects[o])  BY <1>5, <2>5, <2>6
      <3>3. Mapped(x.ptr, x.len)'  BY <2>5, <2>10 DEF Mapped, Area
      <3> QED BY <2>5, <2>9, <3>1, <3>2, <3>3 DEF PieceFits, Area
    <2> QED BY <2>8, <2>12
  <1> HIDE DEF K
  <1>9. DOMAIN Pieces(o) = 1 .. K  BY <1>6
  <1>10. Pieces(o) \in Seq(PieceType)  BY <1>6, <1>7, <1>8, <1>9
  <1> QED BY <1>8, <1>9, <1>10

----
(* The steps outside of the pool.                                          *)

\* The calls, when only an object changes that no call under way reads.
LEMMA CallsKept ==
  ASSUME IInv, Calls, UNCHANGED <<call, kind, phase>>,
         \A p \in Objects : Posted(p)' => Posted(p) \/ ~Busy(p),
         \A p \in Objects : \/ objects'[p] = objects[p]
                            \/ /\ objects'[p].ptr = objects[p].ptr
                               /\ \A u \in Threads : ~Idle(u) /\ call[u].obj = p =>
                                    call[u].op = "free" \/ call[u].pc = "count"
  PROVE  Calls'
  <1>1. OneCall'  BY DEF Calls, OneCall, Idle
  <1>2. ASSUME NEW u \in Threads, ~Idle(u)
        PROVE  CallFits(u)'
    <2>1. CallFits(u) /\ call[u].obj \in Objects /\ Busy(call[u].obj)
      BY <1>2, CallFacts DEF Calls, CallsFit, Busy
    <2>2. ~Posted(call[u].obj)'
      <3>1. \A p \in Objects : p = call[u].obj => ~Posted(p)'  BY <2>1 DEF CallFits
      <3> QED BY <2>1, <3>1 DEF Posted
    <2>3. CASE objects'[call[u].obj] = objects[call[u].obj]  BY <2>1, <2>2, <2>3, FitsStill
    <2>4. CASE /\ objects'[call[u].obj].ptr = objects[call[u].obj].ptr
               /\ call[u].op = "free" \/ call[u].pc = "count"
      BY <2>1, <2>2, <2>4 DEF CallFits, InJemalloc, Obj
    <2> QED BY <1>2, <2>1, <2>3, <2>4
  <1>3. CallsFit'  BY <1>2 DEF CallsFit, Idle
  <1> QED BY <1>1, <1>3 DEF Calls

\* An object of the manager changes; it is not posted, and stays with the manager or goes.
LEMMA ManagerReach ==
  ASSUME IInv, IInv', Reach, UNCHANGED <<transfers, phase, kind, blocks, next_free>>,
         NEW o \in Objects, objects[o].use \in InManager,
         \A p \in Objects : p # o => objects'[p] = objects[p],
         tlb \subseteq tlb', PagesKnown', phase # "running" => UNCHANGED tlb,
         objects'[o].use = "enqueued" => Mapped(objects[o].ptr, objects[o].capacity)'
  PROVE  Reach'
  <1>1. objects[o].use # "input"  BY DEF InManager
  <1>2. PiecesFit'  BY <1>1, PostedIsInput, PiecesKept DEF Reach
  <1>3. EnqueuedMapped'
    <2> SUFFICES ASSUME phase' = "running", NEW p \in Objects, objects'[p].use = "enqueued"
                 PROVE  Mapped(objects[p].ptr, objects[p].capacity)'
      BY DEF EnqueuedMapped
    <2>1. CASE p = o  BY <2>1
    <2>2. CASE p # o
      <3>1. objects'[p] = objects[p] /\ Mapped(objects[p].ptr, objects[p].capacity)
        BY <2>2 DEF Reach, EnqueuedMapped
      <3> QED BY <3>1 DEF Mapped, Area
    <2> QED BY <2>1, <2>2
  <1>4. PhaseFits'  BY DEF Reach, PhaseFits
  <1> QED BY <1>2, <1>3, <1>4 DEF Reach

\* Another use of an object with the same block size.
LEMMA UseChanged ==
  ASSUME IInv, Data, NEW o \in Objects, NEW use \in {"enqueued", "delivered"},
         objects[o].use \in {"output", "written"}, kind' = kind,
         objects' = [objects EXCEPT ![o].use = use], UNCHANGED <<blocks, mem>>,
         objects[o].size = objects[o].capacity
  PROVE  /\ \E r : Replaces(o, r) /\ Rewrites(o, r)
         /\ objects'[o].use = use /\ objects'[o].ptr = objects[o].ptr
         /\ objects'[o].capacity = objects[o].capacity
         /\ \A p \in Objects : p # o => objects'[p] = objects[p]
  <1>1. ObjectsOK /\ objects[o] \in ObjectType /\ Shape(objects[o])
    BY DEF IInv, Types, ObjectsOK, Data, Shapes
  <1> DEFINE r == [objects[o] EXCEPT !.use = use]
  <1>2. /\ r \in ObjectType /\ r.use = use /\ r.ptr = objects[o].ptr /\ r.size = objects[o].size
        /\ r.capacity = objects[o].capacity /\ r.valid = objects[o].valid
    BY <1>1 DEF ObjectType, Uses
  <1>3. objects' = [objects EXCEPT ![o] = r]  BY <1>1 DEF ObjectsOK
  <1> HIDE DEF r
  <1>4. Shape(r) /\ BlockSize(r) = BlockSize(objects[o])
    <2>1. objects[o].ptr # NullPointer  BY <1>1 DEF Shape
    <2>2. BlockSize(r) = BlockSize(objects[o])  BY <1>2 DEF BlockSize
    <2>3. r.use \notin {"none", "asked", "gone"} /\ r.ptr # NullPointer  BY <1>2, <2>1
    <2>4. NoMemory(r) => r.size = 0 /\ r.capacity = 0  BY <1>1, <1>2 DEF Shape, NoMemory
    <2>5. r.valid <= r.size /\ r.size <= r.capacity  BY <1>1, <1>2 DEF Shape
    <2>6. r.size = r.capacity  BY <1>2
    <2> QED BY <2>2, <2>3, <2>4, <2>5, <2>6 DEF Shape
  <1>5. r.valid <= objects[o].valid  BY <1>1, <1>2, ObjectFacts
  <1>6. Replaces(o, r) /\ Rewrites(o, r)  BY <1>2, <1>3, <1>4, <1>5, KeepsBlock
  <1>7. objects'[o] = r /\ \A p \in Objects : p # o => objects'[p] = objects[p]
    BY <1>1, <1>3, ReplacedAt
  <1> QED BY <1>2, <1>6, <1>7

\* Without new mappings the pages are as known as before.
LEMMA PagesSame ==
  ASSUME PagesKnown, UNCHANGED <<tlb, kind, blocks, next_free>>
  PROVE  PagesKnown' /\ tlb \subseteq tlb'
  BY DEF PagesKnown

LEMMA EnqueueStep ==
  ASSUME IInv, IInv', Data, Calls, Reach, NEW o \in Objects, EnqueueOutput(o)
  PROVE  Data' /\ Calls' /\ Reach'
  <1>1. /\ phase = "running" /\ objects[o].use = "output" /\ ~Busy(o)
        /\ ensure_tlb_mapping(objects[o].ptr, objects[o].capacity)
        /\ objects' = [objects EXCEPT ![o].use = "enqueued"]
        /\ UNCHANGED <<blocks, mem, next_free, kind, call, transfers, phase>>
    BY DEF EnqueueOutput, memoryVars
  <1>2. objects[o] \in ObjectType /\ Shape(objects[o])  BY DEF IInv, Types, ObjectsOK, Data, Shapes
  <1>3. objects[o].size = objects[o].capacity /\ BlockSize(objects[o]) = objects[o].capacity
    BY <1>1, <1>2 DEF Shape, BlockSize
  <1>4. objects[o].capacity \in Nat /\ objects[o].ptr \in Nat  BY <1>2, ObjectFacts
  <1>5. /\ \E r : Replaces(o, r) /\ Rewrites(o, r)
        /\ objects'[o].use = "enqueued" /\ objects'[o].ptr = objects[o].ptr
        /\ objects'[o].capacity = objects[o].capacity
        /\ \A p \in Objects : p # o => objects'[p] = objects[p]
    BY <1>1, <1>3, UseChanged
  <1>6. Data'  BY <1>1, <1>5, DataStep
  <1>7. \A p \in Objects : Posted(p)' => Posted(p)  BY <1>1 DEF Posted
  <1>8. \A u \in Threads : ~Idle(u) => call[u].obj # o  BY <1>1 DEF Busy
  <1>9. Calls'  BY <1>1, <1>5, <1>7, <1>8, CallsKept
  <1>10. Mappable(objects[o].ptr, objects[o].capacity)
    <2>1. CASE objects[o].capacity > 0  BY <1>1, <1>3, <1>4, <2>1, HeldMappable
    <2>2. CASE objects[o].capacity = 0
      <3>1. kind \in {"huge", "simple"}  BY <1>1 DEF IInv, Space, BumpOK, Reach, PhaseFits
      <3>2. Area(objects[o].ptr, 0) = {}  BY <1>4 DEF Area
      <3> QED BY <2>2, <3>1, <3>2 DEF Mappable
    <2> QED BY <1>4, <2>1, <2>2
  <1>11. PagesKnown' /\ tlb \subseteq tlb'
         /\ \A p, n : p = objects[o].ptr /\ n = objects[o].capacity => Mapped(p, n)'
    BY <1>1, <1>4, <1>10, EnsureMapped DEF Reach
  <1>12. Mapped(objects[o].ptr, objects[o].capacity)'  BY <1>5, <1>11 DEF Mapped, Area
  <1>13. objects[o].use \in InManager  BY <1>1 DEF InManager
  <1>14. Reach'  BY <1>1, <1>5, <1>11, <1>12, <1>13, ManagerReach
  <1> QED BY <1>6, <1>9, <1>14

LEMMA FpgaWritesStep ==
  ASSUME IInv, IInv', Data, Calls, Reach, NEW o \in Objects, FpgaWrites(o)
  PROVE  Data' /\ Calls' /\ Reach'
  <1>1. PICK n \in 0 .. objects[o].capacity :
          /\ mem' = Fill(mem, o, objects[o].ptr, n)
          /\ objects' = [objects EXCEPT ![o].use = "written", ![o].size = n, ![o].valid = n]
    BY DEF FpgaWrites
  <1>2. /\ objects[o].use = "enqueued"
        /\ UNCHANGED <<blocks, next_free, kind, call, transfers, phase, tlb>>
    BY DEF FpgaWrites
  <1>3. ObjectsOK /\ objects[o] \in ObjectType /\ Shape(objects[o])
    BY DEF IInv, Types, ObjectsOK, Data, Shapes
  <1> DEFINE r == [objects[o] EXCEPT !.use = "written", !.size = n, !.valid = n]
  <1>4. objects[o].capacity \in Nat /\ objects[o].ptr \in Nat /\ n \in Nat /\ n <= objects[o].capacity
    BY <1>3, ObjectFacts
  <1>5. /\ r \in ObjectType /\ r.use = "written" /\ r.ptr = objects[o].ptr /\ r.size = n
        /\ r.capacity = objects[o].capacity /\ r.valid = n
    BY <1>3, <1>4 DEF ObjectType, Uses
  <1>6. objects' = [objects EXCEPT ![o] = r]  BY <1>1, <1>3 DEF ObjectsOK
  <1> HIDE DEF r
  <1>7. BlockSize(objects[o]) = objects[o].capacity /\ BlockSize(r) = objects[o].capacity
    BY <1>2, <1>3, <1>5 DEF Shape, BlockSize
  <1>8. (NoMemory(objects[o]) => objects[o].capacity = 0) /\ objects[o].ptr # NullPointer
    BY <1>2, <1>3 DEF Shape
  <1>9. Shape(r)
    <2>1. NoMemory(r) => r.size = 0 /\ r.capacity = 0  BY <1>4, <1>5, <1>8 DEF NoMemory
    <2>2. r.valid <= r.size /\ r.size <= r.capacity  BY <1>4, <1>5
    <2> QED BY <1>5, <1>8, <2>1, <2>2 DEF Shape
  <1>10. Area(objects[o].ptr, n) \subseteq Held(objects[o])
    <2>1. CASE NoMemory(objects[o])  BY <1>4, <1>8, <2>1 DEF Area
    <2>2. CASE ~NoMemory(objects[o])  BY <1>4, <1>7, <2>2 DEF Area, Held
    <2> QED BY <2>1, <2>2
  <1>11. r.ptr = objects[o].ptr /\ BlockSize(r) = BlockSize(objects[o])  BY <1>5, <1>7
  <1>12. Replaces(o, r) /\ Rewrites(o, r)
    BY <1>1, <1>2, <1>4, <1>5, <1>6, <1>9, <1>10, <1>11, WritesBlock
  <1>13. objects'[o] = r /\ \A p \in Objects : p # o => objects'[p] = objects[p]
    BY <1>3, <1>6, ReplacedAt
  <1>14. Data'  BY <1>2, <1>12, DataStep
  <1>15. \A p \in Objects : Posted(p)' => Posted(p)  BY <1>2 DEF Posted
  <1>16. \A u \in Threads : ~Idle(u) /\ call[u].obj = o => call[u].op = "free" \/ call[u].pc = "count"
    <2> SUFFICES ASSUME NEW u \in Threads, ~Idle(u), call[u].obj = o
                 PROVE  call[u].op = "free" \/ call[u].pc = "count"
      OBVIOUS
    <2>1. CallFits(u) /\ Obj(u).use = "enqueued" /\ call[u].op \in {"allocate", "reallocate", "free"}
      BY <1>2, ServedTypes DEF Calls, CallsFit, Obj
    <2> QED BY <2>1 DEF CallFits
  <1>17. Calls'  BY <1>2, <1>5, <1>13, <1>15, <1>16, CallsKept
  <1>18. PagesKnown' /\ tlb \subseteq tlb' /\ objects[o].use \in InManager /\ objects'[o].use # "enqueued"
    BY <1>2, <1>5, <1>13, PagesSame DEF Reach, InManager
  <1>19. Reach'  BY <1>2, <1>13, <1>18, ManagerReach
  <1> QED BY <1>14, <1>17, <1>19

LEMMA DeliverStep ==
  ASSUME IInv, IInv', Data, Calls, Reach, NEW o \in Objects, DeliverFullOutput(o)
  PROVE  Data' /\ Calls' /\ Reach'
  <1>1. /\ phase = "running" /\ objects[o].use = "written" /\ objects[o].size = objects[o].capacity
        /\ objects' = [objects EXCEPT ![o].use = "delivered"]
        /\ UNCHANGED <<blocks, mem, next_free, kind, call, transfers, phase, tlb>>
    BY DEF DeliverFullOutput, memoryVars
  <1>2. /\ \E r : Replaces(o, r) /\ Rewrites(o, r)
        /\ objects'[o].use = "delivered" /\ objects'[o].ptr = objects[o].ptr
        /\ \A p \in Objects : p # o => objects'[p] = objects[p]
    BY <1>1, UseChanged
  <1>3. Data'  BY <1>1, <1>2, DataStep
  <1>4. \A p \in Objects : Posted(p)' => Posted(p)  BY <1>1 DEF Posted
  <1>5. \A u \in Threads : ~Idle(u) /\ call[u].obj = o => call[u].op = "free" \/ call[u].pc = "count"
    <2> SUFFICES ASSUME NEW u \in Threads, ~Idle(u), call[u].obj = o
                 PROVE  call[u].op = "free" \/ call[u].pc = "count"
      OBVIOUS
    <2>1. /\ CallFits(u) /\ call[u].op \in {"allocate", "reallocate", "free"}
          /\ Obj(u).use = "written" /\ Obj(u).size = Obj(u).capacity /\ Obj(u).size \in Nat
      BY <1>1, ServedTypes, ObjectFacts DEF Calls, CallsFit, Obj
    <2>2. ~(call[u].old = Obj(u).capacity /\ call[u].new = Obj(u).size /\ call[u].new < call[u].old)
      BY <2>1
    <2> QED BY <2>1, <2>2 DEF CallFits
  <1>6. Calls'  BY <1>1, <1>2, <1>4, <1>5, CallsKept
  <1>7. PagesKnown' /\ tlb \subseteq tlb' /\ objects[o].use \in InManager /\ objects'[o].use # "enqueued"
    BY <1>1, <1>2, PagesSame DEF Reach, InManager
  <1>8. Reach'  BY <1>1, <1>2, <1>7, ManagerReach
  <1> QED BY <1>3, <1>6, <1>8

LEMMA TransferStep ==
  ASSUME IInv, IInv', Data, Calls, Reach, NEW d \in Directions, Transfer(d)
  PROVE  Data' /\ Calls' /\ Reach'
  <1> DEFINE s == transfers[d]
             done == Head(s)
             o == done.obj
  <1>1. /\ s # <<>> /\ transfers' = [transfers EXCEPT ![d] = Tail(s)]
        /\ mem' = IF d = "write" THEN Fill(mem, done.obj, done.ptr, done.len) ELSE mem
        /\ UNCHANGED <<blocks, next_free, kind, call, objects, tlb, phase>>
    BY DEF Transfer
  <1>2. s \in Seq(PieceType) /\ \A i \in DOMAIN s : PieceFits(s[i])  BY DEF Reach, PiecesFit
  <1>3. 1 \in DOMAIN s /\ done = s[1] /\ done \in PieceType /\ PieceFits(done)  BY <1>1, <1>2
  <1>4. o \in Objects /\ done.ptr \in Nat /\ done.len \in Nat
        /\ Area(done.ptr, done.len) \subseteq Held(objects[o])
    BY <1>3, PoolAssumption DEF PieceType, PieceFits, Addr
  <1> HIDE DEF done
  <1>5. Data'
    <2>1. CASE d = "write"
      <3> DEFINE r == objects[o]
      <3>1. ObjectsOK /\ r \in ObjectType /\ Shape(r)
        BY <1>4 DEF IInv, Types, ObjectsOK, Data, Shapes
      <3>2. objects' = [objects EXCEPT ![o] = r]  BY <1>1, <3>1 DEF ObjectsOK
      <3>3. r.valid <= objects[o].valid  BY <3>1, ObjectFacts
      <3>4. mem' = Fill(mem, o, done.ptr, done.len) /\ UNCHANGED blocks  BY <1>1, <2>1
      <3>5. r.ptr = objects[o].ptr /\ BlockSize(r) = BlockSize(objects[o])  OBVIOUS
      <3> HIDE DEF r, o
      <3>6. Replaces(o, r) /\ Rewrites(o, r)  BY <1>4, <3>1, <3>2, <3>3, <3>4, <3>5, WritesBlock
      <3> QED BY <1>1, <1>4, <3>6, DataStep
    <2>2. CASE d # "write"  BY <1>1, <2>2, DataSame
    <2> QED BY <2>1, <2>2
  <1>6. Tail(s) \in Seq(PieceType) /\ \A i \in DOMAIN Tail(s) : i + 1 \in DOMAIN s /\ Tail(s)[i] = s[i + 1]
    BY <1>1, <1>2
  <1>7. transfers'[d] = Tail(s) /\ (\A e \in Directions : e # d => transfers'[e] = transfers[e])
        /\ transfers' \in [Directions -> Seq(PieceType)]
    BY <1>1, <1>6 DEF Reach, PiecesFit
  <1>8. \A e \in Directions : \A i \in DOMAIN transfers'[e] :
          \E j \in DOMAIN transfers[e] : transfers'[e][i] = transfers[e][j]
    BY <1>6, <1>7
  <1>9. \A p \in Objects : Posted(p)' => Posted(p)  BY <1>8 DEF Posted
  <1>10. Calls'  BY <1>1, <1>9, CallsKept
  <1>11. PiecesFit'
    <2>1. ASSUME NEW x, PieceFits(x)
          PROVE  PieceFits(x)'
      BY <1>1, <2>1, PieceKept
    <2>2. \A e \in Directions : \A i \in DOMAIN transfers'[e] :
            \A x : x = transfers'[e][i] => PieceFits(x)'
      BY <1>8, <2>1 DEF Reach, PiecesFit
    <2> QED BY <1>7, <2>2 DEF PiecesFit
  <1>12. EnqueuedMapped'  BY <1>1, EnqueuedKept DEF Reach
  <1>13. PagesKnown'  BY <1>1, PagesSame DEF Reach
  <1>14. PhaseFits'
    <2>1. phase = "running"  BY <1>1 DEF Reach, PhaseFits
    <2> QED BY <1>1, <2>1 DEF Reach, PhaseFits
  <1> QED BY <1>5, <1>10, <1>11, <1>12, <1>13, <1>14 DEF Reach

LEMMA PostStep ==
  ASSUME IInv, IInv', Data, Calls, Reach, NEW d \in Directions, NEW o \in Objects, PostTransfers(o, d)
  PROVE  Data' /\ Calls' /\ Reach'
  <1>1. /\ phase = "running" /\ objects[o].use = "input" /\ objects[o].size > 0 /\ ~Busy(o)
        /\ ensure_tlb_mapping(objects[o].ptr, objects[o].size)
        /\ transfers' = [transfers EXCEPT ![d] = @ \o Pieces(o)]
        /\ UNCHANGED <<blocks, next_free, kind, mem, call, objects, phase>>
    BY DEF PostTransfers, memoryVars
  <1> DEFINE s == transfers[d]
             q == Pieces(o)
  <1>2. Data'  BY <1>1, DataSame
  <1>3. q \in Seq(PieceType) /\ \A x : (\E k \in DOMAIN q : x = q[k]) => PieceFits(x)'
    BY <1>1, PiecesFacts
  <1>4. s \in Seq(PieceType) /\ \A i \in DOMAIN s : PieceFits(s[i])  BY DEF Reach, PiecesFit
  <1>5. transfers'[d] = s \o q /\ \A e \in Directions : e # d => transfers'[e] = transfers[e]
    BY <1>1 DEF Reach, PiecesFit
  <1>6. \A k \in DOMAIN q : q[k].obj = o  BY DEF Pieces
  <1> HIDE DEF q
  <1>7. s \o q \in Seq(PieceType)
        /\ \A i \in DOMAIN (s \o q) : \/ i \in DOMAIN s /\ (s \o q)[i] = s[i]
                                      \/ \E k \in DOMAIN q : (s \o q)[i] = q[k]
    <2>1. Len(s) \in Nat /\ Len(q) \in Nat /\ DOMAIN s = 1 .. Len(s) /\ DOMAIN q = 1 .. Len(q)
      BY <1>3, <1>4
    <2>2. s \o q \in Seq(PieceType) /\ DOMAIN (s \o q) = 1 .. Len(s) + Len(q)  BY <1>3, <1>4
    <2>3. ASSUME NEW i \in DOMAIN (s \o q), i \notin DOMAIN s
          PROVE  \E k \in DOMAIN q : (s \o q)[i] = q[k]
      <3>1. i - Len(s) \in DOMAIN q /\ (s \o q)[i] = q[i - Len(s)]  BY <1>3, <1>4, <2>1, <2>2, <2>3
      <3> QED BY <3>1
    <2>4. ASSUME NEW i \in DOMAIN s
          PROVE  (s \o q)[i] = s[i]
      BY <1>3, <1>4, <2>1, <2>4
    <2> QED BY <2>2, <2>3, <2>4
  <1>8. transfers' \in [Directions -> Seq(PieceType)]  BY <1>1, <1>7 DEF q, Reach, PiecesFit
  <1>9. tlb \subseteq tlb' /\ PagesKnown'
    <2>1. objects[o] \in ObjectType /\ Shape(objects[o])
      BY DEF IInv, Types, ObjectsOK, Data, Shapes
    <2>2. objects[o].size \in Nat /\ objects[o].size <= BlockSize(objects[o])  BY <2>1, ObjectFacts
    <2>3. objects[o].ptr \in Nat /\ Mappable(objects[o].ptr, objects[o].size)
      BY <1>1, <2>2, HeldMappable
    <2> QED BY <1>1, <2>2, <2>3, EnsureMapped DEF Reach
  <1>10. PiecesFit'
    <2>1. ASSUME NEW x, PieceFits(x)
          PROVE  PieceFits(x)'
      BY <1>1, <1>9, <2>1, PieceKept
    <2>2. ASSUME NEW e \in Directions, NEW i \in DOMAIN transfers'[e], NEW x, x = transfers'[e][i]
          PROVE  PieceFits(x)'
      <3>1. CASE e = d  BY <1>3, <1>4, <1>5, <1>7, <2>1, <2>2, <3>1
      <3>2. CASE e # d  BY <1>5, <2>1, <2>2, <3>2 DEF Reach, PiecesFit
      <3> QED BY <3>1, <3>2
    <2>3. \A e \in Directions : \A i \in DOMAIN transfers'[e] :
            \A x : x = transfers'[e][i] => PieceFits(x)'
      BY <2>2
    <2> QED BY <1>8, <2>3 DEF PiecesFit
  <1>11. \A p \in Objects : Posted(p)' => Posted(p) \/ ~Busy(p)
    <2> SUFFICES ASSUME NEW p \in Objects, p # o, Posted(p)' PROVE Posted(p)  BY <1>1
    <2>1. PICK e \in Directions : \E i \in DOMAIN transfers'[e] : transfers'[e][i].obj = p
      BY DEF Posted
    <2>2. PICK i \in DOMAIN transfers'[e] : transfers'[e][i].obj = p  BY <2>1
    <2>3. CASE e = d
      <3>1. i \in DOMAIN (s \o q) /\ (s \o q)[i].obj = p  BY <1>5, <2>2, <2>3
      <3>2. ~ \E k \in DOMAIN q : (s \o q)[i] = q[k]  BY <1>6, <3>1
      <3>3. i \in DOMAIN s /\ s[i].obj = p  BY <1>7, <3>1, <3>2
      <3> QED BY <3>3 DEF Posted
    <2>4. CASE e # d  BY <1>5, <2>2, <2>4 DEF Posted
    <2> QED BY <2>3, <2>4
  <1>12. Calls'  BY <1>1, <1>11, CallsKept
  <1>13. EnqueuedMapped'  BY <1>1, <1>9, EnqueuedKept DEF Reach
  <1>14. PhaseFits'  BY <1>1 DEF Reach, PhaseFits
  <1> QED BY <1>2, <1>9, <1>10, <1>12, <1>13, <1>14 DEF Reach

LEMMA PreMapStep ==
  ASSUME IInv, IInv', Data, Calls, Reach, PreMap
  PROVE  Data' /\ Calls' /\ Reach'
  <1>1. /\ phase = "running" /\ kind = "huge" /\ ensure_tlb_mapping(0, CAPACITY)
        /\ UNCHANGED <<blocks, next_free, kind, mem, call, objects, transfers, phase>>
    BY DEF PreMap, memoryVars
  <1>2. Data'  BY <1>1, DataSame
  <1>3. Calls'  BY <1>1, CallsKept DEF Posted
  <1>4. PagesKnown' /\ tlb \subseteq tlb'
    <2>1. Mappable(0, CAPACITY) /\ CAPACITY \in Nat /\ 0 \in Nat
      BY <1>1, PoolAssumption DEF Mappable
    <2> QED BY <1>1, <2>1, EnsureMapped DEF Reach
  <1>5. PiecesFit'  BY <1>1, <1>4, PiecesKept DEF Reach
  <1>6. EnqueuedMapped'  BY <1>1, <1>4, EnqueuedKept DEF Reach
  <1>7. PhaseFits'  BY <1>1 DEF Reach, PhaseFits
  <1> QED BY <1>2, <1>3, <1>4, <1>5, <1>6, <1>7 DEF Reach

\* Nothing changes.
LEMMA StutterStep ==
  ASSUME IInv, IInv', Data, Calls, Reach, UNCHANGED vars
  PROVE  Data' /\ Calls' /\ Reach'
  <1>1. UNCHANGED <<blocks, next_free, kind, mem, call, objects, transfers, tlb, phase>>
    BY DEF vars, memoryVars
  <1>2. Data'  BY <1>1, DataSame
  <1>3. Calls'  BY <1>1, CallsKept DEF Posted
  <1>4. Reach'  BY <1>1, BeginReach
  <1> QED BY <1>2, <1>3, <1>4

----
(* The end of the program.                                                 *)

\* The managers go one after the other. Calls that are under way free memory.
LEMMA PhaseStep ==
  ASSUME IInv, IInv', Data, Calls, Reach, StartClosing \/ DestroyManager \/ DestroyTLBManager
  PROVE  Data' /\ Calls' /\ Reach'
  <1>1. /\ UNCHANGED <<blocks, next_free, kind, mem, call, objects, transfers>>
        /\ phase' \in {"closing", "obm_gone", "tlb_gone"}
        /\ phase = "running" => \A t \in Threads : Idle(t)
    BY DEF StartClosing, DestroyManager, DestroyTLBManager, memoryVars
  <1>2. Data'  BY <1>1, DataSame
  <1>3. \A d \in Directions : transfers[d] = <<>> /\ transfers'[d] = <<>>
    BY <1>1 DEF StartClosing, DestroyManager, DestroyTLBManager, Reach, PhaseFits
  <1>4. Calls'
    <2>1. ASSUME NEW t \in Threads, ~Idle(t)
          PROVE  CallFits(t)'
      <3>1. CallFits(t) /\ phase # "running"  BY <1>1, <2>1 DEF Calls, CallsFit
      <3> QED BY <1>1, <3>1 DEF CallFits, Obj, InJemalloc, Posted
    <2>2. CallsFit'  BY <1>1, <2>1 DEF CallsFit, Idle
    <2> QED BY <1>1, <2>2 DEF Calls, OneCall, Idle
  <1>5. PiecesFit'
    <2>1. \A d \in Directions : DOMAIN transfers'[d] = {}  BY <1>3
    <2> QED BY <1>1, <2>1 DEF Reach, PiecesFit
  <1>6. EnqueuedMapped'  BY <1>1 DEF EnqueuedMapped
  <1>7. tlb' = tlb \/ tlb' = {}  BY DEF StartClosing, DestroyManager, DestroyTLBManager
  <1>8. PagesKnown'  BY <1>1, <1>7 DEF Reach, PagesKnown
  <1>9. PhaseFits'
    <2>1. kind # "destroyed" \/ phase = "tlb_gone"  BY DEF Reach, PhaseFits
    <2>2. CASE StartClosing  BY <1>1, <1>3, <2>1, <2>2 DEF StartClosing, Reach, PhaseFits
    <2>3. CASE DestroyManager  BY <1>1, <1>3, <2>1, <2>3 DEF DestroyManager, Reach, PhaseFits
    <2>4. CASE DestroyTLBManager  BY <1>1, <1>3, <2>1, <2>4 DEF DestroyTLBManager, Reach, PhaseFits
    <2> QED BY <2>2, <2>3, <2>4
  <1> QED BY <1>2, <1>4, <1>5, <1>6, <1>8, <1>9 DEF Reach

\* The pool goes last: whatever still had memory is gone.
LEMMA PoolGoneStep ==
  ASSUME IInv, IInv', Data, Calls, Reach, DestroyPool
  PROVE  Data' /\ Calls' /\ Reach'
  <1>1. /\ phase = "tlb_gone" /\ (\A o \in Objects : objects[o].use # "delivered")
        /\ (\A t \in Threads : Idle(t)) /\ kind' = "destroyed"
        /\ UNCHANGED <<call, transfers, tlb, phase>>
        /\ mem' = [a \in Addr |-> 0]
        /\ objects' = [o \in Objects |-> IF objects[o].use = "input" THEN NoObject ELSE objects[o]]
    BY DEF DestroyPool, Unreferenced
  <1>2. ASSUME NEW o \in Objects
        PROVE  /\ objects'[o].use \in {"none", "asked", "gone"}
               /\ objects'[o].ptr = ZeroSizePointer /\ objects'[o].size = 0
               /\ objects'[o].capacity = 0 /\ objects'[o].valid = 0
    <2>1. objects[o] \in ObjectType /\ Shape(objects[o])
      BY DEF IInv, Types, ObjectsOK, Data, Shapes
    <2>2. objects[o].use \in Uses  BY <2>1, ObjectFacts
    <2>3. objects[o].use \in {"none", "asked", "gone", "input"}
      BY <1>1, <2>2 DEF Uses, InManager, Reach, PhaseFits
    <2>4. CASE objects[o].use = "input"
      <3>1. objects'[o] = NoObject  BY <1>1, <2>4
      <3> QED BY <3>1 DEF NoObject
    <2>5. CASE objects[o].use # "input"
      <3>1. objects'[o] = objects[o]  BY <1>1, <2>5
      <3>2. objects[o].ptr = ZeroSizePointer  BY <2>1, <2>3, <2>5 DEF Shape
      <3>3. NoMemory(objects[o])  BY <3>2 DEF NoMemory
      <3>4. objects[o].valid = 0  BY <2>1, <3>3, ObjectFacts
      <3>5. objects[o].size = 0 /\ objects[o].capacity = 0  BY <2>1, <3>3 DEF Shape
      <3> QED BY <2>3, <2>5, <3>1, <3>2, <3>4, <3>5
    <2> QED BY <2>4, <2>5
  <1>3. Data'
    <2>0. ASSUME NEW o \in Objects
          PROVE  Shape(objects[o])' /\ NoMemory(objects[o])' /\ Held(objects[o])' = {}
      <3>1. NoMemory(objects[o])'  BY <1>2 DEF NoMemory, ZeroSizePointer
      <3>2. ZeroSizePointer # NullPointer  BY PoolAssumption DEF ZeroSizePointer, NullPointer
      <3>3. objects'[o].ptr # NullPointer  BY <1>2, <3>2
      <3>4. Shape(objects[o])'  BY <1>2, <3>3 DEF Shape, ZeroSizePointer, NullPointer
      <3> QED BY <3>1, <3>4 DEF Held
    <2>1. Shapes'  BY <2>0 DEF Shapes
    <2>2. Owned' /\ Apart'  BY <2>0 DEF Owned, Holds, Apart
    <2>3. MemOK' /\ DataInside'  BY <1>1, PoolAssumption DEF MemOK, DataInside, Addr
    <2>4. Intact'  BY <1>2 DEF Intact, Full
    <2> QED BY <2>1, <2>2, <2>3, <2>4 DEF Data
  <1>4. Calls'  BY <1>1 DEF Calls, CallsFit, OneCall, Idle
  <1>5. tlb' = {} /\ \A d \in Directions : transfers'[d] = <<>>  BY <1>1 DEF Reach, PhaseFits
  <1>6. PiecesFit'
    <2>1. \A d \in Directions : DOMAIN transfers'[d] = {}  BY <1>5
    <2> QED BY <1>1, <2>1 DEF Reach, PiecesFit
  <1>7. EnqueuedMapped' /\ PagesKnown'  BY <1>1, <1>5 DEF EnqueuedMapped, PagesKnown
  <1>8. PhaseFits'  BY <1>1, <1>2, <1>5 DEF PhaseFits, InManager
  <1> QED BY <1>3, <1>4, <1>6, <1>7, <1>8 DEF Reach

----
(* The rest of the types.                                                  *)

StatsType == stats \in [bytes : Int, total : Int, num : Int]
Rest ==
  /\ StatsType
  /\ tcaches \subseteq Threads
  /\ requests \in 0 .. MAX_REQUESTS
  /\ shrunk \in BOOLEAN
  /\ null_frees \in Nat

LEMMA CountedTypes ==
  ASSUME StatsType, NEW b \in Int, NEW n \in Int, NEW k \in Int, Counted(b, n, k)
  PROVE  StatsType'
  BY DEF StatsType, Counted

LEMMA CallRest ==
  ASSUME IInv, Rest, NEW t \in Threads, Call(t)
  PROVE  Rest'
  <1>1. call[t].new \in Nat /\ call[t].old \in Nat  BY DEF IInv, Types, CallOK, CallType
  <1>2. /\ call[t].new \in Int /\ call[t].old \in Int /\ -call[t].old \in Int
        /\ call[t].new - call[t].old \in Int /\ 0 \in Int /\ 1 \in Int /\ -1 \in Int
    BY <1>1
  <1>3. UNCHANGED requests  BY DEF Call
  <1>4. UNCHANGED stats => StatsType'  BY DEF Rest, StatsType
  <1>5. StatsType /\ null_frees \in Nat  BY DEF Rest
  <1>6. CASE SimpleCall(t)
    <2>1. UNCHANGED tcaches
      BY <1>6 DEF SimpleCall, SimpleAllocateNothing, SimpleAllocate, SimpleReallocate, SimpleFree, simpleRest
    <2>2. shrunk' = shrunk \/ shrunk' = (shrunk \/ Obj(t).use = "written")
      BY <1>6 DEF SimpleCall, SimpleAllocateNothing, SimpleAllocate, SimpleReallocate, SimpleFree, simpleRest
    <2>3. StatsType'
      <3>1. CASE SimpleAllocateNothing(t)  BY <1>4, <3>1 DEF SimpleAllocateNothing
      <3>2. CASE SimpleAllocate(t)  BY <1>2, <1>4, <1>5, <3>2, CountedTypes DEF SimpleAllocate
      <3>3. CASE SimpleReallocate(t)
        <4> DEFINE grows == IF call[t].new > call[t].old THEN call[t].new - call[t].old ELSE 0
        <4>1. grows \in Int  BY <1>2
        <4>2. UNCHANGED stats \/ Counted(call[t].new - call[t].old, grows, 0)
          BY <3>3 DEF SimpleReallocate
        <4> HIDE DEF grows
        <4> QED BY <1>2, <1>4, <1>5, <4>1, <4>2, CountedTypes
      <3>4. CASE SimpleFree(t)
        <4>1. UNCHANGED stats \/ Counted(-call[t].old, 0, -1)  BY <3>4 DEF SimpleFree
        <4> QED BY <1>2, <1>4, <1>5, <4>1, CountedTypes
      <3> QED BY <1>6, <3>1, <3>2, <3>3, <3>4 DEF SimpleCall
    <2>4. shrunk' \in BOOLEAN  BY <2>2 DEF Rest
    <2>5. UNCHANGED null_frees
      BY <1>6 DEF SimpleCall, SimpleAllocateNothing, SimpleAllocate, SimpleReallocate, SimpleFree,
         simpleRest
    <2> QED BY <1>3, <1>5, <2>1, <2>3, <2>4, <2>5 DEF Rest
  <1>7. CASE HugeCall(t)
    <2>1. tcaches' = tcaches \/ tcaches' = tcaches \cup {t}
      BY <1>7 DEF HugeCall, HugeEnter, FindTcache, CreateTcache, Mallocx, Rallocx, Dallocx,
         JemallocOfNull, Count
    <2>2. shrunk' = shrunk \/ shrunk' = (shrunk \/ Obj(t).use = "written")
      BY <1>7 DEF HugeCall, HugeEnter, FindTcache, CreateTcache, Mallocx, Rallocx, Dallocx,
         JemallocOfNull, Count, hugeRest
    <2>3. StatsType'
      <3>1. CASE HugeEnter(t)
        <4>1. UNCHANGED stats \/ Counted(-call[t].old, 0, -1)  BY <3>1 DEF HugeEnter
        <4> QED BY <1>2, <1>4, <1>5, <4>1, CountedTypes
      <3>2. CASE Count(t)
        <4> DEFINE grows == call[t].new - call[t].old
                   more == IF grows > 0 THEN grows ELSE 0
        <4>1. grows \in Int /\ more \in Int  BY <1>2
        <4>2. Counted(call[t].new, call[t].new, 1) \/ Counted(grows, more, 0)  BY <3>2 DEF Count
        <4> HIDE DEF grows, more
        <4> QED BY <1>2, <1>5, <4>1, <4>2, CountedTypes
      <3>3. CASE FindTcache(t) \/ CreateTcache(t) \/ Mallocx(t) \/ Rallocx(t) \/ Dallocx(t)
                 \/ JemallocOfNull(t)
        BY <1>4, <3>3 DEF FindTcache, CreateTcache, Mallocx, Rallocx, Dallocx, JemallocOfNull
      <3> QED BY <1>7, <3>1, <3>2, <3>3 DEF HugeCall
    <2>4. shrunk' \in BOOLEAN  BY <2>2 DEF Rest
    <2>5. null_frees' = null_frees \/ null_frees' = null_frees + 1
      BY <1>7 DEF HugeCall, HugeEnter, FindTcache, CreateTcache, Mallocx, Rallocx, Dallocx,
         JemallocOfNull, Count, hugeRest
    <2>6. null_frees' \in Nat  BY <1>5, <2>5
    <2> QED BY <1>3, <2>1, <2>3, <2>4, <2>6 DEF Rest
  <1> QED BY <1>6, <1>7 DEF Call

LEMMA BeginRest ==
  ASSUME Rest, NEW t \in Threads, NEW o \in Objects, NEW op, NEW old, NEW new, NEW alignment,
         Begin(t, o, op, old, new, alignment)
  PROVE  Rest'
  <1>1. requests' = requests + (IF op = "free" THEN 0 ELSE 1) /\ requests' <= MAX_REQUESTS
        /\ UNCHANGED <<stats, tcaches, shrunk, null_frees>>
    BY DEF Begin, memoryVars
  <1>2. requests' \in 0 .. MAX_REQUESTS  BY <1>1, HostAssumption DEF Rest
  <1> QED BY <1>1, <1>2 DEF Rest, StatsType

LEMMA NextRest ==
  ASSUME IInv, Rest, [Next]_vars
  PROVE  Rest'
  <1>1. ASSUME UNCHANGED <<stats, tcaches, requests, shrunk, null_frees>>
        PROVE  Rest'
    BY <1>1 DEF Rest, StatsType
  <1>2. ASSUME NEW t \in Threads, NEW o \in Objects, Callers(t, o)
        PROVE  Rest'
    BY <1>2, BeginRest DEF Callers, AllocateInput, ReallocateInput, FreeInput, AllocateOutput,
       ShrinkOutput, FreeOutput, FreeEnqueued
  <1>3. ASSUME NEW o \in Objects, Manager(o)
        PROVE  Rest'
    BY <1>1, <1>3 DEF Manager, EnqueueOutput, FpgaWrites, DeliverFullOutput, memoryVars
  <1>4. CASE Posting  BY <1>1, <1>4 DEF Posting, Transfer, PostTransfers, memoryVars
  <1>5. CASE PreMap \/ StartClosing \/ DestroyManager \/ DestroyTLBManager \/ UNCHANGED vars
    BY <1>1, <1>5 DEF PreMap, StartClosing, DestroyManager, DestroyTLBManager, vars, memoryVars
  <1>6. CASE DestroyPool
    <2>1. UNCHANGED <<stats, requests, shrunk, null_frees>> /\ (tcaches' = tcaches \/ tcaches' = {})
      BY <1>6 DEF DestroyPool, SimpleDestroy, HugeDestroy
    <2> QED BY <2>1 DEF Rest, StatsType
  <1> QED BY <1>2, <1>3, <1>4, <1>5, <1>6, CallRest DEF Next, Closing

----
FullInv == IInv /\ Data /\ Calls /\ Reach /\ Rest

LEMMA InitFull == Init => FullInv
  <1> SUFFICES ASSUME Init PROVE FullInv  OBVIOUS
  <1>1. IInv  BY InitInv
  <1>2. ASSUME NEW o \in Objects
        PROVE  /\ objects[o].use = "none" /\ objects[o].ptr = ZeroSizePointer
               /\ objects[o].size = 0 /\ objects[o].capacity = 0 /\ objects[o].valid = 0
               /\ NoMemory(objects[o]) /\ objects[o].ptr # NullPointer
    BY PoolAssumption DEF Init, NoObject, NoMemory, ZeroSizePointer, NullPointer
  <1>3. Data
    <2>1. Shapes  BY <1>2 DEF Shapes, Shape
    <2>2. Owned /\ Apart  BY <1>2 DEF Owned, Holds, Apart, Held
    <2>3. MemOK /\ DataInside  BY PoolAssumption DEF Init, MemOK, DataInside
    <2>4. Intact  BY <1>2 DEF Intact, Full
    <2> QED BY <2>1, <2>2, <2>3, <2>4 DEF Data
  <1>4. Calls  BY DEF Init, Calls, CallsFit, OneCall, Idle, NoCall
  <1>5. Reach
    <2>1. transfers \in [Directions -> Seq(PieceType)] /\ \A d \in Directions : DOMAIN transfers[d] = {}
      BY DEF Init
    <2>2. PiecesFit  BY <2>1 DEF PiecesFit
    <2>3. EnqueuedMapped /\ PagesKnown  BY <1>2 DEF Init, EnqueuedMapped, PagesKnown
    <2>4. PhaseFits  BY HostAssumption DEF Init, PhaseFits
    <2> QED BY <2>2, <2>3, <2>4 DEF Reach
  <1>6. Rest
    <2>1. StatsType  BY DEF Init, StatsType
    <2>2. tcaches \subseteq Threads /\ requests \in 0 .. MAX_REQUESTS  BY HostAssumption DEF Init
    <2>3. shrunk \in BOOLEAN /\ null_frees \in Nat  BY DEF Init
    <2> QED BY <2>1, <2>2, <2>3 DEF Rest
  <1> QED BY <1>1, <1>3, <1>4, <1>5, <1>6 DEF FullInv

LEMMA FullStep ==
  ASSUME FullInv, [Next]_vars
  PROVE  FullInv'
  <1>1. IInv /\ Data /\ Calls /\ Reach /\ Rest  BY DEF FullInv
  <1>2. IInv' /\ Rest'  BY <1>1, NextStep, NextRest
  <1>3. ASSUME NEW t \in Threads, Call(t)
        PROVE  Data' /\ Calls' /\ Reach'
    BY <1>1, <1>2, <1>3, CallStep
  <1>4. ASSUME NEW t \in Threads, NEW o \in Objects, Callers(t, o)
        PROVE  Data' /\ Calls' /\ Reach'
    BY <1>1, <1>2, <1>4, CallersData
  <1>5. ASSUME NEW o \in Objects, Manager(o)
        PROVE  Data' /\ Calls' /\ Reach'
    BY <1>1, <1>2, <1>5, EnqueueStep, FpgaWritesStep, DeliverStep DEF Manager
  <1>6. CASE Posting  BY <1>1, <1>2, <1>6, TransferStep, PostStep DEF Posting, FullInv
  <1>7. CASE PreMap  BY <1>1, <1>2, <1>7, PreMapStep DEF FullInv
  <1>8. CASE Closing  BY <1>1, <1>2, <1>8, PhaseStep, PoolGoneStep DEF Closing, FullInv
  <1>9. CASE UNCHANGED vars  BY <1>1, <1>2, <1>9, StutterStep DEF FullInv
  <1> QED BY <1>2, <1>3, <1>4, <1>5, <1>6, <1>7, <1>8, <1>9 DEF Next, FullInv

----
(* What follows from the invariant.                                        *)

LEMMA FullTypes == FullInv => TypeOK
  <1> SUFFICES ASSUME FullInv PROVE TypeOK  OBVIOUS
  <1>1. IInv /\ Data /\ Calls /\ Reach /\ Rest  BY DEF FullInv
  <1>2. CAPACITY \in Nat  BY PoolAssumption
  <1>3. arena \subseteq Addr
    <2>1. next_free \in 0 .. CAPACITY /\ arena \subseteq 0 .. next_free - 1
      BY <1>1 DEF IInv, Space, BumpOK
    <2>2. 0 .. next_free - 1 \subseteq 0 .. CAPACITY - 1  BY <1>2, <2>1
    <2> QED BY <2>1, <2>2 DEF Addr
  <1>4. PoolOK  BY <1>1, <1>3 DEF IInv, Space, BumpOK, BlocksOK, PoolOK
  <1>5. CallOK /\ ObjectsOK  BY <1>1 DEF IInv, Types
  <1>6. mem \in [Addr -> 0 .. MAX_OBJECTS]  BY <1>1 DEF Data, MemOK
  <1>7. /\ tlb \subseteq [ptr : Nat, size : Nat \ {0}]
        /\ phase \in {"running", "closing", "obm_gone", "tlb_gone"}
    BY <1>1 DEF Reach, PagesKnown, PhaseFits
  <1>8. transfers \in [Directions ->
          Seq([obj : Objects, ptr : Addr, len : Nat \ {0}, last : BOOLEAN])]
    BY <1>1 DEF Reach, PiecesFit, PieceType
  <1>9. /\ stats \in [bytes : Int, total : Int, num : Int]
        /\ tcaches \subseteq Threads /\ requests \in 0 .. MAX_REQUESTS
    BY <1>1 DEF Rest, StatsType
  <1>10. shrunk \in BOOLEAN /\ null_frees \in Nat  BY <1>1 DEF Rest
  <1> QED BY <1>4, <1>5, <1>6, <1>7, <1>8, <1>9, <1>10 DEF TypeOK

LEMMA FullMapped == FullInv => MappedForFpga
  <1> SUFFICES ASSUME FullInv PROVE MappedForFpga  OBVIOUS
  <1>1. IInv /\ Data /\ Reach  BY DEF FullInv
  <1>2. \A o \in Objects : objects[o].use = "enqueued" /\ phase = "running" =>
          Mapped(objects[o].ptr, objects[o].capacity)
    BY <1>1 DEF Reach, EnqueuedMapped
  <1>3. ASSUME NEW d \in Directions, NEW i \in DOMAIN transfers[d], NEW piece, piece = transfers[d][i]
        PROVE  /\ Mapped(piece.ptr, piece.len)
               /\ \A a \in Area(piece.ptr, piece.len) : mem[a] \in {0, piece.obj}
               /\ piece.last <=>
                    piece.ptr + piece.len = objects[piece.obj].ptr + objects[piece.obj].size
    <2>1. piece \in PieceType /\ PieceFits(piece)  BY <1>1, <1>3 DEF Reach, PiecesFit
    <2>2. piece.obj \in Objects  BY <2>1 DEF PieceType
    <2>3. objects[piece.obj] \in ObjectType /\ Shape(objects[piece.obj])
          /\ Holds(objects[piece.obj], blocks)
      BY <1>1, <2>2 DEF IInv, Types, ObjectsOK, Data, Shapes, Owned
    <2>4. BlocksOK /\ BumpOK  BY <1>1 DEF IInv, Space
    <2>5. Held(objects[piece.obj]) \subseteq Addr  BY <2>3, <2>4, HeldFacts
    <2>6. ASSUME NEW a \in Area(piece.ptr, piece.len)
          PROVE  mem[a] \in {0, piece.obj}
      <3>1. a \in Held(objects[piece.obj]) /\ a \in Addr  BY <2>1, <2>5, <2>6 DEF PieceFits
      <3>2. \A p \in Objects : p # piece.obj => a \notin Held(objects[p])
        BY <1>1, <2>2, <3>1, HeldIsApart
      <3> QED BY <1>1, <2>2, <3>1, <3>2, OnlyOwnData
    <2> QED BY <2>1, <2>6 DEF PieceFits
  <1>4. kind = "destroyed" => tlb = {}  BY <1>1 DEF Reach, PhaseFits
  <1> QED BY <1>2, <1>3, <1>4 DEF MappedForFpga

\* The variables of the pools, their callers and the managers have their types, and the
\* free memory of a pool stays inside it, for any number of threads and any sizes.
THEOREM MemoryTypeCorrect == Spec => []TypeOK
  <1>1. Init => FullInv  BY InitFull
  <1>2. FullInv /\ [Next]_vars => FullInv'  BY FullStep
  <1> QED BY <1>1, <1>2, FullTypes, PTL DEF Spec

\* What was written to an object is still there until it is freed: no call of another
\* thread, no move of its block and no write of the FPGA touches it (memory_pool.cpp).
THEOREM MemoryKeepsData == Spec => []DataIntact
  <1>1. Init => FullInv  BY InitFull
  <1>2. FullInv /\ [Next]_vars => FullInv'  BY FullStep
  <1>3. FullInv => DataIntact  BY DEF FullInv, Data, Intact, Full, DataIntact
  <1> QED BY <1>1, <1>2, <1>3, PTL DEF Spec

\* What the FPGA was given it can reach, and it reaches nothing of another object and
\* nothing that was returned to the system (TLBManager::ensure_tlb_mapping).
THEOREM FpgaReachesItsMemory == Spec => []MappedForFpga
  <1>1. Init => FullInv  BY InitFull
  <1>2. FullInv /\ [Next]_vars => FullInv'  BY FullStep
  <1> QED BY <1>1, <1>2, FullMapped, PTL DEF Spec

----
(* Sums over finite sets.                                                  *)

\* The element MapThenSumSet takes next.
Next1(s) == CHOOSE x \in s : TRUE

\* What MapThenSumSet computes for all subsets of a set.
IsSum(g, F, S) == g = [s \in SUBSET S |-> IF s = {} THEN 0 ELSE F[Next1(s)] + g[s \ {Next1(s)}]]
SumOver(F, S) == (CHOOSE g : IsSum(g, F, S))[S]

\* A nonempty set has a next element.
LEMMA NextIn ==
  ASSUME NEW s, s # {}
  PROVE  Next1(s) \in s
  BY DEF Next1

\* How the sum of a subset is computed, of any solution of the recursion.
LEMMA SumAt ==
  ASSUME NEW g, NEW F, NEW S, IsSum(g, F, S), NEW s \in SUBSET S
  PROVE  /\ s = {} => g[s] = 0
         /\ s # {} => Next1(s) \in s /\ g[s] = F[Next1(s)] + g[s \ {Next1(s)}]
  <1>1. g[s] = IF s = {} THEN 0 ELSE F[Next1(s)] + g[s \ {Next1(s)}]  BY DEF IsSum
  <1> QED BY <1>1, NextIn

\* The cardinality of a set without one of its elements.
LEMMA CardLess ==
  ASSUME NEW S, IsFiniteSet(S), NEW s \in SUBSET S, NEW x \in s
  PROVE  /\ IsFiniteSet(s) /\ IsFiniteSet(s \ {x}) /\ s \ {x} \in SUBSET S
         /\ Cardinality(s) \in Nat /\ Cardinality(s \ {x}) \in Nat
         /\ Cardinality(s) = Cardinality(s \ {x}) + 1
  <1>1. IsFiniteSet(s)  BY FS_Subset
  <1>2. IsFiniteSet(s \ {x}) /\ Cardinality(s \ {x}) = Cardinality(s) - 1  BY <1>1, FS_RemoveElement
  <1>3. Cardinality(s) \in Nat /\ Cardinality(s \ {x}) \in Nat  BY <1>1, <1>2, FS_CardinalityType
  <1> QED BY <1>1, <1>2, <1>3

\* For the small subsets first.
IsSumTo(g, F, S, n) ==
  g = [s \in {s \in SUBSET S : Cardinality(s) <= n} |->
         IF s = {} THEN 0 ELSE F[Next1(s)] + g[s \ {Next1(s)}]]

\* The sums of the subsets up to a size exist.
LEMMA SumToExists ==
  ASSUME NEW F, NEW S, IsFiniteSet(S), NEW n \in Nat
  PROVE  \E g : IsSumTo(g, F, S, n)
  <1>1. PICK N : N = {m \in Nat : \E g : IsSumTo(g, F, S, m)}  OBVIOUS
  <1>2. 0 \in N
    <2>1. PICK g : g = [s \in {s \in SUBSET S : Cardinality(s) <= 0} |-> 0]  OBVIOUS
    <2>2. ASSUME NEW s \in {s \in SUBSET S : Cardinality(s) <= 0}
          PROVE  s = {}
      <3>1. IsFiniteSet(s) /\ Cardinality(s) \in Nat /\ Cardinality(s) <= 0
        BY FS_Subset, FS_CardinalityType
      <3> QED BY <3>1, FS_EmptySet
    <2>3. IsSumTo(g, F, S, 0)  BY <2>1, <2>2 DEF IsSumTo
    <2> QED BY <1>1, <2>3
  <1>3. ASSUME NEW m \in Nat, m \in N
        PROVE  m + 1 \in N
    <2>1. PICK g : IsSumTo(g, F, S, m)  BY <1>1, <1>3
    <2>2. PICK D, E : D = {s \in SUBSET S : Cardinality(s) <= m} /\ E = {s \in SUBSET S : Cardinality(s) <= m + 1}
      OBVIOUS
    <2>3. PICK h : h = [s \in E |-> IF s = {} THEN 0 ELSE F[Next1(s)] + g[s \ {Next1(s)}]]  OBVIOUS
    <2>4. g = [s \in D |-> IF s = {} THEN 0 ELSE F[Next1(s)] + g[s \ {Next1(s)}]]
      BY <2>1, <2>2 DEF IsSumTo
    <2>5. \A s \in E : h[s] = IF s = {} THEN 0 ELSE F[Next1(s)] + g[s \ {Next1(s)}]  BY <2>3
    <2>6. \A s \in D : g[s] = IF s = {} THEN 0 ELSE F[Next1(s)] + g[s \ {Next1(s)}]  BY <2>4
    <2>7. \A s \in D : s \in E
      <3> SUFFICES ASSUME NEW s \in D PROVE s \in E  OBVIOUS
      <3>1. IsFiniteSet(s) /\ Cardinality(s) \in Nat /\ Cardinality(s) <= m /\ s \in SUBSET S
        BY <2>2, FS_Subset, FS_CardinalityType
      <3> QED BY <2>2, <3>1
    <2>8. \A s \in D : h[s] = g[s]  BY <2>5, <2>6, <2>7
    <2>9. ASSUME NEW s \in E, s # {}
          PROVE  s \ {Next1(s)} \in D
      <3>1. Next1(s) \in s /\ s \in SUBSET S /\ Cardinality(s) <= m + 1  BY <2>2, <2>9, NextIn
      <3>2. PICK u : u = s \ {Next1(s)}  OBVIOUS
      <3>3. u \in SUBSET S /\ Cardinality(u) \in Nat /\ Cardinality(s) = Cardinality(u) + 1
        BY <3>1, <3>2, CardLess
      <3> QED BY <2>2, <3>1, <3>2, <3>3
    <2>10. \A s \in E : h[s] = IF s = {} THEN 0 ELSE F[Next1(s)] + h[s \ {Next1(s)}]
      BY <2>5, <2>8, <2>9
    <2>11. h = [s \in E |-> IF s = {} THEN 0 ELSE F[Next1(s)] + h[s \ {Next1(s)}]]
      <3>1. h = [s \in E |-> h[s]]  BY <2>3
      <3> QED BY <2>10, <3>1
    <2>12. IsSumTo(h, F, S, m + 1)  BY <2>2, <2>11 DEF IsSumTo
    <2> QED BY <1>1, <2>12
  <1> QED BY <1>1, <1>2, <1>3, SetInduction

\* So the sums of all subsets exist.
LEMMA SumExists ==
  ASSUME NEW F, NEW S, IsFiniteSet(S)
  PROVE  \E g : IsSum(g, F, S)
  <1>1. PICK n \in Nat : n = Cardinality(S)  BY FS_CardinalityType
  <1>2. PICK g : IsSumTo(g, F, S, n)  BY SumToExists
  <1>3. {s \in SUBSET S : Cardinality(s) <= n} = SUBSET S  BY <1>1, FS_Subset
  <1> QED BY <1>2, <1>3 DEF IsSum, IsSumTo

\* The sum over a set only depends on its elements.
LEMMA SumAgree ==
  ASSUME NEW F, NEW S, NEW g, IsSum(g, F, S), NEW G, NEW T, NEW h, IsSum(h, G, T),
         IsFiniteSet(T), T \subseteq S, \A x \in T : F[x] = G[x]
  PROVE  g[T] = h[T]
  <1>1. PICK N : N = {n \in Nat : \A s \in SUBSET T : Cardinality(s) = n => g[s] = h[s]}  OBVIOUS
  <1>2. 0 \in N
    <2>1. ASSUME NEW s \in SUBSET T, Cardinality(s) = 0
          PROVE  g[s] = h[s]
      <3>1. s = {}  BY <2>1, FS_Subset, FS_EmptySet
      <3>2. g[s] = 0  BY <3>1, SumAt
      <3>3. h[s] = 0  BY <3>1, SumAt
      <3> QED BY <3>2, <3>3
    <2> QED BY <1>1, <2>1
  <1>3. ASSUME NEW n \in Nat, n \in N
        PROVE  n + 1 \in N
    <2>1. ASSUME NEW s \in SUBSET T, Cardinality(s) = n + 1
          PROVE  g[s] = h[s]
      <3>1. s # {} /\ Next1(s) \in s
        <4>1. CASE s = {}
          <5>1. Cardinality(s) = 0  BY <4>1, FS_EmptySet
          <5> QED BY <2>1, <5>1
        <4> QED BY <4>1, NextIn
      <3>2. PICK x, u : x = Next1(s) /\ u = s \ {x}  OBVIOUS
      <3>i. s \in SUBSET T /\ x \in s  BY <3>1, <3>2
      <3>j. s \ {x} \in SUBSET T /\ Cardinality(s \ {x}) \in Nat /\ Cardinality(s) = Cardinality(s \ {x}) + 1
        BY <3>i, CardLess, Zenon
      <3>3. u \in SUBSET T /\ Cardinality(u) \in Nat /\ Cardinality(s) = Cardinality(u) + 1
        BY <3>j, <3>2
      <3>4. g[u] = h[u]
        <4>1. Cardinality(u) = n  BY <2>1, <3>3
        <4> QED BY <1>1, <1>3, <3>3, <4>1
      <3>5. s \in SUBSET S /\ F[x] = G[x]  BY <3>1, <3>2
      <3>6. g[s] = F[x] + g[u]  BY <3>1, <3>2, <3>5, SumAt
      <3>7. h[s] = G[x] + h[u]  BY <3>1, <3>2, SumAt
      <3> QED BY <3>4, <3>5, <3>6, <3>7
    <2> QED BY <1>1, <2>1
  <1>4. Cardinality(T) \in Nat  BY FS_CardinalityType
  <1>5. Cardinality(T) \in N  BY <1>1, <1>2, <1>3, <1>4, SetInduction
  <1> QED BY <1>1, <1>5

\* The sum is that of any solution of the recursion.
LEMMA SumIs ==
  ASSUME NEW F, NEW S, NEW g, IsSum(g, F, S), NEW T \in SUBSET S, IsFiniteSet(S)
  PROVE  SumOver(F, T) = g[T]
  <1>1. IsFiniteSet(T)  BY FS_Subset
  <1>2. PICK h : h = CHOOSE f : IsSum(f, F, T)  OBVIOUS
  <1>3. IsSum(h, F, T)  BY <1>1, <1>2, SumExists
  <1>4. g[T] = h[T]  BY <1>1, <1>3, SumAgree
  <1> QED BY <1>2, <1>4 DEF SumOver

\* The empty sum.
LEMMA SumEmpty ==
  ASSUME NEW F
  PROVE  SumOver(F, {}) = 0
  <1>1. IsFiniteSet({})  BY FS_EmptySet
  <1>2. PICK g : IsSum(g, F, {})  BY <1>1, SumExists
  <1>3. SumOver(F, {}) = g[{}]  BY <1>1, <1>2, SumIs
  <1> QED BY <1>2, <1>3, SumAt

\* The same summands make the same sum.
LEMMA SumSame ==
  ASSUME NEW F, NEW G, NEW S, IsFiniteSet(S), \A x \in S : F[x] = G[x]
  PROVE  SumOver(F, S) = SumOver(G, S)
  <1>1. PICK g : IsSum(g, F, S)  BY SumExists
  <1>2. PICK h : IsSum(h, G, S)  BY SumExists
  <1>3. SumOver(F, S) = g[S] /\ SumOver(G, S) = h[S]  BY <1>1, <1>2, SumIs
  <1> QED BY <1>1, <1>2, <1>3, SumAgree

\* Sums of integers are integers.
LEMMA SumsAreInt ==
  ASSUME NEW F, NEW S, IsFiniteSet(S), \A x \in S : F[x] \in Int, NEW g, IsSum(g, F, S)
  PROVE  \A s \in SUBSET S : g[s] \in Int
  <1>1. PICK N : N = {n \in Nat : \A s \in SUBSET S : Cardinality(s) = n => g[s] \in Int}  OBVIOUS
  <1>2. 0 \in N
    <2>1. ASSUME NEW s \in SUBSET S, Cardinality(s) = 0
          PROVE  g[s] \in Int
      <3>1. s = {}  BY <2>1, FS_Subset, FS_EmptySet
      <3>2. g[s] = 0  BY <3>1, SumAt
      <3> QED BY <3>2
    <2> QED BY <1>1, <2>1
  <1>3. ASSUME NEW n \in Nat, n \in N
        PROVE  n + 1 \in N
    <2>1. ASSUME NEW s \in SUBSET S, Cardinality(s) = n + 1
          PROVE  g[s] \in Int
      <3>1. s # {} /\ Next1(s) \in s
        <4>1. CASE s = {}
          <5>1. Cardinality(s) = 0  BY <4>1, FS_EmptySet
          <5> QED BY <2>1, <5>1
        <4> QED BY <4>1, NextIn
      <3>2. PICK c, u : c = Next1(s) /\ u = s \ {c}  OBVIOUS
      <3>i. s \in SUBSET S /\ c \in s  BY <3>1, <3>2
      <3>3. u \in SUBSET S /\ Cardinality(u) \in Nat /\ Cardinality(s) = Cardinality(u) + 1
        BY <3>i, <3>2, CardLess
      <3>4. Cardinality(u) = n  BY <2>1, <3>3
      <3>5. g[u] \in Int  BY <1>1, <1>3, <3>3, <3>4
      <3>6. g[s] = F[c] + g[u] /\ F[c] \in Int  BY <3>1, <3>2, SumAt
      <3> QED BY <3>5, <3>6
    <2> QED BY <1>1, <2>1
  <1>4. ASSUME NEW s \in SUBSET S
        PROVE  g[s] \in Int
    <2>1. Cardinality(s) \in Nat  BY FS_Subset, FS_CardinalityType
    <2>2. Cardinality(s) \in N  BY <1>1, <1>2, <1>3, <2>1, SetInduction
    <2> QED BY <1>1, <2>2
  <1> QED BY <1>4

\* Any element can be taken off the sum, not only the one that is chosen.
LEMMA AnyFirst ==
  ASSUME NEW F, NEW S, IsFiniteSet(S), \A x \in S : F[x] \in Int, NEW g, IsSum(g, F, S)
  PROVE  \A s \in SUBSET S : \A x \in s : g[s] = F[x] + g[s \ {x}]
  <1>1. PICK N : N = {n \in Nat : \A s \in SUBSET S : Cardinality(s) = n =>
                         \A x \in s : g[s] = F[x] + g[s \ {x}]}
    OBVIOUS
  <1>2. 0 \in N
    <2>1. ASSUME NEW s \in SUBSET S, Cardinality(s) = 0
          PROVE  \A x \in s : g[s] = F[x] + g[s \ {x}]
      <3>1. s = {}  BY <2>1, FS_Subset, FS_EmptySet
      <3> QED BY <3>1
    <2> QED BY <1>1, <2>1
  <1>3. ASSUME NEW n \in Nat, n \in N
        PROVE  n + 1 \in N
    <2>1. ASSUME NEW s \in SUBSET S, Cardinality(s) = n + 1
          PROVE  \A x \in s : g[s] = F[x] + g[s \ {x}]
      <3>1. s # {} /\ Next1(s) \in s
        <4>1. CASE s = {}
          <5>1. Cardinality(s) = 0  BY <4>1, FS_EmptySet
          <5> QED BY <2>1, <5>1
        <4> QED BY <4>1, NextIn
      <3>2. PICK c, u : c = Next1(s) /\ u = s \ {c}  OBVIOUS
      <3>3. u \in SUBSET S /\ Cardinality(u) = n
        <4>i. s \in SUBSET S /\ c \in s  BY <3>1, <3>2
        <4>1. u \in SUBSET S /\ Cardinality(u) \in Nat /\ Cardinality(s) = Cardinality(u) + 1
          BY <4>i, <3>2, CardLess
        <4> QED BY <2>1, <4>1
      <3>4. \A x \in u : g[u] = F[x] + g[u \ {x}]  BY <1>1, <1>3, <3>3
      <3>5. g[s] = F[c] + g[u] /\ c \in s  BY <3>1, <3>2, SumAt
      <3>6. F[c] \in Int  BY <3>5
      <3>7. ASSUME NEW x \in s
            PROVE  g[s] = F[x] + g[s \ {x}]
        <4>1. CASE x = c  BY <3>2, <3>5, <4>1
        <4>2. CASE x # c
          <5>1. PICK v, w : v = s \ {x} /\ w = u \ {x}  OBVIOUS
          <5>2. x \in u /\ c \in v /\ w = v \ {c}  BY <3>2, <3>5, <4>2, <5>1
          <5>3. v \in SUBSET S /\ Cardinality(v) = n
            <6>i. s \in SUBSET S /\ x \in s  OBVIOUS
            <6>j. s \ {x} \in SUBSET S /\ Cardinality(s \ {x}) \in Nat /\ Cardinality(s) = Cardinality(s \ {x}) + 1
              BY <6>i, CardLess, Zenon
            <6>1. v \in SUBSET S /\ Cardinality(v) \in Nat /\ Cardinality(s) = Cardinality(v) + 1
              BY <6>j, <5>1
            <6> QED BY <2>1, <6>1
          <5>4. g[v] = F[c] + g[v \ {c}]  BY <1>1, <1>3, <5>2, <5>3
          <5>5. g[v] = F[c] + g[w] /\ g[u] = F[x] + g[w]  BY <5>1, <5>2, <5>4, <3>4
          <5>6. w \in SUBSET S  BY <5>2, <5>3
          <5>7. F[x] \in Int  OBVIOUS
          <5>8. g[w] \in Int  BY <5>6, SumsAreInt
          <5>9. PICK a, b, k : a = F[c] /\ b = F[x] /\ k = g[w]  OBVIOUS
          <5>10. g[s] = a + (b + k) /\ g[v] = a + k  BY <3>5, <5>5, <5>9
          <5> QED BY <5>1, <5>7, <5>8, <3>6, <5>9, <5>10
        <4> QED BY <4>1, <4>2
      <3> QED BY <3>7
    <2> QED BY <1>1, <2>1
  <1>4. ASSUME NEW s \in SUBSET S
        PROVE  \A x \in s : g[s] = F[x] + g[s \ {x}]
    <2>1. Cardinality(s) \in Nat  BY FS_Subset, FS_CardinalityType
    <2>2. Cardinality(s) \in N  BY <1>1, <1>2, <1>3, <2>1, SetInduction
    <2> QED BY <1>1, <2>2
  <1> QED BY <1>4

\* An element is taken off a sum.
LEMMA SumMinus ==
  ASSUME NEW F, NEW S, IsFiniteSet(S), \A x \in S : F[x] \in Int
  PROVE  /\ SumOver(F, S) \in Int
         /\ \A x \in S : SumOver(F, S \ {x}) \in Int /\ SumOver(F, S) = F[x] + SumOver(F, S \ {x})
  <1>1. PICK g : IsSum(g, F, S)  BY SumExists
  <1>2. SumOver(F, S) = g[S] /\ g[S] \in Int  BY <1>1, SumIs, SumsAreInt
  <1>3. ASSUME NEW x \in S
        PROVE  SumOver(F, S \ {x}) \in Int /\ SumOver(F, S) = F[x] + SumOver(F, S \ {x})
    <2>1. PICK u : u = S \ {x}  OBVIOUS
    <2>2. u \in SUBSET S  BY <2>1
    <2>3. SumOver(F, u) = g[u] /\ g[u] \in Int  BY <1>1, <2>2, SumIs, SumsAreInt
    <2>4. S \in SUBSET S  OBVIOUS
    <2>5. g[S] = F[x] + g[S \ {x}]  BY <1>1, <2>4, AnyFirst
    <2> QED BY <1>2, <2>1, <2>3, <2>5
  <1> QED BY <1>2, <1>3

\* An element is added to a sum.
LEMMA SumPlus ==
  ASSUME NEW F, NEW S, IsFiniteSet(S), \A x \in S : F[x] \in Int, NEW b, b \notin S, F[b] \in Int
  PROVE  SumOver(F, S \cup {b}) = SumOver(F, S) + F[b]
  <1>1. PICK T : T = S \cup {b}  OBVIOUS
  <1>2. IsFiniteSet(T)  BY <1>1, FS_AddElement
  <1>3. b \in T /\ T \ {b} = S /\ \A x \in T : F[x] \in Int  BY <1>1
  <1>4. SumOver(F, T \ {b}) \in Int /\ SumOver(F, T) = F[b] + SumOver(F, T \ {b})
    BY <1>2, <1>3, SumMinus
  <1>5. PICK m, k : m = SumOver(F, S) /\ k = SumOver(F, T)  OBVIOUS
  <1>6. m \in Int /\ k = F[b] + m  BY <1>3, <1>4, <1>5
  <1> QED BY <1>1, <1>5, <1>6

\* One summand changes.
LEMMA SumChanged ==
  ASSUME NEW F, NEW G, NEW S, IsFiniteSet(S), NEW t \in S,
         \A x \in S : F[x] \in Int /\ G[x] \in Int, \A x \in S : x # t => F[x] = G[x]
  PROVE  SumOver(G, S) = SumOver(F, S) + (G[t] - F[t])
  <1>1. PICK T : T = S \ {t}  OBVIOUS
  <1>2. IsFiniteSet(T)  BY <1>1, FS_RemoveElement
  <1>3. \A x \in T : F[x] = G[x]  BY <1>1
  <1>4. SumOver(F, T) = SumOver(G, T)  BY <1>2, <1>3, SumSame
  <1>i. (\A x \in S : F[x] \in Int) /\ (\A x \in S : G[x] \in Int)  OBVIOUS
  <1>5. SumOver(F, S \ {t}) \in Int /\ SumOver(F, S) = F[t] + SumOver(F, S \ {t})
    <2>1. \A x \in S : SumOver(F, S \ {x}) \in Int /\ SumOver(F, S) = F[x] + SumOver(F, S \ {x})
      BY <1>i, SumMinus
    <2> QED BY <2>1
  <1>6. SumOver(G, S) = G[t] + SumOver(G, S \ {t})  BY <1>i, SumMinus
  <1>7. PICK k, m, n : k = SumOver(F, S) /\ m = SumOver(G, S) /\ n = SumOver(F, T)  OBVIOUS
  <1>8. n \in Int /\ F[t] \in Int /\ G[t] \in Int  BY <1>1, <1>5, <1>7
  <1>9. n = SumOver(F, S \ {t}) /\ n = SumOver(G, S \ {t})  BY <1>1, <1>4, <1>7
  <1>10. k = F[t] + n /\ m = G[t] + n  BY <1>5, <1>6, <1>7, <1>9
  <1> QED BY <1>7, <1>8, <1>10

\* A set is counted by adding ones.
LEMMA SumOnes ==
  ASSUME NEW F, NEW S, IsFiniteSet(S), \A x \in S : F[x] = 1
  PROVE  SumOver(F, S) = Cardinality(S)
  <1>1. PICK N : N = {n \in Nat : \A s \in SUBSET S : Cardinality(s) = n => SumOver(F, s) = n}
    OBVIOUS
  <1>2. 0 \in N
    <2>1. ASSUME NEW s \in SUBSET S, Cardinality(s) = 0
          PROVE  SumOver(F, s) = 0
      <3>1. s = {}  BY <2>1, FS_Subset, FS_EmptySet
      <3> QED BY <3>1, SumEmpty
    <2> QED BY <1>1, <2>1
  <1>3. ASSUME NEW n \in Nat, n \in N
        PROVE  n + 1 \in N
    <2>1. ASSUME NEW s \in SUBSET S, Cardinality(s) = n + 1
          PROVE  SumOver(F, s) = n + 1
      <3>1. s # {}
        <4>1. CASE s = {}
          <5>1. Cardinality(s) = 0  BY <4>1, FS_EmptySet
          <5> QED BY <2>1, <5>1
        <4> QED BY <4>1
      <3>2. PICK x \in s : TRUE  BY <3>1
      <3>3. PICK u : u = s \ {x}  OBVIOUS
      <3>4. s \ {x} \in SUBSET S /\ IsFiniteSet(s) /\ Cardinality(s \ {x}) \in Nat /\ Cardinality(s) = Cardinality(s \ {x}) + 1
        BY <3>2, CardLess, Zenon
      <3>5. u \in SUBSET S /\ Cardinality(u) = n  BY <3>3, <3>4, <2>1
      <3>6. SumOver(F, u) = n  BY <1>1, <1>3, <3>5
      <3>7. \A y \in s : F[y] \in Int  OBVIOUS
      <3>8. SumOver(F, s) = F[x] + SumOver(F, s \ {x})  BY <3>4, <3>7, SumMinus
      <3> QED BY <3>3, <3>6, <3>8
    <2> QED BY <1>1, <2>1
  <1>4. Cardinality(S) \in Nat  BY FS_CardinalityType
  <1>5. Cardinality(S) \in N  BY <1>1, <1>2, <1>3, <1>4, SetInduction
  <1> QED BY <1>1, <1>5

\* Nothing adds up to nothing.
LEMMA SumZeros ==
  ASSUME NEW F, NEW S, IsFiniteSet(S), \A x \in S : F[x] = 0
  PROVE  SumOver(F, S) = 0
  <1>1. PICK N : N = {n \in Nat : \A s \in SUBSET S : Cardinality(s) = n => SumOver(F, s) = 0}
    OBVIOUS
  <1>2. 0 \in N
    <2>1. ASSUME NEW s \in SUBSET S, Cardinality(s) = 0
          PROVE  SumOver(F, s) = 0
      <3>1. s = {}  BY <2>1, FS_Subset, FS_EmptySet
      <3> QED BY <3>1, SumEmpty
    <2> QED BY <1>1, <2>1
  <1>3. ASSUME NEW n \in Nat, n \in N
        PROVE  n + 1 \in N
    <2>1. ASSUME NEW s \in SUBSET S, Cardinality(s) = n + 1
          PROVE  SumOver(F, s) = 0
      <3>1. s # {}
        <4>1. CASE s = {}
          <5>1. Cardinality(s) = 0  BY <4>1, FS_EmptySet
          <5> QED BY <2>1, <5>1
        <4> QED BY <4>1
      <3>2. PICK x \in s : TRUE  BY <3>1
      <3>3. PICK u : u = s \ {x}  OBVIOUS
      <3>4. s \ {x} \in SUBSET S /\ IsFiniteSet(s) /\ Cardinality(s \ {x}) \in Nat /\ Cardinality(s) = Cardinality(s \ {x}) + 1
        BY <3>2, CardLess, Zenon
      <3>5. u \in SUBSET S /\ Cardinality(u) = n  BY <3>3, <3>4, <2>1
      <3>6. SumOver(F, u) = 0  BY <1>1, <1>3, <3>5
      <3>7. \A y \in s : F[y] \in Int  OBVIOUS
      <3>8. SumOver(F, s) = F[x] + SumOver(F, s \ {x})  BY <3>4, <3>7, SumMinus
      <3> QED BY <3>3, <3>6, <3>8
    <2> QED BY <1>1, <2>1
  <1>4. Cardinality(S) \in Nat  BY FS_CardinalityType
  <1>5. Cardinality(S) \in N  BY <1>1, <1>2, <1>3, <1>4, SetInduction
  <1> QED BY <1>1, <1>5

\* Every summand is covered by one of its own in the other sum.
Covers(h, F, T, G, S) ==
  /\ \A x \in T : F[x] <= 0 \/ (h[x] \in S /\ F[x] <= G[h[x]])
  /\ \A x, y \in T : F[x] > 0 /\ F[y] > 0 /\ h[x] = h[y] => x = y

\* Then the sum is covered.
LEMMA SumUnder ==
  ASSUME NEW F, NEW T, IsFiniteSet(T), \A x \in T : F[x] \in Int, NEW G, NEW S, IsFiniteSet(S),
         \A x \in S : G[x] \in Nat, NEW h, Covers(h, F, T, G, S)
  PROVE  SumOver(F, T) <= SumOver(G, S)
  <1>1. PICK N : N = {n \in Nat : \A s \in SUBSET T : \A q \in SUBSET S :
                         Cardinality(s) = n /\ Covers(h, F, s, G, q) => SumOver(F, s) <= SumOver(G, q)}
    OBVIOUS
  <1>a. ASSUME NEW q \in SUBSET S
        PROVE  IsFiniteSet(q) /\ (\A x \in q : G[x] \in Nat) /\ SumOver(G, q) \in Nat
    <2>1. PICK M : M = {n \in Nat : \A s \in SUBSET S : Cardinality(s) = n => SumOver(G, s) \in Nat}
      OBVIOUS
    <2>2. 0 \in M
      <3>1. ASSUME NEW s \in SUBSET S, Cardinality(s) = 0
            PROVE  SumOver(G, s) \in Nat
        <4>1. s = {}  BY <3>1, FS_Subset, FS_EmptySet
        <4> QED BY <4>1, SumEmpty
      <3> QED BY <2>1, <3>1
    <2>3. ASSUME NEW n \in Nat, n \in M
          PROVE  n + 1 \in M
      <3>1. ASSUME NEW s \in SUBSET S, Cardinality(s) = n + 1
            PROVE  SumOver(G, s) \in Nat
        <4>1. s # {}
          <5>1. CASE s = {}
            <6>1. Cardinality(s) = 0  BY <5>1, FS_EmptySet
            <6> QED BY <3>1, <6>1
          <5> QED BY <5>1
        <4>2. PICK x \in s : TRUE  BY <4>1
        <4>3. s \ {x} \in SUBSET S /\ IsFiniteSet(s) /\ Cardinality(s \ {x}) \in Nat /\ Cardinality(s) = Cardinality(s \ {x}) + 1
          BY <4>2, CardLess, Zenon
        <4>4. PICK u : u = s \ {x}  OBVIOUS
        <4>5. u \in SUBSET S /\ Cardinality(u) = n  BY <4>3, <4>4, <3>1
        <4>6. SumOver(G, u) \in Nat  BY <2>1, <2>3, <4>5
        <4>7. \A y \in s : G[y] \in Int  OBVIOUS
        <4>8. SumOver(G, s) = G[x] + SumOver(G, s \ {x})  BY <4>3, <4>7, SumMinus
        <4>9. G[x] \in Nat  OBVIOUS
        <4> QED BY <4>4, <4>6, <4>8, <4>9
      <3> QED BY <2>1, <3>1
    <2>4. IsFiniteSet(q) /\ Cardinality(q) \in Nat  BY FS_Subset, FS_CardinalityType
    <2>5. Cardinality(q) \in M  BY <2>1, <2>2, <2>3, <2>4, SetInduction
    <2> QED BY <2>1, <2>4, <2>5
  <1>2. 0 \in N
    <2>1. ASSUME NEW s \in SUBSET T, NEW q \in SUBSET S, Cardinality(s) = 0
          PROVE  SumOver(F, s) <= SumOver(G, q)
      <3>1. s = {}  BY <2>1, FS_Subset, FS_EmptySet
      <3>2. SumOver(F, s) = 0  BY <3>1, SumEmpty
      <3> QED BY <3>2, <1>a
    <2> QED BY <1>1, <2>1
  <1>3. ASSUME NEW n \in Nat, n \in N
        PROVE  n + 1 \in N
    <2>1. ASSUME NEW s \in SUBSET T, NEW q \in SUBSET S, Cardinality(s) = n + 1, Covers(h, F, s, G, q)
          PROVE  SumOver(F, s) <= SumOver(G, q)
      <3>1. s # {}
        <4>1. CASE s = {}
          <5>1. Cardinality(s) = 0  BY <4>1, FS_EmptySet
          <5> QED BY <2>1, <5>1
        <4> QED BY <4>1
      <3>2. PICK x \in s : TRUE  BY <3>1
      <3>3. PICK u : u = s \ {x}  OBVIOUS
      <3>4. s \ {x} \in SUBSET T /\ IsFiniteSet(s) /\ Cardinality(s \ {x}) \in Nat /\ Cardinality(s) = Cardinality(s \ {x}) + 1
        BY <3>2, CardLess, Zenon
      <3>5. u \in SUBSET T /\ Cardinality(u) = n  BY <3>3, <3>4, <2>1
      <3>6. \A y \in s : F[y] \in Int  OBVIOUS
      <3>7. SumOver(F, s \ {x}) \in Int /\ SumOver(F, s) = F[x] + SumOver(F, s \ {x})
        BY <3>4, <3>6, SumMinus
      <3>8. PICK k, m, a : k = SumOver(F, s) /\ m = SumOver(F, u) /\ a = F[x]  OBVIOUS
      <3>9. a \in Int /\ m \in Int /\ k = a + m  BY <3>3, <3>6, <3>7, <3>8
      <3>10. CASE a <= 0
        <4>1. Covers(h, F, u, G, q)  BY <2>1, <3>3 DEF Covers
        <4>2. m <= SumOver(G, q)  BY <1>1, <1>3, <3>5, <3>8, <4>1
        <4>3. PICK l : l = SumOver(G, q)  OBVIOUS
        <4>4. l \in Nat /\ m <= l  BY <1>a, <4>2, <4>3
        <4> QED BY <3>8, <3>9, <3>10, <4>3, <4>4
      <3>11. CASE a > 0
        <4>1. PICK y : y = h[x]  OBVIOUS
        <4>2. y \in q /\ a <= G[y]  BY <2>1, <3>8, <3>9, <3>11, <4>1 DEF Covers
        <4>3. PICK r : r = q \ {y}  OBVIOUS
        <4>4. \A z \in u : F[z] <= 0 \/ (h[z] \in r /\ F[z] <= G[h[z]])
          <5> SUFFICES ASSUME NEW z \in u PROVE F[z] <= 0 \/ (h[z] \in r /\ F[z] <= G[h[z]])
            OBVIOUS
          <5>1. z \in s /\ z # x /\ F[z] \in Int  BY <3>3, <3>6
          <5>2. F[z] <= 0 \/ F[z] > 0  BY <5>1
          <5>3. CASE F[z] > 0
            <6>1. h[z] \in q /\ F[z] <= G[h[z]]  BY <2>1, <5>1, <5>3 DEF Covers
            <6>2. h[z] # y  BY <2>1, <3>8, <3>11, <4>1, <5>1, <5>3 DEF Covers
            <6> QED BY <4>3, <6>1, <6>2
          <5> QED BY <5>2, <5>3
        <4>5. \A z, w \in u : F[z] > 0 /\ F[w] > 0 /\ h[z] = h[w] => z = w  BY <2>1, <3>3 DEF Covers
        <4>6. Covers(h, F, u, G, r)  BY <4>4, <4>5 DEF Covers
        <4>7. r \in SUBSET S  BY <4>3
        <4>8. m <= SumOver(G, r)  BY <1>1, <1>3, <3>5, <3>8, <4>6, <4>7
        <4>9. IsFiniteSet(q) /\ \A z \in q : G[z] \in Int  BY <1>a
        <4>10. SumOver(G, q) = G[y] + SumOver(G, q \ {y})  BY <4>2, <4>9, SumMinus
        <4>11. PICK l, o, b : l = SumOver(G, q) /\ o = SumOver(G, r) /\ b = G[y]  OBVIOUS
        <4>12. o \in Nat /\ b \in Nat  BY <1>a, <4>2, <4>7, <4>11
        <4>13. l = b + o /\ a <= b /\ m <= o  BY <4>2, <4>3, <4>8, <4>10, <4>11
        <4> QED BY <3>8, <3>9, <4>11, <4>12, <4>13
      <3> QED BY <3>9, <3>10, <3>11
    <2> QED BY <1>1, <2>1
  <1>4. Cardinality(T) \in Nat  BY FS_CardinalityType
  <1>5. Cardinality(T) \in N  BY <1>1, <1>2, <1>3, <1>4, SetInduction
  <1> QED BY <1>1, <1>5

----
(* The sums that CountersExact speaks of.                                  *)

\* The sizes of blocks.
SizeOf == [b \in [ptr : Nat, size : Nat \ {0}] |-> b.size]

\* What InUse and the sums of CountersExact compute, for all subsets.
SizesSum(g, B) == g = [s \in SUBSET B |->
  IF s = {} THEN 0 ELSE (CHOOSE x \in s : TRUE).size + g[s \ {CHOOSE x \in s : TRUE}]]
BytesSum(g) == g = [s \in SUBSET Threads |->
  IF s = {} THEN 0 ELSE PendingBytes(CHOOSE x \in s : TRUE) + g[s \ {CHOOSE x \in s : TRUE}]]
AllocsSum(g) == g = [s \in SUBSET Threads |->
  IF s = {} THEN 0 ELSE PendingAllocs(CHOOSE x \in s : TRUE) + g[s \ {CHOOSE x \in s : TRUE}]]

\* InUse is the sum of the sizes.
LEMMA InUseIs ==
  ASSUME IsFiniteSet(blocks), blocks \subseteq [ptr : Nat, size : Nat \ {0}]
  PROVE  InUse = SumOver(SizeOf, blocks)
  <1>1. PICK B : B = blocks  OBVIOUS
  <1>2. IsFiniteSet(B) /\ \A b \in B : SizeOf[b] = b.size  BY <1>1 DEF SizeOf
  <1>3. PICK g : g = CHOOSE f : SizesSum(f, B)  OBVIOUS
  <1>4. InUse = g[B]  BY <1>1, <1>3 DEF SizesSum, InUse, MapThenSumSet, MapThenFoldSet
  <1>5. \A s \in SUBSET B : s # {} => SizeOf[Next1(s)] = Next1(s).size  BY <1>2, NextIn
  <1>6. PICK h : IsSum(h, SizeOf, B)  BY <1>2, SumExists
  <1>7. h = [s \in SUBSET B |-> IF s = {} THEN 0 ELSE Next1(s).size + h[s \ {Next1(s)}]]
    BY <1>5, <1>6 DEF IsSum
  <1>8. SizesSum(h, B)  BY <1>7 DEF Next1, SizesSum
  <1>9. SizesSum(g, B)  BY <1>3, <1>8
  <1>10. g = [s \in SUBSET B |-> IF s = {} THEN 0 ELSE Next1(s).size + g[s \ {Next1(s)}]]
    BY <1>9 DEF Next1, SizesSum
  <1>11. IsSum(g, SizeOf, B)  BY <1>5, <1>10 DEF IsSum
  <1>12. SumOver(SizeOf, B) = g[B]  BY <1>2, <1>11, SumIs
  <1> QED BY <1>1, <1>4, <1>12

\* What the calls under way have not counted yet, per thread.
BytesOf == [t \in Threads |-> PendingBytes(t)]
AllocsOf == [t \in Threads |-> PendingAllocs(t)]

\* The bytes that the calls have not counted are the sum of theirs.
LEMMA PendingBytesIs ==
  ASSUME IsFiniteSet(Threads)
  PROVE  MapThenSumSet(PendingBytes, Threads) = SumOver(BytesOf, Threads)
  <1>2. \A t \in Threads : BytesOf[t] = PendingBytes(t)  BY DEF BytesOf
  <1>3. PICK g : g = CHOOSE f : BytesSum(f)  OBVIOUS
  <1>4. MapThenSumSet(PendingBytes, Threads) = g[Threads]
    BY <1>3 DEF BytesSum, MapThenSumSet, MapThenFoldSet
  <1>5. \A s \in SUBSET Threads : s # {} => BytesOf[Next1(s)] = PendingBytes(Next1(s))
    BY <1>2, NextIn
  <1>i. PICK F : F = BytesOf  OBVIOUS
  <1>6. PICK h : IsSum(h, F, Threads)  BY SumExists
  <1>7. h = [s \in SUBSET Threads |-> IF s = {} THEN 0 ELSE PendingBytes(Next1(s)) + h[s \ {Next1(s)}]]
    BY <1>i, <1>5, <1>6 DEF IsSum
  <1>8. BytesSum(h)  BY <1>7 DEF Next1, BytesSum
  <1>9. BytesSum(g)  BY <1>3, <1>8
  <1>10. g = [s \in SUBSET Threads |-> IF s = {} THEN 0 ELSE PendingBytes(Next1(s)) + g[s \ {Next1(s)}]]
    BY <1>9 DEF Next1, BytesSum
  <1>11. IsSum(g, F, Threads)  BY <1>i, <1>5, <1>10 DEF IsSum
  <1>12. SumOver(F, Threads) = g[Threads]  BY <1>11, SumIs
  <1> QED BY <1>i, <1>4, <1>12

\* So are the allocations.
LEMMA PendingAllocsIs ==
  ASSUME IsFiniteSet(Threads)
  PROVE  MapThenSumSet(PendingAllocs, Threads) = SumOver(AllocsOf, Threads)
  <1>2. \A t \in Threads : AllocsOf[t] = PendingAllocs(t)  BY DEF AllocsOf
  <1>3. PICK g : g = CHOOSE f : AllocsSum(f)  OBVIOUS
  <1>4. MapThenSumSet(PendingAllocs, Threads) = g[Threads]
    BY <1>3 DEF AllocsSum, MapThenSumSet, MapThenFoldSet
  <1>5. \A s \in SUBSET Threads : s # {} => AllocsOf[Next1(s)] = PendingAllocs(Next1(s))
    BY <1>2, NextIn
  <1>i. PICK F : F = AllocsOf  OBVIOUS
  <1>6. PICK h : IsSum(h, F, Threads)  BY SumExists
  <1>7. h = [s \in SUBSET Threads |-> IF s = {} THEN 0 ELSE PendingAllocs(Next1(s)) + h[s \ {Next1(s)}]]
    BY <1>i, <1>5, <1>6 DEF IsSum
  <1>8. AllocsSum(h)  BY <1>7 DEF Next1, AllocsSum
  <1>9. AllocsSum(g)  BY <1>3, <1>8
  <1>10. g = [s \in SUBSET Threads |-> IF s = {} THEN 0 ELSE PendingAllocs(Next1(s)) + g[s \ {Next1(s)}]]
    BY <1>9 DEF Next1, AllocsSum
  <1>11. IsSum(g, F, Threads)  BY <1>i, <1>5, <1>10 DEF IsSum
  <1>12. SumOver(F, Threads) = g[Threads]  BY <1>11, SumIs
  <1> QED BY <1>i, <1>4, <1>12

----
(* What the calls under way owe to the statistics, and the sizes of the    *)
(* blocks.                                                                 *)

BlockType == [ptr : Nat, size : Nat \ {0}]

\* The statistics without what freeing nullptr took off them.
Reckoned == [bytes |-> stats.bytes, num |-> stats.num + null_frees]

\* What a call under way has not counted yet, or has counted too early.
Returns(c) == c.op = "free" \/ (c.op = "reallocate" /\ c.new = 0)
Early(c) == Returns(c) /\ c.pc \in {"tcache", "create", "jemalloc"}
BytesDue(c) == IF c.pc = "count" THEN c.new - c.old ELSE IF Early(c) THEN c.old ELSE 0
AllocsDue(c) == IF Early(c) \/ (c.pc = "count" /\ c.op = "allocate") THEN 1 ELSE 0

BytesDueOf(C) == SumOver([t \in Threads |-> BytesDue(C[t])], Threads)
AllocsDueOf(C) == SumOver([t \in Threads |-> AllocsDue(C[t])], Threads)

\* The reckoned statistics, the calls under way and the blocks in use agree.
Agree(S, C, B, s) ==
  /\ IsFiniteSet(B)
  /\ S.num + AllocsDueOf(C) = Cardinality(B)
  /\ s \/ S.bytes + BytesDueOf(C) = SumOver(SizeOf, B)

\* What a call owes is a number.
LEMMA DueTypes ==
  ASSUME NEW c \in CallType
  PROVE  BytesDue(c) \in Int /\ AllocsDue(c) \in {0, 1}
  <1>1. c.new \in Nat /\ c.old \in Nat  BY DEF CallType
  <1>2. c.new - c.old \in Int /\ c.old \in Int  BY <1>1
  <1> QED BY <1>2 DEF BytesDue, AllocsDue

\* One call goes on.
LEMMA DueChanged ==
  ASSUME NEW C \in [Threads -> CallType], NEW t \in Threads, NEW c \in CallType,
         NEW D, D = [C EXCEPT ![t] = c]
  PROVE  /\ BytesDueOf(C) \in Int /\ AllocsDueOf(C) \in Int
         /\ BytesDueOf(D) = BytesDueOf(C) + (BytesDue(c) - BytesDue(C[t]))
         /\ AllocsDueOf(D) = AllocsDueOf(C) + (AllocsDue(c) - AllocsDue(C[t]))
  <1>0. IsFiniteSet(Threads)  BY HostAssumption
  <1>1. D \in [Threads -> CallType] /\ D[t] = c /\ \A u \in Threads : u # t => D[u] = C[u]  OBVIOUS
  <1>2. PICK F, G : F = [u \in Threads |-> BytesDue(C[u])] /\ G = [u \in Threads |-> BytesDue(D[u])]
    OBVIOUS
  <1>3. \A u \in Threads : F[u] = BytesDue(C[u]) /\ G[u] = BytesDue(D[u])  BY <1>2
  <1>4. \A u \in Threads : F[u] \in Int /\ G[u] \in Int  BY <1>1, <1>3, DueTypes
  <1>5. \A u \in Threads : u # t => F[u] = G[u]  BY <1>1, <1>3
  <1>6. SumOver(G, Threads) = SumOver(F, Threads) + (G[t] - F[t])  BY <1>0, <1>4, <1>5, SumChanged
  <1>7. \A u \in Threads : F[u] \in Int  BY <1>4
  <1>8. SumOver(F, Threads) \in Int  BY <1>0, <1>7, SumMinus
  <1>9. PICK H, K : H = [u \in Threads |-> AllocsDue(C[u])] /\ K = [u \in Threads |-> AllocsDue(D[u])]
    OBVIOUS
  <1>10. \A u \in Threads : H[u] = AllocsDue(C[u]) /\ K[u] = AllocsDue(D[u])  BY <1>9
  <1>11. \A u \in Threads : H[u] \in {0, 1} /\ K[u] \in {0, 1}  BY <1>1, <1>10, DueTypes
  <1>12. \A u \in Threads : H[u] \in Int /\ K[u] \in Int  BY <1>11
  <1>13. \A u \in Threads : u # t => H[u] = K[u]  BY <1>1, <1>10
  <1>14. SumOver(K, Threads) = SumOver(H, Threads) + (K[t] - H[t])
    BY <1>0, <1>12, <1>13, SumChanged
  <1>15. \A u \in Threads : H[u] \in Int  BY <1>12
  <1>16. SumOver(H, Threads) \in Int  BY <1>0, <1>15, SumMinus
  <1>17. BytesDueOf(C) = SumOver(F, Threads) /\ BytesDueOf(D) = SumOver(G, Threads)
    BY <1>2 DEF BytesDueOf
  <1>18. AllocsDueOf(C) = SumOver(H, Threads) /\ AllocsDueOf(D) = SumOver(K, Threads)
    BY <1>9 DEF AllocsDueOf
  <1>19. F[t] = BytesDue(C[t]) /\ G[t] = BytesDue(c) /\ H[t] = AllocsDue(C[t]) /\ K[t] = AllocsDue(c)
    BY <1>1, <1>3, <1>10
  <1> QED BY <1>6, <1>8, <1>14, <1>16, <1>17, <1>18, <1>19

\* Sizes add up.
LEMMA SizesType ==
  ASSUME NEW B, IsFiniteSet(B), B \subseteq BlockType
  PROVE  /\ \A b \in B : SizeOf[b] = b.size /\ SizeOf[b] \in Nat /\ SizeOf[b] \in Int
         /\ SumOver(SizeOf, B) \in Int /\ Cardinality(B) \in Nat
  <1>1. \A b \in B : SizeOf[b] = b.size  BY DEF SizeOf, BlockType
  <1>2. \A b \in B : b.size \in Nat  BY DEF BlockType
  <1>3. \A b \in B : SizeOf[b] \in Int  BY <1>1, <1>2
  <1>4. PICK F : F = SizeOf  OBVIOUS
  <1>5. \A b \in B : F[b] \in Int  BY <1>3, <1>4
  <1>6. SumOver(F, B) \in Int  BY <1>5, SumMinus
  <1> QED BY <1>1, <1>2, <1>4, <1>6, FS_CardinalityType

\* A block more.
LEMMA SizeAdded ==
  ASSUME NEW B, IsFiniteSet(B), B \subseteq BlockType, NEW b \in BlockType, b \notin B
  PROVE  /\ IsFiniteSet(B \cup {b}) /\ Cardinality(B \cup {b}) = Cardinality(B) + 1
         /\ SumOver(SizeOf, B \cup {b}) = SumOver(SizeOf, B) + b.size
  <1>1. IsFiniteSet(B \cup {b}) /\ Cardinality(B \cup {b}) = Cardinality(B) + 1  BY FS_AddElement
  <1>2. PICK F : F = SizeOf  OBVIOUS
  <1>3. \A c \in B : F[c] \in Int  BY <1>2, SizesType
  <1>4. F[b] = b.size /\ F[b] \in Int  BY <1>2 DEF SizeOf, BlockType
  <1>5. SumOver(F, B \cup {b}) = SumOver(F, B) + F[b]  BY <1>3, <1>4, SumPlus
  <1> QED BY <1>1, <1>2, <1>4, <1>5

\* A block less.
LEMMA SizeTaken ==
  ASSUME NEW B, IsFiniteSet(B), B \subseteq BlockType, NEW b \in B
  PROVE  /\ IsFiniteSet(B \ {b}) /\ Cardinality(B \ {b}) = Cardinality(B) - 1
         /\ SumOver(SizeOf, B \ {b}) = SumOver(SizeOf, B) - b.size
         /\ SumOver(SizeOf, B) \in Int /\ b.size \in Nat /\ Cardinality(B) \in Nat
  <1>1. IsFiniteSet(B \ {b}) /\ Cardinality(B \ {b}) = Cardinality(B) - 1  BY FS_RemoveElement
  <1>2. PICK F : F = SizeOf  OBVIOUS
  <1>3. \A c \in B : F[c] \in Int  BY <1>2, SizesType
  <1>4. F[b] = b.size /\ b.size \in Nat  BY <1>2, SizesType
  <1>5. \A x \in B : SumOver(F, B \ {x}) \in Int /\ SumOver(F, B) = F[x] + SumOver(F, B \ {x})
    BY <1>3, SumMinus
  <1>6. SumOver(F, B \ {b}) \in Int /\ SumOver(F, B) = F[b] + SumOver(F, B \ {b})  BY <1>5
  <1>7. SumOver(F, B) \in Int /\ Cardinality(B) \in Nat  BY <1>2, SizesType
  <1>8. SumOver(F, B \ {b}) = SumOver(F, B) - b.size
    <2>1. PICK k, m : k = SumOver(F, B \ {b}) /\ m = SumOver(F, B)  OBVIOUS
    <2>2. k \in Int /\ m = b.size + k  BY <1>4, <1>6, <2>1
    <2>3. k = m - b.size  BY <1>4, <2>2
    <2> QED BY <2>1, <2>3
  <1> QED BY <1>1, <1>2, <1>4, <1>7, <1>8

\* A block in the place of another.
LEMMA SizeSwapped ==
  ASSUME NEW B, IsFiniteSet(B), B \subseteq BlockType, NEW a \in B, NEW b \in BlockType, b \notin B \ {a}
  PROVE  /\ IsFiniteSet((B \ {a}) \cup {b}) /\ Cardinality((B \ {a}) \cup {b}) = Cardinality(B)
         /\ SumOver(SizeOf, (B \ {a}) \cup {b}) = SumOver(SizeOf, B) + (b.size - a.size)
  <1>1. /\ IsFiniteSet(B \ {a}) /\ Cardinality(B \ {a}) = Cardinality(B) - 1
        /\ SumOver(SizeOf, B \ {a}) = SumOver(SizeOf, B) - a.size
        /\ SumOver(SizeOf, B) \in Int /\ a.size \in Nat /\ Cardinality(B) \in Nat
    BY SizeTaken
  <1>2. PICK D : D = B \ {a}  OBVIOUS
  <1>3. IsFiniteSet(D) /\ D \subseteq BlockType /\ b \notin D  BY <1>1, <1>2
  <1>4. /\ IsFiniteSet(D \cup {b}) /\ Cardinality(D \cup {b}) = Cardinality(D) + 1
        /\ SumOver(SizeOf, D \cup {b}) = SumOver(SizeOf, D) + b.size
    BY <1>3, SizeAdded
  <1>5. b.size \in Nat  BY DEF BlockType
  <1>6. Cardinality(D) = Cardinality(B) - 1 /\ SumOver(SizeOf, D) = SumOver(SizeOf, B) - a.size
    BY <1>1, <1>2
  <1>7. PICK k, m, l, n : k = SumOver(SizeOf, D) /\ m = SumOver(SizeOf, B) /\ l = Cardinality(D) /\ n = Cardinality(B)
    OBVIOUS
  <1>8. k = m - a.size /\ l = n - 1 /\ m \in Int /\ n \in Nat  BY <1>1, <1>6, <1>7
  <1>9. l + 1 = n /\ k + b.size = m + (b.size - a.size)  BY <1>1, <1>5, <1>8
  <1> QED BY <1>2, <1>4, <1>7, <1>9

\* What the accounts before and after a step are about.
Typed(S, C, B, s, E, r, t, c) ==
  /\ S.num \in Int /\ S.bytes \in Int /\ C \in [Threads -> CallType]
  /\ B \subseteq BlockType /\ IsFiniteSet(E) /\ t \in Threads /\ c \in CallType
  /\ s \in BOOLEAN /\ r \in BOOLEAN /\ (s => r)

\* The books of a step: what it does to the blocks, and what it counts or owes for that.
Books(S, C, B, Q, E, t, c, k, m, r) ==
  /\ k \in Int /\ m \in Int
  /\ Cardinality(E) = Cardinality(B) + k
  /\ SumOver(SizeOf, E) = SumOver(SizeOf, B) + m
  /\ Q.num = S.num + (k - (AllocsDue(c) - AllocsDue(C[t])))
  /\ r \/ Q.bytes = S.bytes + (m - (BytesDue(c) - BytesDue(C[t])))

\* A step of a call keeps them in agreement when it counts what it does.
LEMMA AgreeStep ==
  ASSUME NEW S, NEW C, NEW B, NEW s, NEW Q, NEW D, NEW E, NEW r, NEW t, NEW c, NEW k, NEW m,
         Typed(S, C, B, s, E, r, t, c) /\ D = [C EXCEPT ![t] = c] /\ Agree(S, C, B, s)
           /\ Books(S, C, B, Q, E, t, c, k, m, r)
  PROVE  Agree(Q, D, E, r)
  <1>0. /\ S.num \in Int /\ S.bytes \in Int /\ C \in [Threads -> CallType]
        /\ B \subseteq BlockType /\ IsFiniteSet(E) /\ t \in Threads /\ c \in CallType
        /\ s \in BOOLEAN /\ r \in BOOLEAN /\ (s => r)
    BY DEF Typed
  <1>a. /\ k \in Int /\ m \in Int
        /\ Cardinality(E) = Cardinality(B) + k
        /\ SumOver(SizeOf, E) = SumOver(SizeOf, B) + m
    BY DEF Books
  <1>b. Q.num = S.num + (k - (AllocsDue(c) - AllocsDue(C[t])))  BY DEF Books
  <1>c. r \/ Q.bytes = S.bytes + (m - (BytesDue(c) - BytesDue(C[t])))  BY DEF Books
  <1>1. IsFiniteSet(B)  BY DEF Agree
  <1>2. SumOver(SizeOf, B) \in Int /\ Cardinality(B) \in Nat  BY <1>0, <1>1, SizesType
  <1>3. /\ BytesDueOf(C) \in Int /\ AllocsDueOf(C) \in Int
        /\ BytesDueOf(D) = BytesDueOf(C) + (BytesDue(c) - BytesDue(C[t]))
        /\ AllocsDueOf(D) = AllocsDueOf(C) + (AllocsDue(c) - AllocsDue(C[t]))
    BY <1>0, DueChanged
  <1>4. C[t] \in CallType  BY <1>0
  <1>5. /\ BytesDue(c) \in Int /\ AllocsDue(c) \in {0, 1}
        /\ BytesDue(C[t]) \in Int /\ AllocsDue(C[t]) \in {0, 1}
    BY <1>0, <1>4, DueTypes
  <1>6. PICK x, y, z, w : /\ x = AllocsDueOf(C) /\ y = AllocsDueOf(D)
                          /\ z = AllocsDue(c) - AllocsDue(C[t]) /\ w = Cardinality(B)
    OBVIOUS
  <1>7. z \in Int /\ x \in Int /\ y = x + z /\ S.num + x = w /\ w \in Int
    BY <1>0, <1>2, <1>3, <1>5, <1>6 DEF Agree
  <1>8. Q.num = S.num + (k - z) /\ Cardinality(E) = w + k  BY <1>a, <1>b, <1>6
  <1>9. Q.num + y = Cardinality(E)
    <2>1. PICK i, j : i = S.num /\ j = Q.num  OBVIOUS
    <2>2. i \in Int /\ j = i + (k - z) /\ i + x = w  BY <1>0, <1>7, <1>8, <2>1
    <2>3. j + y = w + k  BY <1>a, <1>7, <2>2
    <2> QED BY <1>8, <2>1, <2>3
  <1>10. r \/ Q.bytes + BytesDueOf(D) = SumOver(SizeOf, E)
    <2>1. CASE r  BY <2>1
    <2>2. CASE ~r
      <3>1. S.bytes + BytesDueOf(C) = SumOver(SizeOf, B)  BY <1>0, <2>2 DEF Agree
      <3>2. Q.bytes = S.bytes + (m - (BytesDue(c) - BytesDue(C[t])))  BY <1>c, <2>2
      <3>3. PICK a, b, d, e, i, j : /\ a = BytesDueOf(C) /\ b = BytesDueOf(D) /\ e = SumOver(SizeOf, B)
                                    /\ d = BytesDue(c) - BytesDue(C[t]) /\ i = S.bytes /\ j = Q.bytes
        OBVIOUS
      <3>4. d \in Int /\ a \in Int /\ b = a + d /\ e \in Int  BY <1>0, <1>2, <1>3, <1>5, <3>3
      <3>5. i \in Int /\ i + a = e /\ j = i + (m - d)  BY <1>0, <3>1, <3>2, <3>3
      <3>6. j + b = e + m  BY <1>a, <3>4, <3>5
      <3> QED BY <1>a, <3>3, <3>6
    <2> QED BY <2>1, <2>2
  <1> QED BY <1>0, <1>6, <1>9, <1>10 DEF Agree

----
(* The accounts of a call: what a step of it does to the blocks, and what it *)
(* counts for that or still owes.                                          *)

\* What a call will subtract is what its object's block has, as long as no output was
\* shrunk, and what it will add is what the block has now.
FitsOld(c, x, s) ==
  /\ c.op # "none"
  /\ c.op = "allocate" => c.old = 0
  /\ c.op = "free" => c.pc # "count" /\ (s \/ c.old = BlockSize(x))
  /\ c.pc = "count" => ~NoMemory(x) /\ BlockSize(x) = c.new

OldFits == \A t \in Threads : ~Idle(t) => FitsOld(call[t], Obj(t), shrunk)
DeliveredWhole ==
  shrunk \/ \A o \in Objects : objects[o].use = "delivered" => objects[o].size = objects[o].capacity

\* What a step does to the statistics; the total only grows.
Adds(b, k) ==
  /\ b \in Int /\ k \in Int
  /\ Reckoned'.bytes = Reckoned.bytes + b /\ Reckoned'.num = Reckoned.num + k
  /\ stats.total \in Nat => stats'.total \in Nat

\* What a step of a call makes of its object and of itself.
Becomes(t, r, c) ==
  /\ c \in CallType /\ call' = [call EXCEPT ![t] = c]
  /\ objects' = [objects EXCEPT ![call[t].obj] = r]
  /\ r = Obj(t) \/ r.use # "delivered" \/ shrunk'
  /\ c = NoCall \/ (c.obj = call[t].obj /\ FitsOld(c, r, shrunk'))
  /\ (shrunk => shrunk') /\ shrunk' \in BOOLEAN

\* What it does to the blocks and the statistics.
Effect(b, j, k, m) ==
  /\ Adds(b, j) /\ k \in Int /\ m \in Int /\ IsFiniteSet(blocks')
  /\ Cardinality(blocks') = Cardinality(blocks) + k
  /\ SumOver(SizeOf, blocks') = SumOver(SizeOf, blocks) + m

\* What it does not count it owes.
Settles(t, c, b, j, k, m) ==
  /\ j = k - (AllocsDue(c) - AllocsDue(call[t]))
  /\ shrunk' \/ b = m - (BytesDue(c) - BytesDue(call[t]))

\* What a step of a call does to the accounts.
Accounts(t, r, c) ==
  /\ Becomes(t, r, c)
  /\ stats.total \in Nat => stats'.total \in Nat
  /\ Agree(Reckoned', call', blocks', shrunk')

\* What each of them needs to know.
Accounted(t) ==
  /\ IInv /\ Data /\ Rest /\ ~Idle(t) /\ CallFits(t)
  /\ Agree(Reckoned, call, blocks, shrunk) /\ FitsOld(call[t], Obj(t), shrunk)

\* What is counted is added.
LEMMA AddsCounted ==
  ASSUME StatsType, null_frees \in Nat, UNCHANGED null_frees,
         NEW b \in Int, NEW n \in Nat, NEW k \in Int, Counted(b, n, k)
  PROVE  Adds(b, k)
  <1>1. stats' = [bytes |-> stats.bytes + b, total |-> stats.total + n, num |-> stats.num + k]
    BY DEF Counted
  <1>2. stats'.bytes = stats.bytes + b /\ stats'.num = stats.num + k /\ stats'.total = stats.total + n
    BY <1>1
  <1>3. stats.total \in Nat => stats'.total \in Nat  BY <1>2
  <1>4. stats.num \in Int /\ stats.bytes \in Int  BY DEF StatsType
  <1>5. stats'.num + null_frees = (stats.num + null_frees) + k  BY <1>2, <1>4
  <1>6. Reckoned'.bytes = Reckoned.bytes + b /\ Reckoned'.num = Reckoned.num + k
    BY <1>2, <1>5 DEF Reckoned
  <1> QED BY <1>3, <1>6 DEF Adds

\* Nothing is added when the statistics stay.
LEMMA AddsNothing ==
  ASSUME StatsType, null_frees \in Nat, UNCHANGED <<stats, null_frees>>
  PROVE  Adds(0, 0)
  <1>1. Reckoned.bytes \in Int /\ Reckoned.num \in Int  BY DEF StatsType, Reckoned
  <1>2. Reckoned.bytes = Reckoned.bytes + 0 /\ Reckoned.num = Reckoned.num + 0  BY <1>1
  <1>3. Reckoned' = Reckoned  BY DEF Reckoned
  <1> QED BY <1>2, <1>3 DEF Adds

\* The accounts after a step, from what it does to the blocks and what it counts.
LEMMA AccountsStep ==
  ASSUME NEW t \in Threads, Accounted(t), NEW r, NEW c, Becomes(t, r, c),
         NEW b, NEW j, NEW k, NEW m, Effect(b, j, k, m), Settles(t, c, b, j, k, m)
  PROVE  Accounts(t, r, c)
  <1>0. /\ c \in CallType /\ call' = [call EXCEPT ![t] = c]
        /\ (shrunk => shrunk') /\ shrunk' \in BOOLEAN
    BY DEF Becomes
  <1>g. /\ Adds(b, j) /\ k \in Int /\ m \in Int /\ IsFiniteSet(blocks')
        /\ Cardinality(blocks') = Cardinality(blocks) + k
        /\ SumOver(SizeOf, blocks') = SumOver(SizeOf, blocks) + m
    BY DEF Effect
  <1>h. /\ j = k - (AllocsDue(c) - AllocsDue(call[t]))
        /\ shrunk' \/ b = m - (BytesDue(c) - BytesDue(call[t]))
    BY DEF Settles
  <1>1. PICK S, C, B, s : S = Reckoned /\ C = call /\ B = blocks /\ s = shrunk  OBVIOUS
  <1>2. PICK Q, D, E, z : Q = Reckoned' /\ D = call' /\ E = blocks' /\ z = shrunk'  OBVIOUS
  <1>3. C \in [Threads -> CallType] /\ D = [C EXCEPT ![t] = c]
    BY <1>0, <1>1, <1>2 DEF Accounted, IInv, Types, CallOK
  <1>4. s \in BOOLEAN /\ z \in BOOLEAN /\ (s => z)  BY <1>0, <1>1, <1>2 DEF Accounted, Rest
  <1>5. S.num \in Int /\ S.bytes \in Int  BY <1>1 DEF Accounted, Rest, StatsType, Reckoned
  <1>6. B \subseteq BlockType  BY <1>1 DEF Accounted, IInv, Space, BlocksOK, BlockType
  <1>7. Agree(S, C, B, s)  BY <1>1 DEF Accounted
  <1>8. IsFiniteSet(E) /\ Cardinality(E) = Cardinality(B) + k /\ SumOver(SizeOf, E) = SumOver(SizeOf, B) + m
    BY <1>g, <1>1, <1>2
  <1>a. Q.num = S.num + j /\ Q.bytes = S.bytes + b  BY <1>g, <1>1, <1>2 DEF Adds
  <1>b. j = k - (AllocsDue(c) - AllocsDue(C[t]))  BY <1>h, <1>1
  <1>9. Q.num = S.num + (k - (AllocsDue(c) - AllocsDue(C[t])))  BY <1>a, <1>b
  <1>d. z \/ b = m - (BytesDue(c) - BytesDue(C[t]))  BY <1>h, <1>1, <1>2
  <1>10. z \/ Q.bytes = S.bytes + (m - (BytesDue(c) - BytesDue(C[t])))  BY <1>a, <1>d
  <1>e. Books(S, C, B, Q, E, t, c, k, m, z)  BY <1>g, <1>8, <1>9, <1>10 DEF Books
  <1>f. Typed(S, C, B, s, E, z, t, c)  BY <1>0, <1>3, <1>4, <1>5, <1>6, <1>8 DEF Typed
  <1>11. Agree(Q, D, E, z)  BY <1>3, <1>7, <1>e, <1>f, AgreeStep
  <1>12. Agree(Reckoned', call', blocks', shrunk')  BY <1>2, <1>11
  <1>13. stats.total \in Nat => stats'.total \in Nat  BY <1>g DEF Adds
  <1> QED BY <1>12, <1>13 DEF Accounts

\* Who is in no call owes nothing.
LEMMA NoCallDue == NoCall \in CallType /\ BytesDue(NoCall) = 0 /\ AllocsDue(NoCall) = 0
  BY RecordTypes DEF NoCall, BytesDue, AllocsDue, Early, Returns

\* A call that returns settles what it owed.
LEMMA AccountsReturn ==
  ASSUME NEW t \in Threads, Accounted(t), NEW r, Return(t, r),
         r = Obj(t) \/ r.use # "delivered" \/ shrunk', (shrunk => shrunk') /\ shrunk' \in BOOLEAN,
         NEW b, NEW j, NEW k, NEW m, Effect(b, j, k, m),
         j = k + AllocsDue(call[t]), shrunk' \/ b = m + BytesDue(call[t])
  PROVE  Accounts(t, r, NoCall)
  <1>1. call[t] \in CallType  BY DEF Accounted, IInv, Types, CallOK
  <1>2. BytesDue(call[t]) \in Int /\ AllocsDue(call[t]) \in Int /\ k \in Int /\ m \in Int
    BY <1>1, DueTypes DEF Effect
  <1>3. j = k - (AllocsDue(NoCall) - AllocsDue(call[t]))  BY <1>2, NoCallDue
  <1>4. shrunk' \/ b = m - (BytesDue(NoCall) - BytesDue(call[t]))  BY <1>2, NoCallDue
  <1>5. call' = [call EXCEPT ![t] = NoCall] /\ objects' = [objects EXCEPT ![call[t].obj] = r]
    BY DEF Return
  <1>6. NoCall \in CallType  BY NoCallDue
  <1>7. Becomes(t, r, NoCall)  BY <1>5, <1>6 DEF Becomes
  <1>8. Settles(t, NoCall, b, j, k, m)  BY <1>3, <1>4 DEF Settles
  <1> QED BY <1>7, <1>8, AccountsStep

\* Blocks that stay as they are.
LEMMA SameBlocks ==
  ASSUME NEW t, Accounted(t), UNCHANGED blocks
  PROVE  /\ IsFiniteSet(blocks') /\ Cardinality(blocks') = Cardinality(blocks) + 0
         /\ SumOver(SizeOf, blocks') = SumOver(SizeOf, blocks) + 0
  <1>1. PICK B : B = blocks  OBVIOUS
  <1>2. IsFiniteSet(B) /\ B \subseteq BlockType
    BY <1>1 DEF Accounted, Agree, IInv, Space, BlocksOK, BlockType
  <1>3. SumOver(SizeOf, B) \in Int /\ Cardinality(B) \in Nat  BY <1>2, SizesType
  <1>4. Cardinality(B) = Cardinality(B) + 0 /\ SumOver(SizeOf, B) = SumOver(SizeOf, B) + 0  BY <1>3
  <1> QED BY <1>1, <1>2, <1>4

\* A block that lies where no other does is a new one.
LEMMA NewBlock ==
  ASSUME NEW B, B \subseteq BlockType, NEW b \in BlockType, \A c \in B : Contract!Disjoint(b, c)
  PROVE  b \notin B
  <1>1. b.ptr \in Nat /\ b.size \in Nat \ {0}  BY DEF BlockType
  <1>2. ~Contract!Disjoint(b, b)  BY <1>1 DEF Contract!Disjoint
  <1> QED BY <1>2

\* The blocks after one is placed.
LEMMA PlacedBlocks ==
  ASSUME NEW t, Accounted(t), NEW p \in Nat, NEW n \in Nat \ {0},
         \A c \in blocks : Contract!Disjoint(Block(p, n), c),
         blocks' = blocks \cup {Block(p, n)}
  PROVE  /\ IsFiniteSet(blocks') /\ Cardinality(blocks') = Cardinality(blocks) + 1
         /\ SumOver(SizeOf, blocks') = SumOver(SizeOf, blocks) + n
  <1>1. PICK B, b : B = blocks /\ b = Block(p, n)  OBVIOUS
  <1>2. IsFiniteSet(B) /\ B \subseteq BlockType
    BY <1>1 DEF Accounted, Agree, IInv, Space, BlocksOK, BlockType
  <1>3. b \in BlockType /\ b.size = n  BY <1>1 DEF Block, BlockType
  <1>4. \A c \in B : Contract!Disjoint(b, c)  BY <1>1
  <1>5. b \notin B  BY <1>2, <1>3, <1>4, NewBlock
  <1>6. /\ IsFiniteSet(B \cup {b}) /\ Cardinality(B \cup {b}) = Cardinality(B) + 1
        /\ SumOver(SizeOf, B \cup {b}) = SumOver(SizeOf, B) + b.size
    BY <1>2, <1>3, <1>5, SizeAdded
  <1>7. blocks' = B \cup {b}  BY <1>1
  <1> QED BY <1>1, <1>3, <1>6, <1>7

\* The blocks after one is moved.
LEMMA MovedBlocks ==
  ASSUME NEW t \in Threads, Accounted(t), ~NoMemory(Obj(t)), NEW p \in Nat, NEW n \in Nat \ {0},
         \A c \in blocks \ {Target(t)} : Contract!Disjoint(Block(p, n), c),
         blocks' = (blocks \ {Target(t)}) \cup {Block(p, n)}
  PROVE  /\ IsFiniteSet(blocks') /\ Cardinality(blocks') = Cardinality(blocks) + 0
         /\ SumOver(SizeOf, blocks') = SumOver(SizeOf, blocks) + (n - BlockSize(Obj(t)))
  <1>1. PICK B, b, a : B = blocks /\ b = Block(p, n) /\ a = Target(t)  OBVIOUS
  <1>2. IsFiniteSet(B) /\ B \subseteq BlockType
    BY <1>1 DEF Accounted, Agree, IInv, Space, BlocksOK, BlockType
  <1>3. b \in BlockType /\ b.size = n  BY <1>1 DEF Block, BlockType
  <1>4. IInv /\ Data /\ ~Idle(t)  BY DEF Accounted
  <1>5. Target(t) = Block(Obj(t).ptr, BlockSize(Obj(t))) /\ Target(t) \in blocks  BY <1>4, TargetIs
  <1>6. a \in B /\ a.size = BlockSize(Obj(t))  BY <1>1, <1>5 DEF Block
  <1>7. \A c \in B \ {a} : Contract!Disjoint(b, c)  BY <1>1
  <1>8. b \notin B \ {a}
    <2>1. PICK D : D = B \ {a}  OBVIOUS
    <2>2. D \subseteq BlockType /\ \A c \in D : Contract!Disjoint(b, c)  BY <1>2, <1>7, <2>1
    <2>3. b \notin D  BY <1>3, <2>2, NewBlock
    <2> QED BY <2>1, <2>3
  <1>9. /\ IsFiniteSet((B \ {a}) \cup {b}) /\ Cardinality((B \ {a}) \cup {b}) = Cardinality(B)
        /\ SumOver(SizeOf, (B \ {a}) \cup {b}) = SumOver(SizeOf, B) + (b.size - a.size)
    BY <1>2, <1>3, <1>6, <1>8, SizeSwapped
  <1>10. blocks' = (B \ {a}) \cup {b}  BY <1>1
  <1>11. Cardinality(B) = Cardinality(B) + 0  BY <1>2, FS_CardinalityType
  <1> QED BY <1>1, <1>3, <1>6, <1>9, <1>10, <1>11

\* The blocks after one is given back.
LEMMA FreedBlocks ==
  ASSUME NEW t \in Threads, Accounted(t), ~NoMemory(Obj(t)), blocks' = blocks \ {Target(t)}
  PROVE  /\ IsFiniteSet(blocks') /\ Cardinality(blocks') = Cardinality(blocks) + (-1)
         /\ SumOver(SizeOf, blocks') = SumOver(SizeOf, blocks) + (-BlockSize(Obj(t)))
         /\ BlockSize(Obj(t)) \in Nat
  <1>1. PICK B, a : B = blocks /\ a = Target(t)  OBVIOUS
  <1>2. IsFiniteSet(B) /\ B \subseteq BlockType
    BY <1>1 DEF Accounted, Agree, IInv, Space, BlocksOK, BlockType
  <1>4. IInv /\ Data /\ ~Idle(t)  BY DEF Accounted
  <1>5. Target(t) = Block(Obj(t).ptr, BlockSize(Obj(t))) /\ Target(t) \in blocks  BY <1>4, TargetIs
  <1>6. a \in B /\ a.size = BlockSize(Obj(t))  BY <1>1, <1>5 DEF Block
  <1>7. /\ IsFiniteSet(B \ {a}) /\ Cardinality(B \ {a}) = Cardinality(B) - 1
        /\ SumOver(SizeOf, B \ {a}) = SumOver(SizeOf, B) - a.size
        /\ SumOver(SizeOf, B) \in Int /\ a.size \in Nat /\ Cardinality(B) \in Nat
    BY <1>2, <1>6, SizeTaken
  <1>8. PICK k, m, z : k = SumOver(SizeOf, B) /\ m = Cardinality(B) /\ z = a.size  OBVIOUS
  <1>9. k - z = k + (-z) /\ m - 1 = m + (-1)  BY <1>7, <1>8
  <1>10. blocks' = B \ {a}  BY <1>1
  <1> QED BY <1>1, <1>6, <1>7, <1>8, <1>9, <1>10

\* Who owes something counts it next or has counted it early.
LEMMA NotDue ==
  ASSUME NEW c, c.pc # "count", ~Early(c)
  PROVE  BytesDue(c) = 0 /\ AllocsDue(c) = 0
  BY DEF BytesDue, AllocsDue

\* What is known of the call and its object.
LEMMA AccountedTypes ==
  ASSUME NEW t \in Threads, Accounted(t)
  PROVE  /\ IInv /\ Data /\ Rest /\ StatsType /\ null_frees \in Nat
         /\ ~Idle(t) /\ CallFits(t) /\ FitsOld(call[t], Obj(t), shrunk)
         /\ call[t] \in CallType /\ call[t].new \in Nat /\ call[t].old \in Nat
         /\ call[t].obj \in Objects /\ Obj(t) = objects[call[t].obj]
         /\ Obj(t) \in ObjectType /\ Shape(Obj(t)) /\ BlockSize(Obj(t)) \in Nat
         /\ call \in [Threads -> CallType] /\ shrunk \in BOOLEAN
         /\ call[t].op \in {"allocate", "reallocate", "free"}
         /\ ZeroSizePointer \in 0 .. CAPACITY
  <1>1. /\ IInv /\ Data /\ Rest /\ StatsType /\ null_frees \in Nat
        /\ ~Idle(t) /\ CallFits(t) /\ FitsOld(call[t], Obj(t), shrunk)
    BY DEF Accounted, Rest
  <1>2. /\ call[t].obj \in Objects /\ Obj(t) = objects[call[t].obj]
        /\ Obj(t) \in ObjectType /\ Shape(Obj(t))
        /\ call[t] \in CallType /\ call[t].new \in Nat /\ call[t].old \in Nat
        /\ call[t].op \in {"allocate", "reallocate", "free"}
        /\ ZeroSizePointer \in 0 .. CAPACITY
    BY <1>1, ServedTypes
  <1>3. BlockSize(Obj(t)) \in Nat  BY <1>2, ObjectFacts
  <1>4. call \in [Threads -> CallType] /\ shrunk \in BOOLEAN  BY <1>1 DEF IInv, Types, CallOK, Rest
  <1> QED BY <1>1, <1>2, <1>3, <1>4

\* A call that returns without a block and owes nothing.
LEMMA AccountsQuiet ==
  ASSUME NEW t \in Threads, Accounted(t), NEW r, Return(t, r),
         UNCHANGED <<blocks, stats, null_frees>>,
         r = Obj(t) \/ r.use # "delivered" \/ shrunk', shrunk => shrunk', shrunk' \in BOOLEAN,
         call[t].pc # "count", ~Early(call[t])
  PROVE  Accounts(t, r, NoCall)
  <1>1. /\ IsFiniteSet(blocks') /\ Cardinality(blocks') = Cardinality(blocks) + 0
        /\ SumOver(SizeOf, blocks') = SumOver(SizeOf, blocks) + 0
    BY SameBlocks
  <1>2. StatsType /\ null_frees \in Nat  BY AccountedTypes
  <1>3. Adds(0, 0)  BY <1>2, AddsNothing
  <1>4. BytesDue(call[t]) = 0 /\ AllocsDue(call[t]) = 0  BY NotDue
  <1>5. PICK z : z = 0  OBVIOUS
  <1>6. /\ Adds(z, z) /\ z \in Int /\ Cardinality(blocks') = Cardinality(blocks) + z
        /\ SumOver(SizeOf, blocks') = SumOver(SizeOf, blocks) + z
        /\ z = z + AllocsDue(call[t]) /\ z = z + BytesDue(call[t])
    BY <1>1, <1>3, <1>4, <1>5
  <1>7. (shrunk' \/ z = z + BytesDue(call[t])) /\ z = z + AllocsDue(call[t])  BY <1>6
  <1>8. Effect(z, z, z, z)  BY <1>1, <1>6 DEF Effect
  <1> QED BY <1>7, <1>8, AccountsReturn

\* A block is placed and counted.
LEMMA AccountsPlaced ==
  ASSUME NEW t \in Threads, Accounted(t), NEW p \in Addr, Return(t, Allocated(t, p)), call[t].new > 0,
         \A b \in blocks : Contract!Disjoint(Block(p, call[t].new), b),
         blocks' = blocks \cup {Block(p, call[t].new)},
         Counted(call[t].new, call[t].new, 1), UNCHANGED <<shrunk, null_frees>>,
         call[t].pc # "count", ~Early(call[t])
  PROVE  Accounts(t, Allocated(t, p), NoCall)
  <1>0. call[t].new \in Nat /\ StatsType /\ null_frees \in Nat /\ shrunk \in BOOLEAN
    BY AccountedTypes
  <1>1. PICK n : n = call[t].new  OBVIOUS
  <1>2. n \in Nat \ {0} /\ p \in Nat  BY <1>0, <1>1, PoolAssumption DEF Addr
  <1>3. (\A b \in blocks : Contract!Disjoint(Block(p, n), b)) /\ blocks' = blocks \cup {Block(p, n)}
    BY <1>1
  <1>4. /\ IsFiniteSet(blocks') /\ Cardinality(blocks') = Cardinality(blocks) + 1
        /\ SumOver(SizeOf, blocks') = SumOver(SizeOf, blocks) + n
    BY <1>2, <1>3, PlacedBlocks
  <1>5. Counted(n, n, 1) /\ n \in Int /\ n \in Nat /\ 1 \in Int  BY <1>1, <1>2
  <1>6. Adds(n, 1)  BY <1>0, <1>5, AddsCounted
  <1>7. BytesDue(call[t]) = 0 /\ AllocsDue(call[t]) = 0  BY NotDue
  <1>8. PICK r, i : r = Allocated(t, p) /\ i = 1  OBVIOUS
  <1>9. r.use # "delivered"  BY <1>8 DEF Allocated
  <1>10. i = i + AllocsDue(call[t]) /\ n = n + BytesDue(call[t]) /\ i \in Int  BY <1>2, <1>7, <1>8
  <1>11. Return(t, r) /\ Adds(n, i) /\ Cardinality(blocks') = Cardinality(blocks) + i
    BY <1>4, <1>6, <1>8
  <1>12. (shrunk => shrunk') /\ shrunk' \in BOOLEAN /\ (shrunk' \/ n = n + BytesDue(call[t]))
    BY <1>0, <1>10
  <1>13. Effect(n, i, i, n)  BY <1>4, <1>5, <1>10, <1>11 DEF Effect
  <1>14. Accounts(t, r, NoCall)  BY <1>9, <1>10, <1>11, <1>12, <1>13, AccountsReturn
  <1> QED BY <1>8, <1>14

\* A block is moved and counted.
LEMMA AccountsMoved ==
  ASSUME NEW t \in Threads, Accounted(t), NEW p \in Addr, Return(t, Reallocated(t, p)), call[t].new > 0,
         call[t].op = "reallocate", ~NoMemory(Obj(t)), UNCHANGED null_frees,
         \A b \in blocks : Contract!Disjoint(Block(p, call[t].new), b),
         blocks' = (blocks \ {Target(t)}) \cup {Block(p, call[t].new)},
         Counted(call[t].new - call[t].old,
                 IF call[t].new > call[t].old THEN call[t].new - call[t].old ELSE 0, 0),
         shrunk' = (shrunk \/ Obj(t).use = "written"), call[t].pc # "count", ~Early(call[t])
  PROVE  Accounts(t, Reallocated(t, p), NoCall)
  <1>0. /\ call[t].new \in Nat /\ call[t].old \in Nat /\ StatsType /\ null_frees \in Nat
        /\ shrunk \in BOOLEAN
        /\ IInv /\ Data /\ ~Idle(t) /\ CallFits(t)
    BY AccountedTypes
  <1>1. PICK n, o : n = call[t].new /\ o = call[t].old  OBVIOUS
  <1>2. n \in Nat \ {0} /\ o \in Nat /\ p \in Nat  BY <1>0, <1>1, PoolAssumption DEF Addr
  <1>3. (\A b \in blocks \ {Target(t)} : Contract!Disjoint(Block(p, n), b))
        /\ blocks' = (blocks \ {Target(t)}) \cup {Block(p, n)}
    BY <1>1
  <1>4. /\ IsFiniteSet(blocks') /\ Cardinality(blocks') = Cardinality(blocks) + 0
        /\ SumOver(SizeOf, blocks') = SumOver(SizeOf, blocks) + (n - BlockSize(Obj(t)))
    BY <1>2, <1>3, MovedBlocks
  <1>a. p \in 0 .. CAPACITY /\ p # ZeroSizePointer  BY PoolAssumption DEF Addr, ZeroSizePointer
  <1>b. call[t].old = BlockSize(Obj(t)) /\ Reallocated(t, p).use \in {"input", "delivered"}
    BY <1>0, <1>a, ReallocatedFacts
  <1>5. PICK m, g : m = n - o /\ g = IF n > o THEN n - o ELSE 0  OBVIOUS
  <1>6. m \in Int /\ g \in Nat  BY <1>2, <1>5
  <1>7. Counted(m, g, 0) /\ 0 \in Int  BY <1>1, <1>5
  <1>8. Adds(m, 0)  BY <1>0, <1>6, <1>7, AddsCounted
  <1>9. BytesDue(call[t]) = 0 /\ AllocsDue(call[t]) = 0  BY NotDue
  <1>10. PICK r, i : r = Reallocated(t, p) /\ i = 0  OBVIOUS
  <1>11. r = Obj(t) \/ r.use # "delivered" \/ shrunk'
    <2>1. CASE Obj(t).use = "written"  BY <2>1
    <2>2. CASE Obj(t).use # "written"
      <3>1. Obj(t).use = "input"  BY <1>0, <2>2 DEF CallFits
      <3>2. r.use = "input"  BY <1>0, <1>10, <2>2, <3>1, AccountedTypes DEF Reallocated, ObjectType
      <3> QED BY <3>2
    <2> QED BY <2>1, <2>2
  <1>12. i = i + AllocsDue(call[t]) /\ m = m + BytesDue(call[t]) /\ i \in Int  BY <1>6, <1>9, <1>10
  <1>13. Return(t, r) /\ Adds(m, i) /\ Cardinality(blocks') = Cardinality(blocks) + i
    BY <1>4, <1>8, <1>10
  <1>14. SumOver(SizeOf, blocks') = SumOver(SizeOf, blocks) + m  BY <1>1, <1>4, <1>5, <1>b
  <1>15. (shrunk => shrunk') /\ shrunk' \in BOOLEAN /\ (shrunk' \/ m = m + BytesDue(call[t]))
    BY <1>0, <1>12
  <1>16. Effect(m, i, i, m)  BY <1>4, <1>6, <1>12, <1>13, <1>14 DEF Effect
  <1>17. Accounts(t, r, NoCall)  BY <1>11, <1>12, <1>13, <1>15, <1>16, AccountsReturn
  <1> QED BY <1>10, <1>17

\* What a call gives back is what it subtracts, or has already subtracted.
LEMMA OldIsSize ==
  ASSUME NEW t \in Threads, Accounted(t), GivesBack(t), call[t].pc # "count"
  PROVE  shrunk \/ call[t].old = BlockSize(Obj(t))
  <1>1. CASE call[t].op = "free"  BY <1>1, AccountedTypes DEF FitsOld
  <1>2. CASE call[t].op # "free"
    <2>1. call[t].op = "reallocate" /\ call[t].new = 0  BY <1>2 DEF GivesBack
    <2>2. call[t].old = BlockSize(Obj(t))  BY <2>1, AccountedTypes, ReallocatedFacts
    <2> QED BY <2>2
  <1> QED BY <1>1, <1>2

\* An object that is given back is not handed out.
LEMMA GivenBackUse ==
  ASSUME NEW t \in Threads, Accounted(t), GivesBack(t), call[t].pc # "count"
  PROVE  GivenBack(t).use # "delivered"
  <1>1. CASE call[t].op = "free"  BY <1>1 DEF GivenBack, NoObject
  <1>2. CASE call[t].op # "free"
    <2>1. call[t].op = "reallocate" /\ call[t].new = 0  BY <1>2 DEF GivesBack
    <2>2. Obj(t).use = "input"  BY <2>1, AccountedTypes DEF CallFits
    <2>3. GivenBack(t).use = "input"
      BY <1>2, <2>1, <2>2, AccountedTypes DEF GivenBack, Reallocated, ObjectType
    <2> QED BY <2>3
  <1> QED BY <1>1, <1>2

\* A block is given back; the statistics are told now, or were told before.
LEMMA AccountsFreed ==
  ASSUME NEW t \in Threads, Accounted(t), GivesBack(t), call[t].pc # "count",
         ~NoMemory(Obj(t)), Return(t, GivenBack(t)), blocks' = blocks \ {Target(t)},
         UNCHANGED <<shrunk, null_frees>>,
         \/ ~Early(call[t]) /\ Counted(-call[t].old, 0, -1)
         \/ Early(call[t]) /\ UNCHANGED stats
  PROVE  Accounts(t, GivenBack(t), NoCall)
  <1>0. call[t].old \in Nat /\ StatsType /\ null_frees \in Nat /\ shrunk \in BOOLEAN
    BY AccountedTypes
  <1>1. /\ IsFiniteSet(blocks') /\ Cardinality(blocks') = Cardinality(blocks) + (-1)
        /\ SumOver(SizeOf, blocks') = SumOver(SizeOf, blocks) + (-BlockSize(Obj(t)))
        /\ BlockSize(Obj(t)) \in Nat
    BY FreedBlocks
  <1>2. shrunk \/ call[t].old = BlockSize(Obj(t))  BY OldIsSize
  <1>3. PICK o, z, m, k, r : /\ o = call[t].old /\ z = BlockSize(Obj(t)) /\ m = -z /\ k = -1
                             /\ r = GivenBack(t)
    OBVIOUS
  <1>4. o \in Nat /\ z \in Nat  BY <1>0, <1>1, <1>3
  <1>5. m \in Int /\ k \in Int  BY <1>3, <1>4
  <1>6. Cardinality(blocks') = Cardinality(blocks) + k /\ SumOver(SizeOf, blocks') = SumOver(SizeOf, blocks) + m
    BY <1>1, <1>3
  <1>7. Return(t, r) /\ r.use # "delivered"  BY <1>3, GivenBackUse
  <1>8. CASE ~Early(call[t]) /\ Counted(-call[t].old, 0, -1)
    <2>1. PICK b : b = -o  OBVIOUS
    <2>2. b \in Int /\ 0 \in Nat  BY <1>4, <2>1
    <2>3. Counted(b, 0, k)  BY <1>3, <1>8, <2>1
    <2>4. Adds(b, k)  BY <1>0, <1>5, <2>2, <2>3, AddsCounted
    <2>5. BytesDue(call[t]) = 0 /\ AllocsDue(call[t]) = 0  BY <1>8, NotDue
    <2>6. k = k + AllocsDue(call[t])  BY <1>5, <2>5
    <2>7. shrunk' \/ b = m + BytesDue(call[t])  BY <1>2, <1>3, <1>4, <2>1, <2>5
    <2>8. (shrunk => shrunk') /\ shrunk' \in BOOLEAN  BY <1>0
    <2>e. Effect(b, k, k, m)  BY <1>1, <1>5, <1>6, <2>4 DEF Effect
    <2>9. Accounts(t, r, NoCall)  BY <1>7, <2>6, <2>7, <2>8, <2>e, AccountsReturn
    <2> QED BY <1>3, <2>9
  <1>9. CASE Early(call[t]) /\ UNCHANGED stats
    <2>1. BytesDue(call[t]) = o /\ AllocsDue(call[t]) = 1  BY <1>3, <1>9 DEF BytesDue, AllocsDue
    <2>2. Adds(0, 0)  BY <1>0, <1>9, AddsNothing
    <2>3. PICK b : b = 0  OBVIOUS
    <2>4. Adds(b, b)  BY <2>2, <2>3
    <2>5. b = k + AllocsDue(call[t])  BY <1>3, <2>1, <2>3
    <2>6. shrunk' \/ b = m + BytesDue(call[t])  BY <1>2, <1>3, <1>4, <2>1, <2>3
    <2>8. (shrunk => shrunk') /\ shrunk' \in BOOLEAN  BY <1>0
    <2>e. Effect(b, b, k, m)  BY <1>1, <1>5, <1>6, <2>4 DEF Effect
    <2>9. Accounts(t, r, NoCall)  BY <1>7, <2>5, <2>6, <2>8, <2>e, AccountsReturn
    <2> QED BY <1>3, <2>9
  <1> QED BY <1>8, <1>9

----
(* Each step of a call keeps the accounts.                                 *)

\* A failed allocation leaves an object that is not handed out.
LEMMA FailedUse ==
  ASSUME NEW t \in Threads, Accounted(t)
  PROVE  AllocateFailed(t).use # "delivered"
  <1>1. CASE Obj(t).use = "input"
    <2>1. [Obj(t) EXCEPT !.ptr = NullPointer].use = "input"  BY <1>1, AccountedTypes DEF ObjectType
    <2> QED BY <1>1, <2>1 DEF AllocateFailed
  <1>2. CASE Obj(t).use # "input"  BY <1>2 DEF AllocateFailed, NoObject
  <1> QED BY <1>1, <1>2

\* The simple pool does all of a call at once.
LEMMA SimpleAccounts ==
  ASSUME NEW t \in Threads, Accounted(t), SimpleCall(t)
  PROVE  \E r, c : Accounts(t, r, c)
  <1>0. /\ IInv /\ Data /\ CallFits(t) /\ ~Idle(t) /\ shrunk \in BOOLEAN
        /\ kind = "simple" /\ call[t].pc = "enter"
    BY AccountedTypes DEF SimpleCall, CallFits
  <1>1. call[t].pc # "count" /\ ~Early(call[t])  BY <1>0 DEF Early
  <1>a. Obj(t).ptr # NullPointer  BY <1>0, AccountedTypes DEF Shape
  <1>2. CASE SimpleAllocateNothing(t)
    <2>1. Return(t, Allocated(t, ZeroSizePointer)) /\ UNCHANGED <<blocks, stats, shrunk, null_frees>>
      BY <1>2 DEF SimpleAllocateNothing, simpleRest
    <2>2. PICK r : r = Allocated(t, ZeroSizePointer)  OBVIOUS
    <2>3. r.use # "delivered"  BY <2>2 DEF Allocated
    <2>4. Return(t, r) /\ (shrunk => shrunk') /\ shrunk' \in BOOLEAN  BY <1>0, <2>1, <2>2
    <2>5. Accounts(t, r, NoCall)  BY <1>1, <2>1, <2>3, <2>4, AccountsQuiet
    <2> QED BY <2>5
  <1>3. CASE SimpleAllocate(t)
    <2> DEFINE p == LinearStart(call[t].alignment)
               n == call[t].new
    <2>1. n > 0 /\ UNCHANGED <<shrunk, null_frees>>  BY <1>3 DEF SimpleAllocate, simpleRest
    <2>2. CASE /\ LinearAllocate(n, call[t].alignment) /\ blocks' = blocks \cup {Block(p, n)}
               /\ Counted(n, n, 1) /\ Return(t, Allocated(t, p))
      <3>1. p \in Addr /\ \A b \in blocks : Contract!Disjoint(Block(p, n), b)
        BY <1>0, <2>1, <2>2, LinearPlaces
      <3> HIDE DEF p
      <3>2. Accounts(t, Allocated(t, p), NoCall)  BY <1>1, <2>1, <2>2, <3>1, AccountsPlaced
      <3> QED BY <3>2
    <2>3. CASE /\ Return(t, IF call[t].op = "allocate" THEN AllocateFailed(t) ELSE Obj(t))
               /\ UNCHANGED <<blocks, stats>>
      <3>1. PICK r : r = IF call[t].op = "allocate" THEN AllocateFailed(t) ELSE Obj(t)  OBVIOUS
      <3>2. r = Obj(t) \/ r.use # "delivered"  BY <3>1, FailedUse
      <3>3. Return(t, r) /\ (shrunk => shrunk') /\ shrunk' \in BOOLEAN  BY <1>0, <2>1, <2>3, <3>1
      <3>4. Accounts(t, r, NoCall)  BY <1>1, <2>1, <2>3, <3>2, <3>3, AccountsQuiet
      <3> QED BY <3>4
    <2> QED BY <1>3, <2>2, <2>3 DEF SimpleAllocate
  <1>4. CASE SimpleReallocate(t)
    <2> DEFINE p == LinearStart(call[t].alignment)
               n == call[t].new
               grows == IF n > call[t].old THEN n - call[t].old ELSE 0
    <2>1. /\ call[t].op = "reallocate" /\ n > 0 /\ ~NoMemory(Obj(t))
          /\ shrunk' = (shrunk \/ Obj(t).use = "written") /\ UNCHANGED null_frees
      <3>1. /\ call[t].op = "reallocate" /\ n > 0 /\ Obj(t).ptr # ZeroSizePointer
            /\ shrunk' = (shrunk \/ Obj(t).use = "written") /\ UNCHANGED null_frees
        BY <1>4 DEF SimpleReallocate
      <3> QED BY <1>a, <3>1 DEF NoMemory
    <2>2. CASE /\ LinearAllocate(n, call[t].alignment)
               /\ blocks' = (blocks \ {Target(t)}) \cup {Block(p, n)}
               /\ Counted(n - call[t].old, grows, 0) /\ Return(t, Reallocated(t, p))
      <3>1. p \in Addr /\ \A b \in blocks : Contract!Disjoint(Block(p, n), b)
        BY <1>0, <2>1, <2>2, LinearPlaces
      <3> HIDE DEF p
      <3>2. Accounts(t, Reallocated(t, p), NoCall)  BY <1>1, <2>1, <2>2, <3>1, AccountsMoved
      <3> QED BY <3>2
    <2>3. CASE Return(t, ReallocateFailed(t)) /\ UNCHANGED <<blocks, stats>>
      <3>1. PICK r : r = ReallocateFailed(t)  OBVIOUS
      <3>2. r = Obj(t) \/ r.use # "delivered"
        BY <3>1, AccountedTypes DEF ReallocateFailed, ObjectType
      <3>3. Return(t, r) /\ (shrunk => shrunk') /\ shrunk' \in BOOLEAN  BY <1>0, <2>1, <2>3, <3>1
      <3>4. Accounts(t, r, NoCall)  BY <1>1, <2>1, <2>3, <3>2, <3>3, AccountsQuiet
      <3> QED BY <3>4
    <2> QED BY <1>4, <2>2, <2>3 DEF SimpleReallocate
  <1>5. CASE SimpleFree(t)
    <2>1. GivesBack(t) /\ Return(t, GivenBack(t)) /\ UNCHANGED <<shrunk, null_frees>>
      BY <1>5 DEF SimpleFree, GivenBack, simpleRest
    <2>2. CASE UNCHANGED <<blocks, stats>>
      <3>1. PICK r : r = GivenBack(t)  OBVIOUS
      <3>2. r.use # "delivered"  BY <1>1, <2>1, <3>1, GivenBackUse
      <3>3. Return(t, r) /\ (shrunk => shrunk') /\ shrunk' \in BOOLEAN  BY <1>0, <2>1, <3>1
      <3>4. Accounts(t, r, NoCall)  BY <1>1, <2>1, <2>2, <3>2, <3>3, AccountsQuiet
      <3> QED BY <3>4
    <2>3. CASE /\ Obj(t).ptr # ZeroSizePointer /\ Counted(-call[t].old, 0, -1)
               /\ blocks' = blocks \ {Target(t)}
      <3>1. ~NoMemory(Obj(t))  BY <1>a, <2>3 DEF NoMemory
      <3>2. Accounts(t, GivenBack(t), NoCall)  BY <1>1, <2>1, <2>3, <3>1, AccountsFreed
      <3> QED BY <3>2
    <2> QED BY <1>5, <2>2, <2>3 DEF SimpleFree
  <1> QED BY <1>2, <1>3, <1>4, <1>5 DEF SimpleCall

\* A call that goes to another place, with what it is about.
LEMMA GotoRecord ==
  ASSUME NEW t \in Threads, Accounted(t), NEW pc \in {"tcache", "create", "jemalloc", "count"}, Goto(t, pc)
  PROVE  \E c \in CallType :
           /\ call' = [call EXCEPT ![t] = c] /\ c.pc = pc
           /\ c.op = call[t].op /\ c.obj = call[t].obj /\ c.old = call[t].old /\ c.new = call[t].new
  <1>1. call[t] \in CallType  BY AccountedTypes
  <1>2. PICK c : c = [call[t] EXCEPT !.pc = pc]  OBVIOUS
  <1>3. c \in CallType  BY <1>1, <1>2 DEF CallType
  <1>4. c.pc = pc /\ c.op = call[t].op /\ c.obj = call[t].obj /\ c.old = call[t].old /\ c.new = call[t].new
    BY <1>1, <1>2 DEF CallType
  <1>5. call' = [call EXCEPT ![t] = c]  BY <1>2 DEF Goto
  <1> QED BY <1>3, <1>4, <1>5

\* A call that only goes on owes what it owed.
LEMMA AccountsOn ==
  ASSUME NEW t \in Threads, Accounted(t), NEW c \in CallType, call' = [call EXCEPT ![t] = c],
         UNCHANGED <<objects, blocks, shrunk>>, c.obj = call[t].obj, FitsOld(c, Obj(t), shrunk),
         NEW b, NEW j, Adds(b, j),
         j = AllocsDue(call[t]) - AllocsDue(c), b = BytesDue(call[t]) - BytesDue(c)
  PROVE  Accounts(t, Obj(t), c)
  <1>0. /\ call[t] \in CallType /\ shrunk \in BOOLEAN /\ call[t].obj \in Objects
        /\ Obj(t) = objects[call[t].obj] /\ objects \in [Objects -> ObjectType]
    BY AccountedTypes DEF IInv, Types, ObjectsOK
  <1>1. /\ IsFiniteSet(blocks') /\ Cardinality(blocks') = Cardinality(blocks) + 0
        /\ SumOver(SizeOf, blocks') = SumOver(SizeOf, blocks) + 0
    BY SameBlocks
  <1>2. PICK r, z : r = Obj(t) /\ z = 0  OBVIOUS
  <1>3. objects' = [objects EXCEPT ![call[t].obj] = r]  BY <1>0, <1>2
  <1>4. /\ BytesDue(call[t]) \in Int /\ AllocsDue(call[t]) \in Int
        /\ BytesDue(c) \in Int /\ AllocsDue(c) \in Int
    BY <1>0, DueTypes
  <1>5. j = z - (AllocsDue(c) - AllocsDue(call[t]))  BY <1>2, <1>4
  <1>6. shrunk' \/ b = z - (BytesDue(c) - BytesDue(call[t]))  BY <1>2, <1>4
  <1>7. /\ z \in Int /\ Cardinality(blocks') = Cardinality(blocks) + z
        /\ SumOver(SizeOf, blocks') = SumOver(SizeOf, blocks) + z
    BY <1>1, <1>2
  <1>8. Becomes(t, r, c)  BY <1>0, <1>2, <1>3 DEF Becomes
  <1>9. Effect(b, j, z, z)  BY <1>1, <1>7 DEF Effect
  <1>10. Settles(t, c, b, j, z, z)  BY <1>5, <1>6 DEF Settles
  <1>11. Accounts(t, r, c)  BY <1>8, <1>9, <1>10, AccountsStep
  <1> QED BY <1>2, <1>11

\* What the huge page pool does before it calls jemalloc.
LEMMA EnterAccounts ==
  ASSUME NEW t \in Threads, Accounted(t), HugeEnter(t)
  PROVE  \E r, c : Accounts(t, r, c)
  <1>0. /\ IInv /\ Data /\ CallFits(t) /\ ~Idle(t) /\ shrunk \in BOOLEAN /\ StatsType
        /\ null_frees \in Nat
        /\ call[t] \in CallType /\ Shape(Obj(t)) /\ Obj(t) \in ObjectType
        /\ call[t].op \in {"allocate", "reallocate", "free"} /\ FitsOld(call[t], Obj(t), shrunk)
        /\ call[t].new \in Nat /\ call[t].old \in Nat
    BY AccountedTypes
  <1>1. call[t].pc = "enter" /\ UNCHANGED <<blocks, shrunk, null_frees>>
    BY DEF HugeEnter, At, hugeMemory, hugeRest
  <1>2. call[t].pc # "count" /\ ~Early(call[t])  BY <1>1 DEF Early
  <1>3. BytesDue(call[t]) = 0 /\ AllocsDue(call[t]) = 0  BY <1>2, NotDue
  <1>4. CASE /\ call[t].op # "free" /\ call[t].new > 0
             /\ call' = [call EXCEPT ![t].pc = "tcache",
                             ![t].op = IF Obj(t).ptr = ZeroSizePointer THEN "allocate" ELSE @]
             /\ UNCHANGED <<stats, objects>>
    <2>1. PICK op : op = IF Obj(t).ptr = ZeroSizePointer THEN "allocate" ELSE call[t].op  OBVIOUS
    <2>2. PICK c : c = [call[t] EXCEPT !.pc = "tcache", !.op = op]  OBVIOUS
    <2>3. call' = [call EXCEPT ![t] = c]  BY <1>4, <2>1, <2>2
    <2>4. op \in {"allocate", "reallocate"}  BY <1>0, <1>4, <2>1
    <2>5. /\ c.op = op /\ c.pc = "tcache" /\ c.obj = call[t].obj /\ c.old = call[t].old
          /\ c.new = call[t].new /\ c \in CallType
      BY <1>0, <2>2, <2>4 DEF CallType
    <2>6. op = "allocate" => call[t].old = 0
      <3>1. CASE call[t].op = "allocate"  BY <1>0, <3>1 DEF FitsOld
      <3>2. CASE call[t].op = "reallocate" /\ Obj(t).ptr = ZeroSizePointer
        <4>1. Obj(t).size = 0  BY <1>0, <3>2 DEF Shape, NoMemory
        <4> QED BY <1>0, <1>2, <3>2, <4>1 DEF CallFits
      <3> QED BY <1>0, <1>4, <2>1, <3>1, <3>2
    <2>7. FitsOld(c, Obj(t), shrunk)  BY <2>4, <2>5, <2>6 DEF FitsOld
    <2>8. c.pc # "count" /\ ~Early(c)  BY <1>4, <2>4, <2>5 DEF Early, Returns
    <2>9. BytesDue(c) = 0 /\ AllocsDue(c) = 0  BY <2>8, NotDue
    <2>10. Adds(0, 0)  BY <1>0, <1>1, <1>4, AddsNothing
    <2>11. PICK z : z = 0  OBVIOUS
    <2>12. Adds(z, z) /\ z = AllocsDue(call[t]) - AllocsDue(c) /\ z = BytesDue(call[t]) - BytesDue(c)
      BY <1>3, <2>9, <2>10, <2>11
    <2>13. Accounts(t, Obj(t), c)  BY <1>1, <1>4, <2>3, <2>5, <2>7, <2>12, AccountsOn
    <2> QED BY <2>13
  <1>5. CASE GivesBack(t) /\ Counted(-call[t].old, 0, -1) /\ Goto(t, "tcache") /\ UNCHANGED objects
    <2>1. PICK c \in CallType :
           /\ call' = [call EXCEPT ![t] = c] /\ c.pc = "tcache"
           /\ c.op = call[t].op /\ c.obj = call[t].obj /\ c.old = call[t].old /\ c.new = call[t].new
      BY <1>5, GotoRecord
    <2>2. Early(c)  BY <1>5, <2>1 DEF Early, Returns, GivesBack
    <2>3. BytesDue(c) = call[t].old /\ AllocsDue(c) = 1  BY <2>1, <2>2 DEF BytesDue, AllocsDue
    <2>4. FitsOld(c, Obj(t), shrunk)  BY <1>0, <1>1, <2>1 DEF FitsOld
    <2>5. PICK o, b, j : o = call[t].old /\ b = -o /\ j = -1  OBVIOUS
    <2>6. o \in Nat /\ b \in Int /\ j \in Int /\ 0 \in Nat  BY <1>0, <2>5
    <2>7. Counted(b, 0, j)  BY <1>5, <2>5
    <2>8. Adds(b, j)  BY <1>0, <1>1, <2>6, <2>7, AddsCounted
    <2>9. j = AllocsDue(call[t]) - AllocsDue(c) /\ b = BytesDue(call[t]) - BytesDue(c)
      BY <1>3, <2>3, <2>5, <2>6
    <2>10. Accounts(t, Obj(t), c)  BY <1>1, <1>5, <2>1, <2>4, <2>8, <2>9, AccountsOn
    <2> QED BY <2>10
  <1>6. CASE /\ Return(t, IF call[t].op = "free" THEN NoObject
                          ELSE IF call[t].op = "allocate" THEN Allocated(t, ZeroSizePointer) ELSE Obj(t))
             /\ UNCHANGED stats
    <2>1. PICK r : r = IF call[t].op = "free" THEN NoObject
                       ELSE IF call[t].op = "allocate" THEN Allocated(t, ZeroSizePointer) ELSE Obj(t)
      OBVIOUS
    <2>2. NoObject.use # "delivered" /\ Allocated(t, ZeroSizePointer).use # "delivered"
      BY DEF NoObject, Allocated
    <2>3. r = Obj(t) \/ r.use # "delivered"  BY <2>1, <2>2
    <2>4. Return(t, r) /\ (shrunk => shrunk') /\ shrunk' \in BOOLEAN  BY <1>0, <1>1, <1>6, <2>1
    <2>5. Accounts(t, r, NoCall)  BY <1>1, <1>2, <1>6, <2>3, <2>4, AccountsQuiet
    <2> QED BY <2>5
  <1> QED BY <1>4, <1>5, <1>6 DEF HugeEnter

\* Finding or creating a tcache counts nothing.
LEMMA TcacheAccounts ==
  ASSUME NEW t \in Threads, Accounted(t), FindTcache(t) \/ CreateTcache(t)
  PROVE  \E r, c : Accounts(t, r, c)
  <1>0. /\ StatsType /\ null_frees \in Nat /\ FitsOld(call[t], Obj(t), shrunk) /\ call[t] \in CallType
    BY AccountedTypes
  <1>1. UNCHANGED <<blocks, objects, shrunk, stats, null_frees>> /\ call[t].pc \in {"tcache", "create"}
    BY DEF FindTcache, CreateTcache, At, hugeMemory, hugeRest
  <1>2. PICK pc \in {"jemalloc", "create"} : Goto(t, pc)  BY DEF FindTcache, CreateTcache
  <1>3. PICK c \in CallType :
           /\ call' = [call EXCEPT ![t] = c] /\ c.pc = pc
           /\ c.op = call[t].op /\ c.obj = call[t].obj /\ c.old = call[t].old /\ c.new = call[t].new
    BY <1>2, GotoRecord
  <1>4. Early(c) <=> Early(call[t])  BY <1>1, <1>2, <1>3 DEF Early, Returns
  <1>5. BytesDue(c) = BytesDue(call[t]) /\ AllocsDue(c) = AllocsDue(call[t])
    BY <1>1, <1>2, <1>3, <1>4 DEF BytesDue, AllocsDue
  <1>6. BytesDue(c) \in Int /\ AllocsDue(c) \in Int  BY DueTypes
  <1>7. FitsOld(c, Obj(t), shrunk)  BY <1>0, <1>1, <1>2, <1>3 DEF FitsOld
  <1>8. Adds(0, 0)  BY <1>0, <1>1, AddsNothing
  <1>9. PICK z : z = 0  OBVIOUS
  <1>10. Adds(z, z) /\ z = AllocsDue(call[t]) - AllocsDue(c) /\ z = BytesDue(call[t]) - BytesDue(c)
    BY <1>5, <1>6, <1>8, <1>9
  <1>11. Accounts(t, Obj(t), c)  BY <1>1, <1>3, <1>7, <1>10, AccountsOn
  <1> QED BY <1>11

\* An allocation owes what it placed until it counts it.
LEMMA MallocxPlaces ==
  ASSUME NEW t \in Threads, Accounted(t), kind = "huge", UNCHANGED <<kind, stats, shrunk, null_frees>>,
         call[t].op = "allocate", call[t].pc = "jemalloc", NEW p \in Addr,
         FromArena(Block(p, call[t].new), call[t].alignment, blocks)
           \/ FromHook(Block(p, call[t].new), call[t].alignment),
         blocks' = blocks \cup {Block(p, call[t].new)},
         objects' = [objects EXCEPT ![call[t].obj] = Allocated(t, p)], Goto(t, "count")
  PROVE  \E r, c : Accounts(t, r, c)
  <1>0. /\ IInv /\ Data /\ ~Idle(t) /\ shrunk \in BOOLEAN /\ StatsType
        /\ null_frees \in Nat
        /\ FitsOld(call[t], Obj(t), shrunk) /\ call[t].new \in Nat /\ call[t].old \in Nat
    BY AccountedTypes
  <1>1. PICK n, a : n = call[t].new /\ a = call[t].alignment  OBVIOUS
  <1>2. n \in Nat \ {0} /\ a \in Nat \ {0}
    <2>1. call[t].new > 0  BY <1>0 DEF IInv, Space, AsksForSomething
    <2>2. call[t].alignment \in Nat \ {0}  BY <1>0, CallFacts
    <2> QED BY <1>0, <1>1, <2>1, <2>2
  <1>3. p \in Nat /\ p \in 0 .. CAPACITY /\ p # ZeroSizePointer
    BY PoolAssumption DEF Addr, ZeroSizePointer
  <1>4. FromArena(Block(p, n), a, blocks) \/ FromHook(Block(p, n), a)  BY <1>1
  <1>5. \A c \in blocks : Contract!Disjoint(Block(p, n), c)
    <2>1. blocks \in SUBSET blocks /\ blocks \subseteq blocks  OBVIOUS
    <2> QED BY <1>0, <1>2, <1>4, <2>1, JemallocPlaces
  <1>6. blocks' = blocks \cup {Block(p, n)}  BY <1>1
  <1>7. /\ IsFiniteSet(blocks') /\ Cardinality(blocks') = Cardinality(blocks) + 1
        /\ SumOver(SizeOf, blocks') = SumOver(SizeOf, blocks) + n
    BY <1>2, <1>3, <1>5, <1>6, PlacedBlocks
  <1>8. PICK c \in CallType :
           /\ call' = [call EXCEPT ![t] = c] /\ c.pc = "count"
           /\ c.op = call[t].op /\ c.obj = call[t].obj /\ c.old = call[t].old /\ c.new = call[t].new
    BY GotoRecord
  <1>9. call[t].old = 0  BY <1>0 DEF FitsOld
  <1>10. BytesDue(c) = n /\ AllocsDue(c) = 1
    <2>1. BytesDue(c) = c.new - c.old /\ AllocsDue(c) = 1  BY <1>8 DEF BytesDue, AllocsDue
    <2>2. c.new = n /\ c.old = 0  BY <1>1, <1>8, <1>9
    <2> QED BY <1>2, <2>1, <2>2
  <1>11. BytesDue(call[t]) = 0 /\ AllocsDue(call[t]) = 0
    <2>1. call[t].pc # "count" /\ ~Early(call[t])  BY DEF Early, Returns
    <2> QED BY <2>1, NotDue
  <1>12. PICK r, k, z : r = Allocated(t, p) /\ k = 1 /\ z = 0  OBVIOUS
  <1>13. r.ptr = p /\ BlockSize(r) = call[t].new /\ r.use \in {"input", "output"}
    BY <1>0, <1>3, <1>12, AllocatedFacts
  <1>d. ~NoMemory(r)  BY <1>3, <1>13, PoolPointer
  <1>14. FitsOld(c, r, shrunk')  BY <1>8, <1>9, <1>13, <1>d DEF FitsOld
  <1>15. Adds(0, 0)  BY <1>0, AddsNothing
  <1>16. /\ Adds(z, z) /\ k \in Int /\ n \in Int /\ Cardinality(blocks') = Cardinality(blocks) + k
    BY <1>2, <1>7, <1>12, <1>15
  <1>17. z = k - (AllocsDue(c) - AllocsDue(call[t]))  BY <1>10, <1>11, <1>12
  <1>18. shrunk' \/ z = n - (BytesDue(c) - BytesDue(call[t]))  BY <1>2, <1>10, <1>11, <1>12
  <1>19. c = NoCall \/ (c.obj = call[t].obj /\ FitsOld(c, r, shrunk'))  BY <1>8, <1>14
  <1>20. (shrunk => shrunk') /\ shrunk' \in BOOLEAN /\ (r = Obj(t) \/ r.use # "delivered" \/ shrunk')
    BY <1>0, <1>13
  <1>21. objects' = [objects EXCEPT ![call[t].obj] = r]  BY <1>12
  <1>22. Becomes(t, r, c) /\ Effect(z, z, k, n) /\ Settles(t, c, z, z, k, n)
    <2>1. Becomes(t, r, c)  BY <1>8, <1>19, <1>20, <1>21 DEF Becomes
    <2>2. Effect(z, z, k, n)  BY <1>7, <1>16 DEF Effect
    <2>3. Settles(t, c, z, z, k, n)  BY <1>17, <1>18 DEF Settles
    <2> QED BY <2>1, <2>2, <2>3
  <1>23. Accounts(t, r, c)  BY <1>22, AccountsStep
  <1> QED BY <1>23

\* So does a resize.
LEMMA RallocxMoves ==
  ASSUME NEW t \in Threads, Accounted(t), kind = "huge", UNCHANGED <<kind, stats, null_frees>>,
         Obj(t).ptr # NullPointer,
         call[t].op = "reallocate", call[t].pc = "jemalloc", call[t].new > 0, NEW p \in Addr,
         NEW used, blocks \ {Target(t)} \subseteq used,
         FromArena(Block(p, call[t].new), call[t].alignment, used)
           \/ FromHook(Block(p, call[t].new), call[t].alignment),
         blocks' = (blocks \ {Target(t)}) \cup {Block(p, call[t].new)},
         objects' = [objects EXCEPT ![call[t].obj] = Reallocated(t, p)], Goto(t, "count"),
         shrunk' = (shrunk \/ Obj(t).use = "written")
  PROVE  \E r, c : Accounts(t, r, c)
  <1>0. /\ IInv /\ Data /\ ~Idle(t) /\ CallFits(t) /\ shrunk \in BOOLEAN /\ StatsType
        /\ null_frees \in Nat
        /\ FitsOld(call[t], Obj(t), shrunk) /\ call[t].new \in Nat /\ call[t].old \in Nat
    BY AccountedTypes
  <1>1. PICK n, a, o : n = call[t].new /\ a = call[t].alignment /\ o = call[t].old  OBVIOUS
  <1>2. n \in Nat \ {0} /\ a \in Nat \ {0} /\ o \in Nat
    <2>2. call[t].alignment \in Nat \ {0}  BY <1>0, CallFacts
    <2> QED BY <1>0, <1>1, <2>2
  <1>3. p \in Nat /\ p \in 0 .. CAPACITY /\ p # ZeroSizePointer
    BY PoolAssumption DEF Addr, ZeroSizePointer
  <1>4. FromArena(Block(p, n), a, used) \/ FromHook(Block(p, n), a)  BY <1>1
  <1>5. \A c \in blocks \ {Target(t)} : Contract!Disjoint(Block(p, n), c)
    <2>1. PICK others : others = blocks \ {Target(t)}  OBVIOUS
    <2>2. others \in SUBSET used /\ others \subseteq blocks  BY <2>1
    <2>3. \A c \in others : Contract!Disjoint(Block(p, n), c)
      BY <1>0, <1>2, <1>4, <2>2, JemallocPlaces
    <2> QED BY <2>1, <2>3
  <1>6. blocks' = (blocks \ {Target(t)}) \cup {Block(p, n)}  BY <1>1
  <1>a. ~NoMemory(Obj(t))  BY <1>0 DEF CallFits, InJemalloc, NoMemory
  <1>7. /\ IsFiniteSet(blocks') /\ Cardinality(blocks') = Cardinality(blocks) + 0
        /\ SumOver(SizeOf, blocks') = SumOver(SizeOf, blocks) + (n - BlockSize(Obj(t)))
    BY <1>2, <1>3, <1>5, <1>6, <1>a, MovedBlocks
  <1>8. PICK c \in CallType :
           /\ call' = [call EXCEPT ![t] = c] /\ c.pc = "count"
           /\ c.op = call[t].op /\ c.obj = call[t].obj /\ c.old = call[t].old /\ c.new = call[t].new
    BY GotoRecord
  <1>10. BytesDue(c) = n - o /\ AllocsDue(c) = 0
    <2>1. BytesDue(c) = c.new - c.old /\ AllocsDue(c) = 0  BY <1>8 DEF BytesDue, AllocsDue, Early
    <2> QED BY <1>1, <1>8, <2>1
  <1>11. BytesDue(call[t]) = 0 /\ AllocsDue(call[t]) = 0
    <2>1. call[t].pc # "count" /\ ~Early(call[t])  BY <1>0 DEF Early, Returns
    <2> QED BY <2>1, NotDue
  <1>12. PICK r, m, z : r = Reallocated(t, p) /\ m = n - o /\ z = 0  OBVIOUS
  <1>13. /\ r.ptr = p /\ BlockSize(r) = call[t].new /\ call[t].old = BlockSize(Obj(t))
    BY <1>0, <1>3, <1>12, ReallocatedFacts
  <1>d. ~NoMemory(r)  BY <1>3, <1>13, PoolPointer
  <1>14. FitsOld(c, r, shrunk')  BY <1>8, <1>13, <1>d DEF FitsOld
  <1>15. Adds(0, 0)  BY <1>0, AddsNothing
  <1>16. /\ Adds(z, z) /\ z \in Int /\ m \in Int /\ Cardinality(blocks') = Cardinality(blocks) + z
         /\ SumOver(SizeOf, blocks') = SumOver(SizeOf, blocks) + m
    BY <1>1, <1>2, <1>7, <1>12, <1>13, <1>15
  <1>17. z = z - (AllocsDue(c) - AllocsDue(call[t]))  BY <1>10, <1>11, <1>12
  <1>18. shrunk' \/ z = m - (BytesDue(c) - BytesDue(call[t]))  BY <1>2, <1>10, <1>11, <1>12
  <1>19. c = NoCall \/ (c.obj = call[t].obj /\ FitsOld(c, r, shrunk'))  BY <1>8, <1>14
  <1>20. (shrunk => shrunk') /\ shrunk' \in BOOLEAN  BY <1>0
  <1>20a. r = Obj(t) \/ r.use # "delivered" \/ shrunk'
    <2>1. CASE Obj(t).use = "written"  BY <2>1
    <2>2. CASE Obj(t).use # "written"
      <3>1. Obj(t).use = "input"  BY <1>0, <2>2 DEF CallFits
      <3>2. r.use = "input"  BY <1>12, <2>2, <3>1, AccountedTypes DEF Reallocated, ObjectType
      <3> QED BY <3>2
    <2> QED BY <2>1, <2>2
  <1>21. objects' = [objects EXCEPT ![call[t].obj] = r]  BY <1>12
  <1>22. Becomes(t, r, c) /\ Effect(z, z, z, m) /\ Settles(t, c, z, z, z, m)
    <2>1. Becomes(t, r, c)  BY <1>8, <1>19, <1>20, <1>20a, <1>21 DEF Becomes
    <2>2. Effect(z, z, z, m)  BY <1>7, <1>16 DEF Effect
    <2>3. Settles(t, c, z, z, z, m)  BY <1>17, <1>18 DEF Settles
    <2> QED BY <2>1, <2>2, <2>3
  <1>23. Accounts(t, r, c)  BY <1>22, AccountsStep
  <1> QED BY <1>23

\* The calls of jemalloc, and the counting after them.
LEMMA MallocxAccounts ==
  ASSUME NEW t \in Threads, Accounted(t), kind = "huge", Mallocx(t)
  PROVE  \E r, c : Accounts(t, r, c)
  <1> DEFINE n == call[t].new
             a == call[t].alignment
  <1>0. /\ call[t].op = "allocate" /\ call[t].pc = "jemalloc" /\ UNCHANGED <<kind, stats, shrunk, null_frees>>
    BY DEF Mallocx, At, hugeRest
  <1>1. CASE \E p \in Addr :
               /\ FromArena(Block(p, n), a, blocks) \/ FromHook(Block(p, n), a)
               /\ blocks' = blocks \cup {Block(p, n)}
               /\ objects' = [objects EXCEPT ![call[t].obj] = Allocated(t, p)]
               /\ Goto(t, "count")
    <2>1. PICK p \in Addr :
               /\ FromArena(Block(p, n), a, blocks) \/ FromHook(Block(p, n), a)
               /\ blocks' = blocks \cup {Block(p, n)}
               /\ objects' = [objects EXCEPT ![call[t].obj] = Allocated(t, p)]
               /\ Goto(t, "count")
      BY <1>1
    <2> QED BY <1>0, <2>1, MallocxPlaces
  <1>2. CASE Return(t, AllocateFailed(t)) /\ UNCHANGED blocks
    <2>1. PICK r : r = AllocateFailed(t)  OBVIOUS
    <2>2. r.use # "delivered"  BY <2>1, FailedUse
    <2>3. Return(t, r) /\ (shrunk => shrunk') /\ shrunk' \in BOOLEAN
      BY <1>0, <1>2, <2>1, AccountedTypes
    <2>4. call[t].pc # "count" /\ ~Early(call[t])  BY <1>0 DEF Early, Returns
    <2>5. Accounts(t, r, NoCall)  BY <1>0, <1>2, <2>2, <2>3, <2>4, AccountsQuiet
    <2> QED BY <2>5
  <1>3. CASE \E p \in Addr :
               LET b == Block(p, n) IN
               /\ FromArena(b, a, blocks) \/ FromHook(b, a)
               /\ blocks' = blocks \cup {b}
               /\ mem' = IF Obj(t).use = "output" THEN mem ELSE Fill(mem, call[t].obj, p, b.size)
               /\ objects' = [objects EXCEPT ![call[t].obj] = Allocated(t, p)]
               /\ Goto(t, "count")
    BY <1>1, <1>3
  <1> QED BY <1>2, <1>3 DEF Mallocx, hugeMemory

\* A resize places, moves or leaves the block.
LEMMA RallocxAccounts ==
  ASSUME NEW t \in Threads, Accounted(t), kind = "huge", Rallocx(t)
  PROVE  \E r, c : Accounts(t, r, c)
  <1> DEFINE n == call[t].new
             a == call[t].alignment
             Others(p) == IF p = Obj(t).ptr THEN blocks \ {Target(t)} ELSE blocks
  <1>0. /\ call[t].op = "reallocate" /\ call[t].pc = "jemalloc" /\ n > 0
        /\ Obj(t).ptr # NullPointer /\ UNCHANGED <<kind, stats, null_frees>>
    BY DEF Rallocx, At
  <1>1. CASE \E p \in Addr :
               /\ FromArena(Block(p, n), a, Others(p)) \/ FromHook(Block(p, n), a)
               /\ blocks' = (blocks \ {Target(t)}) \cup {Block(p, n)}
               /\ objects' = [objects EXCEPT ![call[t].obj] = Reallocated(t, p)]
               /\ Goto(t, "count")
               /\ shrunk' = (shrunk \/ Obj(t).use = "written")
    <2>1. PICK p \in Addr :
               /\ FromArena(Block(p, n), a, Others(p)) \/ FromHook(Block(p, n), a)
               /\ blocks' = (blocks \ {Target(t)}) \cup {Block(p, n)}
               /\ objects' = [objects EXCEPT ![call[t].obj] = Reallocated(t, p)]
               /\ Goto(t, "count")
               /\ shrunk' = (shrunk \/ Obj(t).use = "written")
      BY <1>1
    <2>2. PICK used : used = Others(p)  OBVIOUS
    <2>3. blocks \ {Target(t)} \subseteq used  BY <2>2
    <2>4. FromArena(Block(p, n), a, used) \/ FromHook(Block(p, n), a)  BY <2>1, <2>2
    <2> HIDE DEF Others
    <2> QED BY <1>0, <2>1, <2>3, <2>4, RallocxMoves
  <1>2. CASE Return(t, ReallocateFailed(t)) /\ UNCHANGED <<blocks, shrunk>>
    <2>1. PICK r : r = ReallocateFailed(t)  OBVIOUS
    <2>2. r = Obj(t) \/ r.use # "delivered"
      BY <2>1, AccountedTypes DEF ReallocateFailed, ObjectType
    <2>3. Return(t, r) /\ (shrunk => shrunk') /\ shrunk' \in BOOLEAN
      BY <1>0, <1>2, <2>1, AccountedTypes
    <2>4. call[t].pc # "count" /\ ~Early(call[t])  BY <1>0, AccountedTypes DEF Early, Returns
    <2>5. Accounts(t, r, NoCall)  BY <1>0, <1>2, <2>2, <2>3, <2>4, AccountsQuiet
    <2> QED BY <2>5
  <1> QED BY <1>1, <1>2 DEF Rallocx, hugeMemory

\* A free has been counted before.
LEMMA DallocxAccounts ==
  ASSUME NEW t \in Threads, Accounted(t), Dallocx(t)
  PROVE  \E r, c : Accounts(t, r, c)
  <1>1. /\ GivesBack(t) /\ call[t].pc = "jemalloc" /\ blocks' = blocks \ {Target(t)}
        /\ Return(t, GivenBack(t)) /\ UNCHANGED <<stats, shrunk, null_frees>>
        /\ Obj(t).ptr # NullPointer
    BY DEF Dallocx, At, hugeRest
  <1>2. ~NoMemory(Obj(t))  BY <1>1, AccountedTypes DEF CallFits, InJemalloc, GivesBack, NoMemory
  <1>3. Early(call[t]) /\ call[t].pc # "count"  BY <1>1 DEF Early, Returns, GivesBack
  <1>4. Accounts(t, GivenBack(t), NoCall)  BY <1>1, <1>2, <1>3, AccountsFreed
  <1> QED BY <1>4

\* Nothing is given back by a free of nullptr, which was counted before.
LEMMA NullAccounts ==
  ASSUME NEW t \in Threads, Accounted(t), JemallocOfNull(t)
  PROVE  \E r, c : Accounts(t, r, c)
  <1>0. /\ StatsType /\ null_frees \in Nat /\ shrunk \in BOOLEAN /\ call[t].old \in Nat
        /\ Obj(t) \in ObjectType /\ Shape(Obj(t))
    BY AccountedTypes
  <1>1. /\ call[t].pc = "jemalloc" /\ Obj(t).ptr = NullPointer
        /\ UNCHANGED <<blocks, stats, shrunk>>
    BY DEF JemallocOfNull, At, hugeMemory
  <1>2. CASE GivesBack(t)
    <2>1. Return(t, GivenBack(t)) /\ null_frees' = null_frees + 1  BY <1>2 DEF JemallocOfNull
    <2>2. PICK r, z, i : r = GivenBack(t) /\ z = 0 /\ i = 1  OBVIOUS
    <2>3. Early(call[t])  BY <1>1, <1>2 DEF Early, Returns, GivesBack
    <2>4. BytesDue(call[t]) = call[t].old /\ AllocsDue(call[t]) = 1
      BY <1>1, <2>3 DEF BytesDue, AllocsDue
    <2>5. NoMemory(Obj(t))  BY <1>1 DEF NoMemory
    <2>6. BlockSize(Obj(t)) = 0  BY <1>0, <2>5, ObjectFacts
    <2>7. shrunk \/ call[t].old = 0  BY <1>1, <1>2, <2>6, OldIsSize
    <2>8. shrunk' \/ z = z + BytesDue(call[t])  BY <1>1, <2>2, <2>4, <2>7
    <2>9. i = z + AllocsDue(call[t])  BY <2>2, <2>4
    <2>10. Adds(z, i)
      <3>1. stats.num \in Int /\ stats.bytes \in Int  BY <1>0 DEF StatsType
      <3>2. stats.num + (null_frees + 1) = (stats.num + null_frees) + 1  BY <1>0, <3>1
      <3>3. Reckoned'.num = Reckoned.num + i  BY <1>1, <2>1, <2>2, <3>2 DEF Reckoned
      <3>4. Reckoned'.bytes = Reckoned.bytes + z  BY <1>1, <2>2, <3>1 DEF Reckoned
      <3> QED BY <1>1, <2>2, <3>3, <3>4 DEF Adds
    <2>11. Effect(z, i, z, z)
      <3>1. /\ IsFiniteSet(blocks') /\ Cardinality(blocks') = Cardinality(blocks) + 0
            /\ SumOver(SizeOf, blocks') = SumOver(SizeOf, blocks) + 0
        BY <1>1, SameBlocks
      <3> QED BY <2>2, <2>10, <3>1 DEF Effect
    <2>12. Return(t, r) /\ r.use # "delivered"  BY <1>1, <1>2, <2>1, <2>2, GivenBackUse
    <2>13. (shrunk => shrunk') /\ shrunk' \in BOOLEAN  BY <1>0, <1>1
    <2>14. Accounts(t, r, NoCall)  BY <2>8, <2>9, <2>11, <2>12, <2>13, AccountsReturn
    <2> QED BY <2>14
  <1>3. CASE ~GivesBack(t)
    <2>1. Return(t, ReallocateFailed(t)) /\ UNCHANGED null_frees  BY <1>3 DEF JemallocOfNull
    <2>2. PICK r : r = ReallocateFailed(t)  OBVIOUS
    <2>3. r = Obj(t) \/ r.use # "delivered"  BY <1>0, <2>2 DEF ReallocateFailed, ObjectType
    <2>4. Return(t, r) /\ (shrunk => shrunk') /\ shrunk' \in BOOLEAN  BY <1>0, <1>1, <2>1, <2>2
    <2>5. call[t].pc # "count" /\ ~Early(call[t])  BY <1>1, <1>3 DEF Early, Returns, GivesBack
    <2>6. Accounts(t, r, NoCall)  BY <1>1, <2>1, <2>3, <2>4, <2>5, AccountsQuiet
    <2> QED BY <2>6
  <1> QED BY <1>2, <1>3

\* What was placed or moved is counted, and the call returns.
LEMMA CountAccounts ==
  ASSUME NEW t \in Threads, Accounted(t), Count(t)
  PROVE  \E r, c : Accounts(t, r, c)
  <1>0. /\ StatsType /\ null_frees \in Nat /\ shrunk \in BOOLEAN /\ FitsOld(call[t], Obj(t), shrunk)
        /\ call[t].new \in Nat /\ call[t].old \in Nat
    BY AccountedTypes
  <1>1. call[t].pc = "count" /\ Return(t, Obj(t)) /\ UNCHANGED <<blocks, shrunk, null_frees>>
    BY DEF Count, At, hugeMemory, hugeRest
  <1>2. PICK n, o, z, i, m : n = call[t].new /\ o = call[t].old /\ z = 0 /\ i = 1 /\ m = n - o
    OBVIOUS
  <1>3. n \in Nat /\ o \in Nat /\ n \in Int /\ m \in Int /\ z \in Int /\ i \in Int /\ z \in Nat
    BY <1>0, <1>2
  <1>4. BytesDue(call[t]) = m /\ AllocsDue(call[t]) = IF call[t].op = "allocate" THEN 1 ELSE 0
    BY <1>1, <1>2 DEF BytesDue, AllocsDue, Early
  <1>5. /\ IsFiniteSet(blocks') /\ Cardinality(blocks') = Cardinality(blocks) + 0
        /\ SumOver(SizeOf, blocks') = SumOver(SizeOf, blocks) + 0
    BY <1>1, SameBlocks
  <1>6. /\ Cardinality(blocks') = Cardinality(blocks) + z
        /\ SumOver(SizeOf, blocks') = SumOver(SizeOf, blocks) + z
    BY <1>2, <1>5
  <1>7. (shrunk => shrunk') /\ shrunk' \in BOOLEAN  BY <1>0, <1>1
  <1>8. \A b, j : Adds(b, j) /\ j = z + AllocsDue(call[t]) /\ b = z + BytesDue(call[t]) =>
                    Accounts(t, Obj(t), NoCall)
    <2> SUFFICES ASSUME NEW b, NEW j, Adds(b, j), j = z + AllocsDue(call[t]), b = z + BytesDue(call[t])
                 PROVE  Accounts(t, Obj(t), NoCall)
      OBVIOUS
    <2>1. PICK r : r = Obj(t)  OBVIOUS
    <2>2. Return(t, r) /\ (r = Obj(t) \/ r.use # "delivered" \/ shrunk')  BY <1>1, <2>1
    <2>3. shrunk' \/ b = z + BytesDue(call[t])  OBVIOUS
    <2>4. Effect(b, j, z, z)  BY <1>3, <1>5, <1>6 DEF Effect
    <2>5. Accounts(t, r, NoCall)  BY <1>7, <2>2, <2>3, <2>4, AccountsReturn
    <2> QED BY <2>1, <2>5
  <1>9. CASE call[t].op = "allocate"
    <2>1. Counted(n, n, i)  BY <1>2, <1>9 DEF Count
    <2>2. Adds(n, i)  BY <1>0, <1>1, <1>3, <2>1, AddsCounted
    <2>3. o = 0  BY <1>0, <1>2, <1>9 DEF FitsOld
    <2>4. i = z + AllocsDue(call[t]) /\ n = z + BytesDue(call[t])  BY <1>2, <1>3, <1>4, <1>9, <2>3
    <2>5. Accounts(t, Obj(t), NoCall)  BY <1>8, <2>2, <2>4
    <2> QED BY <2>5
  <1>10. CASE call[t].op # "allocate"
    <2>1. PICK g : g = IF m > 0 THEN m ELSE 0  OBVIOUS
    <2>2. g \in Nat  BY <1>3, <2>1
    <2>3. Counted(m, g, z)  BY <1>2, <1>10, <2>1 DEF Count
    <2>4. Adds(m, z)  BY <1>0, <1>1, <1>3, <2>2, <2>3, AddsCounted
    <2>5. z = z + AllocsDue(call[t]) /\ m = z + BytesDue(call[t])  BY <1>2, <1>3, <1>4, <1>10
    <2>6. Accounts(t, Obj(t), NoCall)  BY <1>8, <2>4, <2>5
    <2> QED BY <2>6
  <1> QED BY <1>9, <1>10

\* Each step of a call, of either pool, settles or passes on what it owes.
LEMMA CallAccounts ==
  ASSUME NEW t \in Threads, Accounted(t), SimpleCall(t) \/ HugeCall(t)
  PROVE  \E r, c : Accounts(t, r, c)
  <1>1. CASE SimpleCall(t)  BY <1>1, SimpleAccounts
  <1>2. CASE HugeCall(t)
    <2>1. kind = "huge"  BY <1>2 DEF HugeCall
    <2>2. \/ HugeEnter(t) \/ FindTcache(t) \/ CreateTcache(t)
          \/ Mallocx(t) \/ Rallocx(t) \/ Dallocx(t) \/ JemallocOfNull(t) \/ Count(t)
      BY <1>2 DEF HugeCall
    <2> QED
      BY <2>1, <2>2, EnterAccounts, TcacheAccounts, MallocxAccounts, RallocxAccounts,
         DallocxAccounts, NullAccounts, CountAccounts
  <1> QED BY <1>1, <1>2

----
(* The accounts of the whole system.                                       *)

\* A thread that is in no call owes nothing.
IdleRests == \A t \in Threads : Idle(t) => call[t].pc # "count"

\* The accounts agree while there is a pool, and stay as they were when it is gone.
Ledger ==
  /\ kind # "destroyed" => Agree(Reckoned, call, blocks, shrunk)
  /\ OldFits /\ IdleRests /\ DeliveredWhole
  /\ stats.total \in Nat
  /\ kind = "destroyed" => StatsOK

\* At the start there is nothing to count.
LEMMA InitLedger == Init => Ledger
  <1> SUFFICES ASSUME Init PROVE Ledger  OBVIOUS
  <1>1. PICK C, B : C = call /\ B = blocks  OBVIOUS
  <1>2. /\ C = [t \in Threads |-> NoCall] /\ B = {} /\ stats.total = 0
        /\ Reckoned.num = 0 /\ Reckoned.bytes = 0
    BY <1>1 DEF Init, Reckoned
  <1>3. \A t \in Threads : BytesDue(C[t]) = 0 /\ AllocsDue(C[t]) = 0  BY <1>2, NoCallDue
  <1>4. IsFiniteSet(Threads)  BY HostAssumption
  <1>6. BytesDueOf(C) = 0 /\ AllocsDueOf(C) = 0
    <2>1. PICK F, G : F = [t \in Threads |-> BytesDue(C[t])] /\ G = [t \in Threads |-> AllocsDue(C[t])]
      OBVIOUS
    <2>2. (\A t \in Threads : F[t] = 0) /\ \A t \in Threads : G[t] = 0  BY <1>3, <2>1
    <2>3. SumOver(F, Threads) = 0 /\ SumOver(G, Threads) = 0  BY <1>4, <2>2, SumZeros
    <2> QED BY <2>1, <2>3 DEF BytesDueOf, AllocsDueOf
  <1>7. IsFiniteSet(B) /\ Cardinality(B) = 0 /\ SumOver(SizeOf, B) = 0
    BY <1>2, FS_EmptySet, SumEmpty
  <1>8. Agree(Reckoned, C, B, shrunk)  BY <1>2, <1>6, <1>7 DEF Agree
  <1>9. OldFits /\ IdleRests  BY DEF Init, OldFits, IdleRests, Idle, NoCall
  <1>10. DeliveredWhole  BY DEF Init, DeliveredWhole, NoObject
  <1>11. kind # "destroyed"  BY HostAssumption DEF Init
  <1> QED BY <1>1, <1>2, <1>8, <1>9, <1>10, <1>11 DEF Ledger

\* What all calls together owe is a number.
LEMMA DueInts ==
  ASSUME call \in [Threads -> CallType]
  PROVE  AllocsDueOf(call) \in Int
  <1>1. PICK C : C = call  OBVIOUS
  <1>2. PICK F : F = [t \in Threads |-> AllocsDue(C[t])]  OBVIOUS
  <1>3. \A t \in Threads : F[t] \in {0, 1}  BY <1>1, <1>2, DueTypes
  <1>4. IsFiniteSet(Threads) /\ \A t \in Threads : F[t] \in Int  BY <1>3, HostAssumption
  <1>5. SumOver(F, Threads) \in Int  BY <1>4, SumMinus
  <1> QED BY <1>1, <1>2, <1>5 DEF AllocsDueOf

\* What a call under way owes something for.
Owing(t) == AllocsDue(call[t]) > 0 \/ BytesDue(call[t]) > 0
Owes(t) == Owing(t) /\ Obj(t).ptr # NullPointer

LEMMA OwingObject ==
  ASSUME FullInv, Ledger, kind # "destroyed", NEW t \in Threads, Owing(t)
  PROVE  /\ Accounted(t) /\ (call[t].pc = "count" \/ Early(call[t]))
         /\ ~Idle(t) /\ call[t].obj \in Objects /\ Obj(t) = objects[call[t].obj]
         /\ CallFits(t) /\ FitsOld(call[t], Obj(t), shrunk)
         /\ call[t].old \in Nat /\ call[t].new \in Nat
         /\ Obj(t).ptr # ZeroSizePointer
  <1>0. IInv /\ Data /\ Rest /\ Calls /\ call[t] \in CallType  BY DEF FullInv, IInv, Types, CallOK
  <1>1. call[t].pc = "count" \/ Early(call[t])  BY NotDue DEF Owing
  <1>2. ~Idle(t)  BY <1>1 DEF Ledger, IdleRests, Early, Returns, Idle
  <1>3. Accounted(t)  BY <1>0, <1>2 DEF Accounted, Calls, CallsFit, Ledger, OldFits
  <1>4. /\ call[t].obj \in Objects /\ Obj(t) = objects[call[t].obj]
        /\ CallFits(t) /\ FitsOld(call[t], Obj(t), shrunk)
        /\ call[t].old \in Nat /\ call[t].new \in Nat
    BY <1>3, AccountedTypes
  <1>5. Obj(t).ptr # ZeroSizePointer
    <2>1. CASE call[t].pc = "count"  BY <1>4, <2>1 DEF FitsOld, NoMemory
    <2>2. CASE Early(call[t])  BY <1>4, <2>2 DEF Early, Returns, CallFits, InJemalloc
    <2> QED BY <1>1, <2>1, <2>2
  <1> QED BY <1>1, <1>2, <1>3, <1>4, <1>5

\* For nullptr no bytes are owed.
LEMMA OwingBytes ==
  ASSUME FullInv, Ledger, kind # "destroyed", ~shrunk, NEW t \in Threads, BytesDue(call[t]) > 0
  PROVE  Owes(t)
  <1>1. Owing(t)  BY DEF Owing
  <1>2. /\ Accounted(t) /\ (call[t].pc = "count" \/ Early(call[t]))
        /\ FitsOld(call[t], Obj(t), shrunk)
    BY <1>1, OwingObject
  <1>3. Obj(t) \in ObjectType /\ Shape(Obj(t)) /\ call[t].old \in Nat  BY <1>2, AccountedTypes
  <1>4. CASE call[t].pc = "count"  BY <1>1, <1>2, <1>4 DEF FitsOld, NoMemory, Owes
  <1>5. CASE call[t].pc # "count" /\ Early(call[t])
    <2>1. GivesBack(t)  BY <1>5 DEF Early, Returns, GivesBack
    <2>2. call[t].old = BlockSize(Obj(t))  BY <1>2, <1>5, <2>1, OldIsSize
    <2>3. BytesDue(call[t]) = call[t].old  BY <1>5 DEF BytesDue
    <2>4. BlockSize(Obj(t)) # 0  BY <1>3, <2>2, <2>3
    <2>5. ~NoMemory(Obj(t))  BY <1>3, <2>4, ObjectFacts
    <2> QED BY <1>1, <2>5 DEF NoMemory, Owes
  <1> QED BY <1>2, <1>4, <1>5

\* The calls that owe something are about blocks in use, each about its own.
LEMMA OwingCalls ==
  ASSUME FullInv, Ledger, kind # "destroyed", NEW t \in Threads, Owes(t)
  PROVE  /\ ~Idle(t) /\ call[t].obj \in Objects /\ Obj(t) = objects[call[t].obj]
         /\ ~NoMemory(Obj(t))
         /\ Target(t) \in blocks /\ Target(t).ptr = Obj(t).ptr
         /\ shrunk \/ BytesDue(call[t]) <= Target(t).size
  <1>0. IInv /\ Data  BY DEF FullInv
  <1>1. /\ Accounted(t) /\ (call[t].pc = "count" \/ Early(call[t]))
        /\ ~Idle(t) /\ call[t].obj \in Objects /\ Obj(t) = objects[call[t].obj]
        /\ FitsOld(call[t], Obj(t), shrunk)
        /\ call[t].old \in Nat /\ call[t].new \in Nat
        /\ Obj(t).ptr # ZeroSizePointer
    BY OwingObject DEF Owes
  <1>5. ~NoMemory(Obj(t))  BY <1>1 DEF NoMemory, Owes
  <1>6. Target(t) = Block(Obj(t).ptr, BlockSize(Obj(t))) /\ Target(t) \in blocks
    BY <1>0, <1>1, <1>5, TargetIs
  <1>7. Target(t).ptr = Obj(t).ptr /\ Target(t).size = BlockSize(Obj(t))  BY <1>6 DEF Block
  <1>8. shrunk \/ BytesDue(call[t]) <= BlockSize(Obj(t))
    <2>1. CASE call[t].pc = "count"
      <3>1. BytesDue(call[t]) = call[t].new - call[t].old /\ BlockSize(Obj(t)) = call[t].new
        BY <1>1, <2>1 DEF BytesDue, FitsOld
      <3> QED BY <1>1, <3>1
    <2>2. CASE Early(call[t])
      <3>1. GivesBack(t) /\ call[t].pc # "count"  BY <2>2 DEF Early, Returns, GivesBack
      <3>2. shrunk \/ call[t].old = BlockSize(Obj(t))  BY <1>1, <3>1, OldIsSize
      <3>3. BytesDue(call[t]) = call[t].old  BY <2>2, <3>1 DEF BytesDue
      <3> QED BY <1>1, <3>2, <3>3
    <2> QED BY <1>1, <2>1, <2>2
  <1> QED BY <1>1, <1>5, <1>6, <1>7, <1>8

\* Two of them are not about the same block.
LEMMA OwingApart ==
  ASSUME FullInv, Ledger, kind # "destroyed", NEW t \in Threads, NEW u \in Threads,
         Owes(t), Owes(u), Target(t) = Target(u)
  PROVE  t = u
  <1>1. /\ ~Idle(t) /\ call[t].obj \in Objects /\ Obj(t) = objects[call[t].obj]
        /\ ~NoMemory(Obj(t)) /\ Target(t).ptr = Obj(t).ptr
    BY OwingCalls
  <1>2. /\ ~Idle(u) /\ call[u].obj \in Objects /\ Obj(u) = objects[call[u].obj]
        /\ ~NoMemory(Obj(u)) /\ Target(u).ptr = Obj(u).ptr
    BY OwingCalls
  <1>3. Obj(t).ptr = Obj(u).ptr  BY <1>1, <1>2
  <1>4. IInv /\ Data /\ OneCall  BY DEF FullInv, Calls
  <1>5. call[t].obj = call[u].obj  BY <1>1, <1>2, <1>3, <1>4, OwnBlocks
  <1> QED BY <1>1, <1>2, <1>4, <1>5 DEF OneCall

\* What the lemmas below know of the calls and the blocks.
LEMMA LedgerTypes ==
  ASSUME FullInv, Ledger, kind # "destroyed"
  PROVE  /\ Agree(Reckoned, call, blocks, shrunk) /\ stats.total \in Nat
         /\ call \in [Threads -> CallType] /\ blocks \subseteq BlockType
         /\ stats.num \in Int /\ stats.bytes \in Int /\ null_frees \in Nat
         /\ IsFiniteSet(Threads) /\ IsFiniteSet(blocks)
  <1>1. Agree(Reckoned, call, blocks, shrunk) /\ stats.total \in Nat  BY DEF Ledger
  <1>2. call \in [Threads -> CallType] /\ blocks \subseteq BlockType
    BY DEF FullInv, IInv, Types, CallOK, Space, BlocksOK, BlockType
  <1>3. stats.num \in Int /\ stats.bytes \in Int /\ null_frees \in Nat
    BY DEF FullInv, Rest, StatsType
  <1> QED BY <1>1, <1>2, <1>3, HostAssumption DEF Agree

\* So the statistics are not below zero: what a call still has to add, or has subtracted
\* too early, is never more than the block it is about. That is so for the number of
\* allocations while nobody has freed nullptr or is about to.
LEMMA NumNat ==
  ASSUME FullInv, Ledger, kind # "destroyed", null_frees = 0,
         \A t \in Threads : ~Idle(t) => Obj(t).ptr # NullPointer
  PROVE  stats.num \in Nat
  <1>0. /\ Agree(Reckoned, call, blocks, shrunk) /\ call \in [Threads -> CallType]
        /\ blocks \subseteq BlockType /\ stats.num \in Int
        /\ IsFiniteSet(Threads) /\ IsFiniteSet(blocks)
    BY LedgerTypes
  <1>1. PICK C, B : C = call /\ B = blocks  OBVIOUS
  <1>2. IsFiniteSet(B) /\ B \subseteq BlockType /\ C \in [Threads -> CallType]  BY <1>0, <1>1
  <1>3. PICK h : h = [t \in Threads |-> Target(t)]  OBVIOUS
  <1>a. ASSUME NEW t \in Threads, AllocsDue(C[t]) > 0
        PROVE  Owes(t)
    <2>1. Owing(t)  BY <1>1, <1>a DEF Owing
    <2>2. ~Idle(t)  BY <2>1, OwingObject
    <2> QED BY <2>1, <2>2 DEF Owes
  <1>4. \A t \in Threads : AllocsDue(C[t]) > 0 => h[t] \in B
    <2> SUFFICES ASSUME NEW t \in Threads, AllocsDue(C[t]) > 0 PROVE h[t] \in B  OBVIOUS
    <2>1. Target(t) \in blocks  BY <1>a, OwingCalls
    <2> QED BY <1>1, <1>3, <2>1
  <1>5. ASSUME NEW t \in Threads, NEW u \in Threads, AllocsDue(C[t]) > 0, AllocsDue(C[u]) > 0,
               h[t] = h[u]
        PROVE  t = u
    <2>1. Owes(t) /\ Owes(u)  BY <1>a, <1>5
    <2>2. Target(t) = Target(u)  BY <1>3, <1>5
    <2> QED BY <2>1, <2>2, OwingApart
  <1>6. PICK F, G : F = [t \in Threads |-> AllocsDue(C[t])] /\ G = [b \in B |-> 1]  OBVIOUS
  <1>7. \A t \in Threads : F[t] = AllocsDue(C[t]) /\ F[t] \in {0, 1}  BY <1>2, <1>6, DueTypes
  <1>8. \A b \in B : G[b] = 1  BY <1>6
  <1>9. Covers(h, F, Threads, G, B)
    <2>1. \A x \in Threads : F[x] <= 0 \/ (h[x] \in B /\ F[x] <= G[h[x]])  BY <1>4, <1>7, <1>8
    <2>2. \A x, y \in Threads : F[x] > 0 /\ F[y] > 0 /\ h[x] = h[y] => x = y  BY <1>5, <1>7
    <2> QED BY <2>1, <2>2 DEF Covers
  <1>10. (\A t \in Threads : F[t] \in Int) /\ \A b \in B : G[b] \in Nat  BY <1>7, <1>8
  <1>11. SumOver(F, Threads) <= SumOver(G, B)  BY <1>0, <1>2, <1>9, <1>10, SumUnder
  <1>12. SumOver(G, B) = Cardinality(B) /\ Cardinality(B) \in Nat
    BY <1>2, <1>8, SumOnes, FS_CardinalityType
  <1>13. SumOver(F, Threads) \in Int  BY <1>0, <1>10, SumMinus
  <1>14. AllocsDueOf(C) = SumOver(F, Threads)  BY <1>6 DEF AllocsDueOf
  <1>15. PICK k, m, i : k = SumOver(F, Threads) /\ m = Cardinality(B) /\ i = stats.num  OBVIOUS
  <1>16. k \in Int /\ m \in Nat /\ i \in Int /\ k <= m  BY <1>0, <1>11, <1>12, <1>13, <1>15
  <1>17. i + k = m
    <2>1. (stats.num + null_frees) + AllocsDueOf(C) = Cardinality(B)
      BY <1>0, <1>1 DEF Agree, Reckoned
    <2>2. stats.num + null_frees = stats.num  BY <1>0
    <2> QED BY <1>14, <1>15, <2>1, <2>2
  <1>18. i \in Nat  BY <1>16, <1>17
  <1> QED BY <1>15, <1>18

LEMMA BytesNat ==
  ASSUME FullInv, Ledger, kind # "destroyed", ~shrunk
  PROVE  stats.bytes \in Nat
  <1>0. /\ Agree(Reckoned, call, blocks, shrunk) /\ call \in [Threads -> CallType]
        /\ blocks \subseteq BlockType /\ stats.bytes \in Int
        /\ IsFiniteSet(Threads) /\ IsFiniteSet(blocks)
    BY LedgerTypes
  <1>1. PICK C, B : C = call /\ B = blocks  OBVIOUS
  <1>2. IsFiniteSet(B) /\ B \subseteq BlockType /\ C \in [Threads -> CallType]  BY <1>0, <1>1
  <1>3. PICK h : h = [t \in Threads |-> Target(t)]  OBVIOUS
  <1>4. ASSUME NEW t \in Threads, BytesDue(C[t]) > 0
        PROVE  h[t] \in B /\ BytesDue(C[t]) <= h[t].size
    <2>1. Owes(t)  BY <1>1, <1>4, OwingBytes
    <2>2. Target(t) \in blocks /\ BytesDue(call[t]) <= Target(t).size  BY <2>1, OwingCalls
    <2> QED BY <1>1, <1>3, <2>2
  <1>5. ASSUME NEW t \in Threads, NEW u \in Threads, BytesDue(C[t]) > 0, BytesDue(C[u]) > 0,
               h[t] = h[u]
        PROVE  t = u
    <2>1. Owes(t) /\ Owes(u)  BY <1>1, <1>5, OwingBytes
    <2>2. Target(t) = Target(u)  BY <1>3, <1>5
    <2> QED BY <2>1, <2>2, OwingApart
  <1>6. PICK F, G : F = [t \in Threads |-> BytesDue(C[t])] /\ G = SizeOf  OBVIOUS
  <1>7. \A t \in Threads : F[t] = BytesDue(C[t]) /\ F[t] \in Int  BY <1>2, <1>6, DueTypes
  <1>8. \A b \in B : G[b] = b.size /\ G[b] \in Nat  BY <1>2, <1>6, SizesType
  <1>9. Covers(h, F, Threads, G, B)
    <2>1. ASSUME NEW x \in Threads
          PROVE  F[x] <= 0 \/ (h[x] \in B /\ F[x] <= G[h[x]])
      <3>1. CASE F[x] <= 0  BY <3>1
      <3>2. CASE F[x] > 0
        <4>1. BytesDue(C[x]) > 0  BY <1>7, <3>2
        <4>2. h[x] \in B /\ BytesDue(C[x]) <= h[x].size  BY <1>4, <4>1
        <4> QED BY <1>7, <1>8, <4>2
      <3> QED BY <1>7, <3>1, <3>2
    <2>2. ASSUME NEW x \in Threads, NEW y \in Threads, F[x] > 0, F[y] > 0, h[x] = h[y]
          PROVE  x = y
      <3>1. BytesDue(C[x]) > 0 /\ BytesDue(C[y]) > 0  BY <1>7, <2>2
      <3> QED BY <1>5, <2>2, <3>1
    <2> QED BY <2>1, <2>2 DEF Covers
  <1>10. (\A t \in Threads : F[t] \in Int) /\ \A b \in B : G[b] \in Nat  BY <1>7, <1>8
  <1>11. SumOver(F, Threads) <= SumOver(G, B)  BY <1>0, <1>2, <1>9, <1>10, SumUnder
  <1>12. SumOver(G, B) \in Int  BY <1>2, <1>6, SizesType
  <1>13. SumOver(F, Threads) \in Int  BY <1>0, <1>10, SumMinus
  <1>14. BytesDueOf(C) = SumOver(F, Threads)  BY <1>6 DEF BytesDueOf
  <1>15. PICK k, m, i : k = SumOver(F, Threads) /\ m = SumOver(G, B) /\ i = stats.bytes  OBVIOUS
  <1>16. k \in Int /\ m \in Int /\ i \in Int /\ k <= m  BY <1>0, <1>11, <1>12, <1>13, <1>15
  <1>17. i + k = m  BY <1>0, <1>1, <1>6, <1>14, <1>15 DEF Agree, Reckoned
  <1>18. i \in Nat  BY <1>16, <1>17
  <1> QED BY <1>15, <1>18

LEMMA StatsNat ==
  ASSUME FullInv, Ledger, kind # "destroyed"
  PROVE  StatsOK
  <1>1. shrunk \/ stats.bytes \in Nat  BY BytesNat
  <1>2. NoNull => stats.num \in Nat
    <2> SUFFICES ASSUME NoNull PROVE stats.num \in Nat  OBVIOUS
    <2>1. ASSUME NEW t \in Threads, ~Idle(t)
          PROVE  Obj(t).ptr # NullPointer
      <3>1. call[t].obj \in Objects  BY <2>1, CallFacts DEF FullInv
      <3> QED BY <3>1 DEF NoNull, Obj
    <2> QED BY <2>1, NumNat DEF NoNull
  <1>3. stats.total \in Nat  BY LedgerTypes
  <1> QED BY <1>1, <1>2, <1>3 DEF StatsOK

\* What the statistics say follows.
LEMMA LedgerExact ==
  ASSUME FullInv, Ledger
  PROVE  CountersExact
  <1>1. StatsOK  BY StatsNat DEF Ledger
  <1>2. CASE kind # "destroyed"
    <2>0. /\ Agree(Reckoned, call, blocks, shrunk) /\ blocks \subseteq BlockType /\ IsFiniteSet(Threads)
      BY <1>2, HostAssumption DEF Ledger, FullInv, IInv, Space, BlocksOK, BlockType
    <2>1. IsFiniteSet(blocks)  BY <2>0 DEF Agree
    <2>2. InUse = SumOver(SizeOf, blocks)  BY <2>0, <2>1, InUseIs DEF BlockType
    <2>3. /\ MapThenSumSet(PendingBytes, Threads) = SumOver(BytesOf, Threads)
          /\ MapThenSumSet(PendingAllocs, Threads) = SumOver(AllocsOf, Threads)
      BY <2>0, PendingBytesIs, PendingAllocsIs
    <2>4. ASSUME NEW t \in Threads
          PROVE  PendingBytes(t) = BytesDue(call[t]) /\ PendingAllocs(t) = AllocsDue(call[t])
      <3>1. GivingBack(t) <=> Early(call[t])  BY DEF GivingBack, GivesBack, Early, Returns
      <3> QED BY <3>1 DEF PendingBytes, PendingAllocs, BytesDue, AllocsDue, At
    <2>5. BytesOf = [t \in Threads |-> BytesDue(call[t])] /\ AllocsOf = [t \in Threads |-> AllocsDue(call[t])]
      BY <2>4 DEF BytesOf, AllocsOf
    <2>6. BytesDueOf(call) = SumOver(BytesOf, Threads) /\ AllocsDueOf(call) = SumOver(AllocsOf, Threads)
      BY <2>5 DEF BytesDueOf, AllocsDueOf
    <2>7. /\ (stats.num + null_frees) + AllocsDueOf(call) = Cardinality(blocks)
          /\ shrunk \/ stats.bytes + BytesDueOf(call) = SumOver(SizeOf, blocks)
      BY <2>0 DEF Agree, Reckoned
    <2>8. stats.num + MapThenSumSet(PendingAllocs, Threads) + null_frees = Cardinality(blocks)
      <3>1. AllocsDueOf(call) \in Int  BY DueInts DEF FullInv, IInv, Types, CallOK
      <3>2. stats.num \in Int /\ null_frees \in Int  BY DEF FullInv, Rest, StatsType
      <3>3. PICK x, y, z, w : /\ x = stats.num /\ y = null_frees
                              /\ z = AllocsDueOf(call) /\ w = Cardinality(blocks)
        OBVIOUS
      <3>4. (x + z) + y = w  BY <2>7, <3>1, <3>2, <3>3
      <3> QED BY <2>3, <2>6, <3>3, <3>4
    <2>9. shrunk \/ stats.bytes + MapThenSumSet(PendingBytes, Threads) = InUse
      BY <2>2, <2>3, <2>6, <2>7
    <2> QED BY <1>1, <2>8, <2>9 DEF CountersExact
  <1> QED BY <1>1, <1>2 DEF CountersExact

\* The old sizes of the calls still fit after a step that keeps the objects of the others.
LEMMA OthersFit ==
  ASSUME IInv, OldFits, NEW t \in Threads, shrunk => shrunk',
         \A u \in Threads : u # t => call'[u] = call[u],
         \A u \in Threads : u # t /\ ~Idle(u) => objects'[call[u].obj] = objects[call[u].obj],
         Idle(t)' \/ FitsOld(call'[t], Obj(t)', shrunk')
  PROVE  OldFits'
  <1> SUFFICES ASSUME NEW u \in Threads, ~Idle(u)' PROVE FitsOld(call'[u], Obj(u)', shrunk')
    BY DEF OldFits
  <1>1. CASE u = t  BY <1>1
  <1>2. CASE u # t
    <2>1. call'[u] = call[u] /\ ~Idle(u)  BY <1>2 DEF Idle
    <2>2. Obj(u)' = Obj(u)  BY <1>2, <2>1 DEF Obj
    <2>3. FitsOld(call[u], Obj(u), shrunk)  BY <2>1 DEF OldFits
    <2> QED BY <2>1, <2>2, <2>3 DEF FitsOld
  <1> QED BY <1>1, <1>2

\* A step of a call keeps the accounts.
LEMMA CallLedger ==
  ASSUME FullInv, Ledger, NEW t \in Threads, Call(t)
  PROVE  Ledger'
  <1>0. IInv /\ Data /\ Rest /\ Calls /\ CallOK /\ ObjectsOK  BY DEF FullInv, IInv, Types
  <1>1. kind # "destroyed" /\ ~Idle(t) /\ kind' = kind
    BY DEF Call, SimpleCall, HugeCall, SimpleAllocateNothing, SimpleAllocate, SimpleReallocate,
       SimpleFree, simpleRest, hugeRest, HugeEnter, FindTcache, CreateTcache, Mallocx, Rallocx,
       Dallocx, JemallocOfNull, Count
  <1>2. Agree(Reckoned, call, blocks, shrunk) /\ OldFits /\ IdleRests /\ DeliveredWhole /\ stats.total \in Nat
    BY <1>1 DEF Ledger
  <1>3. CallFits(t) /\ FitsOld(call[t], Obj(t), shrunk)
    BY <1>0, <1>1, <1>2 DEF Calls, CallsFit, OldFits
  <1>4. Accounted(t)  BY <1>0, <1>1, <1>2, <1>3 DEF Accounted
  <1>5. SimpleCall(t) \/ HugeCall(t)  BY DEF Call
  <1>6. PICK r, c : Accounts(t, r, c)  BY <1>4, <1>5, CallAccounts
  <1>7. Becomes(t, r, c) /\ stats'.total \in Nat /\ Agree(Reckoned', call', blocks', shrunk')
    BY <1>2, <1>6 DEF Accounts
  <1>8. /\ call' = [call EXCEPT ![t] = c]
        /\ objects' = [objects EXCEPT ![call[t].obj] = r]
        /\ r = Obj(t) \/ r.use # "delivered" \/ shrunk'
        /\ c = NoCall \/ (c.obj = call[t].obj /\ FitsOld(c, r, shrunk'))
        /\ shrunk => shrunk'
    BY <1>7 DEF Becomes
  <1>9. call[t].obj \in Objects /\ Obj(t) = objects[call[t].obj]  BY <1>4, AccountedTypes
  <1>10. call'[t] = c /\ \A u \in Threads : u # t => call'[u] = call[u]  BY <1>0, <1>8 DEF CallOK
  <1>11. /\ objects'[call[t].obj] = r
         /\ \A p \in Objects : p # call[t].obj => objects'[p] = objects[p]
    BY <1>0, <1>8, <1>9 DEF ObjectsOK
  <1>12. OldFits'
    <2>1. ASSUME NEW u \in Threads, u # t, ~Idle(u)
          PROVE  objects'[call[u].obj] = objects[call[u].obj]
      <3>1. call[u].obj # call[t].obj /\ call[u].obj \in Objects
        BY <1>0, <1>1, <2>1, CallFacts DEF Calls, OneCall
      <3> QED BY <1>11, <3>1
    <2>2. Idle(t)' \/ FitsOld(call'[t], Obj(t)', shrunk')
      <3>1. CASE c = NoCall  BY <1>10, <3>1 DEF Idle, NoCall
      <3>2. CASE c.obj = call[t].obj /\ FitsOld(c, r, shrunk')
        <4>1. Obj(t)' = r  BY <1>10, <1>11, <3>2 DEF Obj
        <4> QED BY <1>10, <3>2, <4>1
      <3> QED BY <1>8, <3>1, <3>2
    <2> QED BY <1>0, <1>2, <1>8, <1>10, <2>1, <2>2, OthersFit
  <1>13. IdleRests'
    <2> SUFFICES ASSUME NEW u \in Threads, Idle(u)' PROVE call'[u].pc # "count"  BY DEF IdleRests
    <2>1. CASE u = t  BY <1>8, <1>10, <2>1 DEF Idle, NoCall, FitsOld
    <2>2. CASE u # t  BY <1>2, <1>10, <2>2 DEF Idle, IdleRests
    <2> QED BY <2>1, <2>2
  <1>14. DeliveredWhole'
    <2> SUFFICES ASSUME ~shrunk', NEW o \in Objects, objects'[o].use = "delivered"
                 PROVE  objects'[o].size = objects'[o].capacity
      BY DEF DeliveredWhole
    <2>1. objects'[o] = objects[o]  BY <1>8, <1>9, <1>11
    <2> QED BY <1>2, <1>8, <2>1 DEF DeliveredWhole
  <1> QED BY <1>1, <1>7, <1>12, <1>13, <1>14 DEF Ledger

\* A call that begins owes nothing.
LEMMA BeginLedger ==
  ASSUME FullInv, Ledger, CallOK', NEW t \in Threads, NEW o \in Objects, NEW op, NEW old, NEW new,
         NEW alignment, Begin(t, o, op, old, new, alignment), NEW x,
         objects' = [objects EXCEPT ![o] = x], x = objects[o] \/ x.use # "delivered",
         op \in {"allocate", "reallocate", "free"},
         op = "allocate" => old = 0, op = "free" => shrunk \/ old = BlockSize(x)
  PROVE  Ledger'
  <1>0. IInv /\ Calls /\ CallOK /\ ObjectsOK  BY DEF FullInv, IInv, Types
  <1>1. PICK c : c = [op |-> op, obj |-> o, old |-> old, new |-> new,
                      alignment |-> alignment, pc |-> "enter"]
    OBVIOUS
  <1>2. /\ kind # "destroyed" /\ Idle(t) /\ ~Busy(o) /\ call' = [call EXCEPT ![t] = c]
        /\ UNCHANGED <<stats, null_frees, blocks, shrunk, kind>>
    BY <1>1 DEF Begin, memoryVars
  <1>3. call'[t] = c /\ \A u \in Threads : u # t => call'[u] = call[u]  BY <1>0, <1>2 DEF CallOK
  <1>4. objects'[o] = x /\ \A p \in Objects : p # o => objects'[p] = objects[p]
    BY <1>0 DEF ObjectsOK
  <1>5. c.op = op /\ c.obj = o /\ c.old = old /\ c.pc = "enter"  BY <1>1
  <1>6. Agree(Reckoned, call, blocks, shrunk) /\ OldFits /\ IdleRests /\ DeliveredWhole /\ stats.total \in Nat
    BY <1>2 DEF Ledger
  <1>7. Agree(Reckoned', call', blocks', shrunk')
    <2>1. c \in CallType /\ call \in [Threads -> CallType]  BY <1>0, <1>3 DEF CallOK
    <2>2. BytesDue(c) = 0 /\ AllocsDue(c) = 0  BY <1>5 DEF BytesDue, AllocsDue, Early
    <2>3. BytesDue(call[t]) = 0 /\ AllocsDue(call[t]) = 0
      <3>1. call[t].op = "none" /\ call[t].pc # "count"  BY <1>2, <1>6 DEF Idle, IdleRests
      <3> QED BY <3>1 DEF BytesDue, AllocsDue, Early, Returns
    <2>4. PICK C, D : C = call /\ D = call'  OBVIOUS
    <2>5. /\ BytesDueOf(C) \in Int /\ AllocsDueOf(C) \in Int
          /\ BytesDueOf(D) = BytesDueOf(C) + (BytesDue(c) - BytesDue(C[t]))
          /\ AllocsDueOf(D) = AllocsDueOf(C) + (AllocsDue(c) - AllocsDue(C[t]))
      <3>1. C \in [Threads -> CallType] /\ D = [C EXCEPT ![t] = c]  BY <1>2, <2>1, <2>4
      <3> QED BY <2>1, <3>1, DueChanged
    <2>6. BytesDue(C[t]) = 0 /\ AllocsDue(C[t]) = 0  BY <2>3, <2>4
    <2>7. BytesDueOf(D) = BytesDueOf(C) /\ AllocsDueOf(D) = AllocsDueOf(C)  BY <2>2, <2>5, <2>6
    <2>8. Agree(Reckoned, C, blocks, shrunk)  BY <1>6, <2>4
    <2>9. Agree(Reckoned, D, blocks, shrunk)  BY <2>7, <2>8 DEF Agree
    <2>10. Reckoned' = Reckoned  BY <1>2 DEF Reckoned
    <2> QED BY <1>2, <2>4, <2>9, <2>10
  <1>8. OldFits'
    <2>1. ASSUME NEW u \in Threads, u # t, ~Idle(u)
          PROVE  objects'[call[u].obj] = objects[call[u].obj]
      <3>1. call[u].obj # o /\ call[u].obj \in Objects  BY <1>0, <1>2, <2>1, CallFacts DEF Busy
      <3> QED BY <1>4, <3>1
    <2>2. FitsOld(call'[t], Obj(t)', shrunk')
      <3>1. Obj(t)' = x  BY <1>3, <1>4, <1>5 DEF Obj
      <3>2. FitsOld(c, x, shrunk)  BY <1>5 DEF FitsOld
      <3> QED BY <1>2, <1>3, <3>1, <3>2
    <2> QED BY <1>0, <1>2, <1>3, <1>6, <2>1, <2>2, OthersFit
  <1>9. IdleRests'
    <2> SUFFICES ASSUME NEW u \in Threads, Idle(u)' PROVE call'[u].pc # "count"  BY DEF IdleRests
    <2>1. CASE u = t  BY <1>3, <1>5, <2>1
    <2>2. CASE u # t  BY <1>3, <1>6, <2>2 DEF Idle, IdleRests
    <2> QED BY <2>1, <2>2
  <1>10. DeliveredWhole'
    <2> SUFFICES ASSUME ~shrunk', NEW p \in Objects, objects'[p].use = "delivered"
                 PROVE  objects'[p].size = objects'[p].capacity
      BY DEF DeliveredWhole
    <2>1. objects'[p] = objects[p]  BY <1>4
    <2> QED BY <1>2, <1>6, <2>1 DEF DeliveredWhole
  <1> QED BY <1>2, <1>6, <1>7, <1>8, <1>9, <1>10 DEF Ledger

\* Who begins a call knows the size of the block it gives back.
LEMMA CallersLedger ==
  ASSUME FullInv, Ledger, CallOK', NEW t \in Threads, NEW o \in Objects, Callers(t, o)
  PROVE  Ledger'
  <1>0. ObjectsOK /\ objects[o] \in ObjectType /\ Shape(objects[o])
    BY DEF FullInv, IInv, Types, ObjectsOK, Data, Shapes
  <1>1. ASSUME NEW new, NEW alignment, Begin(t, o, "allocate", 0, new, alignment),
               NEW use \in {"asked", "output"}, objects' = [objects EXCEPT ![o].use = use]
        PROVE  Ledger'
    <2>1. PICK x : x = [objects[o] EXCEPT !.use = use]  OBVIOUS
    <2>2. x.use = use  BY <1>0, <2>1 DEF ObjectType
    <2>3. x.use # "delivered"  BY <1>1, <2>2
    <2>4. objects' = [objects EXCEPT ![o] = x]  BY <1>1, <2>1
    <2> QED BY <1>1, <2>3, <2>4, BeginLedger
  <1>2. ASSUME NEW op \in {"reallocate", "free"}, NEW old, NEW new, NEW alignment,
               Begin(t, o, op, old, new, alignment), UNCHANGED objects,
               op = "free" => shrunk \/ old = BlockSize(objects[o])
        PROVE  Ledger'
    <2>1. PICK x : x = objects[o]  OBVIOUS
    <2>2. objects' = [objects EXCEPT ![o] = x]  BY <1>0, <1>2, <2>1 DEF ObjectsOK
    <2>3. op = "free" => shrunk \/ old = BlockSize(x)  BY <1>2, <2>1
    <2>4. op \in {"allocate", "reallocate", "free"} /\ (op = "allocate" => old = 0)  BY <1>2
    <2>5. x = objects[o] \/ x.use # "delivered"  BY <2>1
    <2>6. Begin(t, o, op, old, new, alignment)  BY <1>2
    <2> QED BY <2>2, <2>3, <2>4, <2>5, <2>6, BeginLedger
  <1>3. CASE AllocateInput(t, o)  BY <1>1, <1>3 DEF AllocateInput
  <1>4. CASE AllocateOutput(t, o)  BY <1>1, <1>4 DEF AllocateOutput
  <1>5. CASE ReallocateInput(t, o) \/ ShrinkOutput(t, o)
    BY <1>2, <1>5 DEF ReallocateInput, ShrinkOutput
  <1>6. CASE FreeInput(t, o)
    <2>1. /\ objects[o].use = "input" /\ UNCHANGED objects
          /\ Begin(t, o, "free", objects[o].size, 0, DEFAULT_ALIGNMENT)
      BY <1>6 DEF FreeInput
    <2>2. BlockSize(objects[o]) = objects[o].size  BY <2>1 DEF BlockSize
    <2> QED BY <1>2, <2>1, <2>2
  <1>7. CASE FreeOutput(t, o) \/ FreeEnqueued(t, o)
    <2>1. /\ objects[o].use \in {"written", "kept", "output", "enqueued", "delivered"}
          /\ UNCHANGED objects
          /\ Begin(t, o, "free", objects[o].capacity, 0, DEFAULT_ALIGNMENT)
      BY <1>7 DEF FreeOutput, FreeEnqueued, InManager
    <2>2. kind # "destroyed"  BY <2>1 DEF Begin
    <2>3. shrunk \/ objects[o].capacity = BlockSize(objects[o])
      <3>1. CASE objects[o].use \in {"written", "kept"}  BY <3>1 DEF BlockSize
      <3>2. CASE objects[o].use \in {"output", "enqueued"}  BY <1>0, <3>2 DEF BlockSize, Shape
      <3>3. CASE objects[o].use = "delivered"
        <4>1. shrunk \/ objects[o].size = objects[o].capacity  BY <3>3 DEF Ledger, DeliveredWhole
        <4> QED BY <3>3, <4>1 DEF BlockSize
      <3> QED BY <2>1, <3>1, <3>2, <3>3
    <2> QED BY <1>2, <2>1, <2>3
  <1> QED BY <1>3, <1>4, <1>5, <1>6, <1>7 DEF Callers

\* The objects keep their blocks, and none is handed out that is not whole.
KeepsSizes ==
  \A o \in Objects :
    /\ objects'[o].ptr = objects[o].ptr /\ BlockSize(objects'[o]) = BlockSize(objects[o])
    /\ \/ objects'[o].use = "delivered" => objects[o].use = "delivered" /\ objects'[o] = objects[o]
       \/ objects'[o].size = objects'[o].capacity

\* A step without a call moves no accounts.
LEMMA QuietLedger ==
  ASSUME FullInv, Ledger, UNCHANGED <<stats, null_frees, blocks, call, shrunk, kind>>, KeepsSizes
  PROVE  Ledger'
  <1>1. OldFits'
    <2> SUFFICES ASSUME NEW u \in Threads, ~Idle(u)' PROVE FitsOld(call'[u], Obj(u)', shrunk')
      BY DEF OldFits
    <2>1. call'[u] = call[u] /\ ~Idle(u) /\ call[u].obj \in Objects  BY CallFacts DEF Idle, FullInv
    <2>2. FitsOld(call[u], Obj(u), shrunk)  BY <2>1 DEF Ledger, OldFits
    <2>3. Obj(u)' = objects'[call[u].obj] /\ Obj(u) = objects[call[u].obj]  BY <2>1 DEF Obj
    <2>4. Obj(u)'.ptr = Obj(u).ptr /\ BlockSize(Obj(u)') = BlockSize(Obj(u))
      BY <2>1, <2>3 DEF KeepsSizes
    <2> QED BY <2>1, <2>2, <2>4 DEF FitsOld, NoMemory
  <1>2. IdleRests'  BY DEF Ledger, IdleRests, Idle
  <1>3. DeliveredWhole'
    <2> SUFFICES ASSUME ~shrunk', NEW o \in Objects, objects'[o].use = "delivered"
                 PROVE  objects'[o].size = objects'[o].capacity
      BY DEF DeliveredWhole
    <2>1. CASE objects[o].use = "delivered" /\ objects'[o] = objects[o]
      <3>1. objects[o].size = objects[o].capacity  BY <2>1 DEF Ledger, DeliveredWhole
      <3> QED BY <2>1, <3>1
    <2> QED BY <2>1 DEF KeepsSizes
  <1>4. Agree(Reckoned', call', blocks', shrunk') \/ kind' = "destroyed"
    <2>1. Reckoned' = Reckoned  BY DEF Reckoned
    <2> QED BY <2>1 DEF Ledger
  <1>5. stats'.total \in Nat /\ (kind' = "destroyed" => StatsOK')
    <2>1. NoNull' => NoNull  BY DEF NoNull, KeepsSizes, NullPointer
    <2> QED BY <2>1 DEF Ledger, StatsOK
  <1> QED BY <1>1, <1>2, <1>3, <1>4, <1>5 DEF Ledger

\* The managers hand out what they wrote, and keep the blocks.
LEMMA ManagerLedger ==
  ASSUME FullInv, Ledger, NEW o \in Objects, Manager(o)
  PROVE  Ledger'
  <1>0. ObjectsOK /\ objects[o] \in ObjectType /\ Shape(objects[o])
    BY DEF FullInv, IInv, Types, ObjectsOK, Data, Shapes
  <1>1. UNCHANGED <<stats, null_frees, blocks, call, shrunk, kind>>
    BY DEF Manager, EnqueueOutput, FpgaWrites, DeliverFullOutput, memoryVars
  <1>2. ASSUME NEW r, objects' = [objects EXCEPT ![o] = r], r.ptr = objects[o].ptr,
               BlockSize(r) = BlockSize(objects[o]), r.use # "delivered" \/ r.size = r.capacity
        PROVE  KeepsSizes
    <2> SUFFICES ASSUME NEW p \in Objects
                 PROVE  /\ objects'[p].ptr = objects[p].ptr
                        /\ BlockSize(objects'[p]) = BlockSize(objects[p])
                        /\ \/ objects'[p].use = "delivered"
                                => objects[p].use = "delivered" /\ objects'[p] = objects[p]
                           \/ objects'[p].size = objects'[p].capacity
      BY DEF KeepsSizes
    <2>1. CASE p = o
      <3>1. objects'[p] = r  BY <1>0, <1>2, <2>1 DEF ObjectsOK
      <3> QED BY <1>2, <2>1, <3>1
    <2>2. CASE p # o
      <3>1. objects'[p] = objects[p]  BY <1>0, <1>2, <2>2 DEF ObjectsOK
      <3> QED BY <3>1
    <2> QED BY <2>1, <2>2
  <1>3. CASE EnqueueOutput(o)
    <2>1. objects[o].use = "output" /\ objects' = [objects EXCEPT ![o].use = "enqueued"]
      BY <1>3 DEF EnqueueOutput
    <2>2. PICK r : r = [objects[o] EXCEPT !.use = "enqueued"]  OBVIOUS
    <2>3. /\ r.use = "enqueued" /\ r.ptr = objects[o].ptr /\ r.size = objects[o].size
          /\ objects' = [objects EXCEPT ![o] = r]
      BY <1>0, <2>1, <2>2 DEF ObjectType
    <2>4. BlockSize(r) = BlockSize(objects[o])  BY <2>1, <2>3 DEF BlockSize
    <2>5. KeepsSizes  BY <1>2, <2>3, <2>4
    <2> QED BY <1>1, <2>5, QuietLedger
  <1>4. CASE FpgaWrites(o)
    <2>1. objects[o].use = "enqueued"
          /\ \E n \in 0 .. objects[o].capacity :
               objects' = [objects EXCEPT ![o].use = "written", ![o].size = n, ![o].valid = n]
      BY <1>4 DEF FpgaWrites
    <2>2. PICK n : objects' = [objects EXCEPT ![o].use = "written", ![o].size = n, ![o].valid = n]
      BY <2>1
    <2>3. PICK r : r = [objects[o] EXCEPT !.use = "written", !.size = n, !.valid = n]  OBVIOUS
    <2>4. r.use = "written" /\ r.ptr = objects[o].ptr /\ r.capacity = objects[o].capacity
      BY <1>0, <2>3 DEF ObjectType
    <2>5. objects' = [objects EXCEPT ![o] = r]  BY <1>0, <2>2, <2>3 DEF ObjectsOK
    <2>6. BlockSize(r) = BlockSize(objects[o])  BY <1>0, <2>1, <2>4 DEF BlockSize, Shape
    <2>7. KeepsSizes  BY <1>2, <2>4, <2>5, <2>6
    <2> QED BY <1>1, <2>7, QuietLedger
  <1>5. CASE DeliverFullOutput(o)
    <2>1. /\ objects[o].use = "written" /\ objects[o].size = objects[o].capacity
          /\ objects' = [objects EXCEPT ![o].use = "delivered"]
      BY <1>5 DEF DeliverFullOutput
    <2>2. PICK r : r = [objects[o] EXCEPT !.use = "delivered"]  OBVIOUS
    <2>3. /\ r.use = "delivered" /\ r.ptr = objects[o].ptr /\ r.size = objects[o].size
          /\ r.capacity = objects[o].capacity /\ objects' = [objects EXCEPT ![o] = r]
      BY <1>0, <2>1, <2>2 DEF ObjectType
    <2>4. BlockSize(r) = BlockSize(objects[o]) /\ r.size = r.capacity  BY <2>1, <2>3 DEF BlockSize
    <2>5. KeepsSizes  BY <1>2, <2>3, <2>4
    <2> QED BY <1>1, <2>5, QuietLedger
  <1> QED BY <1>3, <1>4, <1>5 DEF Manager

\* Nobody is in a call when the pool goes, so its statistics say what they said.
LEMMA PoolGoneLedger ==
  ASSUME FullInv, Ledger, DestroyPool
  PROVE  Ledger'
  <1>1. /\ kind # "destroyed" /\ kind' = "destroyed" 
        /\ UNCHANGED <<stats, null_frees, call, shrunk>>
        /\ \A t \in Threads : Idle(t)
        /\ objects' = [o \in Objects |-> IF objects[o].use = "input" THEN NoObject ELSE objects[o]]
    BY DEF DestroyPool, Unreferenced
  <1>2. StatsOK  BY <1>1, StatsNat
  <1>a. null_frees = 0 => stats.num \in Nat  BY <1>1, NumNat
  <1>3. StatsOK' /\ stats'.total \in Nat  BY <1>1, <1>2, <1>a DEF StatsOK, NoNull
  <1>4. OldFits' /\ IdleRests'  BY <1>1 DEF Ledger, OldFits, IdleRests, Idle
  <1>5. DeliveredWhole'
    <2> SUFFICES ASSUME ~shrunk', NEW o \in Objects, objects'[o].use = "delivered"
                 PROVE  objects'[o].size = objects'[o].capacity
      BY DEF DeliveredWhole
    <2>1. objects'[o] = objects[o]  BY <1>1 DEF NoObject
    <2> QED BY <1>1, <2>1 DEF Ledger, DeliveredWhole
  <1> QED BY <1>1, <1>3, <1>4, <1>5 DEF Ledger

\* Every step keeps the accounts.
LEMMA LedgerStep ==
  ASSUME FullInv, Ledger, [Next]_vars
  PROVE  Ledger'
  <1>0. CallOK'  BY FullStep DEF FullInv, IInv, Types
  <1>1. ASSUME UNCHANGED <<stats, null_frees, blocks, call, shrunk, kind, objects>>
        PROVE  Ledger'
    <2>1. KeepsSizes  BY <1>1 DEF KeepsSizes
    <2> QED BY <1>1, <2>1, QuietLedger
  <1>2. ASSUME NEW t \in Threads, Call(t)
        PROVE  Ledger'
    BY <1>2, CallLedger
  <1>3. ASSUME NEW t \in Threads, NEW o \in Objects, Callers(t, o)
        PROVE  Ledger'
    BY <1>0, <1>3, CallersLedger
  <1>4. ASSUME NEW o \in Objects, Manager(o)
        PROVE  Ledger'
    BY <1>4, ManagerLedger
  <1>5. CASE Posting \/ PreMap
    BY <1>1, <1>5 DEF Posting, Transfer, PostTransfers, PreMap, memoryVars
  <1>6. CASE Closing
    <2>1. CASE DestroyPool  BY <2>1, PoolGoneLedger
    <2>2. CASE StartClosing \/ DestroyManager \/ DestroyTLBManager
      BY <1>1, <2>2 DEF StartClosing, DestroyManager, DestroyTLBManager, memoryVars
    <2> QED BY <1>6, <2>1, <2>2 DEF Closing
  <1>7. CASE UNCHANGED vars  BY <1>1, <1>7 DEF vars, memoryVars
  <1> QED BY <1>2, <1>3, <1>4, <1>5, <1>6, <1>7 DEF Next

\* The statistics count what is in use, up to what a call under way still has to add or
\* has already subtracted, and up to the times that nullptr was freed. The bytes are exact
\* and not below zero as long as no output was shrunk, the number of allocations is not
\* below zero as long as no zero-size block failed to grow (memory_pool.cpp, allocate,
\* reallocate and free of both pools).
THEOREM CountersAreExact == Spec => []CountersExact
  <1>1. Init => FullInv /\ Ledger  BY InitFull, InitLedger
  <1>2. FullInv /\ Ledger /\ [Next]_vars => FullInv' /\ Ledger'  BY FullStep, LedgerStep
  <1>3. FullInv /\ Ledger => CountersExact  BY LedgerExact
  <1> QED BY <1>1, <1>2, <1>3, PTL DEF Spec
----
(* The contract. An object shows its owner the block that it holds, and a  *)
(* call is answered in the step that gives or takes the block: the one     *)
(* before it counts, or the one that returns.                              *)

View(x) == IF NoMemory(x) THEN Block(0, 0) ELSE Block(x.ptr, BlockSize(x))

AskedIn(c) == IF c.op = "none" \/ c.pc = "count" THEN -1 ELSE c.new

\* What an owner gets who had x, asked for n and has y then.
Answered(x, y, n) ==
  \/ n = 0 /\ NoMemory(y)
  \/ n > 0 /\ View(y) = View(x)
  \/ n > 0 /\ ~NoMemory(y) /\ BlockSize(y) = n

\* A step of a call shows its owner nothing, or is the answer.
Answers(t, y, c) ==
  /\ objects' = [objects EXCEPT ![call[t].obj] = y]
  /\ call' = [call EXCEPT ![t] = c]
  /\ c = NoCall \/ c.obj = call[t].obj
  /\ \/ View(y) = View(Obj(t)) /\ AskedIn(c) = AskedIn(call[t])
     \/ /\ AskedIn(call[t]) = call[t].new /\ AskedIn(c) = -1
        /\ Answered(Obj(t), y, call[t].new)

LEMMA AskedFacts ==
  /\ AskedIn(NoCall) = -1
  /\ \A t \in Threads : ~Idle(t) /\ call[t].pc # "count" => AskedIn(call[t]) = call[t].new
  BY DEF AskedIn, NoCall, Idle

\* A call that returns with its answer, or goes on to count.
LEMMA AnswersReturn ==
  ASSUME NEW t \in Threads, ~Idle(t), call[t].pc # "count", NEW y, Return(t, y),
         Answered(Obj(t), y, call[t].new)
  PROVE  Answers(t, y, NoCall)
  <1>1. AskedIn(call[t]) = call[t].new /\ AskedIn(NoCall) = -1  BY AskedFacts
  <1> QED BY <1>1 DEF Answers, Return

LEMMA AnswersCount ==
  ASSUME IInv, NEW t \in Threads, ~Idle(t), call[t].pc # "count", NEW y, Goto(t, "count"),
         objects' = [objects EXCEPT ![call[t].obj] = y], Answered(Obj(t), y, call[t].new)
  PROVE  \E c : Answers(t, y, c)
  <1>1. AskedIn(call[t]) = call[t].new  BY AskedFacts
  <1>2. call[t] \in CallType  BY DEF IInv, Types, CallOK
  <1>3. PICK c : c = [call[t] EXCEPT !.pc = "count"]  OBVIOUS
  <1>4. c.pc = "count" /\ c.obj = call[t].obj  BY <1>2, <1>3 DEF CallType
  <1>5. AskedIn(c) = -1  BY <1>4 DEF AskedIn
  <1>6. call' = [call EXCEPT ![t] = c]  BY <1>3 DEF Goto
  <1>7. Answers(t, y, c)  BY <1>1, <1>4, <1>5, <1>6 DEF Answers
  <1> QED BY <1>7

\* A call that only goes on, or only counts.
LEMMA AnswersLater ==
  ASSUME IInv, NEW t \in Threads, ~Idle(t), NEW c, call' = [call EXCEPT ![t] = c],
         c = NoCall \/ c.obj = call[t].obj, AskedIn(c) = AskedIn(call[t]),
         UNCHANGED objects \/ objects' = [objects EXCEPT ![call[t].obj] = Obj(t)]
  PROVE  Answers(t, Obj(t), c)
  <1>1. objects' = [objects EXCEPT ![call[t].obj] = Obj(t)]
    <2>1. call[t].obj \in Objects /\ Obj(t) = objects[call[t].obj]  BY CallFacts DEF Obj
    <2> QED BY <2>1 DEF IInv, Types, ObjectsOK
  <1> QED BY <1>1 DEF Answers

LEMMA AnswersOn ==
  ASSUME IInv, NEW t \in Threads, ~Idle(t), call[t].pc # "count", UNCHANGED objects,
         NEW pc \in {"tcache", "create", "jemalloc"}, Goto(t, pc)
  PROVE  \E y, c : Answers(t, y, c)
  <1>1. call[t] \in CallType  BY DEF IInv, Types, CallOK
  <1>2. PICK c : c = [call[t] EXCEPT !.pc = pc]  OBVIOUS
  <1>3. c.pc = pc /\ c.op = call[t].op /\ c.obj = call[t].obj /\ c.new = call[t].new
    BY <1>1, <1>2 DEF CallType
  <1>4. AskedIn(c) = AskedIn(call[t])  BY <1>3 DEF AskedIn
  <1>5. call' = [call EXCEPT ![t] = c]  BY <1>2 DEF Goto
  <1>6. Answers(t, Obj(t), c)  BY <1>3, <1>4, <1>5, AnswersLater
  <1> QED BY <1>6

\* A block that was allocated or resized has the size that was asked for.
LEMMA PlacedAnswer ==
  ASSUME IInv, Data, NEW t \in Threads, ~Idle(t), NEW p \in Addr, call[t].new > 0
  PROVE  Answered(Obj(t), Allocated(t, p), call[t].new)
  <1>1. p \in 0 .. CAPACITY /\ p # ZeroSizePointer  BY PoolAssumption DEF Addr, ZeroSizePointer
  <1>2. Allocated(t, p).ptr = p /\ BlockSize(Allocated(t, p)) = call[t].new  BY <1>1, AllocatedFacts
  <1>3. ~NoMemory(Allocated(t, p))  BY <1>1, <1>2, PoolPointer
  <1> QED BY <1>2, <1>3 DEF Answered

LEMMA MovedAnswer ==
  ASSUME IInv, Data, NEW t \in Threads, ~Idle(t), NEW p \in Addr, call[t].new > 0,
         CallFits(t), call[t].op = "reallocate", call[t].pc # "count"
  PROVE  Answered(Obj(t), Reallocated(t, p), call[t].new)
  <1>1. p \in 0 .. CAPACITY /\ p # ZeroSizePointer  BY PoolAssumption DEF Addr, ZeroSizePointer
  <1>2. Reallocated(t, p).ptr = p /\ BlockSize(Reallocated(t, p)) = call[t].new
    BY <1>1, ReallocatedFacts
  <1>3. ~NoMemory(Reallocated(t, p))  BY <1>1, <1>2, PoolPointer
  <1> QED BY <1>2, <1>3 DEF Answered

\* A failing call shows its owner the block it had.
LEMMA AllocateFailedView ==
  ASSUME IInv, Data, NEW t \in Threads, ~Idle(t), NoMemory(Obj(t))
  PROVE  View(AllocateFailed(t)) = View(Obj(t))
  <1>1. Obj(t) \in ObjectType  BY ServedTypes
  <1>2. NoMemory(AllocateFailed(t))
    <2>1. CASE Obj(t).use = "input"
      <3>1. [Obj(t) EXCEPT !.ptr = NullPointer].ptr = NullPointer  BY <1>1 DEF ObjectType
      <3> QED BY <2>1, <3>1 DEF AllocateFailed, NoMemory
    <2>2. CASE Obj(t).use # "input"  BY <2>2, NoObjectFacts DEF AllocateFailed
    <2> QED BY <2>1, <2>2
  <1> QED BY <1>2 DEF View

LEMMA ReallocateFailedView ==
  ASSUME IInv, Data, NEW t \in Threads, ~Idle(t)
  PROVE  View(ReallocateFailed(t)) = View(Obj(t))
  <1>1. Obj(t) \in ObjectType  BY ServedTypes
  <1>2. CASE Obj(t).use = "written"
    <2>1. PICK y : y = ReallocateFailed(t)  OBVIOUS
    <2>2. y.use = "kept" /\ y.ptr = Obj(t).ptr /\ y.capacity = Obj(t).capacity
      BY <1>1, <1>2, <2>1 DEF ReallocateFailed, ObjectType
    <2>3. (NoMemory(y) <=> NoMemory(Obj(t))) /\ BlockSize(y) = BlockSize(Obj(t))
      BY <1>2, <2>2 DEF NoMemory, BlockSize
    <2>4. View(y) = View(Obj(t))  BY <2>2, <2>3 DEF View
    <2> QED BY <2>1, <2>4
  <1>3. CASE Obj(t).use # "written"  BY <1>3 DEF ReallocateFailed
  <1> QED BY <1>2, <1>3

\* The simple pool answers at once.
LEMMA SimpleAnswers ==
  ASSUME IInv, IInv', Data, NEW t \in Threads, CallFits(t), SimpleCall(t)
  PROVE  \E y, c : Answers(t, y, c)
  <1>0. kind = "simple" /\ ~Idle(t) /\ call[t].pc # "count"  BY DEF SimpleCall, CallFits
  <1>1. /\ call[t].new \in Nat /\ ZeroSizePointer \in 0 .. CAPACITY
        /\ Obj(t) \in ObjectType /\ Shape(Obj(t))
    BY <1>0, ServedTypes
  <1>2. ASSUME NEW y, Return(t, y), Answered(Obj(t), y, call[t].new)
        PROVE  \E z, c : Answers(t, z, c)
    <2>1. Answers(t, y, NoCall)  BY <1>0, <1>2, AnswersReturn
    <2> QED BY <2>1
  <1> DEFINE p == LinearStart(call[t].alignment)
             n == call[t].new
  <1>3. CASE SimpleAllocateNothing(t)
    <2>1. call[t].new = 0 /\ Return(t, Allocated(t, ZeroSizePointer))
      BY <1>3 DEF SimpleAllocateNothing
    <2>2. Allocated(t, ZeroSizePointer).ptr = ZeroSizePointer  BY DEF Allocated
    <2>3. Answered(Obj(t), Allocated(t, ZeroSizePointer), call[t].new)
      BY <2>1, <2>2 DEF Answered, NoMemory
    <2> QED BY <1>2, <2>1, <2>3
  <1>4. CASE SimpleAllocate(t)
    <2>1. n > 0 /\ NoMemory(Obj(t))  BY <1>0, <1>4 DEF SimpleAllocate, CallFits, NoMemory
    <2>2. CASE LinearAllocate(n, call[t].alignment) /\ Return(t, Allocated(t, p))
      <3>1. p \in Addr  BY <2>1, <2>2, LinearPlaces
      <3>2. Answered(Obj(t), Allocated(t, p), call[t].new)  BY <1>0, <2>1, <3>1, PlacedAnswer
      <3> QED BY <1>2, <2>2, <3>2
    <2>3. CASE Return(t, IF call[t].op = "allocate" THEN AllocateFailed(t) ELSE Obj(t))
      <3>1. PICK y : y = IF call[t].op = "allocate" THEN AllocateFailed(t) ELSE Obj(t)  OBVIOUS
      <3>2. View(y) = View(Obj(t))  BY <1>0, <2>1, <3>1, AllocateFailedView
      <3>3. Return(t, y) /\ Answered(Obj(t), y, call[t].new)  BY <2>1, <2>3, <3>1, <3>2 DEF Answered
      <3> QED BY <1>2, <3>3
    <2> QED BY <1>4, <2>2, <2>3 DEF SimpleAllocate
  <1>5. CASE SimpleReallocate(t)
    <2>1. n > 0 /\ call[t].op = "reallocate"  BY <1>5 DEF SimpleReallocate
    <2>2. CASE LinearAllocate(n, call[t].alignment) /\ Return(t, Reallocated(t, p))
      <3>1. p \in Addr  BY <2>1, <2>2, LinearPlaces
      <3>2. Answered(Obj(t), Reallocated(t, p), call[t].new)  BY <1>0, <2>1, <3>1, MovedAnswer
      <3> QED BY <1>2, <2>2, <3>2
    <2>3. CASE Return(t, ReallocateFailed(t))
      <3>1. Answered(Obj(t), ReallocateFailed(t), call[t].new)
        BY <1>0, <2>1, ReallocateFailedView DEF Answered
      <3> QED BY <1>2, <2>3, <3>1
    <2> QED BY <1>5, <2>2, <2>3 DEF SimpleReallocate
  <1>6. CASE SimpleFree(t)
    <2>1. GivesBack(t) /\ Return(t, GivenBack(t))  BY <1>6 DEF SimpleFree
    <2>2. call[t].new = 0  BY <2>1 DEF GivesBack, CallFits
    <2>3. NoMemory(GivenBack(t))  BY <1>0, <2>1, GivenBackFacts DEF NoMemory
    <2>4. Answered(Obj(t), GivenBack(t), call[t].new)  BY <2>2, <2>3 DEF Answered
    <2> QED BY <1>2, <2>1, <2>4
  <1> QED BY <1>3, <1>4, <1>5, <1>6 DEF SimpleCall

\* The huge page pool answers in the entry of a call, or in the call to jemalloc.
LEMMA EnterAnswers ==
  ASSUME IInv, Data, NEW t \in Threads, ~Idle(t), CallFits(t), HugeEnter(t)
  PROVE  \E y, c : Answers(t, y, c)
  <1>0. /\ call[t].new \in Nat /\ call[t] \in CallType /\ call[t].pc = "enter"
        /\ ~(call[t].op = "none")
    BY ServedTypes DEF HugeEnter, At
  <1>1. CASE /\ call[t].new > 0 /\ UNCHANGED objects
             /\ call' = [call EXCEPT ![t].pc = "tcache",
                            ![t].op = IF Obj(t).ptr = ZeroSizePointer THEN "allocate" ELSE @]
    <2>1. PICK op : op = IF Obj(t).ptr = ZeroSizePointer THEN "allocate" ELSE call[t].op  OBVIOUS
    <2>2. op # "none"  BY <1>0, <2>1
    <2>3. PICK c : c = [call[t] EXCEPT !.pc = "tcache", !.op = op]  OBVIOUS
    <2>4. call' = [call EXCEPT ![t] = c]  BY <1>1, <2>1, <2>3
    <2>5. c.op = op /\ c.pc = "tcache" /\ c.obj = call[t].obj /\ c.new = call[t].new
      BY <1>0, <2>3 DEF CallType
    <2>6. AskedIn(c) = AskedIn(call[t])  BY <1>0, <2>2, <2>5 DEF AskedIn
    <2>7. Answers(t, Obj(t), c)  BY <1>1, <2>4, <2>5, <2>6, AnswersLater
    <2> QED BY <2>7
  <1>2. CASE Goto(t, "tcache") /\ UNCHANGED objects  BY <1>0, <1>2, AnswersOn
  <1>3. CASE /\ call[t].new = 0 /\ Obj(t).ptr = ZeroSizePointer
             /\ Return(t, IF call[t].op = "free" THEN NoObject
                          ELSE IF call[t].op = "allocate" THEN Allocated(t, ZeroSizePointer)
                          ELSE Obj(t))
    <2>1. PICK y : y = IF call[t].op = "free" THEN NoObject
                       ELSE IF call[t].op = "allocate" THEN Allocated(t, ZeroSizePointer)
                       ELSE Obj(t)
      OBVIOUS
    <2>2. Allocated(t, ZeroSizePointer).ptr = ZeroSizePointer  BY DEF Allocated
    <2>3. y.ptr = ZeroSizePointer  BY <1>3, <2>1, <2>2, NoObjectFacts
    <2>4. Answered(Obj(t), y, call[t].new) /\ Return(t, y)
      BY <1>3, <2>1, <2>3 DEF Answered, NoMemory
    <2>5. Answers(t, y, NoCall)  BY <1>0, <2>4, AnswersReturn
    <2> QED BY <2>5
  <1> QED BY <1>1, <1>2, <1>3 DEF HugeEnter

LEMMA HugeAnswers ==
  ASSUME IInv, Data, NEW t \in Threads, CallFits(t), HugeCall(t)
  PROVE  \E y, c : Answers(t, y, c)
  <1>0. ~Idle(t) /\ call[t].new \in Nat /\ call[t].op \in {"allocate", "reallocate", "free"}
    BY ServedTypes DEF HugeCall
  <1>1. ASSUME NEW y, Return(t, y), Answered(Obj(t), y, call[t].new), call[t].pc # "count"
        PROVE  \E z, c : Answers(t, z, c)
    <2>1. Answers(t, y, NoCall)  BY <1>0, <1>1, AnswersReturn
    <2> QED BY <2>1
  <1>2. ASSUME NEW y, Goto(t, "count"), objects' = [objects EXCEPT ![call[t].obj] = y],
               Answered(Obj(t), y, call[t].new), call[t].pc # "count"
        PROVE  \E z, c : Answers(t, z, c)
    <2>1. \E c : Answers(t, y, c)  BY <1>0, <1>2, AnswersCount
    <2> QED BY <2>1
  <1>3. CASE HugeEnter(t)  BY <1>0, <1>3, EnterAnswers
  <1>4. CASE FindTcache(t) \/ CreateTcache(t)
    <2>1. UNCHANGED objects /\ call[t].pc # "count"  BY <1>4 DEF FindTcache, CreateTcache, At
    <2>2. PICK pc \in {"jemalloc", "create"} : Goto(t, pc)  BY <1>4 DEF FindTcache, CreateTcache
    <2> QED BY <1>0, <2>1, <2>2, AnswersOn
  <1>5. CASE Mallocx(t)
    <2>1. call[t].pc = "jemalloc" /\ call[t].op = "allocate"  BY <1>5 DEF Mallocx, At
    <2>2. call[t].new > 0 /\ NoMemory(Obj(t))
      BY <1>0, <2>1 DEF IInv, Space, AsksForSomething, CallFits, NoMemory
    <2>3. CASE \E p \in Addr : /\ objects' = [objects EXCEPT ![call[t].obj] = Allocated(t, p)]
                               /\ Goto(t, "count")
      <3>1. PICK p \in Addr : /\ objects' = [objects EXCEPT ![call[t].obj] = Allocated(t, p)]
                              /\ Goto(t, "count")
        BY <2>3
      <3>2. Answered(Obj(t), Allocated(t, p), call[t].new)  BY <1>0, <2>2, PlacedAnswer
      <3> QED BY <1>2, <2>1, <3>1, <3>2
    <2>4. CASE Return(t, AllocateFailed(t))
      <3>1. Answered(Obj(t), AllocateFailed(t), call[t].new)
        BY <1>0, <2>2, AllocateFailedView DEF Answered
      <3> QED BY <1>1, <2>1, <2>4, <3>1
    <2> QED BY <1>5, <2>3, <2>4 DEF Mallocx
  <1>6. CASE Rallocx(t)
    <2>1. call[t].pc = "jemalloc" /\ call[t].op = "reallocate" /\ call[t].new > 0
      BY <1>6 DEF Rallocx, At
    <2>2. CASE \E p \in Addr : /\ objects' = [objects EXCEPT ![call[t].obj] = Reallocated(t, p)]
                               /\ Goto(t, "count")
      <3>1. PICK p \in Addr : /\ objects' = [objects EXCEPT ![call[t].obj] = Reallocated(t, p)]
                              /\ Goto(t, "count")
        BY <2>2
      <3>2. Answered(Obj(t), Reallocated(t, p), call[t].new)  BY <1>0, <2>1, MovedAnswer
      <3> QED BY <1>2, <2>1, <3>1, <3>2
    <2>3. CASE Return(t, ReallocateFailed(t))
      <3>1. Answered(Obj(t), ReallocateFailed(t), call[t].new)
        BY <1>0, <2>1, ReallocateFailedView DEF Answered
      <3> QED BY <1>1, <2>1, <2>3, <3>1
    <2> QED BY <1>6, <2>2, <2>3 DEF Rallocx
  <1>7. ASSUME GivesBack(t), Return(t, GivenBack(t)), call[t].pc = "jemalloc"
        PROVE  \E y, c : Answers(t, y, c)
    <2>1. call[t].new = 0  BY <1>7 DEF GivesBack, CallFits
    <2>2. NoMemory(GivenBack(t))  BY <1>0, <1>7, GivenBackFacts DEF NoMemory
    <2>3. Answered(Obj(t), GivenBack(t), call[t].new)  BY <2>1, <2>2 DEF Answered
    <2> QED BY <1>1, <1>7, <2>3
  <1>8. CASE Dallocx(t)  BY <1>7, <1>8 DEF Dallocx, At
  <1>9. CASE JemallocOfNull(t)
    <2>1. call[t].pc = "jemalloc" /\ Obj(t).ptr = NullPointer  BY <1>9 DEF JemallocOfNull, At
    <2>2. CASE GivesBack(t)  BY <1>7, <1>9, <2>1, <2>2 DEF JemallocOfNull
    <2>3. CASE ~GivesBack(t)
      <3>1. Return(t, ReallocateFailed(t))  BY <1>9, <2>3 DEF JemallocOfNull
      <3>2. call[t].op # "allocate"
        BY <2>1, PoolAssumption DEF CallFits, ZeroSizePointer, NullPointer
      <3>3. call[t].new > 0  BY <1>0, <2>3, <3>2 DEF GivesBack
      <3>4. Answered(Obj(t), ReallocateFailed(t), call[t].new)
        BY <1>0, <3>3, ReallocateFailedView DEF Answered
      <3> QED BY <1>1, <2>1, <3>1, <3>4
    <2> QED BY <2>2, <2>3
  <1>10. CASE Count(t)
    <2>1. /\ objects' = [objects EXCEPT ![call[t].obj] = Obj(t)]
          /\ call' = [call EXCEPT ![t] = NoCall] /\ call[t].pc = "count"
      BY <1>10 DEF Count, Return, At
    <2>2. AskedIn(NoCall) = -1 /\ AskedIn(call[t]) = -1  BY <2>1, AskedFacts DEF AskedIn
    <2>3. Answers(t, Obj(t), NoCall)  BY <1>0, <2>1, <2>2, AnswersLater
    <2> QED BY <2>3
  <1> QED BY <1>3, <1>4, <1>5, <1>6, <1>8, <1>9, <1>10 DEF HugeCall

LEMMA CallAnswers ==
  ASSUME FullInv, FullInv', NEW t \in Threads, Call(t)
  PROVE  /\ ~Idle(t) /\ UNCHANGED kind
         /\ \E y, c : Answers(t, y, c)
  <1>1. ~Idle(t)  BY DEF Call, SimpleCall, HugeCall
  <1>2. UNCHANGED kind
    <2>1. SimpleCall(t) => UNCHANGED kind
      BY DEF SimpleCall, SimpleAllocateNothing, SimpleAllocate, SimpleReallocate, SimpleFree, simpleRest
    <2>2. HugeCall(t) => UNCHANGED kind
      BY DEF HugeCall, HugeEnter, FindTcache, CreateTcache, Mallocx, Rallocx, Dallocx,
             JemallocOfNull, Count, hugeRest
    <2> QED BY <2>1, <2>2 DEF Call
  <1>3. IInv /\ IInv' /\ Data /\ CallFits(t)  BY <1>1 DEF FullInv, Calls, CallsFit
  <1> QED BY <1>1, <1>2, <1>3, SimpleAnswers, HugeAnswers DEF Call

----
(* What the contract sees of a state.                                      *)

BlocksShown == \A o \in Objects : BlockOf(o) = View(objects[o])

AskedShown ==
  \A o \in Objects :
    /\ \A t \in Threads : ~Idle(t) /\ call[t].obj = o => AskedBy(o) = AskedIn(call[t])
    /\ ~Busy(o) => AskedBy(o) = -1

ViewsFit ==
  \A o \in Objects : ~NoMemory(objects[o]) =>
    /\ View(objects[o]) \in Contract!Block
    /\ View(objects[o]).ptr + View(objects[o]).size <= CAPACITY
    /\ \A p \in Objects \ {o} : Contract!Disjoint(View(objects[o]), View(objects[p]))

Shown == BlocksShown /\ AskedShown /\ ViewsFit

\* Two blocks of the pool do not start at the same address.
LEMMA BlockAt ==
  ASSUME BlocksOK, NEW b \in blocks, NEW c \in blocks, b.ptr = c.ptr
  PROVE  b = c
  <1>1. b.ptr \in Nat /\ b.size \in Nat \ {0} /\ c.ptr \in Nat /\ c.size \in Nat \ {0}
    BY DEF BlocksOK
  <1>2. b # c => Contract!Disjoint(b, c)  BY DEF BlocksOK
  <1> QED BY <1>1, <1>2 DEF Contract!Disjoint

LEMMA FullBlocksShown ==
  ASSUME FullInv
  PROVE  BlocksShown
  <1> SUFFICES ASSUME NEW o \in Objects PROVE BlockOf(o) = View(objects[o])  BY DEF BlocksShown
  <1>1. BlocksOK /\ BumpOK /\ Holds(objects[o], blocks)  BY DEF FullInv, IInv, Space, Data, Owned
  <1>2. CASE NoMemory(objects[o])
    <2>1. ASSUME NEW b \in blocks
          PROVE  b.ptr # objects[o].ptr
      <3>1. b.ptr \in Nat /\ b.size \in Nat \ {0} /\ b.ptr + b.size <= next_free
        BY <1>1 DEF BlocksOK
      <3>2. next_free \in Nat /\ next_free <= CAPACITY /\ CAPACITY \in Nat
        BY <1>1, PoolAssumption DEF BumpOK
      <3>3. objects[o].ptr = CAPACITY \/ objects[o].ptr = CAPACITY + 1
        BY <1>2 DEF NoMemory, ZeroSizePointer, NullPointer
      <3> QED BY <3>1, <3>2, <3>3
    <2> QED BY <1>2, <2>1 DEF BlockOf, View
  <1>3. CASE ~NoMemory(objects[o])
    <2>1. PICK b : b = Block(objects[o].ptr, BlockSize(objects[o]))  OBVIOUS
    <2>2. b \in blocks /\ b.ptr = objects[o].ptr  BY <1>1, <1>3, <2>1 DEF Holds, Block
    <2>3. \A c \in blocks : c.ptr = objects[o].ptr => c = b  BY <1>1, <2>2, BlockAt
    <2>4. BlockOf(o) = b  BY <2>2, <2>3 DEF BlockOf
    <2> QED BY <1>3, <2>1, <2>4 DEF View
  <1> QED BY <1>2, <1>3

LEMMA FullAskedShown ==
  ASSUME FullInv
  PROVE  AskedShown
  <1>1. ASSUME NEW o \in Objects, NEW t \in Threads, ~Idle(t), call[t].obj = o
        PROVE  AskedBy(o) = AskedIn(call[t])
    <2>1. \A u \in Threads : Serving(u, o) => u = t  BY <1>1 DEF Serving, FullInv, Calls, OneCall
    <2>2. CASE call[t].pc = "count"
      <3>1. \A u \in Threads : ~Serving(u, o)  BY <2>1, <2>2 DEF Serving, At
      <3> QED BY <2>2, <3>1 DEF AskedBy, AskedIn
    <2>3. CASE call[t].pc # "count"
      <3>1. Serving(t, o)  BY <1>1, <2>3 DEF Serving, At
      <3>2. (CHOOSE u \in Threads : Serving(u, o)) = t  BY <2>1, <3>1
      <3>3. AskedBy(o) = call[t].new  BY <3>1, <3>2 DEF AskedBy
      <3> QED BY <1>1, <2>3, <3>3, AskedFacts
    <2> QED BY <2>2, <2>3
  <1>2. ASSUME NEW o \in Objects, ~Busy(o)
        PROVE  AskedBy(o) = -1
    BY <1>2 DEF Busy, AskedBy, Serving
  <1> QED BY <1>1, <1>2 DEF AskedShown

LEMMA FullViewsFit ==
  ASSUME FullInv
  PROVE  ViewsFit
  <1> SUFFICES ASSUME NEW o \in Objects, ~NoMemory(objects[o])
               PROVE  /\ View(objects[o]) \in Contract!Block
                      /\ View(objects[o]).ptr + View(objects[o]).size <= CAPACITY
                      /\ \A p \in Objects \ {o} :
                           Contract!Disjoint(View(objects[o]), View(objects[p]))
    BY DEF ViewsFit
  <1>0. BlocksOK /\ BumpOK  BY DEF FullInv, IInv, Space
  <1>1. PICK b : b = View(objects[o])  OBVIOUS
  <1>2. b = Block(objects[o].ptr, BlockSize(objects[o]))  BY <1>1 DEF View
  <1>3. b \in blocks  BY <1>2 DEF FullInv, Data, Owned, Holds
  <1>4. b.ptr \in Nat /\ b.size \in Nat \ {0} /\ b.ptr + b.size <= next_free
        /\ b \in [ptr : Nat, size : Nat \ {0}]
    BY <1>0, <1>3 DEF BlocksOK
  <1>5. next_free \in Nat /\ next_free <= CAPACITY /\ CAPACITY \in Nat
    BY <1>0, PoolAssumption DEF BumpOK
  <1>6. b.ptr \in 0 .. CAPACITY /\ b.size \in 1 .. CAPACITY /\ b.ptr + b.size <= CAPACITY
    BY <1>4, <1>5
  <1>7. b \in Contract!Block  BY <1>4, <1>6 DEF Contract!Block
  <1>8. ASSUME NEW p \in Objects \ {o}
        PROVE  Contract!Disjoint(b, View(objects[p]))
    <2>1. CASE NoMemory(objects[p])
      <3>1. View(objects[p]).ptr = 0 /\ View(objects[p]).size = 0  BY <2>1 DEF View, Block
      <3> QED BY <1>4, <3>1 DEF Contract!Disjoint
    <2>2. CASE ~NoMemory(objects[p])
      <3>1. PICK c : c = View(objects[p])  OBVIOUS
      <3>2. c = Block(objects[p].ptr, BlockSize(objects[p]))  BY <2>2, <3>1 DEF View
      <3>3. c \in blocks  BY <2>2, <3>2 DEF FullInv, Data, Owned, Holds
      <3>4. Held(objects[o]) \cap Held(objects[p]) = {}  BY DEF FullInv, Data, Apart
      <3>5. objects[o].ptr \in Held(objects[o]) /\ objects[p].ptr \in Held(objects[p])
        <4>1. /\ objects[o] \in ObjectType /\ Shape(objects[o]) /\ Holds(objects[o], blocks)
              /\ objects[p] \in ObjectType /\ Shape(objects[p]) /\ Holds(objects[p], blocks)
          BY DEF FullInv, IInv, Types, ObjectsOK, Data, Shapes, Owned
        <4> QED BY <1>0, <2>2, <4>1, HeldFacts
      <3>6. b.ptr = objects[o].ptr /\ c.ptr = objects[p].ptr  BY <1>2, <3>2 DEF Block
      <3>7. b # c  BY <3>4, <3>5, <3>6
      <3> QED BY <1>0, <1>3, <3>1, <3>3, <3>7 DEF BlocksOK
    <2> QED BY <2>1, <2>2
  <1> QED BY <1>1, <1>6, <1>7, <1>8

LEMMA FullShown == FullInv => Shown
  BY FullBlocksShown, FullAskedShown, FullViewsFit DEF Shown

----
(* Every step is one of the contract, or shows nothing.                    *)

SameViews == \A o \in Objects : View(objects'[o]) = View(objects[o])

\* What the next state shows, by the objects and the calls as they are then.
LEMMA ShownNext ==
  ASSUME Shown'
  PROVE  /\ \A o \in Objects : BlockOf(o)' = View(objects'[o])
         /\ \A o \in Objects : \A t \in Threads :
              ~(call'[t].op = "none") /\ call'[t].obj = o => AskedBy(o)' = AskedIn(call'[t])
         /\ \A o \in Objects :
              (\A t \in Threads : call'[t].op = "none" \/ call'[t].obj # o) => AskedBy(o)' = -1
  <1>1. BlocksShown' /\ AskedShown'  BY DEF Shown
  <1>2. \A o \in Objects : BlockOf(o)' = View(objects'[o])
    BY <1>1 DEF BlocksShown, View, NoMemory, BlockSize, Block, ZeroSizePointer, NullPointer
  <1>3. \A o \in Objects : \A t \in Threads :
          ~(call'[t].op = "none") /\ call'[t].obj = o => AskedBy(o)' = AskedIn(call'[t])
    BY <1>1 DEF AskedShown, AskedIn, Idle
  <1>4. \A o \in Objects :
          (\A t \in Threads : call'[t].op = "none" \/ call'[t].obj # o) => AskedBy(o)' = -1
    BY <1>1 DEF AskedShown, Busy, Idle
  <1> QED BY <1>2, <1>3, <1>4

\* The contract answers one owner.
LEMMA ContractServed ==
  ASSUME NEW o \in Objects, NEW b, BlockOf(o)' = b, AskedBy(o)' = -1, UNCHANGED kind,
         \A p \in Objects : p # o => BlockOf(p)' = BlockOf(p) /\ AskedBy(p)' = AskedBy(p)
  PROVE  Contract!Served(o, b)
  BY DEF Contract!Served, Contract!NoCall

LEMMA ContractSame ==
  ASSUME \A p \in Objects : BlockOf(p)' = BlockOf(p) /\ AskedBy(p)' = AskedBy(p), UNCHANGED kind
  PROVE  UNCHANGED Contract!vars
  BY DEF Contract!vars

\* A step that changes no call and no view shows nothing.
LEMMA QuietRefines ==
  ASSUME Shown, Shown', UNCHANGED <<call, kind>>, SameViews
  PROVE  UNCHANGED Contract!vars
  <1> SUFFICES ASSUME NEW o \in Objects
               PROVE  BlockOf(o)' = BlockOf(o) /\ AskedBy(o)' = AskedBy(o)
    BY ContractSame
  <1>1. BlocksShown /\ AskedShown  BY DEF Shown
  <1>2. BlockOf(o)' = View(objects'[o]) /\ BlockOf(o) = View(objects[o])
    BY <1>1, ShownNext DEF BlocksShown
  <1>3. CASE Busy(o)
    <2>1. PICK t \in Threads : ~Idle(t) /\ call[t].obj = o  BY <1>3 DEF Busy
    <2>2. AskedBy(o) = AskedIn(call[t])  BY <1>1, <2>1 DEF AskedShown
    <2>3. ~(call'[t].op = "none") /\ call'[t].obj = o /\ call'[t] = call[t]  BY <2>1 DEF Idle
    <2>4. AskedBy(o)' = AskedIn(call'[t])  BY <2>3, ShownNext
    <2> QED BY <1>2, <2>2, <2>3, <2>4 DEF SameViews
  <1>4. CASE ~Busy(o)
    <2>1. AskedBy(o) = -1  BY <1>1, <1>4 DEF AskedShown
    <2>2. \A t \in Threads : call'[t].op = "none" \/ call'[t].obj # o  BY <1>4 DEF Busy, Idle
    <2>3. AskedBy(o)' = -1  BY <2>2, ShownNext
    <2> QED BY <1>2, <2>1, <2>3 DEF SameViews
  <1> QED BY <1>3, <1>4

\* A step of one thread's call shows nothing of the objects of the others.
LEMMA OthersShown ==
  ASSUME Shown, Shown', OneCall, NEW t \in Threads, NEW o \in Objects, NEW c,
         CallOK, call' = [call EXCEPT ![t] = c], c.op = "none" \/ c.obj = o,
         Idle(t) \/ call[t].obj = o,
         \A p \in Objects : p # o => View(objects'[p]) = View(objects[p])
  PROVE  \A p \in Objects : p # o => BlockOf(p)' = BlockOf(p) /\ AskedBy(p)' = AskedBy(p)
  <1> SUFFICES ASSUME NEW p \in Objects, p # o
               PROVE  BlockOf(p)' = BlockOf(p) /\ AskedBy(p)' = AskedBy(p)
    OBVIOUS
  <1>1. BlocksShown /\ AskedShown  BY DEF Shown
  <1>2. BlockOf(p)' = View(objects'[p]) /\ BlockOf(p) = View(objects[p])
    BY <1>1, ShownNext DEF BlocksShown
  <1>3. BlockOf(p)' = BlockOf(p)  BY <1>2
  <1>4. call'[t] = c /\ \A u \in Threads : u # t => call'[u] = call[u]  BY DEF CallOK
  <1>5. CASE Busy(p)
    <2>1. PICK u \in Threads : ~Idle(u) /\ call[u].obj = p  BY <1>5 DEF Busy
    <2>2. u # t  BY <2>1
    <2>3. AskedBy(p) = AskedIn(call[u])  BY <1>1, <2>1 DEF AskedShown
    <2>4. ~(call'[u].op = "none") /\ call'[u].obj = p /\ call'[u] = call[u]
      BY <1>4, <2>1, <2>2 DEF Idle
    <2>5. AskedBy(p)' = AskedIn(call'[u])  BY <2>4, ShownNext
    <2> QED BY <1>3, <2>3, <2>4, <2>5
  <1>6. CASE ~Busy(p)
    <2>1. AskedBy(p) = -1  BY <1>1, <1>6 DEF AskedShown
    <2>2. \A u \in Threads : call'[u].op = "none" \/ call'[u].obj # p  BY <1>4, <1>6 DEF Busy, Idle
    <2>3. AskedBy(p)' = -1  BY <2>2, ShownNext
    <2> QED BY <1>3, <2>1, <2>3
  <1> QED BY <1>5, <1>6

\* What the object of a thread's call shows before and after a step of it.
LEMMA OwnShown ==
  ASSUME Shown, Shown', OneCall, NEW t \in Threads, ~Idle(t), NEW o \in Objects, o = call[t].obj,
         NEW c, CallOK, call' = [call EXCEPT ![t] = c], c.op = "none" \/ c.obj = o
  PROVE  AskedBy(o) = AskedIn(call[t]) /\ AskedBy(o)' = AskedIn(c)
  <1>1. AskedBy(o) = AskedIn(call[t])  BY DEF Shown, AskedShown
  <1>2. call'[t] = c /\ \A u \in Threads : u # t => call'[u] = call[u]  BY DEF CallOK
  <1>3. CASE c.op # "none"
    <2>1. AskedBy(o)' = AskedIn(call'[t])  BY <1>2, <1>3, ShownNext
    <2> QED BY <1>1, <1>2, <2>1
  <1>4. CASE c.op = "none"
    <2>1. \A u \in Threads : u # t => call[u].op = "none" \/ call[u].obj # o  BY DEF OneCall, Idle
    <2>2. \A u \in Threads : call'[u].op = "none" \/ call'[u].obj # o  BY <1>2, <1>4, <2>1
    <2>3. AskedBy(o)' = -1  BY <2>2, ShownNext
    <2>4. AskedIn(c) = -1  BY <1>4 DEF AskedIn
    <2> QED BY <1>1, <2>3, <2>4
  <1> QED BY <1>3, <1>4

\* A step of a call answers its owner, or shows nothing.
LEMMA CallRefines ==
  ASSUME FullInv, FullInv', Shown, Shown', NEW t \in Threads, Call(t)
  PROVE  [Contract!Next]_(Contract!vars)
  <1>1. ~Idle(t) /\ UNCHANGED kind  BY CallAnswers
  <1>2. PICK y, c : Answers(t, y, c)  BY CallAnswers
  <1>3. CallOK /\ ObjectsOK /\ OneCall /\ IInv /\ Data  BY DEF FullInv, IInv, Types, Calls
  <1>4. PICK o \in Objects : o = call[t].obj  BY <1>1, <1>3, CallFacts
  <1>5. Obj(t) = objects[o] /\ call[t].new \in Nat  BY <1>1, <1>3, <1>4, ServedTypes DEF Obj
  <1>6. objects'[o] = y /\ \A p \in Objects : p # o => objects'[p] = objects[p]
    BY <1>2, <1>3, <1>4 DEF Answers, ObjectsOK
  <1>7. call' = [call EXCEPT ![t] = c] /\ (c.op = "none" \/ c.obj = o)
    BY <1>2, <1>4 DEF Answers, NoCall
  <1>8. \A p \in Objects : p # o => BlockOf(p)' = BlockOf(p) /\ AskedBy(p)' = AskedBy(p)
    <2>1. \A p \in Objects : p # o => View(objects'[p]) = View(objects[p])  BY <1>6
    <2> QED BY <1>3, <1>4, <1>7, <2>1, OthersShown
  <1>9. AskedBy(o) = AskedIn(call[t]) /\ AskedBy(o)' = AskedIn(c)
    BY <1>1, <1>3, <1>4, <1>7, OwnShown
  <1>10. BlockOf(o) = View(objects[o]) /\ BlockOf(o)' = View(y)
    BY <1>6, ShownNext DEF Shown, BlocksShown
  <1>11. CASE View(y) = View(Obj(t)) /\ AskedIn(c) = AskedIn(call[t])
    <2>1. BlockOf(o)' = BlockOf(o) /\ AskedBy(o)' = AskedBy(o)  BY <1>5, <1>9, <1>10, <1>11
    <2>2. UNCHANGED Contract!vars  BY <1>1, <1>8, <2>1, ContractSame
    <2> QED BY <2>2
  <1>12. CASE /\ AskedIn(call[t]) = call[t].new /\ AskedIn(c) = -1
              /\ Answered(Obj(t), y, call[t].new)
    <2>1. AskedBy(o) = call[t].new /\ AskedBy(o)' = -1  BY <1>9, <1>12
    <2>2. Contract!Served(o, View(y))  BY <1>1, <1>8, <1>10, <2>1, ContractServed
    <2>3. CASE call[t].new = 0 /\ NoMemory(y)
      <3>1. View(y) = Contract!Nothing  BY <2>3 DEF View, Block, Contract!Nothing
      <3>2. Contract!Free(o)  BY <2>1, <2>2, <2>3, <3>1 DEF Contract!Free
      <3> QED BY <3>2 DEF Contract!Next
    <2>4. CASE call[t].new > 0 /\ View(y) = View(Obj(t))
      <3>1. View(y) = BlockOf(o)  BY <1>5, <1>10, <2>4
      <3>2. Contract!Served(o, BlockOf(o))  BY <2>2, <3>1
      <3>3. Contract!Fail(o)  BY <2>1, <2>4, <3>2 DEF Contract!Fail
      <3> QED BY <3>3 DEF Contract!Next
    <2>5. CASE call[t].new > 0 /\ ~NoMemory(y) /\ BlockSize(y) = call[t].new
      <3>1. PICK b : b = View(y)  OBVIOUS
      <3>2. b.size = call[t].new  BY <2>5, <3>1 DEF View, Block
      <3>3. /\ b \in Contract!Block /\ b.ptr + b.size <= CAPACITY
            /\ \A p \in Objects \ {o} : Contract!Disjoint(b, View(objects'[p]))
        <4>1. ViewsFit'  BY DEF Shown
        <4>2. ~NoMemory(objects'[o]) /\ View(objects'[o]) = b  BY <1>6, <2>5, <3>1
        <4> QED
          BY <4>1, <4>2 DEF ViewsFit, View, NoMemory, BlockSize, Block, ZeroSizePointer,
             NullPointer, Contract!Block, Contract!Disjoint
      <3>4. \A p \in Objects \ {o} : Contract!Disjoint(b, BlockOf(p))
        <4>1. \A p \in Objects \ {o} : BlockOf(p) = View(objects'[p])  BY <1>8, ShownNext
        <4> QED BY <3>3, <4>1
      <3>5. Contract!Fits(b, o)  BY <3>3, <3>4 DEF Contract!Fits
      <3>6. Contract!Served(o, b)  BY <2>2, <3>1
      <3>7. Contract!Allocate(o)  BY <2>1, <2>5, <3>2, <3>3, <3>5, <3>6 DEF Contract!Allocate
      <3> QED BY <3>7 DEF Contract!Next
    <2> QED BY <1>12, <2>3, <2>4, <2>5 DEF Answered
  <1> QED BY <1>2, <1>11, <1>12 DEF Answers

\* A caller that begins a call asks for a block.
LEMMA BeginRefines ==
  ASSUME FullInv, FullInv', Shown, Shown', NEW t \in Threads, NEW o \in Objects,
         NEW op \in {"allocate", "reallocate", "free"}, NEW old, NEW new, NEW alignment,
         Begin(t, o, op, old, new, alignment), SameViews
  PROVE  [Contract!Next]_(Contract!vars)
  <1>1. kind # "destroyed" /\ UNCHANGED kind /\ Idle(t) /\ ~Busy(o)  BY DEF Begin, memoryVars
  <1>2. PICK c : c = [op |-> op, obj |-> o, old |-> old, new |-> new,
                      alignment |-> alignment, pc |-> "enter"]
    OBVIOUS
  <1>3. call' = [call EXCEPT ![t] = c]  BY <1>2 DEF Begin
  <1>4. c.op = op /\ c.op # "none" /\ c.obj = o /\ c.new = new /\ c.pc = "enter"  BY <1>2
  <1>5. CallOK /\ CallOK' /\ OneCall  BY DEF FullInv, IInv, Types, Calls
  <1>6. call'[t] = c  BY <1>3, <1>5 DEF CallOK
  <1>7. new \in Nat  BY <1>4, <1>5, <1>6 DEF CallOK, CallType
  <1>8. \A p \in Objects : p # o => BlockOf(p)' = BlockOf(p) /\ AskedBy(p)' = AskedBy(p)
    <2>1. \A p \in Objects : p # o => View(objects'[p]) = View(objects[p])  BY DEF SameViews
    <2> QED BY <1>1, <1>3, <1>4, <1>5, <2>1, OthersShown
  <1>9. BlockOf(o)' = BlockOf(o)  BY ShownNext DEF SameViews, Shown, BlocksShown
  <1>10. AskedBy(o) = -1  BY <1>1 DEF Shown, AskedShown
  <1>11. AskedBy(o)' = new
    <2>1. AskedBy(o)' = AskedIn(call'[t])  BY <1>4, <1>6, ShownNext
    <2> QED BY <1>4, <1>6, <2>1 DEF AskedIn
  <1>12. Contract!Ask(o)  BY <1>1, <1>7, <1>8, <1>9, <1>10, <1>11 DEF Contract!Ask, Contract!NoCall
  <1> QED BY <1>12 DEF Contract!Next

LEMMA CallersRefine ==
  ASSUME FullInv, FullInv', Shown, Shown', NEW t \in Threads, NEW o \in Objects, Callers(t, o)
  PROVE  [Contract!Next]_(Contract!vars)
  <1>1. ObjectsOK /\ objects[o] \in ObjectType /\ Shape(objects[o])
    BY DEF FullInv, IInv, Types, ObjectsOK, Data, Shapes
  <1>2. UNCHANGED objects => SameViews  BY DEF SameViews
  <1>3. ASSUME Fresh(o), NEW use, objects' = [objects EXCEPT ![o].use = use]
        PROVE  SameViews
    <2>1. PICK y : y = [objects[o] EXCEPT !.use = use]  OBVIOUS
    <2>2. y.ptr = objects[o].ptr  BY <1>1, <2>1 DEF ObjectType
    <2>3. NoMemory(objects[o]) /\ NoMemory(y)  BY <1>1, <1>3, <2>2 DEF Fresh, Shape, NoMemory
    <2>4. View(y) = View(objects[o])  BY <2>3 DEF View
    <2>5. objects'[o] = y /\ \A p \in Objects : p # o => objects'[p] = objects[p]
      BY <1>1, <1>3, <2>1 DEF ObjectsOK
    <2> QED BY <2>4, <2>5 DEF SameViews
  <1>4. CASE AllocateInput(t, o)
    <2>1. PICK n \in Sizes, a \in Alignments : Begin(t, o, "allocate", 0, n, a)
      BY <1>4 DEF AllocateInput
    <2>2. SameViews  BY <1>3, <1>4 DEF AllocateInput
    <2> QED BY <2>1, <2>2, BeginRefines
  <1>5. CASE ReallocateInput(t, o)
    <2>1. PICK n \in Sizes, a \in Alignments : Begin(t, o, "reallocate", objects[o].size, n, a)
      BY <1>5 DEF ReallocateInput
    <2>2. SameViews  BY <1>2, <1>5 DEF ReallocateInput
    <2> QED BY <2>1, <2>2, BeginRefines
  <1>6. CASE FreeInput(t, o)  BY <1>2, <1>6, BeginRefines DEF FreeInput
  <1>7. CASE AllocateOutput(t, o)
    <2>1. PICK n \in Capacities : Begin(t, o, "allocate", 0, n, DEFAULT_ALIGNMENT)
      BY <1>7 DEF AllocateOutput
    <2>2. SameViews  BY <1>3, <1>7 DEF AllocateOutput
    <2> QED BY <2>1, <2>2, BeginRefines
  <1>8. CASE ShrinkOutput(t, o)  BY <1>2, <1>8, BeginRefines DEF ShrinkOutput
  <1>9. CASE FreeOutput(t, o)  BY <1>2, <1>9, BeginRefines DEF FreeOutput
  <1>10. CASE FreeEnqueued(t, o)  BY <1>2, <1>10, BeginRefines DEF FreeEnqueued
  <1> QED BY <1>4, <1>5, <1>6, <1>7, <1>8, <1>9, <1>10 DEF Callers

\* The manager and the FPGA use the block of a buffer, and leave it where it is.
LEMMA ManagerRefines ==
  ASSUME FullInv, Shown, Shown', NEW o \in Objects, Manager(o)
  PROVE  UNCHANGED Contract!vars
  <1>0. ObjectsOK /\ objects[o] \in ObjectType /\ Shape(objects[o])
    BY DEF FullInv, IInv, Types, ObjectsOK, Data, Shapes
  <1>1. UNCHANGED <<call, kind>>
    BY DEF Manager, EnqueueOutput, FpgaWrites, DeliverFullOutput, memoryVars
  <1>2. ASSUME NEW y, objects' = [objects EXCEPT ![o] = y], y.ptr = objects[o].ptr,
               BlockSize(y) = BlockSize(objects[o])
        PROVE  UNCHANGED Contract!vars
    <2>1. View(y) = View(objects[o])  BY <1>2 DEF View, NoMemory
    <2>2. objects'[o] = y /\ \A p \in Objects : p # o => objects'[p] = objects[p]
      BY <1>0, <1>2 DEF ObjectsOK
    <2>3. SameViews  BY <2>1, <2>2 DEF SameViews
    <2> QED BY <1>1, <2>3, QuietRefines
  <1>3. CASE EnqueueOutput(o)
    <2>1. objects[o].use = "output" /\ objects' = [objects EXCEPT ![o].use = "enqueued"]
      BY <1>3 DEF EnqueueOutput
    <2>2. PICK y : y = [objects[o] EXCEPT !.use = "enqueued"]  OBVIOUS
    <2>3. y.use = "enqueued" /\ y.ptr = objects[o].ptr /\ y.size = objects[o].size
      BY <1>0, <2>2 DEF ObjectType
    <2>4. BlockSize(y) = BlockSize(objects[o])  BY <2>1, <2>3 DEF BlockSize
    <2>5. objects' = [objects EXCEPT ![o] = y]  BY <1>0, <2>1, <2>2 DEF ObjectsOK
    <2> QED BY <1>2, <2>3, <2>4, <2>5
  <1>4. CASE FpgaWrites(o)
    <2>1. PICK n : objects' = [objects EXCEPT ![o].use = "written", ![o].size = n, ![o].valid = n]
      BY <1>4 DEF FpgaWrites
    <2>2. objects[o].use = "enqueued"  BY <1>4 DEF FpgaWrites
    <2>3. PICK y : y = [objects[o] EXCEPT !.use = "written", !.size = n, !.valid = n]  OBVIOUS
    <2>4. y.use = "written" /\ y.ptr = objects[o].ptr /\ y.capacity = objects[o].capacity
      BY <1>0, <2>3 DEF ObjectType
    <2>5. BlockSize(y) = BlockSize(objects[o])  BY <1>0, <2>2, <2>4 DEF BlockSize, Shape
    <2>6. objects' = [objects EXCEPT ![o] = y]  BY <1>0, <2>1, <2>3 DEF ObjectsOK
    <2> QED BY <1>2, <2>4, <2>5, <2>6
  <1>5. CASE DeliverFullOutput(o)
    <2>1. /\ objects[o].use = "written" /\ objects[o].size = objects[o].capacity
          /\ objects' = [objects EXCEPT ![o].use = "delivered"]
      BY <1>5 DEF DeliverFullOutput
    <2>2. PICK y : y = [objects[o] EXCEPT !.use = "delivered"]  OBVIOUS
    <2>3. y.use = "delivered" /\ y.ptr = objects[o].ptr /\ y.size = objects[o].size
      BY <1>0, <2>2 DEF ObjectType
    <2>4. BlockSize(y) = BlockSize(objects[o])  BY <2>1, <2>3 DEF BlockSize
    <2>5. objects' = [objects EXCEPT ![o] = y]  BY <1>0, <2>1, <2>2 DEF ObjectsOK
    <2> QED BY <1>2, <2>3, <2>4, <2>5
  <1> QED BY <1>3, <1>4, <1>5 DEF Manager

\* The pool is destroyed when nobody is in a call of it.
LEMMA PoolGoneRefines ==
  ASSUME Shown, Shown', DestroyPool
  PROVE  [Contract!Next]_(Contract!vars)
  <1>1. kind # "destroyed" /\ kind' = "destroyed" /\ UNCHANGED call /\ \A t \in Threads : Idle(t)
    BY DEF DestroyPool, Unreferenced
  <1>2. blocks' = {}  BY DEF DestroyPool, SimpleDestroy, HugeDestroy
  <1>3. \A o \in Objects : BlockOf(o)' = Contract!Nothing
    BY <1>2 DEF BlockOf, Block, Contract!Nothing
  <1>4. \A o \in Objects : AskedBy(o) = -1  BY <1>1 DEF Shown, AskedShown, Busy
  <1>5. \A o \in Objects : AskedBy(o)' = -1
    <2>1. \A t \in Threads : call'[t].op = "none"  BY <1>1 DEF Idle
    <2> QED BY <2>1, ShownNext
  <1>6. Contract!Destroy  BY <1>1, <1>3, <1>4, <1>5 DEF Contract!Destroy, Contract!NoCall
  <1> QED BY <1>6 DEF Contract!Next

LEMMA StepRefines ==
  ASSUME FullInv, FullInv', Shown, Shown', [Next]_vars
  PROVE  [Contract!Next]_(Contract!vars)
  <1>1. ASSUME UNCHANGED <<objects, call, kind>>
        PROVE  UNCHANGED Contract!vars
    <2>1. SameViews  BY <1>1 DEF SameViews
    <2> QED BY <1>1, <2>1, QuietRefines
  <1>2. ASSUME NEW t \in Threads, Call(t)
        PROVE  [Contract!Next]_(Contract!vars)
    BY <1>2, CallRefines
  <1>3. ASSUME NEW t \in Threads, NEW o \in Objects, Callers(t, o)
        PROVE  [Contract!Next]_(Contract!vars)
    BY <1>3, CallersRefine
  <1>4. ASSUME NEW o \in Objects, Manager(o)
        PROVE  [Contract!Next]_(Contract!vars)
    BY <1>4, ManagerRefines
  <1>5. CASE Posting \/ PreMap
    BY <1>1, <1>5 DEF Posting, Transfer, PostTransfers, PreMap, memoryVars
  <1>6. CASE Closing
    <2>1. CASE DestroyPool  BY <2>1, PoolGoneRefines
    <2>2. CASE StartClosing \/ DestroyManager \/ DestroyTLBManager
      BY <1>1, <2>2 DEF StartClosing, DestroyManager, DestroyTLBManager, memoryVars
    <2> QED BY <1>6, <2>1, <2>2 DEF Closing
  <1>7. CASE UNCHANGED vars  BY <1>1, <1>7 DEF vars, memoryVars
  <1> QED BY <1>2, <1>3, <1>4, <1>5, <1>6, <1>7 DEF Next

LEMMA InitRefines ==
  ASSUME Init, Shown
  PROVE  Contract!Init
  <1>1. \A o \in Objects : BlockOf(o) = Contract!Nothing
    BY DEF Init, BlockOf, Block, Contract!Nothing
  <1>2. \A o \in Objects : AskedBy(o) = -1  BY DEF Init, Shown, AskedShown, Busy, Idle, NoCall
  <1>3. kind # "destroyed"  BY HostAssumption DEF Init
  <1> QED BY <1>1, <1>2, <1>3 DEF Contract!Init, Contract!NoCall

\* Either pool keeps the contract of MemoryPool with its callers: a block appears, changes
\* or goes only in a call of its owner, with the size asked for and beside all others, a
\* call that fails leaves it, and free never fails (memory_pool.cpp, allocate, reallocate
\* and free of both pools, with calls of any number of threads interleaved).
THEOREM PoolImplementsContract == Spec => ImplementsPool
  <1>1. Init => FullInv  BY InitFull
  <1>2. FullInv /\ [Next]_vars => FullInv'  BY FullStep
  <1>3. FullInv => Shown  BY FullShown
  <1>4. Init /\ Shown => Contract!Init  BY InitRefines
  <1>5. FullInv /\ FullInv' /\ Shown /\ Shown' /\ [Next]_vars => [Contract!Next]_(Contract!vars)
    BY StepRefines
  <1> QED BY <1>1, <1>2, <1>3, <1>4, <1>5, PTL DEF Spec, ImplementsPool, Contract!Spec
=============================================================================
