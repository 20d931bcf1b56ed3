--------------------------- MODULE ConfigPathProofs ---------------------------
(***************************************************************************)
(* Proofs about the configuration path.  Its FIFOs implement FifoContract: *)
(* a lemma about one clock edge of a MehdiFIFO with any inputs, and the    *)
(* refinement for all FIFOs of a design.  Every read returns the register  *)
(* at its address, and the discovery finds every config: from what the     *)
(* address space holds, from an invariant of the reads under way, and from *)
(* what the reads of the discovery have returned so far.                   *)
(***************************************************************************)
EXTENDS ConfigPath, NumberInduction, TLAPS

(***************************************************************************)
(* The pointers of a FIFO count modulo DEPTH.                              *)
(***************************************************************************)

\* Counting on from a pointer wraps around at the end of the memory.
LEMMA IndexFacts ==
  ASSUME NEW p \in Addresses, NEW k \in 0 .. DEPTH
  PROVE  /\ Index(p, k) \in Addresses
         /\ Succ(p) \in Addresses
         /\ Index(p, 0) = p
         /\ Index(p, DEPTH) = p
         /\ k < DEPTH => Index(Succ(p), k) = Index(p, k + 1)
         /\ k < DEPTH => Succ(Index(p, k)) = Index(p, k + 1)
  BY DepthAssumption DEF Index, Succ, Addresses

\* Different distances lead to different addresses.
LEMMA IndexInjective ==
  ASSUME NEW p \in Addresses, NEW j \in 0 .. DEPTH - 1, NEW k \in 0 .. DEPTH - 1,
         Index(p, j) = Index(p, k)
  PROVE  j = k
  BY DepthAssumption DEF Index, Addresses

(***************************************************************************)
(* The invariant of a FIFO: the flags and the write pointer follow from    *)
(* the read pointer and the filling level, only a single element is ever   *)
(* hidden, and otherwise the output register holds the oldest element.     *)
(***************************************************************************)

PointersOK(f) ==
  /\ f.write_ptr \in Addresses /\ f.read_ptr \in Addresses
  /\ f.filling_level \in 0 .. DEPTH
  /\ f.write_ptr = Index(f.read_ptr, f.filling_level)

FlagsOK(f) ==
  /\ f.empty \in BOOLEAN /\ f.full \in BOOLEAN /\ f.write_after_empty \in BOOLEAN
  /\ f.empty <=> f.filling_level = 0
  /\ f.full <=> f.filling_level = DEPTH
  /\ f.write_after_empty => f.filling_level = 1

OutputOK(f) ==
  f.filling_level > 0 /\ ~f.write_after_empty => f.o_data = f.memory[f.read_ptr]

MemoryOK(f) == f.memory = [a \in Addresses |-> f.memory[a]]

FifoOK(f) == PointersOK(f) /\ FlagsOK(f) /\ OutputOK(f) /\ MemoryOK(f)

\* A FIFO starts empty.
LEMMA ResetOK ==
  ASSUME NEW x
  PROVE  FifoOK(Reset(x)) /\ Contents(Reset(x)) = <<>>
  <1> DEFINE f == Reset(x)
  <1>1. /\ f.write_ptr = 0 /\ f.read_ptr = 0 /\ f.filling_level = 0
        /\ f.empty = TRUE /\ f.full = FALSE /\ f.write_after_empty = FALSE
        /\ f.memory = [a \in Addresses |-> x]
    BY DEF Reset
  <1> HIDE DEF f
  <1>2. PointersOK(f)  BY <1>1, DepthAssumption DEF PointersOK, Index, Addresses
  <1>5. FlagsOK(f)
    <2>1. (f.empty <=> f.filling_level = 0) /\ (f.full <=> f.filling_level = DEPTH)
      BY <1>1, DepthAssumption
    <2> QED BY <1>1, <2>1, Zenon DEF FlagsOK
  <1>6. OutputOK(f)  BY <1>1 DEF OutputOK
  <1>3. MemoryOK(f)
    <2>1. f.memory = [a \in Addresses |-> x]  BY <1>1
    <2>2. \A a \in Addresses : f.memory[a] = x  BY <2>1
    <2> QED BY <2>1, <2>2, Zenon DEF MemoryOK
  <1>4. Contents(f) = <<>>  BY <1>1 DEF Contents
  <1> QED BY <1>2, <1>3, <1>4, <1>5, <1>6 DEF FifoOK, f

\* What a FIFO shows its user is true of its contents.
LEMMA OutputsOK ==
  ASSUME NEW f, FifoOK(f)
  PROVE  /\ Len(Contents(f)) = f.filling_level
         /\ IReady(f) <=> Len(Contents(f)) < DEPTH
         /\ OValid(f) => Contents(f) # <<>> /\ f.o_data = Head(Contents(f))
  <1>1. f.filling_level \in 0 .. DEPTH /\ f.filling_level \in Nat /\ f.read_ptr \in Addresses
    BY DepthAssumption DEF FifoOK, PointersOK
  <1>2. Len(Contents(f)) = f.filling_level  BY <1>1 DEF Contents
  <1>3. IReady(f) <=> f.filling_level < DEPTH  BY <1>1, DepthAssumption DEF FifoOK, FlagsOK, IReady
  <1>4. ASSUME OValid(f)
        PROVE  Contents(f) # <<>> /\ f.o_data = Head(Contents(f))
    <2>1. f.filling_level > 0 /\ ~f.write_after_empty  BY <1>1, <1>4 DEF OValid, FifoOK, FlagsOK
    <2>2. Contents(f)[1] = f.memory[Index(f.read_ptr, 0)]  BY <1>1, <2>1 DEF Contents
    <2>3. Index(f.read_ptr, 0) = f.read_ptr  BY <1>1, DepthAssumption, IndexFacts
    <2>4. f.o_data = Contents(f)[1]  BY <2>1, <2>2, <2>3 DEF FifoOK, OutputOK
    <2> QED BY <1>1, <1>2, <2>1, <2>4
  <1> QED BY <1>2, <1>3, <1>4

(***************************************************************************)
(* One clock edge.                                                         *)
(***************************************************************************)

\* What a concatenation holds.
LEMMA ConcatFacts ==
  ASSUME NEW V, NEW s \in Seq(V), NEW t \in Seq(V)
  PROVE  /\ s \o t \in Seq(V) /\ Len(s \o t) = Len(s) + Len(t)
         /\ \A k \in 1 .. Len(s) : (s \o t)[k] = s[k]
         /\ \A k \in 1 .. Len(t) : (s \o t)[Len(s) + k] = t[k]
  OBVIOUS

\* A sequence is the function of its elements.
LEMMA SeqIsFunction ==
  ASSUME NEW V, NEW s \in Seq(V)
  PROVE  s = [k \in 1 .. Len(s) |-> s[k]]
  OBVIOUS

\* A FIFO gives out an element exactly when its user sees one and takes it.
LEMMA ReadsWhenValid ==
  ASSUME NEW f, FifoOK(f), NEW i_valid \in BOOLEAN, NEW o_ready \in BOOLEAN
  PROVE  Reads(f, i_valid, o_ready) <=> OValid(f) /\ o_ready
  <1>1. ~(f.write_after_empty /\ f.full)  BY DepthAssumption DEF FifoOK, FlagsOK
  <1>2. f.empty \in BOOLEAN /\ f.full \in BOOLEAN /\ f.write_after_empty \in BOOLEAN
    BY DEF FifoOK, FlagsOK
  <1> QED BY <1>1, <1>2, Zenon DEF Reads, OValid

\* The invariant holds after each clock edge, whatever the inputs are, and the contents
\* have moved as FifoContract says.
LEMMA FifoClocked ==
  ASSUME NEW f, FifoOK(f), NEW i_valid \in BOOLEAN, NEW i_data, NEW o_ready \in BOOLEAN
  PROVE  LET g == Clocked(f, i_valid, i_data, o_ready) IN
         /\ FifoOK(g)
         /\ Contents(g) = (IF OValid(f) /\ o_ready THEN Tail(Contents(f)) ELSE Contents(f))
                          \o (IF i_valid /\ IReady(f) THEN <<i_data>> ELSE <<>>)
  <1> DEFINE g == Clocked(f, i_valid, i_data, o_ready)
             w == Writes(f, i_valid)
             r == Reads(f, i_valid, o_ready)
             n == f.filling_level
             p == f.read_ptr
  <1>g. /\ g.memory = IF w THEN [f.memory EXCEPT ![f.write_ptr] = i_data] ELSE f.memory
        /\ g.o_data = f.memory[ReadPtr(f, r)]
        /\ g.write_ptr = IF w THEN Succ(f.write_ptr) ELSE f.write_ptr
        /\ g.read_ptr = ReadPtr(f, r)
        /\ g.filling_level = Level(f, w, r)
        /\ g.empty = Empty(f, w, r, i_valid)
        /\ g.full = Full(f, w, r, o_ready)
        /\ g.write_after_empty = WriteAfterEmpty(f, w, r)
    BY DEF Clocked
  <1>w. w \in BOOLEAN /\ (w <=> i_valid /\ n < DEPTH)
    BY DepthAssumption DEF Writes, FifoOK, FlagsOK, PointersOK
  <1>r. r \in BOOLEAN /\ (r <=> OValid(f) /\ o_ready)  BY ReadsWhenValid, Zenon DEF Reads
  <1>1. n \in 0 .. DEPTH /\ n \in Nat /\ p \in Addresses /\ f.write_ptr = Index(p, n)
    BY DepthAssumption DEF FifoOK, PointersOK
  <1>2. r => n > 0 /\ ~f.write_after_empty  BY <1>1, <1>r DEF OValid, FifoOK, FlagsOK
  <1>3. f.empty \in BOOLEAN /\ (f.empty <=> n = 0) /\ f.full \in BOOLEAN /\ (f.full <=> n = DEPTH)
        /\ (f.write_after_empty => n = 1)
    BY DEF FifoOK, FlagsOK
  <1>4. n > 0 => (Succ(p) = f.write_ptr <=> n = 1)
    <2>1. Index(p, 1) = Succ(p)
      <3>1. 0 \in 0 .. DEPTH /\ 0 < DEPTH /\ 0 + 1 = 1  BY DepthAssumption
      <3>2. Index(p, 0) = p /\ Succ(Index(p, 0)) = Index(p, 0 + 1)  BY <1>1, <3>1, IndexFacts
      <3> QED BY <3>1, <3>2
    <2>2. CASE n = DEPTH
      <3>1. f.write_ptr = p  BY <1>1, <2>2, IndexFacts
      <3>2. Succ(p) # p  BY <1>1, DepthAssumption DEF Succ, Addresses
      <3> QED BY <2>2, <3>1, <3>2, DepthAssumption
    <2>3. CASE n < DEPTH /\ n > 0
      <3>1. n \in 0 .. DEPTH - 1 /\ 1 \in 0 .. DEPTH - 1  BY <1>1, <2>3, DepthAssumption
      <3> QED BY <1>1, <2>1, <3>1, IndexInjective
    <2> QED BY <1>1, <2>2, <2>3, DepthAssumption
  <1>5. OValid(f) <=> n > 0 /\ ~f.write_after_empty  BY <1>1, <1>3 DEF OValid
  <1> DEFINE start == g.read_ptr
             m == n - (IF r THEN 1 ELSE 0)
  <1>6. start = IF r THEN Succ(p) ELSE p  BY <1>g DEF ReadPtr
  <1>7. /\ g.filling_level = m + (IF w THEN 1 ELSE 0)
        /\ m \in 0 .. DEPTH /\ m \in Nat /\ (w => m \in 0 .. DEPTH - 1)
        /\ (m = 0 <=> n = 0 \/ (r /\ n = 1))
    BY <1>g, <1>w, <1>r, <1>1, <1>2, DepthAssumption DEF Level
  <1>8. g.write_after_empty <=> w /\ m = 0
    BY <1>g, <1>w, <1>r, <1>1, <1>2, <1>3, <1>4, <1>7 DEF WriteAfterEmpty
  <1>e. g.empty <=> ~w /\ m = 0
    BY <1>g, <1>w, <1>r, <1>1, <1>2, <1>3, <1>4, <1>7, DepthAssumption DEF Empty
  <1>f. g.full <=> m + (IF w THEN 1 ELSE 0) = DEPTH
    BY <1>g, <1>w, <1>r, <1>1, <1>2, <1>3, <1>5, <1>7, DepthAssumption DEF Full
  <1>9. start \in Addresses /\ f.write_ptr = Index(start, m)
    <2>1. CASE r
      <3>1. n - 1 \in 0 .. DEPTH /\ n - 1 < DEPTH /\ (n - 1) + 1 = n
        BY <1>1, <1>2, <2>1, DepthAssumption
      <3>2. Index(Succ(p), n - 1) = Index(p, n) /\ Succ(p) \in Addresses  BY <1>1, <3>1, IndexFacts
      <3> QED BY <1>1, <1>6, <2>1, <3>2
    <2>2. CASE ~r
      <3>1. m = n /\ start = p  BY <1>1, <1>6, <2>2
      <3> QED BY <1>1, <3>1
    <2> QED BY <2>1, <2>2
  <1>b. g.empty \in BOOLEAN /\ g.full \in BOOLEAN /\ g.write_after_empty \in BOOLEAN
    BY <1>g, Zenon DEF Empty, Full, WriteAfterEmpty
  <1>k. \A k \in 0 .. DEPTH - 1 : k # m /\ w => Index(start, k) # f.write_ptr
    BY <1>7, <1>9, IndexInjective
  <1>m. \A a \in Addresses : g.memory[a] = IF w /\ a = f.write_ptr THEN i_data ELSE f.memory[a]
    BY <1>g DEF FifoOK, MemoryOK
  <1>d. g.o_data = f.memory[start]  BY <1>g
  <1>x. g.write_ptr = IF w THEN Succ(f.write_ptr) ELSE f.write_ptr  BY <1>g
  <1>y. MemoryOK(g)
    <2>1. CASE w  BY <1>g, <2>1 DEF FifoOK, MemoryOK
    <2>2. CASE ~w  BY <1>g, <2>2 DEF FifoOK, MemoryOK
    <2> QED BY <2>1, <2>2
  <1>i. (i_valid /\ IReady(f)) <=> w  BY DEF IReady, Writes
  <1>c. f.filling_level = n /\ f.read_ptr = p  OBVIOUS
  <1> HIDE DEF g, w, r, n, p, m, start
  <1>10. PointersOK(g)
    <2>1. g.filling_level \in 0 .. DEPTH  BY <1>7, DepthAssumption
    <2>2. g.write_ptr = Index(start, g.filling_level)
      <3>1. CASE w
        <4>1. m \in 0 .. DEPTH /\ m < DEPTH  BY <1>7, <3>1, DepthAssumption
        <4>2. Succ(Index(start, m)) = Index(start, m + 1)  BY <1>9, <4>1, IndexFacts
        <4> QED BY <1>7, <1>9, <1>x, <3>1, <4>2
      <3>2. CASE ~w
        <4>1. g.filling_level = m  BY <1>7, <3>2
        <4> QED BY <1>9, <1>x, <3>2, <4>1
      <3> QED BY <3>1, <3>2
    <2>3. Index(start, g.filling_level) \in Addresses  BY <1>9, <2>1, IndexFacts
    <2> QED BY <1>9, <2>1, <2>2, <2>3 DEF PointersOK, start
  <1>11. FlagsOK(g)
    <2>1. (g.empty <=> g.filling_level = 0) /\ (g.full <=> g.filling_level = DEPTH)
      BY <1>7, <1>e, <1>f, DepthAssumption
    <2>2. g.write_after_empty => g.filling_level = 1  BY <1>7, <1>8
    <2> QED BY <1>b, <2>1, <2>2, Zenon DEF FlagsOK
  <1>12. OutputOK(g)
    <2>1. SUFFICES ASSUME ~g.write_after_empty
                   PROVE  g.memory[start] = f.memory[start]
      BY <1>d DEF OutputOK, start
    <2>2. ~(w /\ m = 0)  BY <1>8, <2>1
    <2>3. 0 \in 0 .. DEPTH - 1 /\ 0 \in 0 .. DEPTH  BY DepthAssumption
    <2>4. Index(start, 0) = start  BY <1>9, <2>3, IndexFacts
    <2>5. ~(w /\ start = f.write_ptr)  BY <1>k, <2>2, <2>3, <2>4
    <2> QED BY <1>9, <1>m, <2>5
  <1>13. Contents(g) = (IF r THEN Tail(Contents(f)) ELSE Contents(f))
                         \o (IF w THEN <<i_data>> ELSE <<>>)
    <2> DEFINE V == {f.memory[a] : a \in Addresses} \cup {i_data}
               C == Contents(f)
               L == IF r THEN Tail(C) ELSE C
               A == IF w THEN <<i_data>> ELSE <<>>
    <2>1. C \in Seq(V) /\ Len(C) = n /\ \A k \in 1 .. n : C[k] = f.memory[Index(p, k - 1)]
      <3>1. \A k \in 1 .. n : Index(p, k - 1) \in Addresses
        <4> SUFFICES ASSUME NEW k \in 1 .. n PROVE Index(p, k - 1) \in Addresses  OBVIOUS
        <4>1. k - 1 \in 0 .. DEPTH  BY <1>1, DepthAssumption
        <4> QED BY <1>1, <4>1, IndexFacts
      <3>2. C = [k \in 1 .. n |-> f.memory[Index(p, k - 1)]]  BY <1>c DEF Contents
      <3>3. \A k \in 1 .. n : f.memory[Index(p, k - 1)] \in V  BY <3>1
      <3> HIDE DEF C, V
      <3> QED BY <1>1, <3>2, <3>3
    <2> HIDE DEF C, V
    <2>2. L \in Seq(V) /\ Len(L) = m /\ \A k \in 1 .. m : L[k] = f.memory[Index(start, k - 1)]
      <3>1. CASE r
        <4>1. L = Tail(C) /\ C # <<>> /\ m = n - 1 /\ start = Succ(p)
          BY <1>1, <1>2, <1>6, <2>1, <3>1 DEF m
        <4>2. L \in Seq(V) /\ Len(L) = m /\ \A k \in 1 .. m : L[k] = C[k + 1]  BY <1>1, <2>1, <4>1
        <4>3. ASSUME NEW k \in 1 .. m
              PROVE  L[k] = f.memory[Index(start, k - 1)]
          <5>1. k - 1 \in 0 .. DEPTH /\ k - 1 < DEPTH /\ (k - 1) + 1 = k /\ k + 1 \in 1 .. n
                /\ (k + 1) - 1 = k
            BY <1>1, <1>7, <4>1, DepthAssumption
          <5>2. Index(Succ(p), k - 1) = Index(p, k)  BY <1>1, <5>1, IndexFacts
          <5>3. C[k + 1] = f.memory[Index(p, k)]  BY <2>1, <5>1
          <5> QED BY <4>1, <4>2, <5>2, <5>3
        <4> QED BY <4>2, <4>3
      <3>2. CASE ~r
        <4>1. L = C /\ m = n /\ start = p  BY <1>1, <1>6, <3>2 DEF m
        <4> QED BY <2>1, <4>1
      <3> QED BY <3>1, <3>2
    <2>3. A \in Seq(V) /\ Len(A) = (IF w THEN 1 ELSE 0) /\ (w => A[1] = i_data)  BY DEF V
    <2> HIDE DEF L, A
    <2>c. /\ L \o A \in Seq(V) /\ Len(L \o A) = Len(L) + Len(A)
          /\ \A k \in 1 .. Len(L) : (L \o A)[k] = L[k]
          /\ \A k \in 1 .. Len(A) : (L \o A)[Len(L) + k] = A[k]
      <3>1. L \in Seq(V) /\ A \in Seq(V)  BY <2>2, <2>3
      <3> QED BY <3>1
    <2>4. L \o A \in Seq(V) /\ Len(L \o A) = g.filling_level  BY <1>7, <2>c, <2>2, <2>3
    <2>5. \A k \in 1 .. g.filling_level : (L \o A)[k] = g.memory[Index(start, k - 1)]
      <3> SUFFICES ASSUME NEW k \in 1 .. g.filling_level
                   PROVE  (L \o A)[k] = g.memory[Index(start, k - 1)]
        OBVIOUS
      <3>1. CASE k \in 1 .. m
        <4>1. (L \o A)[k] = L[k]  BY <2>2, <2>c, <3>1
        <4>2. k - 1 \in 0 .. DEPTH - 1 /\ k - 1 \in 0 .. DEPTH /\ k - 1 # m
          BY <1>7, <3>1, DepthAssumption
        <4>3. Index(start, k - 1) \in Addresses  BY <1>9, <4>2, IndexFacts
        <4>4. ~(w /\ Index(start, k - 1) = f.write_ptr)  BY <1>k, <4>2
        <4>5. g.memory[Index(start, k - 1)] = f.memory[Index(start, k - 1)]  BY <1>m, <4>3, <4>4
        <4> QED BY <2>2, <3>1, <4>1, <4>5
      <3>2. CASE k \notin 1 .. m
        <4>1. w /\ k = m + 1  BY <1>7, <3>2
        <4>2. (L \o A)[k] = i_data
          <5>1. 1 \in 1 .. Len(A) /\ k = Len(L) + 1  BY <2>2, <2>3, <4>1
          <5> QED BY <2>3, <2>c, <4>1, <5>1
        <4>3. Index(start, k - 1) = f.write_ptr /\ f.write_ptr \in Addresses
          BY <1>7, <1>9, <4>1, IndexFacts
        <4> QED BY <1>m, <4>1, <4>2, <4>3
      <3> QED BY <3>1, <3>2
    <2>6. Contents(g) = [k \in 1 .. g.filling_level |-> g.memory[Index(start, k - 1)]]
      BY DEF Contents, start
    <2>8. L \o A = [k \in 1 .. g.filling_level |-> (L \o A)[k]]  BY <2>4, SeqIsFunction
    <2>7. Contents(g) = L \o A  BY <2>5, <2>6, <2>8, Zenon
    <2> QED BY <2>7 DEF L, A, C
  <1>14. FifoOK(g)  BY <1>10, <1>11, <1>12, <1>y DEF FifoOK
  <1> QED BY <1>13, <1>14, <1>i, <1>r DEF g

(***************************************************************************)
(* All FIFOs of a design.                                                  *)
(***************************************************************************)

FifosOK == \A q \in FifoIds : FifoOK(fifos[q])

\* What is offered and taken is true or false.
LEMMA InputsBoolean ==
  ASSUME NEW q
  PROVE  InValid(q) \in BOOLEAN /\ OutReady(q) \in BOOLEAN
  <1>1. InValid(q) \in BOOLEAN  BY Zenon DEF InValid, WritesTo
  <1>2. OutReady(q) \in BOOLEAN  BY Zenon DEF OutReady, RegisterReady
  <1> QED BY <1>1, <1>2

fifoPorts == <<fifos, pre_read, split_write, files, regs, skids, ready>>

\* Software does not reach the FIFOs but through the hardware in front of them.
LEMMA SoftwareSteps ==
  ASSUME [Next]_vars
  PROVE  ClockFifos \/ UNCHANGED fifoPorts
  <1>1. CASE Clock  BY <1>1 DEF Clock, ClockHardware
  <1>2. CASE Discover  BY <1>2 DEF Discover, Issue, fifoPorts, writeVars, readVars
  <1>3. ASSUME NEW t \in Threads, ReadRegister(t)
        PROVE  UNCHANGED fifoPorts
    BY <1>3 DEF ReadRegister, Issue, fifoPorts, writeVars, readVars
  <1>4. ASSUME NEW t, NEW writes, setCSR(t, writes)
        PROVE  UNCHANGED fifoPorts
    BY <1>4 DEF setCSR, fifoPorts, writeVars, readVars
  <1>5. ASSUME NEW t, NEW writes, Call(t, writes)
        PROVE  UNCHANGED fifoPorts
    BY <1>4, <1>5 DEF Call
  <1>6. ASSUME NEW t \in Threads, Continue(t)
        PROVE  UNCHANGED fifoPorts
    BY <1>4, <1>6 DEF Continue
  <1>7. CASE Configure
    <2>1. PICK v \in VAddrs, n \in Sizes :
            configure_ring_buffer(0, v + MEMORY_ALIGNMENT_BYTES
                                       * Len(sent[Register(REPLAY_BUFFER_CONFIG_ID, 1)]), n)
      BY <1>7, Zenon DEF Configure
    <2> QED BY <2>1, <1>5, Zenon DEF configure_ring_buffer
  <1>8. ASSUME NEW t \in Threads, Calls(t)
        PROVE  UNCHANGED fifoPorts
    BY <1>5, <1>8, Zenon
       DEF Calls, enqueue_buffer, flush_buffers, enqueue_stream_config, enqueue_num_reads, write_register
  <1>9. CASE UNCHANGED vars  BY <1>9 DEF vars, hardwareVars, fifoPorts, writeVars, readVars
  <1> QED BY <1>1, <1>2, <1>3, <1>6, <1>7, <1>8, <1>9, Zenon DEF Next

\* The contract's variables only depend on these ports.
LEMMA PortsUnchanged ==
  ASSUME UNCHANGED fifoPorts
  PROVE  UNCHANGED Queue!vars
  <1>1. /\ fifos' = fifos /\ pre_read' = pre_read /\ split_write' = split_write
        /\ files' = files /\ regs' = regs /\ skids' = skids /\ ready' = ready
    BY DEF fifoPorts
  <1>2. \A q : InValid(q)' = InValid(q)  BY <1>1, Zenon DEF InValid, WritesTo, Requested, PortReady
  <1>3. \A q : InData(q)' = InData(q)  BY <1>1, <1>2, Zenon DEF InData
  <1>4. \A q : OutReady(q)' = OutReady(q)  BY <1>1, Zenon DEF OutReady, RegTaken
  <1> QED BY <1>1, <1>2, <1>3, <1>4 DEF Queue!vars

\* Each FIFO of the design takes and gives on a clock edge what its flags say.
LEMMA FifoEdge ==
  ASSUME FifosOK, ClockFifos, NEW q \in FifoIds
  PROVE  /\ FifoOK(fifos[q])'
         /\ Contents(fifos'[q]) =
              (IF OValid(fifos[q]) /\ OutReady(q) THEN Tail(Contents(fifos[q]))
               ELSE Contents(fifos[q]))
              \o (IF InValid(q) /\ IReady(fifos[q]) THEN <<InData(q)>> ELSE <<>>)
  <1>1. fifos'[q] = Clocked(fifos[q], InValid(q), InData(q), OutReady(q))  BY DEF ClockFifos
  <1>2. FifoOK(fifos[q])  BY DEF FifosOK
  <1> DEFINE f == fifos[q]
             a == InValid(q)
             b == InData(q)
             c == OutReady(q)
  <1>3. a \in BOOLEAN /\ c \in BOOLEAN  BY InputsBoolean
  <1> HIDE DEF f, a, b, c
  <1>4. /\ FifoOK(Clocked(f, a, b, c))
        /\ Contents(Clocked(f, a, b, c)) =
             (IF OValid(f) /\ c THEN Tail(Contents(f)) ELSE Contents(f))
             \o (IF a /\ IReady(f) THEN <<b>> ELSE <<>>)
    <2>1. FifoOK(f)  BY <1>2 DEF f
    <2> QED BY <1>3, <2>1, FifoClocked
  <1> QED BY <1>1, <1>4, Zenon DEF f, a, b, c

\* The FIFOs stay well-formed, and each clock edge is one of the contract.
LEMMA ClockEdge ==
  ASSUME FifosOK, ClockFifos
  PROVE  FifosOK' /\ Queue!Clock
  <1>1. ASSUME NEW q \in FifoIds
        PROVE  /\ FifoOK(fifos[q])'
               /\ Contents(fifos'[q]) =
                    (IF OValid(fifos[q]) /\ OutReady(q) THEN Tail(Contents(fifos[q]))
                     ELSE Contents(fifos[q]))
                    \o (IF InValid(q) /\ IReady(fifos[q]) THEN <<InData(q)>> ELSE <<>>)
    BY FifoEdge
  <1>2. FifosOK'  BY <1>1 DEF FifosOK
  <1>3. ASSUME NEW q \in FifoIds
        PROVE  Queue!Outputs(q)'
    <2>1. FifoOK(fifos'[q])  BY <1>1
    <2> QED BY <2>1, OutputsOK DEF Queue!Outputs
  <1>4. ASSUME NEW q \in FifoIds
        PROVE  Contents(fifos'[q]) = Queue!Left(q) \o Queue!Pushed(q)
    BY <1>1 DEF Queue!Left, Queue!Pushed
  <1> QED BY <1>2, <1>3, <1>4 DEF Queue!Clock

\* Every FIFO of every design, for every depth from 4 on and whatever reaches it from
\* software, is the queue its users rely on: the hidden element, the wrapping pointers and
\* the flags that are computed ahead never lose, repeat or reorder an element.
THEOREM FifosImplementContract == Spec => ImplementsFifo
  <1>1. Init => FifosOK /\ Queue!Init
    <2> SUFFICES ASSUME Init PROVE FifosOK /\ Queue!Init  OBVIOUS
    <2>1. \A q \in FifoIds : fifos[q] = Reset(Undefined)  BY DEF Init, HardwareInit
    <2>2. \A q \in FifoIds : FifoOK(fifos[q]) /\ Contents(fifos[q]) = <<>>  BY <2>1, ResetOK
    <2>3. \A q \in FifoIds : Queue!Outputs(q)  BY <2>2, OutputsOK DEF Queue!Outputs
    <2> QED BY <2>2, <2>3 DEF FifosOK, Queue!Init
  <1>2. FifosOK /\ [Next]_vars => FifosOK' /\ [Queue!Clock]_Queue!vars
    <2> SUFFICES ASSUME FifosOK, [Next]_vars
                 PROVE  FifosOK' /\ [Queue!Clock]_Queue!vars
      OBVIOUS
    <2>1. CASE ClockFifos  BY <2>1, ClockEdge
    <2>2. CASE UNCHANGED fifoPorts
      <3>1. fifos' = fifos  BY <2>2 DEF fifoPorts
      <3>2. FifosOK'  BY <3>1 DEF FifosOK
      <3> QED BY <2>2, <3>2, PortsUnchanged
    <2> QED BY <2>1, <2>2, SoftwareSteps
  <1> QED BY <1>1, <1>2, PTL DEF Spec, ImplementsFifo, Queue!Spec

(***************************************************************************)
(* The address space.                                                      *)
(***************************************************************************)

N == NUM_CONFIGS

Ids == {MEM_CONFIG_ID, STREAM_CONFIG_ID, REPLAY_BUFFER_CONFIG_ID, GENERIC_CONFIG_ID}

\* The fields of a config in the design.
LEMMA DesignFacts ==
  /\ N \in Nat
  /\ \A c \in Configs : /\ Design[c].size \in Nat /\ Design[c].n \in Nat /\ Design[c].in \in Seq(Int)
                        /\ Design[c].id \in Ids
  <1>1. PICK R : R = [id : Ids, n : Nat, size : Nat, in : Seq(Int)]  OBVIOUS
  <1>2. Design \in Seq(R)  BY <1>1, DesignAssumption DEF Ids
  <1>3. Len(Design) \in Nat /\ \A c \in 1 .. Len(Design) : Design[c] \in R  BY <1>2
  <1>4. \A r \in R : r.size \in Nat /\ r.n \in Nat /\ r.in \in Seq(Int) /\ r.id \in Ids  BY <1>1
  <1> QED BY <1>3, <1>4, Zenon DEF N, NUM_CONFIGS, Configs

\* The first read register of every config is its id.
LEMMA RegistersHaveId ==
  ASSUME NEW c \in Configs
  PROVE  Len(ReadRegisters(c)) \in Nat /\ Len(ReadRegisters(c)) >= 1 /\ ReadRegisters(c)[1] = Design[c].id
  <1>0. c \in Configs /\ c # 0 /\ Design[c].in \in Seq(Int)  BY DesignFacts DEF Configs
  <1>i. Design[c].id \in {MEM_CONFIG_ID, STREAM_CONFIG_ID, REPLAY_BUFFER_CONFIG_ID, GENERIC_CONFIG_ID}
    BY DesignFacts DEF Ids
  <1>d. /\ MEM_CONFIG_ID = 0 /\ STREAM_CONFIG_ID = 1 /\ REPLAY_BUFFER_CONFIG_ID = 2 /\ GENERIC_CONFIG_ID = -1
    BY DEF MEM_CONFIG_ID, STREAM_CONFIG_ID, REPLAY_BUFFER_CONFIG_ID, GENERIC_CONFIG_ID
  <1>1. CASE Design[c].id = MEM_CONFIG_ID
    <2>1. ReadRegisters(c) = <<Design[c].id, Design[c].n, DEPTH, EMPTY_STREAM_CONSUMES_BUFFER>>
      BY <1>0, <1>1, <1>d DEF ReadRegisters
    <2> QED BY <2>1
  <1>2. CASE Design[c].id = STREAM_CONFIG_ID
    <2>1. ReadRegisters(c) = <<Design[c].id, Design[c].n>>  BY <1>0, <1>2, <1>d DEF ReadRegisters
    <2> QED BY <2>1
  <1>3. CASE Design[c].id = REPLAY_BUFFER_CONFIG_ID
    <2>1. ReadRegisters(c) = <<Design[c].id, Design[c].n, DEPTH, TRANSFER_SIZE>>
      BY <1>0, <1>3, <1>d DEF ReadRegisters
    <2> QED BY <2>1
  <1>4. CASE Design[c].id = GENERIC_CONFIG_ID
    <2>1. ReadRegisters(c) = <<Design[c].id>> \o Design[c].in  BY <1>0, <1>4, <1>d DEF ReadRegisters
    <2>2. <<Design[c].id>> \in Seq({Design[c].id}) /\ Len(<<Design[c].id>>) = 1 /\ <<Design[c].id>>[1] = Design[c].id
      OBVIOUS
    <2>3. PICK V : V = Int \cup {Design[c].id}  OBVIOUS
    <2>4. <<Design[c].id>> \in Seq(V) /\ Design[c].in \in Seq(V)  BY <1>0, <2>3
    <2>5. PICK a, b : a = <<Design[c].id>> /\ b = Design[c].in  OBVIOUS
    <2>6. a \in Seq(V) /\ b \in Seq(V) /\ Len(a) = 1 /\ a[1] = Design[c].id  BY <2>2, <2>4, <2>5
    <2>7. Len(a \o b) = Len(a) + Len(b) /\ \A k \in 1 .. Len(a) : (a \o b)[k] = a[k]
      BY <2>6, ConcatFacts
    <2>8. Len(a \o b) >= 1 /\ (a \o b)[1] = Design[c].id /\ Len(a \o b) \in Nat  BY <2>6, <2>7
    <2> QED BY <2>1, <2>5, <2>8
  <1> QED BY <1>i, <1>1, <1>2, <1>3, <1>4

\* So no config has an empty address space.
LEMMA SizesPositive == \A c \in Configs : Design[c].size >= 1
  BY DesignAssumption, DesignFacts, RegistersHaveId

\* Bound, up to the port n.
IsBound(f, n) ==
  f = [p \in 0 .. n |-> IF p = 0 THEN 0 ELSE IF p = 1 THEN NUM_GLOBAL_REGS ELSE f[p - 1] + Design[p - 1].size]

\* The definition of Bound by recursion has a solution.
LEMMA BoundExists ==
  ASSUME NEW n \in Nat
  PROVE  \E f : IsBound(f, n)
  <1>1. PICK S : S = {m \in Nat : \E f : IsBound(f, m)}  OBVIOUS
  <1>2. 0 \in S
    <2>1. IsBound([p \in 0 .. 0 |-> 0], 0)  BY DEF IsBound
    <2> QED BY <1>1, <2>1
  <1>3. ASSUME NEW m \in Nat, m \in S PROVE m + 1 \in S
    <2>1. PICK f : IsBound(f, m)  BY <1>1, <1>3
    <2>2. PICK x : x = IF m + 1 = 1 THEN NUM_GLOBAL_REGS ELSE f[m] + Design[m].size  OBVIOUS
    <2>3. PICK g : g = [p \in 0 .. m + 1 |-> IF p = m + 1 THEN x ELSE f[p]]  OBVIOUS
    <2>4. ASSUME NEW p \in 0 .. m + 1
          PROVE  g[p] = IF p = 0 THEN 0 ELSE IF p = 1 THEN NUM_GLOBAL_REGS ELSE g[p - 1] + Design[p - 1].size
      <3>1. CASE p = m + 1
        <4>1. g[p] = x /\ p - 1 = m /\ p # 0 /\ m \in 0 .. m + 1 /\ m # m + 1  BY <3>1, <2>3, <1>3
        <4>2. g[m] = f[m]  BY <4>1, <2>3
        <4> QED BY <3>1, <4>1, <4>2, <2>2
      <3>2. CASE p # m + 1
        <4>1. p \in 0 .. m /\ g[p] = f[p]  BY <3>2, <2>3
        <4>2. f[p] = IF p = 0 THEN 0 ELSE IF p = 1 THEN NUM_GLOBAL_REGS ELSE f[p - 1] + Design[p - 1].size
          BY <4>1, <2>1 DEF IsBound
        <4>3. p # 0 => p - 1 \in 0 .. m + 1 /\ p - 1 # m + 1  BY <4>1
        <4>4. p # 0 => g[p - 1] = f[p - 1]  BY <4>3, <2>3
        <4> QED BY <4>1, <4>2, <4>4
      <3> QED BY <3>1, <3>2
    <2>5. IsBound(g, m + 1)
      <3>1. g = [p \in 0 .. m + 1 |-> g[p]]  BY <2>3
      <3> QED BY <3>1, <2>4 DEF IsBound
    <2> QED BY <1>1, <2>5
  <1>4. \A m \in Nat : m \in S  BY <1>2, <1>3, SetInduction
  <1>5. n \in S  BY <1>4
  <1> QED BY <1>1, <1>5

\* Bound is that solution for all ports.
LEMMA BoundIs == IsBound(Bound, N + 1)
  <1>1. Bound = CHOOSE f : IsBound(f, N + 1)  BY DEF Bound, IsBound, N
  <1>2. N + 1 \in Nat  BY DesignFacts
  <1> QED BY <1>1, <1>2, BoundExists

\* Where the address spaces begin: the global registers first, then config after config.
LEMMA BoundSteps ==
  /\ Bound[0] = 0 /\ Bound[1] = 2 + N
  /\ \A c \in Configs : Bound[c + 1] = Bound[c] + Design[c].size
  <1>1. Bound = [p \in 0 .. N + 1 |-> IF p = 0 THEN 0 ELSE IF p = 1 THEN NUM_GLOBAL_REGS ELSE Bound[p - 1] + Design[p - 1].size]
    BY BoundIs DEF IsBound
  <1>2. \A p \in 0 .. N + 1 : Bound[p] = IF p = 0 THEN 0 ELSE IF p = 1 THEN NUM_GLOBAL_REGS ELSE Bound[p - 1] + Design[p - 1].size
    BY <1>1
  <1>3. 0 \in 0 .. N + 1 /\ 1 \in 0 .. N + 1  BY DesignFacts
  <1>4. Bound[0] = 0 /\ Bound[1] = 2 + N  BY <1>2, <1>3 DEF NUM_GLOBAL_REGS, N
  <1>5. ASSUME NEW c \in Configs PROVE Bound[c + 1] = Bound[c] + Design[c].size
    <2>1. c + 1 \in 0 .. N + 1 /\ c + 1 # 0 /\ c + 1 # 1 /\ (c + 1) - 1 = c
      BY DesignFacts DEF Configs, N
    <2> QED BY <1>2, <2>1
  <1> QED BY <1>4, <1>5

\* The bounds are numbers that grow.
LEMMA BoundsGrow ==
  /\ \A p \in 0 .. N + 1 : Bound[p] \in Nat
  /\ \A p \in Ports : Bound[p] < Bound[p + 1]
  <1>1. PICK S : S = {n \in Nat : n <= N + 1 => Bound[n] \in Nat}  OBVIOUS
  <1>2. 0 \in S  BY <1>1, BoundSteps
  <1>3. ASSUME NEW n \in Nat, n \in S PROVE n + 1 \in S
    <2>1. CASE n = 0  BY <2>1, <1>1, BoundSteps, DesignFacts
    <2>2. CASE n # 0 /\ n + 1 <= N + 1
      <3>1. n \in Configs /\ n <= N + 1  BY <2>2, DesignFacts DEF Configs, N
      <3>2. Bound[n] \in Nat /\ Bound[n + 1] = Bound[n] + Design[n].size /\ Design[n].size \in Nat
        BY <3>1, <1>1, <1>3, BoundSteps, DesignFacts
      <3> QED BY <3>2, <1>1
    <2>3. CASE ~ (n + 1 <= N + 1)  BY <2>3, <1>1
    <2> QED BY <2>1, <2>2, <2>3
  <1>4. \A n \in Nat : n \in S  BY <1>2, <1>3, SetInduction
  <1>5. \A p \in 0 .. N + 1 : Bound[p] \in Nat  BY <1>1, <1>4, DesignFacts
  <1>6. ASSUME NEW p \in Ports PROVE Bound[p] < Bound[p + 1]
    <2>1. CASE p = 0  BY <2>1, BoundSteps, DesignFacts
    <2>2. CASE p # 0
      <3>1. p \in Configs /\ p \in 0 .. N + 1  BY <2>2, DesignFacts DEF Configs, Ports, N
      <3>2. Bound[p + 1] = Bound[p] + Design[p].size /\ Design[p].size >= 1 /\ Design[p].size \in Nat /\ Bound[p] \in Nat
        BY <3>1, <1>5, BoundSteps, SizesPositive, DesignFacts
      <3> QED BY <3>2
    <2> QED BY <2>1, <2>2
  <1> QED BY <1>5, <1>6

\* The address spaces are in the order of the ports.
LEMMA BoundsMonotone ==
  ASSUME NEW p \in 0 .. N + 1, NEW q \in 0 .. N + 1, p <= q
  PROVE  Bound[p] <= Bound[q]
  <1>1. PICK S : S = {n \in Nat : p + n <= N + 1 => Bound[p] <= Bound[p + n]}  OBVIOUS
  <1>2. 0 \in S  BY <1>1, BoundsGrow
  <1>3. ASSUME NEW n \in Nat, n \in S PROVE n + 1 \in S
    <2>1. ASSUME p + (n + 1) <= N + 1 PROVE Bound[p] <= Bound[p + (n + 1)]
      <3>1. p + n \in Ports /\ p + n <= N + 1 /\ (p + n) + 1 = p + (n + 1) /\ p + n \in 0 .. N + 1 /\ p + (n + 1) \in 0 .. N + 1
        BY <2>1, DesignFacts DEF Ports, N
      <3>2. Bound[p] <= Bound[p + n]  BY <3>1, <1>1, <1>3
      <3>3. Bound[p + n] < Bound[p + (n + 1)]  BY <3>1, BoundsGrow
      <3>4. Bound[p] \in Nat /\ Bound[p + n] \in Nat /\ Bound[p + (n + 1)] \in Nat
        BY <3>1, BoundsGrow
      <3> QED BY <3>2, <3>3, <3>4
    <2> QED BY <2>1, <1>1
  <1>4. \A n \in Nat : n \in S  BY <1>2, <1>3, SetInduction
  <1>5. q - p \in Nat /\ p + (q - p) = q /\ q <= N + 1  BY DesignFacts
  <1>6. q - p \in S  BY <1>4, <1>5
  <1> QED BY <1>1, <1>5, <1>6

----
(* What a port answers is what AllRegisters has at the address.             *)

\* The address space of a config: its registers, then zeros.
Regs(c) == [k \in 1 .. Design[c].size |-> IF k <= Len(ReadRegisters(c)) THEN ReadRegisters(c)[k] ELSE 0]
GlobalValues == {GlobalRegisters[k] : k \in 1 .. 2 + N}
ConfigValues == UNION {{Regs(c)[k] : k \in 1 .. Design[c].size} : c \in Configs}
Contained == ConfigValues \cup GlobalValues
RegsOf == [c \in Configs |-> Regs(c)]

\* A function over 1 .. n is a sequence.
LEMMA SequenceOf ==
  ASSUME NEW V, NEW n \in Nat, NEW r, r = [k \in 1 .. n |-> r[k]], \A k \in 1 .. n : r[k] \in V
  PROVE  r \in Seq(V) /\ Len(r) = n
  OBVIOUS

\* The address space of a config as a sequence.
LEMMA RegsFacts ==
  ASSUME NEW c \in Configs
  PROVE  /\ Regs(c) \in Seq(Contained) /\ Len(Regs(c)) = Design[c].size
         /\ \A k \in 1 .. Design[c].size : Regs(c)[k] = IF k <= Len(ReadRegisters(c)) THEN ReadRegisters(c)[k] ELSE 0
  <1>1. Design[c].size \in Nat  BY DesignFacts
  <1>2. PICK n : n = Design[c].size  OBVIOUS
  <1>3. PICK r : r = Regs(c)  OBVIOUS
  <1>4. r = [k \in 1 .. n |-> IF k <= Len(ReadRegisters(c)) THEN ReadRegisters(c)[k] ELSE 0]
    BY <1>2, <1>3 DEF Regs
  <1>5. \A k \in 1 .. n : r[k] = IF k <= Len(ReadRegisters(c)) THEN ReadRegisters(c)[k] ELSE 0
    BY <1>4
  <1>6. ASSUME NEW k \in 1 .. n PROVE r[k] \in Contained
    <2>1. Regs(c)[k] \in {Regs(c)[j] : j \in 1 .. Design[c].size}  BY <1>2, Zenon
    <2>2. Regs(c)[k] \in UNION {{Regs(d)[j] : j \in 1 .. Design[d].size} : d \in Configs}
      BY <2>1, Zenon
    <2> QED BY <2>2, <1>3, Zenon DEF Contained, ConfigValues
  <1>7. r = [k \in 1 .. n |-> r[k]]  BY <1>4
  <1>8. r \in Seq(Contained) /\ Len(r) = n
    <2>1. n \in Nat  BY <1>1, <1>2
    <2> QED BY <2>1, <1>6, <1>7, SequenceOf, Zenon
  <1> QED BY <1>2, <1>3, <1>5, <1>8

\* The global registers as a sequence.
LEMMA GlobalFacts ==
  /\ GlobalRegisters \in Seq(Contained) /\ Len(GlobalRegisters) = 2 + N
  /\ GlobalRegisters[1] = SYSTEM_ID /\ GlobalRegisters[2] = N
  /\ \A c \in Configs : GlobalRegisters[2 + c] = Bound[c + 1]
  <1>1. PICK a : a = <<SYSTEM_ID, NUM_CONFIGS>>  OBVIOUS
  <1>2. PICK b : b = [c \in Configs |-> Bound[c + 1]]  OBVIOUS
  <1>3. PICK V : V = {SYSTEM_ID, NUM_CONFIGS} \cup Nat  OBVIOUS
  <1>4. a \in Seq(V) /\ Len(a) = 2 /\ a[1] = SYSTEM_ID /\ a[2] = N  BY <1>1, <1>3 DEF N
  <1>5. \A c \in 1 .. N : Bound[c + 1] \in Nat  BY BoundsGrow, DesignFacts
  <1>6. b \in Seq(V) /\ Len(b) = N
    <2>1. b = [c \in 1 .. N |-> Bound[c + 1]]  BY <1>2 DEF Configs, N
    <2>2. \A c \in 1 .. N : b[c] = Bound[c + 1]  BY <2>1
    <2>3. \A c \in 1 .. N : b[c] \in V  BY <2>2, <1>3, <1>5
    <2>4. b = [c \in 1 .. N |-> b[c]]  BY <2>1
    <2>5. N \in Nat  BY DesignFacts
    <2> QED BY <2>3, <2>4, <2>5, SequenceOf, Zenon
  <1>7. GlobalRegisters = a \o b  BY <1>1, <1>2 DEF GlobalRegisters
  <1>8. /\ a \o b \in Seq(V) /\ Len(a \o b) = Len(a) + Len(b)
        /\ \A k \in 1 .. Len(a) : (a \o b)[k] = a[k]
        /\ \A k \in 1 .. Len(b) : (a \o b)[Len(a) + k] = b[k]
    <2>1. a \in Seq(V) /\ b \in Seq(V)  BY <1>4, <1>6
    <2> QED BY <2>1
  <1>9. PICK g : g = GlobalRegisters  OBVIOUS
  <1>10. g \in Seq(V) /\ Len(g) = 2 + N /\ g[1] = SYSTEM_ID /\ g[2] = N /\ \A c \in 1 .. N : g[2 + c] = b[c]
    BY <1>4, <1>6, <1>7, <1>8, <1>9
  <1>11. \A c \in 1 .. N : b[c] = Bound[c + 1]  BY <1>2 DEF Configs, N
  <1>12. ASSUME NEW k \in 1 .. 2 + N PROVE g[k] \in Contained
    <2>1. \E j \in 1 .. 2 + N : GlobalRegisters[k] = GlobalRegisters[j]  OBVIOUS
    <2>2. \A x : x \in GlobalValues <=> \E j \in 1 .. 2 + N : x = GlobalRegisters[j]
      BY Zenon DEF GlobalValues
    <2>3. GlobalRegisters[k] \in GlobalValues  BY <2>1, <2>2
    <2>4. GlobalValues \subseteq Contained  BY Zenon DEF Contained
    <2> QED BY <2>3, <2>4, <1>9
  <1>13. g \in Seq(Contained)
    <2>1. g = [k \in 1 .. 2 + N |-> g[k]] /\ 2 + N \in Nat  BY <1>10, DesignFacts
    <2> QED BY <2>1, <1>12
  <1> QED BY <1>9, <1>10, <1>11, <1>13 DEF Configs, N

\* What FlattenSeq computes, on the way to its last element.
IsFlat(f, q) == f = [i \in 1 .. Len(q) |-> IF i = 1 THEN q[i] ELSE f[i - 1] \o q[i]]

\* FlattenSeq as its definition has it.
LEMMA FlatIs ==
  ASSUME NEW q, Len(q) # 0
  PROVE  FlattenSeq(q) = (CHOOSE f : IsFlat(f, q))[Len(q)]
  BY DEF FlattenSeq, IsFlat

\* The same for the first n sequences.
IsFlatTo(f, q, n) == f = [i \in 1 .. n |-> IF i = 1 THEN q[i] ELSE f[i - 1] \o q[i]]

\* The recursion of FlattenSeq has a solution.
LEMMA FlatExists ==
  ASSUME NEW q, NEW n \in Nat
  PROVE  \E f : IsFlatTo(f, q, n)
  <1>1. PICK S : S = {m \in Nat : \E f : IsFlatTo(f, q, m)}  OBVIOUS
  <1>2. 0 \in S
    <2>1. IsFlatTo([i \in 1 .. 0 |-> 0], q, 0)  BY DEF IsFlatTo
    <2> QED BY <1>1, <2>1
  <1>3. ASSUME NEW m \in Nat, m \in S PROVE m + 1 \in S
    <2>1. PICK f : IsFlatTo(f, q, m)  BY <1>1, <1>3
    <2>2. PICK x : x = IF m + 1 = 1 THEN q[m + 1] ELSE f[m] \o q[m + 1]  OBVIOUS
    <2>3. PICK g : g = [i \in 1 .. m + 1 |-> IF i = m + 1 THEN x ELSE f[i]]  OBVIOUS
    <2>4. ASSUME NEW i \in 1 .. m + 1
          PROVE  g[i] = IF i = 1 THEN q[i] ELSE g[i - 1] \o q[i]
      <3>1. CASE i = m + 1 /\ i = 1  BY <3>1, <2>2, <2>3
      <3>2. CASE i = m + 1 /\ i # 1
        <4>1. g[i] = x /\ i - 1 = m /\ m \in 1 .. m + 1 /\ m # m + 1 /\ m + 1 # 1
          BY <3>2, <2>3, <1>3
        <4>2. g[m] = f[m]  BY <4>1, <2>3
        <4> QED BY <3>2, <4>1, <4>2, <2>2
      <3>3. CASE i # m + 1
        <4>1. i \in 1 .. m /\ g[i] = f[i]  BY <3>3, <2>3
        <4>2. f[i] = IF i = 1 THEN q[i] ELSE f[i - 1] \o q[i]  BY <4>1, <2>1 DEF IsFlatTo
        <4>3. i # 1 => i - 1 \in 1 .. m + 1 /\ i - 1 # m + 1  BY <4>1
        <4>4. i # 1 => g[i - 1] = f[i - 1]  BY <4>3, <2>3
        <4> QED BY <4>1, <4>2, <4>4
      <3> QED BY <3>1, <3>2, <3>3
    <2>5. IsFlatTo(g, q, m + 1)
      <3>1. g = [i \in 1 .. m + 1 |-> g[i]]  BY <2>3
      <3> QED BY <3>1, <2>4 DEF IsFlatTo
    <2> QED BY <1>1, <2>5
  <1>4. \A m \in Nat : m \in S  BY <1>2, <1>3, SetInduction
  <1>5. n \in S  BY <1>4
  <1> QED BY <1>1, <1>5

\* The first n configs have their registers one after the other.
Laid(f, n) ==
  /\ f \in Seq(Contained) /\ Len(f) = Bound[n + 1] - Bound[1]
  /\ \A c \in 1 .. n : \A k \in 1 .. Design[c].size : f[Bound[c] - Bound[1] + k] = Regs(c)[k]

\* Another config is laid behind the n ones.
LEMMA LaidNext ==
  ASSUME NEW n \in Nat, n >= 1, n + 1 \in Configs, NEW f, Laid(f, n)
  PROVE  Laid(f \o Regs(n + 1), n + 1)
  <1>1. PICK r : r = Regs(n + 1)  OBVIOUS
  <1>2. r \in Seq(Contained) /\ Len(r) = Design[n + 1].size  BY <1>1, RegsFacts
  <1>3. f \in Seq(Contained) /\ Len(f) = Bound[n + 1] - Bound[1]  BY DEF Laid
  <1>4. /\ f \o r \in Seq(Contained) /\ Len(f \o r) = Len(f) + Len(r)
        /\ \A k \in 1 .. Len(f) : (f \o r)[k] = f[k]
        /\ \A k \in 1 .. Len(r) : (f \o r)[Len(f) + k] = r[k]
    <2>1. f \in Seq(Contained) /\ r \in Seq(Contained)  BY <1>2, <1>3
    <2> QED BY <2>1
  <1>5. n + 1 <= N /\ n + 1 \in 0 .. N + 1 /\ 1 \in 0 .. N + 1 /\ (n + 1) + 1 \in 0 .. N + 1 /\ N \in Nat
    BY DesignFacts DEF Configs, N
  <1>6. Bound[(n + 1) + 1] = Bound[n + 1] + Design[n + 1].size  BY BoundSteps
  <1>7. Bound[n + 1] \in Nat /\ Bound[1] \in Nat /\ Bound[(n + 1) + 1] \in Nat /\ Design[n + 1].size \in Nat
    BY <1>5, BoundsGrow, DesignFacts
  <1>8. Len(f \o r) = Bound[(n + 1) + 1] - Bound[1]
    <2>1. PICK b1, b2, b3, z : b1 = Bound[1] /\ b2 = Bound[n + 1] /\ b3 = Bound[(n + 1) + 1] /\ z = Design[n + 1].size
      OBVIOUS
    <2>2. b1 \in Nat /\ b2 \in Nat /\ b3 \in Nat /\ z \in Nat /\ b3 = b2 + z  BY <2>1, <1>6, <1>7
    <2>3. Len(f) = b2 - b1 /\ Len(r) = z /\ Len(f \o r) = Len(f) + Len(r)  BY <2>1, <1>2, <1>3, <1>4
    <2>4. Len(f \o r) = b3 - b1  BY <2>2, <2>3
    <2> QED BY <2>1, <2>4
  <1>9. ASSUME NEW c \in 1 .. n + 1, NEW k \in 1 .. Design[c].size
        PROVE  (f \o r)[Bound[c] - Bound[1] + k] = Regs(c)[k]
    <2>1. CASE c = n + 1
      <3>1. Bound[c] - Bound[1] + k = Len(f) + k /\ k \in 1 .. Len(r)  BY <2>1, <1>2, <1>3
      <3> QED BY <3>1, <1>1, <1>4, <2>1
    <2>2. CASE c # n + 1
      <3>1. c \in 1 .. n /\ c \in Configs /\ c \in 0 .. N + 1 /\ c + 1 \in 0 .. N + 1 /\ c + 1 <= n + 1 /\ 1 <= c
        BY <2>2, <1>5 DEF Configs, N
      <3>2. f[Bound[c] - Bound[1] + k] = Regs(c)[k]  BY <3>1 DEF Laid
      <3>3. Bound[c + 1] = Bound[c] + Design[c].size /\ Bound[c + 1] <= Bound[n + 1] /\ Bound[1] <= Bound[c]
        BY <3>1, <1>5, BoundSteps, BoundsMonotone
      <3>4. Bound[c] \in Nat /\ Bound[c + 1] \in Nat /\ Design[c].size \in Nat
        BY <3>1, BoundsGrow, DesignFacts
      <3>5. PICK j : j = Bound[c] - Bound[1] + k  OBVIOUS
      <3>6. j \in 1 .. Len(f)
        <4>1. PICK b1, b2, b3, b4, z : /\ b1 = Bound[1] /\ b2 = Bound[n + 1] /\ b3 = Bound[c] /\ b4 = Bound[c + 1]
                                        /\ z = Design[c].size
          OBVIOUS
        <4>2. b1 \in Nat /\ b2 \in Nat /\ b3 \in Nat /\ b4 \in Nat /\ z \in Nat /\ b4 = b3 + z /\ b4 <= b2 /\ b1 <= b3
          BY <4>1, <3>3, <3>4, <1>7
        <4>3. k \in 1 .. z /\ j = b3 - b1 + k /\ Len(f) = b2 - b1  BY <4>1, <3>5, <1>3
        <4> QED BY <4>2, <4>3
      <3>7. (f \o r)[j] = f[j]  BY <3>6, <1>4
      <3> QED BY <3>2, <3>5, <3>7
    <2> QED BY <2>1, <2>2
  <1>10. Laid(f \o r, n + 1)  BY <1>4, <1>8, <1>9 DEF Laid
  <1> QED BY <1>1, <1>10

\* The first config is laid.
LEMMA LaidFirst ==
  ASSUME 1 \in Configs
  PROVE  Laid(Regs(1), 1)
  <1>1. PICK r : r = Regs(1)  OBVIOUS
  <1>2. r \in Seq(Contained) /\ Len(r) = Design[1].size  BY <1>1, RegsFacts
  <1>3. Bound[1 + 1] = Bound[1] + Design[1].size /\ Bound[1] \in Nat /\ Design[1].size \in Nat
    BY BoundSteps, BoundsGrow, DesignFacts
  <1>4. ASSUME NEW c \in 1 .. 1, NEW k \in 1 .. Design[c].size
        PROVE  r[Bound[c] - Bound[1] + k] = Regs(c)[k]
    <2>1. c = 1 /\ k \in Nat  BY <1>3
    <2>2. Bound[c] - Bound[1] + k = k  BY <2>1, <1>3
    <2> QED BY <2>1, <2>2, <1>1
  <1>5. Laid(r, 1)  BY <1>2, <1>3, <1>4 DEF Laid
  <1> QED BY <1>1, <1>5

\* FlattenSeq lays all configs one after the other.
LEMMA FlatLaid == Laid(FlattenSeq(RegsOf), N)
  <1>1. N \in Nat /\ N >= 1 /\ 1 \in Configs
    <2>1. \E c \in Configs : HasId(c, MEM_CONFIG_ID)  BY DesignAssumption
    <2> QED BY <2>1, DesignFacts DEF Configs, N
  <1>2. PICK q : q = RegsOf  OBVIOUS
  <1>3. Len(q) = N /\ \A c \in 1 .. N : q[c] = Regs(c)  BY <1>1, <1>2 DEF RegsOf, Configs, N
  <1>4. PICK f : f = CHOOSE g : IsFlat(g, q)  OBVIOUS
  <1>5. IsFlat(f, q)
    <2>1. \E g : IsFlat(g, q)
      <3>1. PICK g : IsFlatTo(g, q, N)  BY <1>1, FlatExists
      <3>2. IsFlat(g, q)  BY <3>1, <1>3 DEF IsFlat, IsFlatTo
      <3> QED BY <3>2
    <2> QED BY <1>4, <2>1
  <1>6. \A i \in 1 .. N : f[i] = IF i = 1 THEN q[i] ELSE f[i - 1] \o q[i]
    <2>1. f = [i \in 1 .. N |-> IF i = 1 THEN q[i] ELSE f[i - 1] \o q[i]]  BY <1>5, <1>3 DEF IsFlat
    <2> QED BY <2>1
  <1>7. PICK S : S = {n \in Nat : n + 1 <= N => Laid(f[n + 1], n + 1)}  OBVIOUS
  <1>8. 0 \in S
    <2>1. f[1] = Regs(1)  BY <1>1, <1>3, <1>6
    <2>2. Laid(f[0 + 1], 0 + 1)  BY <2>1, <1>1, LaidFirst
    <2> QED BY <1>7, <2>2
  <1>9. ASSUME NEW n \in Nat, n \in S PROVE n + 1 \in S
    <2>1. ASSUME (n + 1) + 1 <= N PROVE Laid(f[(n + 1) + 1], (n + 1) + 1)
      <3>1. PICK m : m = n + 1  OBVIOUS
      <3>2. m \in Nat /\ m >= 1 /\ m <= N /\ m + 1 \in 1 .. N /\ m + 1 # 1 /\ (m + 1) - 1 = m
        BY <1>1, <2>1, <3>1
      <3>3. Laid(f[m], m)  BY <1>7, <1>9, <3>1, <3>2
      <3>4. f[m + 1] = f[m] \o Regs(m + 1)  BY <3>2, <1>3, <1>6
      <3>5. m + 1 \in Configs  BY <3>2 DEF Configs, N
      <3>6. Laid(f[m] \o Regs(m + 1), m + 1)  BY <3>2, <3>3, <3>5, LaidNext
      <3> QED BY <3>1, <3>4, <3>6
    <2> QED BY <2>1, <1>7
  <1>10. \A n \in Nat : n \in S  BY <1>8, <1>9, SetInduction
  <1>11. Laid(f[N], N)
    <2>1. N - 1 \in Nat /\ (N - 1) + 1 = N  BY <1>1
    <2>2. N - 1 \in S  BY <2>1, <1>10
    <2> QED BY <2>1, <2>2, <1>1, <1>7
  <1>12. FlattenSeq(q) = f[N]  BY <1>1, <1>3, <1>4, FlatIs
  <1> QED BY <1>2, <1>11, <1>12

\* The port of an address answers with the register at that address.
LEMMA AddressRead ==
  ASSUME NEW p \in Ports, NEW a \in Nat, Bound[p] <= a, a < Bound[p + 1]
  PROVE  Value(p, a - Bound[p]) = AllRegisters[a + 1]
  <1>1. PICK g, f : g = GlobalRegisters /\ f = FlattenSeq(RegsOf)  OBVIOUS
  <1>2. AllRegisters = g \o f  BY <1>1 DEF AllRegisters, RegsOf, Regs
  <1>3. f \in Seq(Contained) /\ Len(f) = Bound[N + 1] - Bound[1]
        /\ \A c \in 1 .. N : \A k \in 1 .. Design[c].size : f[Bound[c] - Bound[1] + k] = Regs(c)[k]
    BY <1>1, FlatLaid DEF Laid
  <1>4. g \in Seq(Contained) /\ Len(g) = 2 + N  BY <1>1, GlobalFacts
  <1>5. /\ \A k \in 1 .. Len(g) : (g \o f)[k] = g[k]
        /\ \A k \in 1 .. Len(f) : (g \o f)[Len(g) + k] = f[k]
    BY <1>3, <1>4, ConcatFacts
  <1>6. N \in Nat /\ Bound[0] = 0 /\ Bound[1] = 2 + N /\ p \in 0 .. N /\ p \in 0 .. N + 1 /\ p + 1 \in 0 .. N + 1 /\ N + 1 \in 0 .. N + 1
    BY DesignFacts, BoundSteps DEF Ports, N
  <1>7. Bound[p] \in Nat /\ Bound[p + 1] \in Nat /\ Bound[N + 1] \in Nat /\ Bound[p + 1] <= Bound[N + 1]
    BY <1>6, BoundsGrow, BoundsMonotone
  <1>8. CASE p = 0
    <2>1. a + 1 \in 1 .. Len(g) /\ a - Bound[p] = a  BY <1>4, <1>6, <1>7, <1>8
    <2>2. ReadRegisters(p) = g  BY <1>1, <1>8 DEF ReadRegisters
    <2>3. Value(p, a) = g[a + 1]  BY <2>1, <2>2, <1>4, <1>6 DEF Value
    <2> QED BY <2>1, <2>3, <1>2, <1>5
  <1>9. CASE p # 0
    <2>1. p \in Configs /\ p \in 1 .. N  BY <1>6, <1>9 DEF Configs, N
    <2>2. PICK k : k = a - Bound[p] + 1  OBVIOUS
    <2>3. Bound[p + 1] = Bound[p] + Design[p].size /\ Design[p].size \in Nat /\ Bound[1] <= Bound[p] /\ 1 \in 0 .. N + 1 /\ 1 <= p
      BY <2>1, <1>6, BoundSteps, DesignFacts, BoundsMonotone
    <2>4. k \in 1 .. Design[p].size  BY <2>2, <2>3, <1>7
    <2>5. PICK j : j = Bound[p] - Bound[1] + k  OBVIOUS
    <2>6. j \in 1 .. Len(f) /\ Len(g) + j = a + 1
      <3>1. PICK b0, b1, b2, b3, z : /\ b0 = Bound[1] /\ b1 = Bound[p] /\ b2 = Bound[p + 1] /\ b3 = Bound[N + 1]
                                      /\ z = Design[p].size
        OBVIOUS
      <3>2. /\ b0 \in Nat /\ b1 \in Nat /\ b2 \in Nat /\ b3 \in Nat /\ z \in Nat
            /\ b2 = b1 + z /\ b2 <= b3 /\ b0 <= b1 /\ b0 = 2 + N
        <4>1. Bound[1] \in Nat  BY <1>6
        <4> QED BY <3>1, <4>1, <2>3, <1>6, <1>7
      <3>3. k = a - b1 + 1 /\ j = b1 - b0 + k /\ Len(f) = b3 - b0 /\ Len(g) = 2 + N
        BY <3>1, <2>2, <2>5, <1>3, <1>4
      <3>4. k \in 1 .. z  BY <3>1, <2>4
      <3>5. N \in Nat  BY <1>6
      <3> QED BY <3>2, <3>3, <3>4, <3>5
    <2>7. (g \o f)[a + 1] = f[j] /\ f[j] = Regs(p)[k]  BY <2>1, <2>4, <2>5, <2>6, <1>3, <1>5
    <2>8. Regs(p)[k] = IF k <= Len(ReadRegisters(p)) THEN ReadRegisters(p)[k] ELSE 0
      BY <2>1, <2>4, RegsFacts
    <2>9. Len(ReadRegisters(p)) \in Nat  BY <2>1, RegistersHaveId
    <2>10. PICK b : b = a - Bound[p]  OBVIOUS
    <2>11. b \in Nat /\ b + 1 = k /\ (b < Len(ReadRegisters(p)) <=> k <= Len(ReadRegisters(p)))
      BY <2>2, <2>9, <2>10, <1>7
    <2>12. Value(p, b) = Regs(p)[k]  BY <2>8, <2>11 DEF Value
    <2> QED BY <2>7, <2>10, <2>12, <1>2
  <1> QED BY <1>8, <1>9

\* An address belongs to the port whose space it is in.
LEMMA PortOf ==
  ASSUME NEW p \in Ports, NEW a \in Nat, Bound[p] <= a, a < Bound[p + 1]
  PROVE  ReadPort(a) = p
  <1>1. N \in Nat /\ \A r \in Ports : r \in 0 .. N + 1 /\ r + 1 \in 0 .. N + 1 /\ r \in Nat /\ r <= N
    BY DesignFacts DEF Ports, N
  <1>2. \A r \in 0 .. N + 1 : Bound[r] \in Nat  BY BoundsGrow
  <1>3. ASSUME NEW r \in Ports, a >= Bound[r], r = NUM_CONFIGS \/ a < Bound[r + 1]
        PROVE  r = p
    <2>1. CASE r < p
      <3>1. r + 1 <= p /\ r # NUM_CONFIGS  BY <1>1, <2>1 DEF N
      <3>2. Bound[r + 1] <= Bound[p]  BY <3>1, <1>1, BoundsMonotone
      <3> QED BY <3>1, <3>2, <1>1, <1>2, <1>3
    <2>2. CASE p < r
      <3>1. p + 1 <= r  BY <1>1, <2>2
      <3>2. Bound[p + 1] <= Bound[r]  BY <3>1, <1>1, BoundsMonotone
      <3> QED BY <3>2, <1>1, <1>2, <1>3
    <2> QED BY <2>1, <2>2, <1>1
  <1>4. a >= Bound[p] /\ (p = NUM_CONFIGS \/ a < Bound[p + 1])  BY <1>1, <1>2
  <1>5. PICK r : r = ReadPort(a)  OBVIOUS
  <1>6. r \in Ports /\ a >= Bound[r] /\ (r = NUM_CONFIGS \/ a < Bound[r + 1])
    BY <1>4, <1>5 DEF ReadPort
  <1> QED BY <1>3, <1>5, <1>6

\* The addresses that have a register.
Addrs == 0 .. Bound[N + 1] - 1

\* Every address belongs to a port.
LEMMA AddressHasPort ==
  ASSUME NEW a \in Addrs
  PROVE  \E p \in Ports : Bound[p] <= a /\ a < Bound[p + 1]
  <1>1. N \in Nat /\ Bound[0] = 0 /\ Bound[N + 1] \in Nat /\ a \in Nat /\ a < Bound[N + 1]
    BY DesignFacts, BoundSteps, BoundsGrow DEF Addrs
  <1>2. PICK S : S = {n \in Nat : n <= N + 1 => (a < Bound[n] => \E p \in Ports : Bound[p] <= a /\ a < Bound[p + 1])}
    OBVIOUS
  <1>3. 0 \in S  BY <1>1, <1>2
  <1>4. ASSUME NEW n \in Nat, n \in S PROVE n + 1 \in S
    <2>1. ASSUME n + 1 <= N + 1, a < Bound[n + 1] PROVE \E p \in Ports : Bound[p] <= a /\ a < Bound[p + 1]
      <3>1. n \in Ports /\ n <= N + 1 /\ n \in 0 .. N + 1  BY <1>1, <2>1 DEF Ports, N
      <3>2. Bound[n] \in Nat  BY <3>1, BoundsGrow
      <3>3. CASE a < Bound[n]  BY <3>1, <3>3, <1>2, <1>4
      <3>4. CASE Bound[n] <= a  BY <3>1, <3>4, <2>1
      <3> QED BY <3>2, <3>3, <3>4, <1>1
    <2> QED BY <2>1, <1>2
  <1>5. \A n \in Nat : n \in S  BY <1>3, <1>4, SetInduction
  <1>6. N + 1 \in S /\ N + 1 <= N + 1  BY <1>1, <1>5
  <1> QED BY <1>1, <1>2, <1>6

\* The port of an address answers with its register.
LEMMA RegisterAt ==
  ASSUME NEW a \in Addrs
  PROVE  /\ ReadPort(a) \in Ports /\ a \in Nat
         /\ Value(ReadPort(a), a - Bound[ReadPort(a)]) = AllRegisters[a + 1]
  <1>1. PICK p \in Ports : Bound[p] <= a /\ a < Bound[p + 1]  BY AddressHasPort
  <1>2. a \in Nat  BY DEF Addrs
  <1>3. ReadPort(a) = p  BY <1>1, <1>2, PortOf
  <1> QED BY <1>1, <1>2, <1>3, AddressRead


(***************************************************************************)
(* The reads under way.                                                    *)
(***************************************************************************)

\* A register stage holds one element or none.
Slots(S) == {<<>>} \cup {<<x>> : x \in S}
ReadRec == [thread : Threads, addr : Addrs]

\* What a stage holds.
LEMMA SlotFacts ==
  ASSUME NEW S, NEW s \in Slots(S)
  PROVE  \/ s = <<>> /\ Len(s) = 0
         \/ s # <<>> /\ Len(s) = 1 /\ s[1] \in S
  <1>1. CASE s = <<>>  BY <1>1
  <1>2. CASE s # <<>>
    <2>1. PICK x \in S : s = <<x>>  BY <1>2 DEF Slots
    <2> QED BY <1>2, <2>1
  <1> QED BY <1>1, <1>2

\* What a port does about a read of an address.
Serving(f, a) ==
  /\ f.state = "lookup" \/ f.state = "respond"
  /\ f.state = "lookup" => f.addr = a - Bound[ReadPort(a)]
  /\ f.state = "respond" => f.data = AllRegisters[a + 1]

\* The states of a ConfigReadRegisterFile.
FileStates == {"wait", "lookup", "respond"}

\* O are the reads that are not answered, in order: first those C names the ports of, each
\* served by its own port, then the one in front of the splitter, then the one on the channel.
Served(O, C, F) ==
  /\ \A k \in 1 .. Len(C) : C[k] = ReadPort(O[k].addr) /\ Serving(F[C[k]], O[k].addr)
  /\ \A j, k \in 1 .. Len(C) : C[j] = C[k] => j = k
  /\ \A p \in Ports : F[p].state # "wait" => \E k \in 1 .. Len(C) : C[k] = p

\* The reads not answered, O, are those the FIFO, the splitter and the channel hold, in that order.
ReadsInOrder(O, A, P, C) ==
  /\ O \in Seq(ReadRec) /\ A \in Slots(Addrs) /\ P \in Slots(Addrs) /\ C \in Seq(Ports)
  /\ Len(O) = Len(C) + Len(P) + Len(A)
  /\ P # <<>> => P[1] = O[Len(C) + 1].addr
  /\ A # <<>> => A[1] = O[Len(C) + Len(P) + 1].addr

\* A file for every port.
FileTypes(F) ==
  /\ F = [p \in Ports |-> F[p]]
  /\ \A p \in Ports : F[p].state \in FileStates

\* The invariant of the reads under way.
UnderWayInv(O, A, P, C, F) == ReadsInOrder(O, A, P, C) /\ Served(O, C, F) /\ FileTypes(F)

\* A new read is the last one.
LEMMA ReadIssued ==
  ASSUME NEW O, NEW P, NEW C, NEW F, UnderWayInv(O, <<>>, P, C, F), NEW r \in ReadRec
  PROVE  UnderWayInv(Append(O, r), <<r.addr>>, P, C, F)
  <1>1. /\ O \in Seq(ReadRec) /\ P \in Slots(Addrs) /\ C \in Seq(Ports) /\ Len(O) = Len(C) + Len(P) + Len(<<>>)
        /\ P # <<>> => P[1] = O[Len(C) + 1].addr
    BY DEF UnderWayInv, ReadsInOrder
  <1>2. Len(<<>>) = 0 /\ Len(C) \in Nat /\ Len(P) \in {0, 1} /\ (P # <<>> => Len(P) = 1)
    BY <1>1, SlotFacts
  <1>3. PICK Q : Q = Append(O, r)  OBVIOUS
  <1>4. /\ Q \in Seq(ReadRec) /\ Len(Q) = Len(O) + 1 /\ Q[Len(O) + 1] = r
        /\ \A k \in 1 .. Len(O) : Q[k] = O[k]
    BY <1>1, <1>3
  <1>5. ReadsInOrder(Q, <<r.addr>>, P, C)
    <2>1. r.addr \in Addrs /\ <<r.addr>> \in Slots(Addrs)  BY DEF ReadRec, Slots
    <2>2. Len(Q) = Len(C) + Len(P) + Len(<<r.addr>>)  BY <1>1, <1>2, <1>4
    <2>3. ASSUME P # <<>> PROVE P[1] = Q[Len(C) + 1].addr
      <3>1. Len(C) + 1 \in 1 .. Len(O)  BY <2>3, <1>1, <1>2
      <3> QED BY <2>3, <3>1, <1>1, <1>4
    <2>4. <<r.addr>>[1] = Q[Len(C) + Len(P) + 1].addr
      <3>1. Len(C) + Len(P) + 1 = Len(O) + 1  BY <1>1, <1>2
      <3> QED BY <3>1, <1>4
    <2> QED BY <1>1, <1>4, <2>1, <2>2, <2>3, <2>4 DEF ReadsInOrder
  <1>6. Served(Q, C, F)
    <2>1. Served(O, C, F)  BY DEF UnderWayInv
    <2>2. \A k \in 1 .. Len(C) : Q[k] = O[k]  BY <1>1, <1>2, <1>4
    <2> QED BY <2>1, <2>2 DEF Served
  <1> QED BY <1>3, <1>5, <1>6 DEF UnderWayInv

\* A port that looks up a register has it in the next cycle.
LookedUp(F) ==
  [p \in Ports |-> IF F[p].state = "lookup"
                   THEN [state |-> "respond", addr |-> Undefined, data |-> Value(p, F[p].addr)] ELSE F[p]]

\* Looking up answers no read and forwards none.
LEMMA LookupKeeps ==
  ASSUME NEW O, NEW A, NEW P, NEW C, NEW F, UnderWayInv(O, A, P, C, F)
  PROVE  UnderWayInv(O, A, P, C, LookedUp(F))
  <1>1. PICK G : G = LookedUp(F)  OBVIOUS
  <1>2. /\ G = [p \in Ports |-> G[p]]
        /\ \A p \in Ports : G[p] = IF F[p].state = "lookup"
                            THEN [state |-> "respond", addr |-> Undefined, data |-> Value(p, F[p].addr)] ELSE F[p]
    BY <1>1 DEF LookedUp
  <1>3. C \in Seq(Ports) /\ O \in Seq(ReadRec) /\ Len(C) \in Nat /\ Len(C) <= Len(O)
    <2>1. C \in Seq(Ports) /\ O \in Seq(ReadRec) /\ Len(O) = Len(C) + Len(P) + Len(A) /\ P \in Slots(Addrs) /\ A \in Slots(Addrs)
      BY DEF UnderWayInv, ReadsInOrder
    <2>2. Len(P) \in {0, 1} /\ Len(A) \in {0, 1}  BY <2>1, SlotFacts
    <2> QED BY <2>1, <2>2
  <1>4. Served(O, C, F) /\ FileTypes(F)  BY DEF UnderWayInv
  <1>5. ASSUME NEW k \in 1 .. Len(C) PROVE C[k] = ReadPort(O[k].addr) /\ Serving(G[C[k]], O[k].addr)
    <2>1. C[k] \in Ports /\ O[k] \in ReadRec  BY <1>3
    <2>2. PICK a, p : a = O[k].addr /\ p = C[k]  OBVIOUS
    <2>3. a \in Addrs /\ p \in Ports /\ p = ReadPort(a) /\ Serving(F[p], a)
      BY <2>1, <2>2, <1>4 DEF ReadRec, Served
    <2>4. CASE F[p].state = "lookup"
      <3>1. G[p].state = "respond" /\ G[p].data = Value(p, F[p].addr)  BY <2>3, <2>4, <1>2
      <3>2. F[p].addr = a - Bound[p]  BY <2>3, <2>4 DEF Serving
      <3>3. Value(p, a - Bound[p]) = AllRegisters[a + 1]  BY <2>3, RegisterAt
      <3>4. Serving(G[p], a)  BY <3>1, <3>2, <3>3 DEF Serving
      <3> QED BY <3>4, <2>2, <2>3
    <2>5. CASE F[p].state # "lookup"
      <3>1. G[p] = F[p]  BY <2>3, <2>5, <1>2
      <3> QED BY <3>1, <2>2, <2>3
    <2> QED BY <2>4, <2>5
  <1>6. \A p \in Ports : G[p].state # "wait" => F[p].state # "wait"
    <2> SUFFICES ASSUME NEW p \in Ports, G[p].state # "wait" PROVE F[p].state # "wait"  OBVIOUS
    <2>1. F[p].state = "lookup" \/ G[p] = F[p]  BY <1>2
    <2> QED BY <2>1
  <1>7. \A p \in Ports : G[p].state \in FileStates
    <2> SUFFICES ASSUME NEW p \in Ports PROVE G[p].state \in FileStates  OBVIOUS
    <2>1. G[p].state = "respond" \/ G[p] = F[p]  BY <1>2
    <2> QED BY <2>1, <1>4 DEF FileTypes, FileStates
  <1>8. Served(O, C, G)  BY <1>4, <1>5, <1>6 DEF Served
  <1>9. FileTypes(G)  BY <1>2, <1>7 DEF FileTypes
  <1> QED BY <1>1, <1>8, <1>9 DEF UnderWayInv

\* A file that answered.
Waiting == [state |-> "wait", addr |-> Undefined, data |-> Undefined]

\* The file f holds the register the read r asks for.
Answers(f, r) == f.data = AllRegisters[r.addr + 1]

\* The oldest read is answered.
LEMMA ReadAnswered ==
  ASSUME NEW O, NEW A, NEW P, NEW C, NEW F, UnderWayInv(O, A, P, C, F), C # <<>>, F[Head(C)].state = "respond"
  PROVE  /\ O # <<>> /\ Answers(F[Head(C)], Head(O))
         /\ UnderWayInv(Tail(O), A, P, Tail(C), [F EXCEPT ![Head(C)] = Waiting])
  <1>1. C \in Seq(Ports) /\ O \in Seq(ReadRec) /\ Len(O) = Len(C) + Len(P) + Len(A) /\ P \in Slots(Addrs) /\ A \in Slots(Addrs)
        /\ (P # <<>> => P[1] = O[Len(C) + 1].addr)
        /\ (A # <<>> => A[1] = O[Len(C) + Len(P) + 1].addr)
    BY DEF UnderWayInv, ReadsInOrder
  <1>2. /\ Len(P) \in {0, 1} /\ Len(A) \in {0, 1} /\ Len(C) \in Nat /\ Len(C) >= 1 /\ Len(O) >= Len(C)
        /\ (P # <<>> => Len(P) = 1) /\ (A # <<>> => Len(A) = 1)
    BY <1>1, SlotFacts
  <1>3. Served(O, C, F) /\ FileTypes(F)  BY DEF UnderWayInv
  <1>4. PICK n, m, l : n = Len(C) /\ m = Len(O) /\ l = Len(P)  OBVIOUS
  <1>5. PICK D, Q, p : D = Tail(C) /\ Q = Tail(O) /\ p = Head(C)  OBVIOUS
  <1>6. /\ n \in Nat /\ n >= 1 /\ m \in Nat /\ m >= n /\ l \in {0, 1}
        /\ D \in Seq(Ports) /\ Len(D) = n - 1 /\ \A k \in 1 .. n - 1 : D[k] = C[k + 1]
        /\ Q \in Seq(ReadRec) /\ Len(Q) = m - 1 /\ \A k \in 1 .. m - 1 : Q[k] = O[k + 1]
        /\ p = C[1] /\ p \in Ports /\ O # <<>> /\ Head(O) = O[1]
    <2>1. n \in Nat /\ n >= 1 /\ m \in Nat /\ m >= n /\ l \in {0, 1}  BY <1>1, <1>2, <1>4
    <2>2. C \in Seq(Ports) /\ C # <<>> /\ n = Len(C)  BY <1>1, <1>4
    <2>3. D \in Seq(Ports) /\ Len(D) = n - 1  BY <2>1, <2>2, <1>5
    <2>4. \A k \in 1 .. n - 1 : D[k] = C[k + 1]  BY <2>1, <2>2, <1>5
    <2>5. O \in Seq(ReadRec) /\ O # <<>> /\ m = Len(O)  BY <2>1, <1>1, <1>4
    <2>6. Q \in Seq(ReadRec) /\ Len(Q) = m - 1  BY <2>1, <2>5, <1>5
    <2>7. \A k \in 1 .. m - 1 : Q[k] = O[k + 1]  BY <2>1, <2>5, <1>5
    <2>8. p = C[1] /\ p \in Ports /\ Head(O) = O[1]  BY <2>1, <2>2, <2>5, <1>5
    <2> QED BY <2>1, <2>3, <2>4, <2>5, <2>6, <2>7, <2>8
  <1>7. PICK G : G = [F EXCEPT ![p] = Waiting]  OBVIOUS
  <1>8. /\ G = [q \in Ports |-> G[q]] /\ G[p] = Waiting
        /\ \A q \in Ports : q # p => G[q] = F[q]
    <2>1. F = [q \in Ports |-> F[q]]  BY <1>3 DEF FileTypes
    <2> QED BY <2>1, <1>6, <1>7
  <1>9. F[p].data = AllRegisters[Head(O).addr + 1]
    <2>1. 1 \in 1 .. Len(C)  BY <1>4, <1>6
    <2>2. Serving(F[p], O[1].addr)  BY <2>1, <1>3, <1>6 DEF Served
    <2>3. F[p].state = "respond"  BY <1>5
    <2> QED BY <2>2, <2>3, <1>6 DEF Serving
  <1>10. ReadsInOrder(Q, A, P, D)
    <2>1. Len(Q) = Len(D) + Len(P) + Len(A)  BY <1>1, <1>2, <1>4, <1>6
    <2>2. ASSUME P # <<>> PROVE P[1] = Q[Len(D) + 1].addr
      <3>1. Len(D) + 1 = n /\ n \in 1 .. m - 1  BY <2>2, <1>1, <1>2, <1>4, <1>6
      <3>2. Q[n] = O[n + 1]  BY <3>1, <1>6
      <3> QED BY <2>2, <3>1, <3>2, <1>1, <1>4
    <2>3. ASSUME A # <<>> PROVE A[1] = Q[Len(D) + Len(P) + 1].addr
      <3>1. Len(D) + Len(P) + 1 = n + l /\ n + l \in 1 .. m - 1  BY <2>3, <1>1, <1>2, <1>4, <1>6
      <3>2. Q[n + l] = O[n + l + 1]  BY <3>1, <1>6
      <3> QED BY <2>3, <3>1, <3>2, <1>1, <1>4
    <2> QED BY <1>1, <1>6, <2>1, <2>2, <2>3 DEF ReadsInOrder
  <1>11. Served(Q, D, G)
    <2>1. ASSUME NEW k \in 1 .. Len(D) PROVE D[k] = ReadPort(Q[k].addr) /\ Serving(G[D[k]], Q[k].addr)
      <3>1. k \in 1 .. n - 1 /\ k \in 1 .. m - 1 /\ k + 1 \in 1 .. Len(C) /\ 1 \in 1 .. Len(C) /\ k + 1 # 1
        BY <1>4, <1>6
      <3>2. D[k] = C[k + 1] /\ Q[k] = O[k + 1] /\ C[k + 1] \in Ports  BY <3>1, <1>1, <1>6
      <3>3. C[k + 1] # C[1]  BY <3>1, <1>3 DEF Served
      <3>4. G[D[k]] = F[D[k]]  BY <3>2, <3>3, <1>6, <1>8
      <3>5. C[k + 1] = ReadPort(O[k + 1].addr) /\ Serving(F[C[k + 1]], O[k + 1].addr)
        BY <3>1, <1>3 DEF Served
      <3> QED BY <3>2, <3>4, <3>5
    <2>2. ASSUME NEW j \in 1 .. Len(D), NEW k \in 1 .. Len(D), D[j] = D[k] PROVE j = k
      <3>1. j + 1 \in 1 .. Len(C) /\ k + 1 \in 1 .. Len(C) /\ D[j] = C[j + 1] /\ D[k] = C[k + 1] /\ j \in Nat /\ k \in Nat
        BY <1>4, <1>6
      <3>2. j + 1 = k + 1  BY <3>1, <2>2, <1>3 DEF Served
      <3> QED BY <3>1, <3>2
    <2>3. ASSUME NEW q \in Ports, G[q].state # "wait" PROVE \E k \in 1 .. Len(D) : D[k] = q
      <3>1. q # p  BY <2>3, <1>8 DEF Waiting
      <3>2. F[q].state # "wait"  BY <2>3, <3>1, <1>8
      <3>3. PICK k \in 1 .. Len(C) : C[k] = q  BY <3>2, <1>3 DEF Served
      <3>4. k # 1 /\ k - 1 \in 1 .. n - 1 /\ (k - 1) + 1 = k  BY <3>1, <3>3, <1>4, <1>6
      <3>5. D[k - 1] = q /\ k - 1 \in 1 .. Len(D)  BY <3>3, <3>4, <1>6
      <3> QED BY <3>5
    <2> QED BY <2>1, <2>2, <2>3 DEF Served
  <1>12. FileTypes(G)
    <2>1. \A q \in Ports : G[q].state \in FileStates
      BY <1>3, <1>6, <1>8 DEF FileTypes, FileStates, Waiting
    <2> QED BY <2>1, <1>8 DEF FileTypes
  <1>13. UnderWayInv(Q, A, P, D, G)  BY <1>10, <1>11, <1>12 DEF UnderWayInv
  <1>14. Answers(F[p], Head(O))  BY <1>9 DEF Answers
  <1> QED BY <1>5, <1>6, <1>7, <1>14, <1>13

\* The read in front of the splitter goes to its port.
LEMMA ReadForwarded ==
  ASSUME NEW O, NEW A, NEW P, NEW C, NEW F, UnderWayInv(O, A, P, C, F), P # <<>>,
         NEW p, p = ReadPort(P[1]), F[p].state = "wait",
         NEW f, f = [state |-> "lookup", addr |-> P[1] - Bound[p], data |-> Undefined]
  PROVE  UnderWayInv(O, A, <<>>, Append(C, p), [F EXCEPT ![p] = f])
  <1>1. C \in Seq(Ports) /\ O \in Seq(ReadRec) /\ Len(O) = Len(C) + Len(P) + Len(A) /\ P \in Slots(Addrs) /\ A \in Slots(Addrs)
        /\ P[1] = O[Len(C) + 1].addr
        /\ (A # <<>> => A[1] = O[Len(C) + Len(P) + 1].addr)
    BY DEF UnderWayInv, ReadsInOrder
  <1>2. Len(P) = 1 /\ P[1] \in Addrs /\ Len(A) \in {0, 1} /\ Len(C) \in Nat /\ Len(O) >= Len(C) + 1
    BY <1>1, SlotFacts
  <1>3. Served(O, C, F) /\ FileTypes(F)  BY DEF UnderWayInv
  <1>4. p \in Ports  BY <1>2, RegisterAt
  <1>5. PICK D, n, a : D = Append(C, p) /\ n = Len(C) /\ a = P[1]  OBVIOUS
  <1>6. n \in Nat /\ D \in Seq(Ports) /\ Len(D) = n + 1 /\ D[n + 1] = p /\ \A k \in 1 .. n : D[k] = C[k]
    BY <1>1, <1>4, <1>5
  <1>7. PICK G : G = [F EXCEPT ![p] = f]  OBVIOUS
  <1>8. /\ G = [q \in Ports |-> G[q]] /\ G[p] = f
        /\ \A q \in Ports : q # p => G[q] = F[q]
    <2>1. F = [q \in Ports |-> F[q]]  BY <1>3 DEF FileTypes
    <2> QED BY <2>1, <1>4, <1>7
  <1>9. f.state = "lookup" /\ f.addr = a - Bound[p] /\ p = ReadPort(a)  BY <1>5
  <1>10. \A k \in 1 .. n : C[k] # p
    <2> SUFFICES ASSUME NEW k \in 1 .. n, C[k] = p PROVE FALSE  OBVIOUS
    <2>1. Serving(F[p], O[k].addr)  BY <1>3, <1>5 DEF Served
    <2> QED BY <2>1 DEF Serving
  <1>11. ReadsInOrder(O, A, <<>>, D)
    <2>1. <<>> \in Slots(Addrs) /\ Len(<<>>) = 0  BY DEF Slots
    <2>2. Len(O) = Len(D) + 0 + Len(A)  BY <1>1, <1>2, <1>5, <1>6
    <2>3. ASSUME A # <<>> PROVE A[1] = O[Len(D) + 0 + 1].addr
      <3>1. Len(D) + 0 + 1 = Len(C) + Len(P) + 1  BY <1>2, <1>5, <1>6
      <3> QED BY <2>3, <3>1, <1>1
    <2>4. Len(O) = Len(D) + Len(<<>>) + Len(A) /\ (A # <<>> => A[1] = O[Len(D) + Len(<<>>) + 1].addr)
      BY <2>1, <2>2, <2>3
    <2> QED BY <1>1, <1>6, <2>1, <2>4 DEF ReadsInOrder
  <1>12. Served(O, D, G)
    <2>1. ASSUME NEW k \in 1 .. Len(D) PROVE D[k] = ReadPort(O[k].addr) /\ Serving(G[D[k]], O[k].addr)
      <3>1. CASE k = n + 1
        <4>1. D[k] = p /\ O[k].addr = a  BY <3>1, <1>1, <1>5, <1>6
        <4>2. Serving(f, a)  BY <1>9 DEF Serving
        <4> QED BY <4>1, <4>2, <1>8, <1>9
      <3>2. CASE k # n + 1
        <4>1. k \in 1 .. n /\ k \in 1 .. Len(C)  BY <3>2, <1>5, <1>6
        <4>2. D[k] = C[k] /\ C[k] # p /\ C[k] \in Ports  BY <4>1, <1>1, <1>6, <1>10
        <4>3. C[k] = ReadPort(O[k].addr) /\ Serving(F[C[k]], O[k].addr)  BY <4>1, <1>3 DEF Served
        <4> QED BY <4>2, <4>3, <1>8
      <3> QED BY <3>1, <3>2
    <2>2. ASSUME NEW j \in 1 .. Len(D), NEW k \in 1 .. Len(D), D[j] = D[k] PROVE j = k
      <3>1. CASE j = n + 1 \/ k = n + 1
        <4>1. \A i \in 1 .. Len(D) : i # n + 1 => i \in 1 .. n /\ D[i] = C[i]  BY <1>6
        <4>2. \A i \in 1 .. Len(D) : i # n + 1 => D[i] # p  BY <4>1, <1>10
        <4> QED BY <3>1, <4>2, <2>2, <1>6
      <3>2. CASE j # n + 1 /\ k # n + 1
        <4>1. j \in 1 .. Len(C) /\ k \in 1 .. Len(C) /\ D[j] = C[j] /\ D[k] = C[k]
          BY <3>2, <1>5, <1>6
        <4> QED BY <4>1, <2>2, <1>3 DEF Served
      <3> QED BY <3>1, <3>2
    <2>3. ASSUME NEW q \in Ports, G[q].state # "wait" PROVE \E k \in 1 .. Len(D) : D[k] = q
      <3>1. CASE q = p
        <4>1. n + 1 \in 1 .. Len(D)  BY <1>6
        <4> QED BY <3>1, <4>1, <1>6
      <3>2. CASE q # p
        <4>1. F[q].state # "wait"  BY <3>2, <2>3, <1>8
        <4>2. PICK k \in 1 .. Len(C) : C[k] = q  BY <4>1, <1>3 DEF Served
        <4>3. k \in 1 .. Len(D) /\ D[k] = q  BY <4>2, <1>5, <1>6
        <4> QED BY <4>3
      <3> QED BY <3>1, <3>2
    <2> QED BY <2>1, <2>2, <2>3 DEF Served
  <1>13. FileTypes(G)
    <2>1. ASSUME NEW q \in Ports PROVE G[q].state \in FileStates
      <3>1. CASE q = p  BY <3>1, <1>8, <1>9 DEF FileStates
      <3>2. CASE q # p  BY <3>2, <1>3, <1>8 DEF FileTypes
      <3> QED BY <3>1, <3>2
    <2> QED BY <2>1, <1>8 DEF FileTypes
  <1>14. UnderWayInv(O, A, <<>>, D, G)  BY <1>11, <1>12, <1>13 DEF UnderWayInv
  <1> QED BY <1>5, <1>7, <1>14

\* The read on the channel goes in front of the splitter.
LEMMA ReadMoves ==
  ASSUME NEW O, NEW A, NEW C, NEW F, UnderWayInv(O, A, <<>>, C, F)
  PROVE  UnderWayInv(O, <<>>, A, C, F)
  <1>1. C \in Seq(Ports) /\ O \in Seq(ReadRec) /\ Len(O) = Len(C) + Len(<<>>) + Len(A) /\ A \in Slots(Addrs)
        /\ (A # <<>> => A[1] = O[Len(C) + Len(<<>>) + 1].addr)
    BY DEF UnderWayInv, ReadsInOrder
  <1>2. Len(<<>>) = 0 /\ Len(A) \in {0, 1} /\ Len(C) \in Nat /\ <<>> \in Slots(Addrs)
    BY <1>1, SlotFacts DEF Slots
  <1>3. Len(O) = Len(C) + Len(A) + Len(<<>>) /\ Len(C) + Len(<<>>) + 1 = Len(C) + 1  BY <1>1, <1>2
  <1>4. ReadsInOrder(O, <<>>, A, C)  BY <1>1, <1>2, <1>3 DEF ReadsInOrder
  <1> QED BY <1>4 DEF UnderWayInv


(***************************************************************************)
(* The discovery.                                                          *)
(***************************************************************************)

\* What the reads so far returned, in the order of NextRead.
Known(r) ==
  /\ r \in Seq({AllRegisters[a + 1] : a \in Addrs})
  /\ Len(r) <= 2 * N + 9
  /\ 2 <= Len(r) => r[2] = N
  /\ \A c \in Configs : /\ 2 * c + 1 <= Len(r) => r[2 * c + 1] = Bound[c + 1]
                        /\ 2 * c + 2 <= Len(r) => r[2 * c + 2] = Design[c].id

\* A global register is at its own address.
LEMMA GlobalAt ==
  ASSUME NEW a \in 0 .. N + 1
  PROVE  a \in Addrs /\ AllRegisters[a + 1] = GlobalRegisters[a + 1]
  <1>1. N \in Nat /\ Bound[0] = 0 /\ Bound[1] = 2 + N /\ 0 \in Ports /\ a \in Nat /\ 1 \in 0 .. N + 1 /\ N + 1 \in 0 .. N + 1
    BY DesignFacts, BoundSteps DEF Ports, N
  <1>2. Bound[0] <= a /\ a < Bound[0 + 1] /\ a - Bound[0] = a  BY <1>1
  <1>3. Value(0, a) = AllRegisters[a + 1]
    <2>1. Value(0, a - Bound[0]) = AllRegisters[a + 1]  BY <1>1, <1>2, AddressRead
    <2> QED BY <2>1, <1>2
  <1>4. ReadRegisters(0) = GlobalRegisters  BY DEF ReadRegisters
  <1>5. Value(0, a) = GlobalRegisters[a + 1]
    <2>1. a < Len(GlobalRegisters)  BY <1>1, GlobalFacts
    <2> QED BY <2>1, <1>4 DEF Value
  <1>6. Bound[1] <= Bound[N + 1] /\ Bound[N + 1] \in Nat  BY <1>1, BoundsMonotone, BoundsGrow
  <1> QED BY <1>1, <1>3, <1>5, <1>6 DEF Addrs

\* A register of a config has an address.
LEMMA InSpace ==
  ASSUME NEW c \in Configs, NEW reg \in Nat, reg < Design[c].size
  PROVE  Bound[c] + reg \in Addrs
  <1>1. /\ N \in Nat /\ c \in 0 .. N + 1 /\ c + 1 \in 0 .. N + 1 /\ N + 1 \in 0 .. N + 1 /\ c + 1 <= N + 1
        /\ Design[c].size \in Nat
    BY DesignFacts DEF Configs, N
  <1>2. Bound[c + 1] = Bound[c] + Design[c].size /\ Bound[c + 1] <= Bound[N + 1]
    BY <1>1, BoundSteps, BoundsMonotone
  <1>3. Bound[c] \in Nat /\ Bound[c + 1] \in Nat /\ Bound[N + 1] \in Nat  BY <1>1, BoundsGrow
  <1>4. PICK x, y, z, d : x = Bound[c] /\ y = Bound[c + 1] /\ z = Bound[N + 1] /\ d = Design[c].size
    OBVIOUS
  <1>5. x + reg \in 0 .. z - 1  BY <1>1, <1>2, <1>3, <1>4
  <1> QED BY <1>4, <1>5 DEF Addrs

\* The id of a config is at its bound.
LEMMA IdAt ==
  ASSUME NEW c \in Configs
  PROVE  Bound[c] \in Addrs /\ AllRegisters[Bound[c] + 1] = Design[c].id
  <1>1. Design[c].size >= 1 /\ Design[c].size \in Nat  BY SizesPositive, DesignFacts
  <1>2. c \in Ports /\ c \in 0 .. N + 1 /\ c + 1 \in 0 .. N + 1
    BY DesignFacts DEF Configs, Ports, N
  <1>3. Bound[c] \in Nat /\ Bound[c] < Bound[c + 1]  BY <1>2, BoundsGrow
  <1>4. PICK b : b = Bound[c]  OBVIOUS
  <1>5. b \in Nat /\ b - b = 0 /\ b + 0 = b  BY <1>3, <1>4
  <1>6. Value(c, 0) = AllRegisters[b + 1]
    <2>1. Value(c, b - Bound[c]) = AllRegisters[b + 1]  BY <1>2, <1>3, <1>4, AddressRead
    <2> QED BY <2>1, <1>4, <1>5
  <1>7. Value(c, 0) = Design[c].id
    <2>1. 0 < Len(ReadRegisters(c)) /\ ReadRegisters(c)[0 + 1] = Design[c].id  BY RegistersHaveId
    <2> QED BY <2>1 DEF Value
  <1>8. Bound[c] + 0 \in Addrs  BY <1>1, InSpace
  <1> QED BY <1>4, <1>5, <1>6, <1>7, <1>8

\* The constructor finds the bounds of a config, and each config by its id.
LEMMA BoundsKnown ==
  ASSUME NEW r, Known(r), NEW c \in Configs, 2 * c <= Len(r)
  PROVE  config_bounds(r, c - 1) = Bound[c]
  <1>1. c \in Nat /\ c >= 1 /\ c <= N /\ N \in Nat /\ Len(r) \in Nat
    BY DesignFacts DEF Configs, N, Known
  <1>2. CASE c = 1
    <2>1. r[2] = N  BY <1>1, <1>2 DEF Known
    <2> QED BY <2>1, <1>2, BoundSteps DEF config_bounds, NumConfigs
  <1>3. CASE c # 1
    <2>1. PICK d : d = c - 1  OBVIOUS
    <2>2. d \in Configs /\ d # 0 /\ d + 1 = c /\ 2 * d + 1 <= Len(r)
      BY <2>1, <1>1, <1>3 DEF Configs, N
    <2>3. r[2 * d + 1] = Bound[d + 1]  BY <2>2 DEF Known
    <2>4. config_bounds(r, d) = r[2 * d + 1]  BY <2>2 DEF config_bounds
    <2> QED BY <2>1, <2>2, <2>3, <2>4
  <1> QED BY <1>2, <1>3

\* The search for an id finds the config that has it, and its size.
LEMMA ConfigFound ==
  ASSUME NEW r, Known(r), NEW c \in Configs, 2 * N + 2 <= Len(r)
  PROVE  /\ addr_offset(r, Design[c].id) = Bound[c]
         /\ num_regs(r, Design[c].id) = Design[c].size
  <1>1. c \in Nat /\ c >= 1 /\ c <= N /\ N \in Nat /\ Len(r) \in Nat /\ r[2] = N
    BY DesignFacts DEF Configs, N, Known
  <1>2. \A i \in 0 .. N - 1 : config_ids(r, i) = Design[i + 1].id
    <2> SUFFICES ASSUME NEW i \in 0 .. N - 1 PROVE config_ids(r, i) = Design[i + 1].id  OBVIOUS
    <2>1. PICK d : d = i + 1  OBVIOUS
    <2>2. d \in Configs /\ 2 * d + 2 <= Len(r) /\ 2 * d + 2 = 2 * i + 4
      BY <2>1, <1>1 DEF Configs, N
    <2>3. r[2 * d + 2] = Design[d].id  BY <2>2 DEF Known
    <2> QED BY <2>1, <2>2, <2>3 DEF config_ids
  <1>3. config_idx(r, Design[c].id) = c - 1
    <2>1. c - 1 \in 0 .. N - 1 /\ (c - 1) + 1 = c  BY <1>1
    <2>2. config_ids(r, c - 1) = Design[c].id  BY <2>1, <1>2
    <2>3. ASSUME NEW i \in 0 .. N - 1, config_ids(r, i) = Design[c].id PROVE i = c - 1
      <3>1. Design[i + 1].id = Design[c].id /\ i + 1 \in Configs  BY <2>3, <1>1, <1>2 DEF Configs, N
      <3>2. i + 1 = c  BY <3>1, DesignAssumption
      <3> QED BY <3>2, <1>1
    <2>4. PICK i : i = config_idx(r, Design[c].id)  OBVIOUS
    <2>5. i = CHOOSE j \in 0 .. N - 1 : config_ids(r, j) = Design[c].id
      BY <2>4, <1>1 DEF config_idx, NumConfigs
    <2>6. i \in 0 .. N - 1 /\ config_ids(r, i) = Design[c].id  BY <2>1, <2>2, <2>5
    <2> QED BY <2>3, <2>4, <2>6
  <1>4. config_bounds(r, c - 1) = Bound[c]  BY <1>1, BoundsKnown
  <1>5. config_bounds(r, c) = Bound[c + 1]
    <2>1. c # 0 /\ 2 * c + 1 <= Len(r)  BY <1>1
    <2> QED BY <2>1 DEF config_bounds, Known
  <1>6. Bound[c + 1] = Bound[c] + Design[c].size /\ Bound[c] \in Nat /\ Design[c].size \in Nat
    <2>1. c \in 0 .. N + 1  BY <1>1
    <2> QED BY <2>1, BoundSteps, BoundsGrow, DesignFacts
  <1>7. addr_offset(r, Design[c].id) = Bound[c]  BY <1>3, <1>4 DEF addr_offset
  <1>8. num_regs(r, Design[c].id) = Bound[c + 1] - Bound[c]
    <2>1. (c - 1) + 1 = c  BY <1>1
    <2> QED BY <2>1, <1>3, <1>5, <1>7 DEF num_regs
  <1> QED BY <1>6, <1>7, <1>8

\* What the constructors of the configs read is in their address space.
LEMMA ConfigReadsFit ==
  ASSUME NEW k \in 1 .. 7
  PROVE  /\ Len(ConfigReads) = 7
         /\ \E c \in Configs : /\ ConfigReads[k][1] = Design[c].id
                               /\ ConfigReads[k][2] \in Nat /\ ConfigReads[k][2] < Design[c].size
  <1>d. /\ MEM_CONFIG_ID = 0 /\ STREAM_CONFIG_ID = 1 /\ REPLAY_BUFFER_CONFIG_ID = 2 /\ GENERIC_CONFIG_ID = -1
    BY DEF MEM_CONFIG_ID, STREAM_CONFIG_ID, REPLAY_BUFFER_CONFIG_ID, GENERIC_CONFIG_ID
  <1>1. PICK m \in Configs : Design[m].id = MEM_CONFIG_ID  BY DesignAssumption DEF HasId
  <1>2. PICK t \in Configs : Design[t].id = STREAM_CONFIG_ID  BY DesignAssumption DEF HasId
  <1>3. PICK u \in Configs : Design[u].id = REPLAY_BUFFER_CONFIG_ID  BY DesignAssumption DEF HasId
  <1>4. \A c \in Configs : c # 0 /\ Design[c].size \in Nat /\ Len(ReadRegisters(c)) <= Design[c].size
    <2>1. \A c \in Configs : Len(ReadRegisters(c)) <= Design[c].size  BY DesignAssumption
    <2>2. \A c \in Configs : Design[c].size \in Nat  BY DesignFacts
    <2>3. \A c \in Configs : c # 0  BY DEF Configs
    <2> QED BY <2>1, <2>2, <2>3
  <1>5. 4 <= Design[m].size
    <2>1. ReadRegisters(m) = <<Design[m].id, Design[m].n, DEPTH, EMPTY_STREAM_CONSUMES_BUFFER>>
      BY <1>1, <1>4, <1>d DEF ReadRegisters
    <2>2. Len(ReadRegisters(m)) = 4  BY <2>1
    <2> QED BY <2>2, <1>4
  <1>6. 2 <= Design[t].size
    <2>1. ReadRegisters(t) = <<Design[t].id, Design[t].n>>  BY <1>2, <1>4, <1>d DEF ReadRegisters
    <2>2. Len(ReadRegisters(t)) = 2  BY <2>1
    <2> QED BY <2>2, <1>4
  <1>7. 4 <= Design[u].size
    <2>1. ReadRegisters(u) = <<Design[u].id, Design[u].n, DEPTH, TRANSFER_SIZE>>
      BY <1>3, <1>4, <1>d DEF ReadRegisters
    <2>2. Len(ReadRegisters(u)) = 4  BY <2>1
    <2> QED BY <2>2, <1>4
  <1>8. PICK q : q = ConfigReads  OBVIOUS
  <1>9. q = <<<<0, 1>>, <<0, 2>>, <<0, 3>>, <<1, 1>>, <<2, 1>>, <<2, 2>>, <<2, 3>>>>
    BY <1>8, <1>d DEF ConfigReads
  <1>10. Len(q) = 7  BY <1>9
  <1>11. q[1] = <<0, 1>> /\ q[2] = <<0, 2>> /\ q[3] = <<0, 3>> /\ q[4] = <<1, 1>> /\ q[5] = <<2, 1>> /\ q[6] = <<2, 2>> /\ q[7] = <<2, 3>>
    BY <1>9
  <1>12. CASE k \in 1 .. 3
    <2>1. q[k][1] = 0 /\ q[k][2] \in Nat /\ q[k][2] < 4  BY <1>11, <1>12
    <2>2. q[k][1] = Design[m].id /\ q[k][2] \in Nat /\ q[k][2] < Design[m].size
      BY <2>1, <1>1, <1>4, <1>5, <1>d
    <2> QED BY <2>2, <1>8, <1>10
  <1>13. CASE k = 4
    <2>1. q[k][1] = 1 /\ q[k][2] \in Nat /\ q[k][2] < 2  BY <1>11, <1>13
    <2>2. q[k][1] = Design[t].id /\ q[k][2] \in Nat /\ q[k][2] < Design[t].size
      BY <2>1, <1>2, <1>4, <1>6, <1>d
    <2> QED BY <2>2, <1>8, <1>10
  <1>14. CASE k \in 5 .. 7
    <2>1. q[k][1] = 2 /\ q[k][2] \in Nat /\ q[k][2] < 4  BY <1>11, <1>14
    <2>2. q[k][1] = Design[u].id /\ q[k][2] \in Nat /\ q[k][2] < Design[u].size
      BY <2>1, <1>3, <1>4, <1>7, <1>d
    <2> QED BY <2>2, <1>8, <1>10
  <1> QED BY <1>12, <1>13, <1>14

\* Appending the register at a places it behind what is known.
Follows(r, a) == a \in Addrs /\ \A v : v = AllRegisters[a + 1] => Known(Append(r, v))

\* Another register read is known.
LEMMA KnownAppend ==
  ASSUME NEW r, Known(r), Len(r) < 2 * N + 9, NEW a \in Addrs, NEW v, v = AllRegisters[a + 1],
         Len(r) + 1 = 2 => v = N,
         \A c \in Configs : /\ 2 * c + 1 = Len(r) + 1 => v = Bound[c + 1]
                            /\ 2 * c + 2 = Len(r) + 1 => v = Design[c].id
  PROVE  Known(Append(r, v))
  <1>1. PICK V : V = {AllRegisters[b + 1] : b \in Addrs}  OBVIOUS
  <1>2. r \in Seq(V) /\ v \in V  BY <1>1 DEF Known
  <1>3. PICK q, l : q = Append(r, v) /\ l = Len(r)  OBVIOUS
  <1>4. q \in Seq(V) /\ l \in Nat /\ Len(q) = l + 1 /\ q[l + 1] = v /\ \A k \in 1 .. l : q[k] = r[k]
    BY <1>2, <1>3
  <1>5. N \in Nat /\ \A c \in Configs : c \in Nat /\ c >= 1  BY DesignFacts DEF Configs, N
  <1>6. Len(q) <= 2 * N + 9  BY <1>3, <1>4, <1>5
  <1>7. 2 <= Len(q) => q[2] = N
    <2>1. CASE l + 1 = 2  BY <2>1, <1>3, <1>4
    <2>2. CASE 2 <= l
      <3>1. 2 \in 1 .. l /\ r[2] = N  BY <2>2, <1>3, <1>4 DEF Known
      <3> QED BY <3>1, <1>4
    <2> QED BY <2>1, <2>2, <1>4
  <1>8. ASSUME NEW c \in Configs, 2 * c + 1 <= Len(q) PROVE q[2 * c + 1] = Bound[c + 1]
    <2>1. CASE 2 * c + 1 = l + 1  BY <2>1, <1>3, <1>4
    <2>2. CASE 2 * c + 1 <= l
      <3>1. 2 * c + 1 \in 1 .. l /\ r[2 * c + 1] = Bound[c + 1]  BY <2>2, <1>3, <1>4, <1>5 DEF Known
      <3> QED BY <3>1, <1>4
    <2>3. 2 * c + 1 = l + 1 \/ 2 * c + 1 <= l
      <3>1. c \in Nat /\ 2 * c + 1 <= l + 1  BY <1>4, <1>5, <1>8
      <3> QED BY <3>1, <1>4
    <2> QED BY <2>1, <2>2, <2>3
  <1>9. ASSUME NEW c \in Configs, 2 * c + 2 <= Len(q) PROVE q[2 * c + 2] = Design[c].id
    <2>1. CASE 2 * c + 2 = l + 1  BY <2>1, <1>3, <1>4
    <2>2. CASE 2 * c + 2 <= l
      <3>1. 2 * c + 2 \in 1 .. l /\ r[2 * c + 2] = Design[c].id  BY <2>2, <1>3, <1>4, <1>5 DEF Known
      <3> QED BY <3>1, <1>4
    <2>3. 2 * c + 2 = l + 1 \/ 2 * c + 2 <= l
      <3>1. c \in Nat /\ 2 * c + 2 <= l + 1  BY <1>4, <1>5, <1>9
      <3> QED BY <3>1, <1>4
    <2> QED BY <2>1, <2>2, <2>3
  <1>10. Known(q)  BY <1>1, <1>4, <1>6, <1>7, <1>8, <1>9 DEF Known
  <1> QED BY <1>3, <1>10

\* NextRead asks for the register that Known says comes next.
LEMMA NextReadFollows ==
  ASSUME NEW r, Known(r), Len(r) < 2 * N + 9
  PROVE  Follows(r, NextRead(r))
  <1>0. N \in Nat /\ Len(r) \in Nat /\ \A c \in Configs : c \in Nat /\ c >= 1 /\ c <= N
    BY DesignFacts DEF Configs, N, Known
  <1>1. PICK l, a : l = Len(r) /\ a = NextRead(r)  OBVIOUS
  <1>2. CASE l < 2
    <2>1. a = l /\ l \in 0 .. N + 1  BY <1>0, <1>1, <1>2 DEF NextRead
    <2>2. a \in Addrs /\ AllRegisters[a + 1] = GlobalRegisters[a + 1]  BY <2>1, GlobalAt
    <2>3. l + 1 = 2 => AllRegisters[a + 1] = N  BY <2>1, <2>2, GlobalFacts
    <2>4. \A c \in Configs : 2 * c + 1 # l + 1 /\ 2 * c + 2 # l + 1  BY <1>0, <1>1, <1>2
    <2>5. \A v : v = AllRegisters[a + 1] => Known(Append(r, v))
      BY <2>2, <2>3, <2>4, <1>1, KnownAppend
    <2> QED BY <2>2, <2>5, <1>1 DEF Follows
  <1>3. CASE 2 <= l /\ l < 2 + 2 * N
    <2>0. r[2] = N /\ CtorReads(r) = 2 + 2 * N  BY <1>1, <1>3 DEF Known, CtorReads, NumConfigs
    <2>1. CASE l % 2 = 0
      <3>1. PICK c : c = l \div 2  OBVIOUS
      <3>2. c \in Nat /\ l = 2 * c /\ c >= 1 /\ c <= N /\ (l - 2) \div 2 = c - 1
        BY <3>1, <2>1, <1>0, <1>1, <1>3
      <3>3. a = 2 + (c - 1)  BY <3>2, <2>0, <2>1, <1>0, <1>1, <1>3 DEF NextRead
      <3>4. a \in 0 .. N + 1 /\ a + 1 = 2 + c /\ c \in Configs  BY <3>2, <3>3, <1>0 DEF Configs, N
      <3>5. a \in Addrs /\ AllRegisters[a + 1] = Bound[c + 1]  BY <3>4, GlobalAt, GlobalFacts
      <3>6. \A d \in Configs : (2 * d + 1 = l + 1 => d = c) /\ 2 * d + 2 # l + 1  BY <3>2, <1>0
      <3>7. l + 1 # 2  BY <3>2
      <3>8. \A v : v = AllRegisters[a + 1] => Known(Append(r, v))
        BY <3>5, <3>6, <3>7, <1>1, KnownAppend
      <3> QED BY <3>5, <3>8, <1>1 DEF Follows
    <2>2. CASE l % 2 # 0
      <3>1. PICK c : c = l \div 2  OBVIOUS
      <3>2. c \in Nat /\ l = 2 * c + 1 /\ c >= 1 /\ c <= N /\ (l - 2) \div 2 = c - 1
        BY <3>1, <2>2, <1>0, <1>1, <1>3
      <3>3. a = config_bounds(r, c - 1)  BY <3>2, <2>0, <2>2, <1>0, <1>1, <1>3 DEF NextRead
      <3>4. c \in Configs /\ 2 * c <= Len(r)  BY <3>2, <1>0, <1>1 DEF Configs, N
      <3>5. a = Bound[c]  BY <3>3, <3>4, BoundsKnown
      <3>6. a \in Addrs /\ AllRegisters[a + 1] = Design[c].id  BY <3>4, <3>5, IdAt
      <3>7. \A d \in Configs : (2 * d + 2 = l + 1 => d = c) /\ 2 * d + 1 # l + 1  BY <3>2, <1>0
      <3>8. l + 1 # 2  BY <3>2
      <3>9. \A v : v = AllRegisters[a + 1] => Known(Append(r, v))
        BY <3>6, <3>7, <3>8, <1>1, KnownAppend
      <3> QED BY <3>6, <3>9, <1>1 DEF Follows
    <2> QED BY <2>1, <2>2
  <1>4. CASE 2 + 2 * N <= l
    <2>0. r[2] = N /\ CtorReads(r) = 2 + 2 * N  BY <1>0, <1>1, <1>4 DEF Known, CtorReads, NumConfigs
    <2>1. PICK k : k = l - (2 + 2 * N) + 1  OBVIOUS
    <2>2. k \in 1 .. 7  BY <2>1, <1>0, <1>1, <1>4
    <2>3. PICK c \in Configs : ConfigReads[k][1] = Design[c].id /\ ConfigReads[k][2] \in Nat /\ ConfigReads[k][2] < Design[c].size
      BY <2>2, ConfigReadsFit
    <2>4. a = addr_offset(r, ConfigReads[k][1]) + ConfigReads[k][2]
      <3>1. ~ (Len(r) < 2) /\ ~ (Len(r) < CtorReads(r)) /\ Len(r) - CtorReads(r) + 1 = k
        BY <2>0, <2>1, <1>0, <1>1, <1>4
      <3> QED BY <3>1, <1>1 DEF NextRead
    <2>5. a = Bound[c] + ConfigReads[k][2]  BY <2>3, <2>4, <1>0, <1>1, <1>4, ConfigFound
    <2>6. a \in Addrs  BY <2>3, <2>5, InSpace
    <2>7. \A d \in Configs : 2 * d + 1 # l + 1 /\ 2 * d + 2 # l + 1  BY <1>0, <1>1, <1>4
    <2>8. l + 1 # 2
      <3>1. 1 <= N  BY <2>3, <1>0
      <3> QED BY <3>1, <1>0, <1>1, <1>4
    <2>9. \A v : v = AllRegisters[a + 1] => Known(Append(r, v))
      BY <2>6, <2>7, <2>8, <1>1, KnownAppend
    <2> QED BY <2>6, <2>9, <1>1 DEF Follows
  <1> QED BY <1>0, <1>1, <1>2, <1>3, <1>4


(***************************************************************************)
(* The invariant of the reads.                                             *)
(***************************************************************************)

\* The ports the read splitter waits for, and the invariant of the reads in the state.
Rq == Contents(fifos[ReadQueue])
InFlight == UnderWayInv(outstanding, axi_read, pre_read, Rq, files)
DiscoveryInv ==
  /\ Known(results)
  /\ ~Discovered => outstanding = <<>> \/ outstanding = <<[thread |-> App, addr |-> NextRead(results)]>>
AnsweredInv == \A a \in answered : a.data = AllRegisters[a.addr + 1]
ReadsInv == FifosOK /\ InFlight /\ DiscoveryInv /\ AnsweredInv

\* The discovery ends after the global registers, the bounds, the ids and the members.
LEMMA DiscoveredIs ==
  ASSUME Known(results)
  PROVE  Discovered <=> Len(results) = 2 * N + 9
  <1>1. N \in Nat /\ Len(results) \in Nat /\ (2 <= Len(results) => results[2] = N)
    BY DesignFacts DEF Known
  <1>2. Len(ConfigReads) = 7
    <2>1. 1 \in 1 .. 7  OBVIOUS
    <2> QED BY <2>1, ConfigReadsFit
  <1>3. CASE 2 <= Len(results)
    <2>1. CtorReads(results) = 2 + 2 * N  BY <1>1, <1>3 DEF CtorReads, NumConfigs
    <2> QED BY <1>1, <1>2, <1>3, <2>1 DEF Discovered
  <1>4. CASE ~ (2 <= Len(results))  BY <1>1, <1>4 DEF Discovered
  <1> QED BY <1>3, <1>4

readState == <<fifos, pre_read, axi_read, files, outstanding, results, answered>>

\* Only the clock and new reads change what the reads depend on.
LEMMA ReadSteps ==
  ASSUME [Next]_vars
  PROVE  Clock \/ Discover \/ (\E t \in Threads : ReadRegister(t)) \/ UNCHANGED readState
  <1>1. ASSUME NEW t, NEW writes, setCSR(t, writes)
        PROVE  UNCHANGED readState
    BY <1>1 DEF setCSR, readState, readVars
  <1>2. ASSUME NEW t, NEW writes, Call(t, writes)
        PROVE  UNCHANGED readState
    BY <1>1, <1>2 DEF Call
  <1>3. ASSUME NEW t \in Threads, Continue(t)
        PROVE  UNCHANGED readState
    BY <1>1, <1>3 DEF Continue
  <1>4. CASE Configure
    <2>1. PICK v \in VAddrs, n \in Sizes :
            configure_ring_buffer(0, v + MEMORY_ALIGNMENT_BYTES
                                       * Len(sent[Register(REPLAY_BUFFER_CONFIG_ID, 1)]), n)
      BY <1>4, Zenon DEF Configure
    <2> QED BY <2>1, <1>2, Zenon DEF configure_ring_buffer
  <1>5. ASSUME NEW t \in Threads, Calls(t)
        PROVE  UNCHANGED readState
    BY <1>2, <1>5, Zenon
       DEF Calls, enqueue_buffer, flush_buffers, enqueue_stream_config, enqueue_num_reads, write_register
  <1>6. CASE UNCHANGED vars  BY <1>6 DEF vars, hardwareVars, softwareVars, readState, readVars
  <1> QED BY <1>3, <1>4, <1>5, <1>6, Zenon DEF Next

\* A step that leaves the read path alone keeps the invariant.
LEMMA ReadsStay ==
  ASSUME ReadsInv, UNCHANGED readState
  PROVE  ReadsInv'
  <1>1. /\ fifos' = fifos /\ pre_read' = pre_read /\ axi_read' = axi_read /\ files' = files
        /\ outstanding' = outstanding /\ results' = results /\ answered' = answered
    BY DEF readState
  <1>2. FifosOK'  BY <1>1 DEF ReadsInv, FifosOK
  <1>3. InFlight'  BY <1>1 DEF ReadsInv, InFlight, Rq
  <1>4. DiscoveryInv'  BY <1>1 DEF ReadsInv, DiscoveryInv, Discovered
  <1>5. AnsweredInv'  BY <1>1 DEF ReadsInv, AnsweredInv
  <1> QED BY <1>2, <1>3, <1>4, <1>5 DEF ReadsInv

----
(* New reads.                                                              *)

\* A read is put on the channel.
LEMMA IssueKeeps ==
  ASSUME ReadsInv, NEW t \in Threads, NEW a \in Addrs, Issue(t, a)
  PROVE  FifosOK' /\ InFlight' /\ AnsweredInv' /\ results' = results /\ outstanding' = Append(outstanding, [thread |-> t, addr |-> a])
  <1>1. /\ axi_read = <<>> /\ axi_read' = <<a>> /\ outstanding' = Append(outstanding, [thread |-> t, addr |-> a])
        /\ fifos' = fifos /\ pre_read' = pre_read /\ files' = files /\ results' = results /\ answered' = answered
    BY DEF Issue, readVars
  <1>2. PICK r : r = [thread |-> t, addr |-> a]  OBVIOUS
  <1>3. r \in ReadRec /\ r.addr = a  BY <1>2 DEF ReadRec
  <1>4. PICK O, P, C, F : O = outstanding /\ P = pre_read /\ C = Rq /\ F = files  OBVIOUS
  <1>5. UnderWayInv(O, <<>>, P, C, F)  BY <1>1, <1>4 DEF ReadsInv, InFlight
  <1>6. UnderWayInv(Append(O, r), <<r.addr>>, P, C, F)  BY <1>3, <1>5, ReadIssued
  <1>7. outstanding' = Append(O, r) /\ axi_read' = <<r.addr>> /\ pre_read' = P /\ Rq' = C /\ files' = F
    BY <1>1, <1>2, <1>3, <1>4 DEF Rq
  <1>8. InFlight'  BY <1>6, <1>7 DEF InFlight
  <1>9. FifosOK' /\ AnsweredInv'  BY <1>1 DEF ReadsInv, FifosOK, AnsweredInv
  <1> QED BY <1>1, <1>8, <1>9

\* The discovery reads its next register.
LEMMA DiscoverKeeps ==
  ASSUME ReadsInv, Discover
  PROVE  ReadsInv'
  <1>1. ~Discovered /\ ~Waits(App) /\ Issue(App, NextRead(results))  BY DEF Discover
  <1>2. Known(results) /\ Len(results) < 2 * N + 9
    <2>1. Known(results)  BY DEF ReadsInv, DiscoveryInv
    <2>2. Len(results) \in Nat /\ N \in Nat /\ Len(results) <= 2 * N + 9
      BY <2>1, DesignFacts DEF Known
    <2> QED BY <2>1, <2>2, <1>1, DiscoveredIs
  <1>3. NextRead(results) \in Addrs  BY <1>2, NextReadFollows DEF Follows
  <1>4. outstanding = <<>>
    <2>1. ASSUME outstanding = <<[thread |-> App, addr |-> NextRead(results)]>> PROVE FALSE
      <3>1. 1 \in DOMAIN outstanding /\ outstanding[1].thread = App  BY <2>1
      <3> QED BY <3>1, <1>1 DEF Waits
    <2> QED BY <2>1, <1>1 DEF ReadsInv, DiscoveryInv
  <1>5. App \in Threads  BY PathAssumption
  <1>6. /\ FifosOK' /\ InFlight' /\ AnsweredInv' /\ results' = results
        /\ outstanding' = Append(outstanding, [thread |-> App, addr |-> NextRead(results)])
    BY <1>1, <1>3, <1>5, IssueKeeps
  <1>7. outstanding' = <<[thread |-> App, addr |-> NextRead(results)]>>  BY <1>4, <1>6
  <1>8. DiscoveryInv'  BY <1>2, <1>6, <1>7 DEF DiscoveryInv, Discovered
  <1> QED BY <1>6, <1>8 DEF ReadsInv

\* A thread reads a register of a config.
LEMMA RegisterKeeps ==
  ASSUME ReadsInv, NEW t \in Threads, ReadRegister(t)
  PROVE  ReadsInv'
  <1>1. Discovered /\ \E id \in ConfigIds : \E reg \in {0, NumRegs(id) - 1} : Issue(t, Offset(id) + reg)
    BY DEF ReadRegister
  <1>i. PICK id \in ConfigIds : \E reg \in {0, NumRegs(id) - 1} : Issue(t, Offset(id) + reg)
    BY <1>1
  <1>2. PICK reg \in {0, NumRegs(id) - 1} : Issue(t, Offset(id) + reg)  BY <1>i
  <1>3. Known(results) /\ Len(results) = 2 * N + 9 /\ N \in Nat
    BY <1>1, DiscoveredIs, DesignFacts DEF ReadsInv, DiscoveryInv
  <1>4. \E c \in Configs : id = Design[c].id
    <2>1. PICK i \in 0 .. NumConfigs(results) - 1 : id = config_ids(results, i)
      BY <1>2 DEF ConfigIds
    <2>2. NumConfigs(results) = N  BY <1>3 DEF Known, NumConfigs
    <2>3. PICK c : c = i + 1  OBVIOUS
    <2>4. c \in Configs /\ 2 * c + 2 <= Len(results) /\ 2 * c + 2 = 2 * i + 4
      BY <2>1, <2>2, <2>3, <1>3 DEF Configs, N
    <2>5. id = results[2 * c + 2]  BY <2>1, <2>4 DEF config_ids
    <2>6. id = Design[c].id  BY <2>4, <2>5, <1>3 DEF Known
    <2> QED BY <2>4, <2>6
  <1>5. PICK c \in Configs : id = Design[c].id  BY <1>4
  <1>6. Offset(id) = Bound[c] /\ NumRegs(id) = Design[c].size
    <2>1. 2 * N + 2 <= Len(results)  BY <1>3
    <2> QED BY <2>1, <1>3, <1>5, ConfigFound DEF Offset, NumRegs
  <1>7. reg \in Nat /\ reg < Design[c].size
    <2>1. Design[c].size \in Nat /\ Design[c].size >= 1  BY SizesPositive, DesignFacts
    <2> QED BY <2>1, <1>2, <1>6
  <1>8. Offset(id) + reg \in Addrs  BY <1>6, <1>7, InSpace
  <1>9. FifosOK' /\ InFlight' /\ AnsweredInv' /\ results' = results  BY <1>2, <1>8, IssueKeeps
  <1>10. DiscoveryInv'  BY <1>1, <1>3, <1>9 DEF DiscoveryInv, Discovered
  <1> QED BY <1>9, <1>10 DEF ReadsInv

----
(* A clock edge answers the oldest read, forwards the one in front of the  *)
(* splitter to its port, and takes the next one.                           *)

\* The splitter takes a port from its FIFO, or puts one into it.
Pops == OValid(fifos[ReadQueue]) /\ OutReady(ReadQueue)
Pushes == InValid(ReadQueue) /\ IReady(fifos[ReadQueue])

\* What is answered is what the oldest port holds.
LEMMA PopIs ==
  ASSUME ReadsInv
  PROVE  /\ Pops => /\ Rq # <<>> /\ files[Head(Rq)].state = "respond" /\ RespondingPort = {Head(Rq)}
                    /\ Response = {files[Head(Rq)].data}
         /\ ~Pops => RespondingPort = {} /\ Response = {}
  <1>1. ReadQueue \in FifoIds  BY DEF FifoIds
  <1>2. FifoOK(fifos[ReadQueue])  BY <1>1 DEF ReadsInv, FifosOK
  <1>3. PICK f, C : f = fifos[ReadQueue] /\ C = Rq  OBVIOUS
  <1>4. OValid(f) => C # <<>> /\ f.o_data = Head(C)  BY <1>2, <1>3, OutputsOK DEF Rq
  <1>5. OutReady(ReadQueue) <=> \E p \in Ports : f.o_data = p /\ files[p].state = "respond"
    BY <1>3 DEF OutReady
  <1>6. \A p : p \in RespondingPort <=> p \in Ports /\ OValid(f) /\ f.o_data = p /\ files[p].state = "respond"
    BY <1>3, Zenon DEF RespondingPort
  <1>7. ASSUME Pops
        PROVE  /\ Rq # <<>> /\ files[Head(Rq)].state = "respond" /\ RespondingPort = {Head(Rq)}
               /\ Response = {files[Head(Rq)].data}
    <2>1. OValid(f) /\ OutReady(ReadQueue)  BY <1>3, <1>7 DEF Pops
    <2>2. PICK p \in Ports : f.o_data = p /\ files[p].state = "respond"  BY <2>1, <1>5
    <2>3. C # <<>> /\ p = Head(C)  BY <2>1, <2>2, <1>4
    <2>4. RespondingPort = {p}  BY <2>1, <2>2, <1>6
    <2>5. Response = {files[p].data}  BY <2>4 DEF Response
    <2> QED BY <2>2, <2>3, <2>4, <2>5, <1>3
  <1>8. ASSUME ~Pops
        PROVE  RespondingPort = {} /\ Response = {}
    <2>1. ~ (OValid(f) /\ OutReady(ReadQueue))  BY <1>3, <1>8 DEF Pops
    <2>2. \A p : p \notin RespondingPort  BY <2>1, <1>5, <1>6
    <2>3. RespondingPort = {}  BY <2>2
    <2> QED BY <2>3 DEF Response
  <1> QED BY <1>7, <1>8

\* What is put into the FIFO is the port of the read in front of the splitter.
LEMMA PushIs ==
  ASSUME ReadsInv
  PROVE  /\ pre_read = <<>> => ~Pushes
         /\ pre_read # <<>> =>
              /\ ReadPort(pre_read[1]) \in Ports
              /\ Pushes <=> ReadReady(ReadPort(pre_read[1]))
              /\ Pushes => InData(ReadQueue) = ReadPort(pre_read[1])
         /\ \A p \in Ports : Requested(p) <=> pre_read # <<>> /\ p = ReadPort(pre_read[1])
  <1>1. \A p \in Ports : Requested(p) <=> pre_read # <<>> /\ p = ReadPort(pre_read[1])
    BY DEF Requested
  <1>2. InValid(ReadQueue) <=> \E p \in Ports : Requested(p) /\ PortReady(p)  BY DEF InValid
  <1>3. ASSUME pre_read = <<>> PROVE ~Pushes  BY <1>1, <1>2, <1>3 DEF Pushes
  <1>4. ASSUME pre_read # <<>>
        PROVE  /\ ReadPort(pre_read[1]) \in Ports
               /\ Pushes <=> ReadReady(ReadPort(pre_read[1]))
               /\ Pushes => InData(ReadQueue) = ReadPort(pre_read[1])
    <2>1. pre_read[1] \in Addrs
      <3>1. pre_read \in Slots(Addrs)  BY DEF ReadsInv, InFlight, UnderWayInv, ReadsInOrder
      <3> QED BY <3>1, <1>4, SlotFacts
    <2>2. PICK p : p = ReadPort(pre_read[1])  OBVIOUS
    <2>3. p \in Ports  BY <2>1, <2>2, RegisterAt
    <2>4. InValid(ReadQueue) <=> PortReady(p)  BY <2>2, <2>3, <1>1, <1>2, <1>4
    <2>5. Pushes <=> ReadReady(p)  BY <2>4 DEF Pushes, ReadReady
    <2>6. Pushes => InData(ReadQueue) = p  BY <2>2 DEF Pushes, InData
    <2> QED BY <2>2, <2>3, <2>5, <2>6
  <1> QED BY <1>1, <1>3, <1>4

\* What a clock edge does to the files: lookups, the answer, the read forwarded.
Forwarded(P, p) == [state |-> "lookup", addr |-> P[1] - Bound[p], data |-> Undefined]

\* The files after a clock edge: one port may be done, another one may begin.
Answering(F, C, pop) == IF pop THEN [LookedUp(F) EXCEPT ![Head(C)] = Waiting] ELSE LookedUp(F)
Forwarding(F, P, p, push) == IF push THEN [F EXCEPT ![p] = Forwarded(P, p)] ELSE F

\* A clock edge does all of this at once.
LEMMA EdgeKeeps ==
  ASSUME NEW O, NEW A, NEW P, NEW C, NEW F, UnderWayInv(O, A, P, C, F),
         NEW pop \in BOOLEAN, pop => C # <<>> /\ F[Head(C)].state = "respond",
         NEW push \in BOOLEAN, NEW p, push => P # <<>> /\ p = ReadPort(P[1]) /\ F[p].state = "wait",
         NEW moves \in BOOLEAN, moves => push \/ P = <<>>, push => moves
  PROVE  UnderWayInv(IF pop THEN Tail(O) ELSE O, IF moves THEN <<>> ELSE A, IF moves THEN A ELSE P,
                     (IF pop THEN Tail(C) ELSE C) \o (IF push THEN <<p>> ELSE <<>>),
                     Forwarding(Answering(F, C, pop), P, p, push))
  <1>1. PICK F1 : F1 = LookedUp(F)  OBVIOUS
  <1>2. UnderWayInv(O, A, P, C, F1)  BY <1>1, LookupKeeps
  <1>3. \A q \in Ports : F[q].state # "lookup" => F1[q] = F[q]  BY <1>1 DEF LookedUp
  <1>4. C \in Seq(Ports) /\ (P # <<>> => P[1] \in Addrs)  BY SlotFacts DEF UnderWayInv, ReadsInOrder
  <1>5. PICK O1, C1, F2 : /\ O1 = IF pop THEN Tail(O) ELSE O
                          /\ C1 = IF pop THEN Tail(C) ELSE C
                          /\ F2 = Answering(F, C, pop)
    OBVIOUS
  <1>6. UnderWayInv(O1, A, P, C1, F2) /\ (push => F2[p].state = "wait")
    <2>1. CASE pop
      <3>1. Head(C) \in Ports /\ F[Head(C)].state = "respond" /\ C # <<>>  BY <2>1, <1>4
      <3>2. F1[Head(C)].state = "respond"  BY <3>1, <1>3
      <3>3. F2 = [F1 EXCEPT ![Head(C)] = Waiting]  BY <2>1, <1>1, <1>5 DEF Answering
      <3>4. UnderWayInv(Tail(O), A, P, Tail(C), [F1 EXCEPT ![Head(C)] = Waiting])
        BY <3>1, <3>2, <1>2, ReadAnswered
      <3>5. ASSUME push PROVE F2[p].state = "wait"
        <4>1. p \in Ports /\ F[p].state = "wait" /\ p # Head(C)  BY <3>1, <3>5, <1>4, RegisterAt
        <4>2. F1[p] = F[p] /\ F1 = [q \in Ports |-> F1[q]]
          BY <4>1, <1>2, <1>3 DEF UnderWayInv, FileTypes
        <4>3. F2[p] = F1[p]  BY <4>1, <4>2, <3>3
        <4> QED BY <4>1, <4>2, <4>3
      <3> QED BY <2>1, <3>3, <3>4, <3>5, <1>5
    <2>2. CASE ~pop
      <3>1. O1 = O /\ C1 = C /\ F2 = F1  BY <2>2, <1>1, <1>5 DEF Answering
      <3>2. ASSUME push PROVE F2[p].state = "wait"
        <4>1. p \in Ports /\ F[p].state = "wait"  BY <3>2, <1>4, RegisterAt
        <4> QED BY <4>1, <3>1, <1>3
      <3> QED BY <3>1, <3>2, <1>2
    <2> QED BY <2>1, <2>2
  <1>7. PICK C2, F3 : C2 = C1 \o (IF push THEN <<p>> ELSE <<>>) /\ F3 = Forwarding(F2, P, p, push)
    OBVIOUS
  <1>8. C1 \in Seq(Ports)  BY <1>6 DEF UnderWayInv, ReadsInOrder
  <1>9. CASE push
    <2>1. p = ReadPort(P[1]) /\ P # <<>> /\ F2[p].state = "wait" /\ p \in Ports
      BY <1>4, <1>6, <1>9, RegisterAt
    <2>2. UnderWayInv(O1, A, <<>>, Append(C1, p), [F2 EXCEPT ![p] = Forwarded(P, p)])
      BY <2>1, <1>6, ReadForwarded DEF Forwarded
    <2>3. C2 = Append(C1, p) /\ F3 = [F2 EXCEPT ![p] = Forwarded(P, p)]
      BY <2>1, <1>7, <1>8, <1>9 DEF Forwarding
    <2>4. UnderWayInv(O1, <<>>, A, C2, F3)  BY <2>2, <2>3, ReadMoves
    <2> QED BY <2>4, <1>5, <1>7, <1>9
  <1>10. CASE ~push
    <2>1. C2 = C1 /\ F3 = F2  BY <1>7, <1>8, <1>10 DEF Forwarding
    <2>2. CASE moves
      <3>1. P = <<>>  BY <2>2, <1>10
      <3>2. UnderWayInv(O1, <<>>, A, C2, F3)  BY <3>1, <2>1, <1>6, ReadMoves
      <3> QED BY <3>2, <2>2, <1>5, <1>7
    <2>3. CASE ~moves  BY <2>1, <2>3, <1>5, <1>6, <1>7
    <2> QED BY <2>2, <2>3
  <1> QED BY <1>9, <1>10

\* The files of the ports move as EdgeKeeps says.
LEMMA FilesMove ==
  ASSUME ReadsInv, files' = [p \in Ports |-> ClockedFile(p)],
         NEW pop \in BOOLEAN, pop <=> Pops, NEW push \in BOOLEAN, push <=> Pushes,
         NEW q, pre_read # <<>> => q = ReadPort(pre_read[1])
  PROVE  files' = Forwarding(Answering(files, Rq, pop), pre_read, q, push)
  <1>1. PICK F, C, P : F = files /\ C = Rq /\ P = pre_read  OBVIOUS
  <1>2. /\ F = [p \in Ports |-> F[p]] /\ C \in Seq(Ports)
        /\ \A p \in Ports : F[p].state \in FileStates
    BY <1>1 DEF ReadsInv, InFlight, UnderWayInv, FileTypes, ReadsInOrder
  <1>3. pop => C # <<>> /\ Head(C) \in Ports /\ F[Head(C)].state = "respond"  BY <1>1, <1>2, PopIs
  <1>4. \A p : p \in RespondingPort <=> pop /\ p = Head(C)  BY <1>1, PopIs
  <1>5. push => P # <<>> /\ q \in Ports /\ F[q].state = "wait"
    <2>1. ASSUME push PROVE P # <<>> /\ q \in Ports /\ F[q].state = "wait"
      <3>1. P # <<>>  BY <2>1, <1>1, PushIs
      <3>2. q = ReadPort(P[1]) /\ q \in Ports /\ ReadReady(q)  BY <2>1, <3>1, <1>1, PushIs
      <3>3. F[q].state = "wait"  BY <3>2, <1>1 DEF ReadReady, PortReady
      <3> QED BY <3>1, <3>2, <3>3
    <2> QED BY <2>1
  <1>6. \A p \in Ports : Requested(p) /\ ReadReady(p) <=> push /\ p = q
    <2> SUFFICES ASSUME NEW p \in Ports PROVE Requested(p) /\ ReadReady(p) <=> push /\ p = q
      OBVIOUS
    <2>1. Requested(p) <=> P # <<>> /\ p = q  BY <1>1, PushIs
    <2>2. P # <<>> => (push <=> ReadReady(q))  BY <1>1, PushIs
    <2> QED BY <2>1, <2>2, <1>5
  <1>7. PICK F1 : F1 = LookedUp(F)  OBVIOUS
  <1>8. /\ F1 = [p \in Ports |-> F1[p]]
        /\ \A p \in Ports : F1[p] = IF F[p].state = "lookup"
              THEN [state |-> "respond", addr |-> Undefined, data |-> Value(p, F[p].addr)] ELSE F[p]
    BY <1>7 DEF LookedUp
  <1>9. PICK F2 : F2 = Answering(F, C, pop)  OBVIOUS
  <1>10. /\ F2 = [p \in Ports |-> F2[p]]
         /\ \A p \in Ports : F2[p] = IF pop /\ p = Head(C) THEN Waiting ELSE F1[p]
    <2>1. F2 = IF pop THEN [F1 EXCEPT ![Head(C)] = Waiting] ELSE F1  BY <1>7, <1>9 DEF Answering
    <2>2. CASE pop  BY <2>1, <2>2, <1>8
    <2>3. CASE ~pop  BY <2>1, <2>3, <1>8
    <2> QED BY <2>2, <2>3
  <1>11. PICK F3 : F3 = Forwarding(F2, P, q, push)  OBVIOUS
  <1>12. /\ F3 = [p \in Ports |-> F3[p]]
         /\ \A p \in Ports : F3[p] = IF push /\ p = q THEN Forwarded(P, q) ELSE F2[p]
    <2>1. F3 = IF push THEN [F2 EXCEPT ![q] = Forwarded(P, q)] ELSE F2  BY <1>11 DEF Forwarding
    <2>2. CASE push  BY <2>1, <2>2, <1>10
    <2>3. CASE ~push  BY <2>1, <2>3, <1>10
    <2> QED BY <2>2, <2>3
  <1>13. ASSUME NEW p \in Ports PROVE ClockedFile(p) = F3[p]
    <2>1. F[p].state \in {"wait", "lookup", "respond"}  BY <1>2 DEF FileStates
    <2>2. CASE F[p].state = "wait"
      <3>1. F1[p] = F[p] /\ ~ (pop /\ p = Head(C))  BY <2>2, <1>3, <1>8
      <3>2. F2[p] = F[p] /\ p \notin RespondingPort  BY <3>1, <1>4, <1>10
      <3>3. CASE push /\ p = q
        <4>1. Requested(p) /\ ReadReady(p)  BY <3>3, <1>6
        <4>2. ClockedFile(p) = Forwarded(P, p)  BY <4>1, <2>2, <3>2, <1>1 DEF ClockedFile, Forwarded
        <4> QED BY <4>2, <3>3, <1>12
      <3>4. CASE ~ (push /\ p = q)
        <4>1. ~ (Requested(p) /\ ReadReady(p))  BY <3>4, <1>6
        <4>2. ClockedFile(p) = F[p]  BY <4>1, <2>2, <3>2, <1>1 DEF ClockedFile
        <4> QED BY <4>2, <3>2, <3>4, <1>12
      <3> QED BY <3>3, <3>4
    <2>3. CASE F[p].state = "lookup"
      <3>1. ~ (pop /\ p = Head(C)) /\ ~ (push /\ p = q)  BY <2>3, <1>3, <1>5
      <3>2. F3[p] = F1[p]  BY <3>1, <1>10, <1>12
      <3>3. p \notin RespondingPort  BY <3>1, <1>4
      <3>4. ClockedFile(p) = [state |-> "respond", addr |-> Undefined, data |-> Value(p, F[p].addr)]
        BY <2>3, <3>3, <1>1 DEF ClockedFile
      <3> QED BY <2>3, <3>2, <3>4, <1>8
    <2>4. CASE F[p].state = "respond"
      <3>1. ~ (push /\ p = q)  BY <2>4, <1>5
      <3>2. F1[p] = F[p] /\ F3[p] = F2[p]  BY <2>4, <3>1, <1>8, <1>12
      <3>3. CASE pop /\ p = Head(C)
        <4>1. p \in RespondingPort  BY <3>3, <1>4
        <4>2. ClockedFile(p) = Waiting  BY <4>1, <2>4, <1>1 DEF ClockedFile, Waiting
        <4> QED BY <4>2, <3>2, <3>3, <1>10
      <3>4. CASE ~ (pop /\ p = Head(C))
        <4>1. p \notin RespondingPort  BY <3>4, <1>4
        <4>2. ClockedFile(p) = F[p]  BY <4>1, <2>4, <1>1 DEF ClockedFile
        <4> QED BY <4>2, <3>2, <3>4, <1>10
      <3> QED BY <3>3, <3>4
    <2> QED BY <2>1, <2>2, <2>3, <2>4
  <1>14. files' = F3  BY <1>12, <1>13
  <1> QED BY <1>1, <1>9, <1>11, <1>14

\* The clock edge keeps the reads under way.
LEMMA ClockReadsKeeps ==
  ASSUME ReadsInv, Clock
  PROVE  FifosOK' /\ InFlight'
  <1>1. ClockFifos /\ ClockReads /\ Answer  BY DEF Clock, ClockHardware
  <1>2. FifosOK /\ FifosOK'  BY <1>1, ClockEdge DEF ReadsInv
  <1>3. PICK O, A, P, C, F : O = outstanding /\ A = axi_read /\ P = pre_read /\ C = Rq /\ F = files
    OBVIOUS
  <1>4. UnderWayInv(O, A, P, C, F)  BY <1>3 DEF ReadsInv, InFlight
  <1>5. PICK pop \in BOOLEAN : pop <=> Pops  OBVIOUS
  <1>6. PICK push \in BOOLEAN : push <=> Pushes  OBVIOUS
  <1>7. PICK q : q = ReadPort(P[1])  OBVIOUS
  <1>8. pop => C # <<>> /\ F[Head(C)].state = "respond"  BY <1>3, <1>5, PopIs
  <1>9. push => P # <<>> /\ q = ReadPort(P[1]) /\ F[q].state = "wait"
    <2>1. push => P # <<>>  BY <1>3, <1>6, PushIs
    <2>2. push => ReadReady(q)  BY <2>1, <1>3, <1>6, <1>7, PushIs
    <2> QED BY <2>1, <2>2, <1>3, <1>7 DEF ReadReady, PortReady
  <1>10. PICK moves \in BOOLEAN : /\ MovesRead(moves)
                                  /\ pre_read' = IF moves THEN axi_read ELSE pre_read
                                  /\ axi_read' = IF moves THEN <<>> ELSE axi_read
    BY <1>1 DEF ClockReads
  <1>11. P # <<>> => (moves <=> push)
    <2>1. ASSUME P # <<>> PROVE moves <=> push
      <3>1. PICK p \in Ports : (pre_read = <<>> \/ Requested(p)) /\ moves = ReadReady(p)
        BY <1>10 DEF MovesRead
      <3>2. Requested(p)  BY <3>1, <2>1, <1>3
      <3>3. p = q  BY <3>2, <1>3, <1>7, PushIs
      <3>4. Pushes <=> ReadReady(q)  BY <2>1, <1>3, <1>7, PushIs
      <3> QED BY <3>1, <3>3, <3>4, <1>6
    <2> QED BY <2>1
  <1>12. (moves => push \/ P = <<>>) /\ (push => moves)  BY <1>9, <1>11
  <1>13. UnderWayInv(IF pop THEN Tail(O) ELSE O, IF moves THEN <<>> ELSE A, IF moves THEN A ELSE P,
                     (IF pop THEN Tail(C) ELSE C) \o (IF push THEN <<q>> ELSE <<>>),
                     Forwarding(Answering(F, C, pop), P, q, push))
    BY <1>4, <1>8, <1>9, <1>12, EdgeKeeps
  <1>14. files' = Forwarding(Answering(F, C, pop), P, q, push)
    <2>1. files' = [p \in Ports |-> ClockedFile(p)]  BY <1>1 DEF ClockReads
    <2> QED BY <2>1, <1>3, <1>5, <1>6, <1>7, FilesMove
  <1>15. Rq' = (IF pop THEN Tail(C) ELSE C) \o (IF push THEN <<q>> ELSE <<>>)
    <2>1. ReadQueue \in FifoIds  BY DEF FifoIds
    <2>2. Rq' = (IF Pops THEN Tail(Rq) ELSE Rq) \o (IF Pushes THEN <<InData(ReadQueue)>> ELSE <<>>)
      BY <2>1, <1>1, <1>2, FifoEdge DEF Rq, Pops, Pushes
    <2>3. push => InData(ReadQueue) = q  BY <1>3, <1>6, <1>7, <1>9, PushIs
    <2> QED BY <2>2, <2>3, <1>3, <1>5, <1>6
  <1>16. outstanding' = IF pop THEN Tail(O) ELSE O
    <2>1. CASE pop
      <3>1. Response = {files[Head(Rq)].data}  BY <2>1, <1>5, PopIs
      <3>2. Response # {}  BY <3>1
      <3> QED BY <2>1, <3>2, <1>1, <1>3 DEF Answer
    <2>2. CASE ~pop
      <3>1. Response = {}  BY <2>2, <1>5, PopIs
      <3> QED BY <2>2, <3>1, <1>1, <1>3 DEF Answer
    <2> QED BY <2>1, <2>2
  <1>17. pre_read' = (IF moves THEN A ELSE P) /\ axi_read' = (IF moves THEN <<>> ELSE A)
    BY <1>3, <1>10
  <1>18. InFlight'  BY <1>13, <1>14, <1>15, <1>16, <1>17 DEF InFlight
  <1> QED BY <1>2, <1>18

\* The software takes the answer in the same cycle.
LEMMA ClockKeeps ==
  ASSUME ReadsInv, Clock
  PROVE  ReadsInv'
  <1>1. FifosOK' /\ InFlight' /\ Answer  BY ClockReadsKeeps DEF Clock
  <1>2. Known(results) /\ (Discovered <=> Len(results) = 2 * N + 9)
    BY DiscoveredIs DEF ReadsInv, DiscoveryInv
  <1>3. CASE Response = {}
    <2>1. answered' = {} /\ results' = results /\ outstanding' = outstanding
      BY <1>1, <1>3 DEF Answer
    <2>2. DiscoveryInv'  BY <2>1 DEF ReadsInv, DiscoveryInv, Discovered
    <2>3. AnsweredInv'  BY <2>1 DEF AnsweredInv
    <2> QED BY <2>2, <2>3, <1>1 DEF ReadsInv
  <1>4. CASE Response # {}
    <2>1. PICK data \in Response :
            /\ outstanding' = Tail(outstanding)
            /\ results' = IF Discovered THEN results ELSE Append(results, data)
            /\ answered' = {[addr |-> Head(outstanding).addr, data |-> data]}
      BY <1>1, <1>4 DEF Answer
    <2>2. PICK O, A, P, C, F : O = outstanding /\ A = axi_read /\ P = pre_read /\ C = Rq /\ F = files
      OBVIOUS
    <2>3. Pops  BY <1>4, PopIs
    <2>4. C # <<>> /\ F[Head(C)].state = "respond" /\ data = F[Head(C)].data
      BY <2>1, <2>2, <2>3, PopIs
    <2>5. UnderWayInv(O, A, P, C, F)  BY <2>2 DEF ReadsInv, InFlight
    <2>6. O # <<>> /\ data = AllRegisters[Head(O).addr + 1]
      <3>1. C # <<>> /\ F[Head(C)].state = "respond"  BY <2>4
      <3>2. O # <<>> /\ Answers(F[Head(C)], Head(O))  BY <3>1, <2>5, ReadAnswered, Zenon
      <3> QED BY <3>2, <2>4 DEF Answers
    <2>7. AnsweredInv'
      <3>1. \A a \in answered' : a.addr = Head(O).addr /\ a.data = data  BY <2>1, <2>2
      <3> QED BY <3>1, <2>6 DEF AnsweredInv
    <2>8. CASE Discovered
      <3>1. results' = results  BY <2>1, <2>8
      <3>2. DiscoveryInv'  BY <3>1, <2>8, <1>2 DEF DiscoveryInv, Discovered
      <3> QED BY <3>2, <2>7, <1>1 DEF ReadsInv
    <2>9. CASE ~Discovered
      <3>1. O = <<[thread |-> App, addr |-> NextRead(results)]>>
        BY <2>2, <2>6, <2>9 DEF ReadsInv, DiscoveryInv
      <3>2. Head(O).addr = NextRead(results) /\ Tail(O) = <<>>  BY <3>1
      <3>3. Len(results) < 2 * N + 9
        <4>1. Len(results) \in Nat /\ N \in Nat /\ Len(results) <= 2 * N + 9
          BY <1>2, DesignFacts DEF Known
        <4> QED BY <4>1, <1>2, <2>9
      <3>4. Follows(results, NextRead(results))  BY <3>3, <1>2, NextReadFollows
      <3>5. Known(Append(results, data))  BY <3>2, <3>4, <2>6 DEF Follows
      <3>6. Known(results') /\ outstanding' = <<>>  BY <3>2, <3>5, <2>1, <2>2, <2>9
      <3>7. DiscoveryInv'
        <4>1. Known(results)'  BY <3>6 DEF Known
        <4> QED BY <4>1, <3>6 DEF DiscoveryInv
      <3> QED BY <3>7, <2>7, <1>1 DEF ReadsInv
    <2> QED BY <2>8, <2>9
  <1> QED BY <1>3, <1>4

\* No read is under way at first.
LEMMA ReadsInit == Init => ReadsInv
  <1> SUFFICES ASSUME Init PROVE ReadsInv  OBVIOUS
  <1>1. /\ axi_read = <<>> /\ pre_read = <<>> /\ outstanding = <<>> /\ results = <<>> /\ answered = {}
        /\ files = [p \in Ports |-> [state |-> "wait", addr |-> Undefined, data |-> Undefined]]
        /\ \A q \in FifoIds : fifos[q] = Reset(Undefined)
    BY DEF Init, HardwareInit
  <1>2. FifosOK  BY <1>1, ResetOK DEF FifosOK
  <1>3. Rq = <<>>
    <2>1. ReadQueue \in FifoIds  BY DEF FifoIds
    <2> QED BY <2>1, <1>1, ResetOK DEF Rq
  <1>4. ReadsInOrder(<<>>, <<>>, <<>>, <<>>)
    <2>1. <<>> \in Slots(Addrs) /\ Len(<<>>) = 0  BY DEF Slots
    <2>2. <<>> \in Seq(ReadRec) /\ <<>> \in Seq(Ports) /\ Len(<<>>) = Len(<<>>) + Len(<<>>) + Len(<<>>)
      BY <2>1
    <2> QED BY <2>1, <2>2 DEF ReadsInOrder
  <1>5. FileTypes(files) /\ \A p \in Ports : files[p].state = "wait"
    BY <1>1 DEF FileTypes, FileStates
  <1>6. Served(<<>>, <<>>, files)  BY <1>5 DEF Served
  <1>7. InFlight  BY <1>1, <1>3, <1>4, <1>5, <1>6 DEF InFlight, UnderWayInv
  <1>8. DiscoveryInv
    <2>1. N \in Nat /\ Len(<<>>) = 0 /\ \A c \in Configs : c \in Nat  BY DesignFacts DEF Configs
    <2>2. PICK V : V = {AllRegisters[a + 1] : a \in Addrs}  OBVIOUS
    <2>3. <<>> \in Seq(V)  OBVIOUS
    <2>4. Known(<<>>)  BY <2>1, <2>2, <2>3 DEF Known
    <2> QED BY <2>4, <1>1 DEF DiscoveryInv
  <1>9. AnsweredInv  BY <1>1 DEF AnsweredInv
  <1> QED BY <1>2, <1>7, <1>8, <1>9 DEF ReadsInv

\* Every step keeps the invariant.
LEMMA ReadsNext ==
  ASSUME ReadsInv, [Next]_vars
  PROVE  ReadsInv'
  BY ReadSteps, ClockKeeps, DiscoverKeeps, RegisterKeeps, ReadsStay

\* The invariant says what the property asks for.
LEMMA ReadsMean == ReadsInv => ReadsAnswered
  <1> SUFFICES ASSUME ReadsInv PROVE ReadsAnswered  OBVIOUS
  <1>1. \A a \in answered : a.data = AllRegisters[a.addr + 1]  BY DEF ReadsInv, AnsweredInv
  <1>2. ASSUME Discovered, NEW c \in Configs
        PROVE  Offset(Design[c].id) = Bound[c] /\ NumRegs(Design[c].id) = Design[c].size
    <2>1. Known(results) /\ Len(results) = 2 * N + 9 /\ N \in Nat
      BY <1>2, DiscoveredIs, DesignFacts DEF ReadsInv, DiscoveryInv
    <2>2. 2 * N + 2 <= Len(results)  BY <2>1
    <2> QED BY <2>1, <2>2, ConfigFound DEF Offset, NumRegs
  <1>3. Len(outstanding) = Len(axi_read) + Len(pre_read) + fifos[ReadQueue].filling_level
    <2>1. FifoOK(fifos[ReadQueue])  BY DEF ReadsInv, FifosOK, FifoIds
    <2>2. Len(Rq) = fifos[ReadQueue].filling_level  BY <2>1, OutputsOK DEF Rq
    <2>3. /\ Len(outstanding) = Len(Rq) + Len(pre_read) + Len(axi_read) /\ Rq \in Seq(Ports)
          /\ pre_read \in Slots(Addrs) /\ axi_read \in Slots(Addrs)
      BY DEF ReadsInv, InFlight, UnderWayInv, ReadsInOrder
    <2>4. Len(Rq) \in Nat /\ Len(pre_read) \in Nat /\ Len(axi_read) \in Nat  BY <2>3, SlotFacts
    <2> QED BY <2>2, <2>3, <2>4
  <1> QED BY <1>1, <1>2, <1>3 DEF ReadsAnswered

\* Every read returns the register it asked for, to the thread that asked, and none is lost;
\* so the application finds each config where the design has it: for any number of threads,
\* any sizes of the address spaces, and however the reads of several ports overlap.
THEOREM ReadsGetTheirRegisters == Spec => []ReadsAnswered
  <1> QED BY ReadsInit, ReadsNext, ReadsMean, PTL DEF Spec
=============================================================================
