------------------------------ MODULE MehdiFIFO ------------------------------
(***************************************************************************)
(* The FIFO that all parts of the hardware use (fifo.vhd). Its memory has  *)
(* a registered output that still shows the old contents of an address     *)
(* that is written in the same cycle, so an element that was written to an *)
(* empty FIFO is hidden for one more cycle. A FIFO is a record, and a      *)
(* clock edge is a function of it and its inputs.                          *)
(***************************************************************************)
EXTENDS Naturals, Sequences

CONSTANT DEPTH

\* A FIFO of depth 2 would not notice that it is full when its second element arrives
\* in the cycle in which the first one is hidden. The StreamWriter keeps to 4.
ASSUME DepthAssumption == DEPTH \in Nat /\ DEPTH >= 4

Addresses == 0 .. DEPTH - 1

\* The pointers have as many bits as an address.
Succ(ptr) == IF ptr = DEPTH - 1 THEN 0 ELSE ptr + 1

Reset(nothing) ==
  [memory |-> [a \in Addresses |-> nothing], o_data |-> nothing,
   write_ptr |-> 0, read_ptr |-> 0, filling_level |-> 0,
   empty |-> TRUE, full |-> FALSE, write_after_empty |-> FALSE]

IReady(f) == ~f.full
OValid(f) == ~f.empty /\ ~f.write_after_empty

\* s_operation, with what the FIFO itself refuses
Writes(f, i_valid) == i_valid /\ ~f.full
Reads(f, i_valid, o_ready) ==
  o_ready /\ ~f.empty /\ (~f.write_after_empty \/ (i_valid /\ f.full))

ReadPtr(f, reads) == IF reads THEN Succ(f.read_ptr) ELSE f.read_ptr

\* Mutation: an element that arrives as the last one leaves is not hidden.
ShowsEarly(f, writes, reads) == writes /\ f.empty

WriteAfterEmpty(f, writes, reads) ==
  writes /\ (f.empty \/ (reads /\ Succ(f.read_ptr) = f.write_ptr))

Level(f, writes, reads) ==
  IF writes /\ ~reads THEN f.filling_level + 1
  ELSE IF reads /\ ~writes THEN f.filling_level - 1
  ELSE f.filling_level

Full(f, writes, reads, o_ready) ==
  \/ f.full /\ ~reads
  \/ writes /\ ~o_ready /\ f.filling_level = DEPTH - 1

Empty(f, writes, reads, i_valid) ==
  /\ ~writes
  /\ f.empty \/ (reads /\ ~i_valid /\ Succ(f.read_ptr) = f.write_ptr)

Clocked(f, i_valid, i_data, o_ready) ==
  LET writes == Writes(f, i_valid)
      reads  == Reads(f, i_valid, o_ready) IN
  [memory            |-> IF writes THEN [f.memory EXCEPT ![f.write_ptr] = i_data] ELSE f.memory,
   o_data            |-> f.memory[ReadPtr(f, reads)],
   write_ptr         |-> IF writes THEN Succ(f.write_ptr) ELSE f.write_ptr,
   read_ptr          |-> ReadPtr(f, reads),
   filling_level     |-> Level(f, writes, reads),
   empty             |-> Empty(f, writes, reads, i_valid),
   full              |-> Full(f, writes, reads, o_ready),
   write_after_empty |-> WriteAfterEmpty(f, writes, reads)]

\* What is in the FIFO, oldest element first.
Index(ptr, k) == IF ptr + k < DEPTH THEN ptr + k ELSE ptr + k - DEPTH
Contents(f) == [k \in 1 .. f.filling_level |-> f.memory[Index(f.read_ptr, k - 1)]]
=============================================================================
