--------------------------- MODULE MCReplayBuffer ---------------------------
(***************************************************************************)
(* Model checking of ReplayBuffer: beats of two bytes, transfers of two     *)
(* beats, and ring buffers that fit three transfers and a beat, so that     *)
(* streams wrap with and without skipped bytes.                             *)
(***************************************************************************)
EXTENDS ReplayBuffer

CONSTANTS MAX_STREAMS, MAX_BYTES, Lengths, NumReads

\* A stream that is read more than once has to fit into the ring buffer: all
\* its transfers and the bytes skipped at the end of the ring buffer.
FitsRing(len, r) ==
  TRANSFER * ((len + TRANSFER - 1) \div TRANSFER) + TRANSFER - BEAT <= r.size

Job == {s \in [len : Lengths, num_reads : NumReads] :
          s.num_reads = 1 \/ \A r \in Rings : FitsRing(s.len, r)}

\* Bound: the bytes of all streams of a workload.
Workloads ==
  {w \in [1 .. MAX_STREAMS -> Job] :
     FoldLeft(LAMBDA sum, s : sum + s.len, 0, w) <= MAX_BYTES}

SmallRings == {[base |-> b, size |-> 3 * TRANSFER + BEAT] : b \in {0, BEAT}}

=============================================================================
