---------------------------- MODULE ReplayBuffer ----------------------------
(***************************************************************************)
(* The ReplayBuffer of hardware/src/hdl/replay_buffer: the writer stores    *)
(* streams in a ring buffer of the card memory, one transfer at a time; the *)
(* reader reads every stream as often as configured and releases its        *)
(* memory.  The two meet at the link and at the releases.                   *)
(*                                                                         *)
(* The StreamReader behind the reader divides the reads into transfers and  *)
(* puts their data together again.  The StreamWriter behind the writer is   *)
(* used as its module promises: writes complete in order.  An action is a   *)
(* handshake or a step of a state machine, the data of a transfer arrives    *)
(* at once, and register stages only delay what they carry.                 *)
(***************************************************************************)
EXTENDS Integers, SequencesExt

CONSTANTS
  BEAT,                   \* AXI_DATA_BYTES
  TRANSFER,               \* TRANSFER_BYTES
  MAX_TRANSFERS_PER_READ, \* 16 in the source
  MAX_WAITING_EXTENTS,    \* MAXIMUM_NUM_ENQUEUED_STREAMS
  MAX_OUTSTANDING_READS,  \* 16 in the source, also of the transfers of the reads
  MAX_PENDING,            \* transfers the StreamWriter writes at once
  Rings,                  \* ring buffers the software configures
  Streams                 \* the workloads: sequences of streams with their reads

ASSUME ReplayAssumption ==
  /\ BEAT \in Nat \ {0} /\ TRANSFER \in Nat \ {0} /\ TRANSFER % BEAT = 0
  /\ MAX_TRANSFERS_PER_READ \in Nat \ {0}
  /\ MAX_WAITING_EXTENTS \in Nat \ {0} /\ MAX_OUTSTANDING_READS \in Nat \ {0}
  /\ MAX_PENDING \in Nat \ {0}
  \* What the software checks before it configures a ring buffer.
  /\ Rings \subseteq [base : Nat, size : Nat]
  /\ \A r \in Rings : r.base % BEAT = 0 /\ r.size >= 2 * TRANSFER
  /\ Streams \subseteq Seq([len : Nat, num_reads : Nat \ {0}])

VARIABLES
  ring,            \* ring_base and ring_size
  configured,
  writer,          \* state of the writer, "ALLOCATE" or "WRITE"
  transfer_vaddr,
  free_bytes,
  unreserved,      \* unreserved_bytes and the registers in front of it
  pending,         \* transfers the StreamWriter issued, not yet on the link
  tail, tail_valid, tail_closed,
  extents,         \* inst_extent_fifo
  reader,          \* state of the reader
  remaining_reads,
  head_read,
  segments,        \* seg_vaddr and seg_size, at most two
  replay_seg,
  read,            \* the next read: read_vaddr .. read_release
  read_valid,
  reads,           \* inst_release_fifo: reads the StreamReader works on
  request,         \* StreamReader: what is left to request of a read
  outstanding,     \* StreamReader: inst_outstanding_fifo, with their addresses
  released_end,
  memory,          \* per address of a beat, what it holds
  streams,         \* the workload
  written,         \* streams the StreamWriter is through with
  offset,          \* bytes issued of the stream after these
  enqueued,        \* numbers of reads the reader took so far
  output           \* the streams at the output, the last one maybe unfinished

writerVars == <<ring, configured, writer, transfer_vaddr, free_bytes>>
streamVars == <<pending, written, offset>>
tailVars == <<tail, tail_valid, tail_closed>>
replayVars == <<reader, remaining_reads, segments, replay_seg>>
readVars == <<read, read_valid>>
requestVars == <<request, outstanding>>
vars == <<writerVars, unreserved, streamVars, tailVars, extents, replayVars,
          head_read, readVars, reads, requestVars, released_end, memory, streams, enqueued, output>>

----------------------------------------------------------------------------
(* Sizes and memory.                                                        *)

Align(bytes) == BEAT * ((bytes + BEAT - 1) \div BEAT)
Least(m, n) == IF m < n THEN m ELSE n

MAX_READ_BYTES == MAX_TRANSFERS_PER_READ * TRANSFER

ring_end == ring.base + ring.size

Addresses == UNION {{r.base + BEAT * i : i \in 0 .. r.size \div BEAT} : r \in Rings}

Junk == [stream |-> 0, beat |-> 0, bytes |-> 0]

\* The beats of bytes from .. from + size - 1 of a stream.
Beats(stream, from, size) ==
  [i \in 1 .. Align(size) \div BEAT |->
     [stream |-> stream, beat |-> from \div BEAT + i,
      bytes |-> Least(BEAT, size - BEAT * (i - 1))]]

\* Memory with beats stored from vaddr on.
Store(vaddr, beats) ==
  [a \in DOMAIN memory |->
     LET i == (a - vaddr) \div BEAT + 1
     IN IF a >= vaddr /\ i \in DOMAIN beats THEN beats[i] ELSE memory[a]]

\* size bytes of memory from vaddr on.
Load(vaddr, size) ==
  [i \in 1 .. Align(size) \div BEAT |->
     [memory[vaddr + BEAT * (i - 1)] EXCEPT
        !.bytes = Least(@, size - BEAT * (i - 1))]]

Init ==
  /\ ring = [base |-> 0, size |-> 0] /\ configured = FALSE
  /\ writer = "ALLOCATE" /\ transfer_vaddr = 0
  /\ free_bytes = 0 /\ unreserved = 0
  /\ pending = <<>> /\ written = 0 /\ offset = 0
  /\ tail = [vaddr |-> 0, size |-> 0, last |-> FALSE]
  /\ tail_valid = FALSE /\ tail_closed = FALSE
  /\ extents = <<>>
  /\ reader = "WAIT_FOR_STREAM" /\ remaining_reads = 0 /\ head_read = 0
  /\ segments = <<>> /\ replay_seg = 0
  /\ read = [vaddr |-> 0, size |-> 0, last |-> FALSE, release |-> FALSE,
             start |-> 0, span |-> 0, end |-> 0]
  /\ read_valid = FALSE
  /\ reads = <<>> /\ released_end = 0
  /\ request = [vaddr |-> 0, remaining |-> 0, last |-> FALSE] /\ outstanding = <<>>
  /\ memory = [a \in Addresses |-> Junk]
  /\ streams \in Streams
  /\ enqueued = 0
  /\ output = <<>>

----------------------------------------------------------------------------
(* Configuration.                                                           *)

\* The ring buffer is only configured again when all streams were read.
Idle ==
  /\ offset = 0 /\ pending = <<>> /\ ~tail_valid /\ extents = <<>>
  /\ reader = "WAIT_FOR_STREAM" /\ ~read_valid /\ reads = <<>>

Configure(r) ==
  /\ Idle
  /\ configured => r # ring
  /\ configured' = TRUE
  /\ ring' = r
  /\ writer' = "ALLOCATE"
  /\ transfer_vaddr' = r.base
  /\ free_bytes' = r.size
  /\ unreserved' = 0
  /\ released_end' = r.base
  /\ UNCHANGED <<streamVars, tailVars, extents, replayVars, head_read, readVars,
                 reads, requestVars, memory, streams, enqueued, output>>

----------------------------------------------------------------------------
(* Writer.                                                                  *)

bytes_to_end == ring_end - transfer_vaddr
next_vaddr == IF bytes_to_end < TRANSFER THEN ring.base ELSE transfer_vaddr

\* A plausible slip: the bytes skipped at the end are not reserved.
ReservesTransferOnly == TRANSFER
next_reserved == IF bytes_to_end < TRANSFER THEN bytes_to_end + TRANSFER ELSE TRANSFER

\* Plausible slips: free_bytes is not checked; the ring is never filled up.
IgnoresFreeBytes == TRUE
KeepsRoom == free_bytes > next_reserved
next_fits == free_bytes >= next_reserved

\* The StreamWriter takes the memory of the next transfer, to write it when it
\* likes.
Grant ==
  /\ writer = "ALLOCATE"
  /\ configured
  /\ next_fits
  /\ free_bytes' = free_bytes - next_reserved
  /\ transfer_vaddr' = next_vaddr
  /\ writer' = "WRITE"
  /\ memory' = Store(next_vaddr, [i \in 1 .. TRANSFER \div BEAT |-> Junk])
  /\ UNCHANGED <<ring, configured, unreserved, streamVars, tailVars, extents,
                 replayVars, head_read, readVars, reads, requestVars, released_end, streams,
                 enqueued, output>>

\* What a transfer that ends a stream does not use; a slip returns nothing.
ReturnsNothing(size) == 0
Returned(size) == TRANSFER - Align(size)

\* The StreamWriter issues the next transfer of the stream at the input; it
\* keeps the memory if the stream is empty.
Issue ==
  /\ writer = "WRITE"
  /\ written < Len(streams)
  /\ Len(pending) < MAX_PENDING
  /\ LET len == streams[written + 1].len
         size == Least(TRANSFER, len - offset)
         last == offset + size = len
     IN /\ pending' = Append(pending, [vaddr |-> transfer_vaddr, size |-> size,
                                       last |-> last, stream |-> written + 1,
                                       offset |-> offset])
        /\ written' = IF last THEN written + 1 ELSE written
        /\ offset' = IF last THEN 0 ELSE offset + size
        /\ IF ~last
             THEN /\ transfer_vaddr' = transfer_vaddr + TRANSFER
                  /\ writer' = "ALLOCATE"
                  /\ UNCHANGED unreserved
             ELSE IF size # 0
               THEN /\ transfer_vaddr' = transfer_vaddr + Align(size)
                    /\ writer' = "ALLOCATE"
                    /\ unreserved' = unreserved + Returned(size)
               ELSE UNCHANGED <<transfer_vaddr, writer, unreserved>>
  /\ UNCHANGED <<ring, configured, free_bytes, tailVars, extents, replayVars,
                 head_read, readVars, reads, requestVars, released_end, memory, streams,
                 enqueued, output>>

\* The register stages add what was released or returned to free_bytes.
Unreserve ==
  /\ unreserved # 0
  /\ free_bytes' = free_bytes + unreserved
  /\ unreserved' = 0
  /\ UNCHANGED <<ring, configured, writer, transfer_vaddr, streamVars, tailVars,
                 extents, replayVars, head_read, readVars, reads, requestVars, released_end,
                 memory, streams, enqueued, output>>

----------------------------------------------------------------------------
(* Reader: extents.                                                         *)

tail_end == tail.vaddr + Align(tail.size)

\* Plausible slips: every transfer is an extent of its own; what follows the
\* tail is taken to continue it.
ContinuesNothing(transfer) == FALSE
ContinuesAnyTail(transfer) == tail_valid /\ ~tail_closed
link_continues_tail(transfer) == tail_valid /\ ~tail_closed /\ transfer.vaddr = tail_end

\* The oldest write completes, and the reader takes its transfer.
Link ==
  /\ pending # <<>>
  /\ LET transfer == Head(pending)
     IN /\ ~tail_valid \/ link_continues_tail(transfer)
        /\ tail' = IF link_continues_tail(transfer)
                     THEN [tail EXCEPT !.size = @ + transfer.size, !.last = transfer.last]
                     ELSE [vaddr |-> transfer.vaddr, size |-> transfer.size, last |-> transfer.last]
        /\ tail_closed' = transfer.last
        /\ memory' = Store(transfer.vaddr,
                           Beats(transfer.stream, transfer.offset, transfer.size))
  /\ tail_valid' = TRUE
  /\ pending' = Tail(pending)
  /\ UNCHANGED <<writerVars, unreserved, written, offset, extents, replayVars,
                 head_read, readVars, reads, requestVars, released_end, streams, enqueued, output>>

\* The writer wrapped around the end of the ring buffer.
CloseTail ==
  /\ pending # <<>>
  /\ tail_valid /\ ~tail_closed
  /\ ~link_continues_tail(Head(pending))
  /\ tail_closed' = TRUE
  /\ UNCHANGED <<writerVars, unreserved, streamVars, tail, tail_valid, extents,
                 replayVars, head_read, readVars, reads, requestVars, released_end, memory,
                 streams, enqueued, output>>

MoveTail ==
  /\ tail_valid /\ tail_closed
  /\ Len(extents) < MAX_WAITING_EXTENTS
  /\ extents' = Append(extents, tail)
  /\ tail_valid' = FALSE
  /\ UNCHANGED <<writerVars, unreserved, streamVars, tail, tail_closed, replayVars,
                 head_read, readVars, reads, requestVars, released_end, memory, streams,
                 enqueued, output>>

----------------------------------------------------------------------------
(* Reader: reads.                                                           *)

\* The oldest extent: the head of the FIFO or, if it is empty, the open tail.
head_closed == extents # <<>>
head_valid == head_closed \/ (tail_valid /\ ~tail_closed)
head == IF head_closed THEN Head(extents) ELSE tail

head_available == head.size - head_read
read_more == head.size > head_read + MAX_READ_BYTES
first_read_size == IF read_more THEN MAX_READ_BYTES ELSE head_available

TakeNumReads ==
  /\ reader = "WAIT_FOR_STREAM"
  /\ configured
  /\ enqueued < Len(streams)
  /\ enqueued' = enqueued + 1
  /\ remaining_reads' = streams[enqueued + 1].num_reads - 1
  /\ head_read' = 0
  /\ segments' = <<>>
  /\ reader' = "FIRST_READ"
  /\ UNCHANGED <<writerVars, unreserved, streamVars, tailVars, extents, replay_seg,
                 readVars, reads, requestVars, released_end, memory, streams, output>>

\* The oldest extent is read completely by the read that is set up now.
PopExtent == head_closed /\ head.size <= head_read + MAX_READ_BYTES

\* A stream is only released after its last read, not after each.
ReleasesEachRead == TRUE
ReleasesFirstRead == remaining_reads = 0

SetUpFirstRead ==
  /\ read_valid' = TRUE
  /\ read' = [vaddr   |-> head.vaddr + head_read,
              size    |-> first_read_size,
              last    |-> head_closed /\ ~read_more /\ head.last,
              release |-> ReleasesFirstRead,
              start   |-> head.vaddr + head_read,
              span    |-> IF read_more THEN MAX_READ_BYTES ELSE Align(head.size) - head_read,
              end     |-> head.vaddr + IF read_more THEN head_read + MAX_READ_BYTES
                                                    ELSE Align(head.size)]

FirstRead ==
  /\ reader = "FIRST_READ"
  /\ ~read_valid
  /\ LET available == head_valid /\ (head_available # 0 \/ (head_closed /\ head.size = 0))
     IN /\ available \/ PopExtent
        /\ IF available THEN SetUpFirstRead ELSE UNCHANGED readVars
  /\ IF PopExtent
       THEN /\ extents' = Tail(extents)
            /\ head_read' = 0
            /\ segments' = IF Len(segments) = 2 THEN segments
                             ELSE Append(segments, [vaddr |-> head.vaddr, size |-> head.size])
            /\ IF head.last
                 THEN /\ replay_seg' = 0
                      /\ reader' = IF remaining_reads = 0 THEN "WAIT_FOR_STREAM" ELSE "REPLAY"
                 ELSE UNCHANGED <<replay_seg, reader>>
       ELSE /\ head_read' = IF read_more THEN head_read + MAX_READ_BYTES ELSE head.size
            /\ UNCHANGED <<extents, segments, replay_seg, reader>>
  /\ UNCHANGED <<writerVars, unreserved, streamVars, tailVars, remaining_reads,
                 reads, requestVars, released_end, memory, streams, enqueued, output>>

wrapped == Len(segments) = 2
seg_end(i) == segments[i].vaddr + Align(segments[i].size)

\* The bytes the stream occupies, including those skipped between its segments,
\* which a plausible slip leaves out.
SpanOfData == Align(segments[1].size) + IF wrapped THEN Align(segments[2].size) ELSE 0
stream_span ==
  Align(segments[1].size)
    + IF wrapped THEN (ring_end - seg_end(1)) + Align(segments[2].size) ELSE 0

Replay ==
  /\ reader = "REPLAY"
  /\ ~read_valid
  /\ LET final == ~wrapped \/ replay_seg = 1
     IN /\ read' = [vaddr   |-> segments[replay_seg + 1].vaddr,
                    size    |-> segments[replay_seg + 1].size,
                    last    |-> final,
                    release |-> remaining_reads = 1 /\ final,
                    start   |-> segments[1].vaddr,
                    span    |-> stream_span,
                    end     |-> IF wrapped THEN seg_end(2) ELSE seg_end(1)]
        /\ IF final
             THEN /\ replay_seg' = 0
                  /\ remaining_reads' = remaining_reads - 1
                  /\ reader' = IF remaining_reads = 1 THEN "WAIT_FOR_STREAM" ELSE "REPLAY"
             ELSE /\ replay_seg' = 1
                  /\ UNCHANGED <<remaining_reads, reader>>
  /\ read_valid' = TRUE
  /\ UNCHANGED <<writerVars, unreserved, streamVars, tailVars, extents, segments,
                 head_read, reads, requestVars, released_end, memory, streams, enqueued, output>>

----------------------------------------------------------------------------
(* StreamReader.  WAIT_FOR_BUFFER is the state in which nothing is left to   *)
(* request.                                                                  *)

Room == Len(outstanding) < MAX_OUTSTANDING_READS

\* It takes the next read; one without data needs no request.
IssueRead ==
  /\ read_valid
  /\ Len(reads) < MAX_OUTSTANDING_READS
  /\ request.remaining = 0 /\ Room
  /\ reads' = Append(reads, [release |-> read.release, start |-> read.start,
                             span |-> read.span, end |-> read.end])
  /\ read_valid' = FALSE
  /\ IF read.size = 0
       THEN /\ outstanding' = Append(outstanding,
                 [vaddr |-> read.vaddr, len |-> 0, buffer_end |-> TRUE, buffer_last |-> read.last])
            /\ UNCHANGED request
       ELSE /\ request' = [vaddr |-> read.vaddr, remaining |-> read.size, last |-> read.last]
            /\ UNCHANGED outstanding
  /\ UNCHANGED <<writerVars, unreserved, streamVars, tailVars, extents, replayVars,
                 head_read, read, released_end, memory, streams, enqueued, output>>

RequestTransfer ==
  /\ request.remaining # 0 /\ Room
  /\ LET len == Least(TRANSFER, request.remaining)
     IN /\ outstanding' = Append(outstanding,
             [vaddr |-> request.vaddr, len |-> len,
              buffer_end |-> request.remaining = len, buffer_last |-> request.last])
        /\ request' = [request EXCEPT !.vaddr = @ + len, !.remaining = @ - len]
  /\ UNCHANGED <<writerVars, unreserved, streamVars, tailVars, extents, replayVars,
                 head_read, readVars, reads, released_end, memory, streams, enqueued,
                 output>>

----------------------------------------------------------------------------
(* The data of the oldest outstanding transfer arrives; with that of the     *)
(* last one of a read, the read is done: buffer_done.                        *)

\* A plausible slip: the bytes skipped at the end of the ring are lost.
ReleasesSpanOnly(r) == r.span
released_bytes(r) ==
  (IF r.start # released_end THEN ring_end - released_end ELSE 0) + r.span

\* The output with more beats of its last stream.
Extend(beats, last) ==
  LET complete == output = <<>> \/ output[Len(output)].last
      before == IF complete THEN output ELSE Front(output)
      sofar == IF complete THEN <<>> ELSE Last(output).beats
  IN Append(before, [beats |-> sofar \o beats, last |-> last])

Receive ==
  /\ outstanding # <<>>
  /\ LET transfer == Head(outstanding)
         r == Head(reads)
     IN /\ output' = Extend(Load(transfer.vaddr, transfer.len),
                            transfer.buffer_end /\ transfer.buffer_last)
        /\ reads' = IF transfer.buffer_end THEN Tail(reads) ELSE reads
        /\ IF transfer.buffer_end /\ r.release
             THEN /\ unreserved' = unreserved + released_bytes(r)
                  /\ released_end' = r.end
             ELSE UNCHANGED <<unreserved, released_end>>
  /\ outstanding' = Tail(outstanding)
  /\ UNCHANGED <<writerVars, streamVars, tailVars, extents, replayVars, head_read,
                 readVars, request, memory, streams, enqueued>>

----------------------------------------------------------------------------
ConfigureRing == \E r \in Rings : Configure(r)

Next ==
  \/ ConfigureRing
  \/ Grant
  \/ Issue
  \/ Unreserve
  \/ Link
  \/ CloseTail
  \/ MoveTail
  \/ TakeNumReads
  \/ FirstRead
  \/ Replay
  \/ IssueRead
  \/ RequestTransfer
  \/ Receive

(* The circuit never stops, writes and reads complete, the design sends its *)
(* streams and the software enqueues the numbers of reads.  The software    *)
(* configures a ring buffer once; nothing makes it configure another.       *)
Fairness ==
  /\ WF_vars(ConfigureRing /\ ~configured)
  /\ WF_vars(Grant) /\ WF_vars(Issue) /\ WF_vars(Unreserve)
  /\ WF_vars(Link) /\ WF_vars(CloseTail) /\ WF_vars(MoveTail)
  /\ WF_vars(TakeNumReads) /\ WF_vars(FirstRead) /\ WF_vars(Replay)
  /\ WF_vars(IssueRead) /\ WF_vars(RequestTransfer) /\ WF_vars(Receive)

SafeSpec == Init /\ [][Next]_vars
Spec == SafeSpec /\ Fairness

----------------------------------------------------------------------------
Extent == [vaddr : Nat, size : Nat, last : BOOLEAN]
ReadType == [vaddr : Nat, size : Nat, last : BOOLEAN, release : BOOLEAN,
             start : Nat, span : Nat, end : Nat]
ReleaseType == [release : BOOLEAN, start : Nat, span : Nat, end : Nat]

(* Type invariant.  free_bytes is an unsigned vaddress_t: it neither runs    *)
(* below 0 nor, with what is under way to it, beyond the ring buffer.       *)
TypeOK ==
  /\ ring \in [base : Nat, size : Nat] /\ configured \in BOOLEAN
  /\ writer \in {"ALLOCATE", "WRITE"} /\ transfer_vaddr \in Nat
  /\ free_bytes \in Nat /\ unreserved \in Nat /\ free_bytes + unreserved <= ring.size
  /\ pending \in Seq([vaddr : Nat, size : Nat, last : BOOLEAN, stream : Nat, offset : Nat])
  /\ written \in 0 .. Len(streams) /\ offset \in Nat
  /\ tail \in Extent /\ tail_valid \in BOOLEAN /\ tail_closed \in BOOLEAN
  /\ extents \in Seq(Extent)
  /\ reader \in {"WAIT_FOR_STREAM", "FIRST_READ", "REPLAY"}
  /\ remaining_reads \in Nat /\ head_read \in Nat
  /\ segments \in Seq([vaddr : Nat, size : Nat]) /\ replay_seg \in 0 .. 1
  /\ read \in ReadType /\ read_valid \in BOOLEAN /\ reads \in Seq(ReleaseType)
  /\ request \in [vaddr : Nat, remaining : Nat, last : BOOLEAN]
  /\ outstanding \in Seq([vaddr : Nat, len : 0 .. TRANSFER, buffer_end : BOOLEAN,
                          buffer_last : BOOLEAN])
  /\ released_end \in Nat
  /\ enqueued \in 0 .. Len(streams)

(* Every stream appears at the output as often as it is to be read, one      *)
(* after another, complete and with the last flag only on its end: nothing   *)
(* is read before it is written or overwritten before its last read.         *)
Expected ==
  FoldLeft(LAMBDA outs, i :
             outs \o [k \in 1 .. streams[i].num_reads |->
                        [beats |-> Beats(i, 0, streams[i].len), last |-> TRUE]],
           <<>>, [i \in 1 .. Len(streams) |-> i])

OutputIsReplayed ==
  /\ Len(output) <= Len(Expected)
  /\ \A i \in 1 .. Len(output) :
       IF output[i].last
         THEN output[i] = Expected[i]
         ELSE i = Len(output) /\ IsPrefix(output[i].beats, Expected[i].beats)

(* When all streams were read, all memory is free again except what the      *)
(* writer holds for the next transfer, the bytes skipped before it included. *)
NoMemoryLeaks ==
  configured /\ Idle =>
    free_bytes + unreserved
      + (IF writer = "WRITE"
           THEN TRANSFER + (IF transfer_vaddr # released_end THEN ring_end - released_end ELSE 0)
           ELSE 0)
    = ring.size

(* A stream that is read more than once has at most two segments: the        *)
(* assertion of replay_buffer_reader.sv:250.                                 *)
TwoSegments ==
  reader = "FIRST_READ" /\ ~read_valid /\ PopExtent /\ remaining_reads # 0 => Len(segments) < 2

(* Every stream is eventually read as often as it was to be.                 *)
AllStreamsRead == <>(Len(output) = Len(Expected) /\ output[Len(output)].last)

=============================================================================
