---------------------------- MODULE StreamWriter ----------------------------
(***************************************************************************)
(* The StreamWriter of hardware/src/hdl/memory/stream_writer.sv: it cuts   *)
(* the output stream of a design into transfers, asks Coyote to write      *)
(* every transfer into the buffers the software enqueued, and notifies     *)
(* the software of every buffer once all its transfers completed.          *)
(*                                                                         *)
(* One action is one handshake or one step of the state machine.  The      *)
(* parts of the module meet only at FIFOs and ready/valid handshakes, so   *)
(* the interleavings of these actions contain every behaviour of the       *)
(* clocked circuit, with arbitrary latencies of the FIFOs and of Coyote.   *)
(*                                                                         *)
(* Coyote and the host memory are the environment: Coyote takes requests,  *)
(* takes the beats of each, writes them and completes in request order,    *)
(* which is what the comment at stream_writer.sv:229 relies on.            *)
(***************************************************************************)
EXTENDS Integers, Sequences

CONSTANTS
  BEAT,                 \* AXI_DATA_BYTES, the bytes of a full data beat
  TRANSFER,             \* TRANSFER_LENGTH_BYTES
  LEN_FIFO_DEPTH,       \* depth of inst_len_fifo, 16 in the source
  PENDING_NOTIFY_DEPTH, \* 16 in the source
  SQ_DEPTH,             \* requests Coyote takes before it completes the first
  BufferIds,            \* the buffers the software owns, as natural numbers
  BufferSizes,          \* their possible sizes, in transfers
  MAX_ENQUEUED,         \* bound: buffers waiting in the mem_config FIFO
  MAX_BEATS,            \* bound: beats the design sends
  MAX_FLUSHES,          \* bound: flush pulses the software sends
  FLUSH_MIDSTREAM       \* may the software flush while a stream is written?

ASSUME WriterAssumption ==
  /\ BEAT \in Nat \ {0}
  /\ TRANSFER \in Nat \ {0}
  /\ TRANSFER % BEAT = 0             \* the elaboration check of line 70
  /\ LEN_FIFO_DEPTH \in Nat \ {0}
  /\ PENDING_NOTIFY_DEPTH \in Nat \ {0}
  /\ SQ_DEPTH \in Nat \ {0}
  /\ BufferIds \subseteq Nat
  /\ BufferSizes \subseteq Nat \ {0}  \* the buffer assertion of line 85
  /\ MAX_ENQUEUED \in Nat
  /\ MAX_BEATS \in Nat
  /\ MAX_FLUSHES \in Nat
  /\ FLUSH_MIDSTREAM \in BOOLEAN

VARIABLES
  curr_len,         \* bytes accepted of the transfer being cut
  data_fifo,        \* inst_data_fifo
  len_fifo,         \* inst_len_fifo: lengths of the transfers cut so far
  output_state,     \* state of the output state machine
  buffer,           \* current buffer: its id (buffer_vaddr) and capacity
  bytes_written,    \* bytes_written_to_buffer; vaddr is always buffer_vaddr + it
  beats_written,    \* beats_written_to_transfer
  num_requests,     \* requests sent for the current buffer
  pending,          \* inst_pending_notify_fifo
  num_completions,  \* completions not attributed to a sent notification
  buffers,          \* buffers enqueued and not yet taken (mem_config.buffer)
  empty_stream_consumes_buffer, \* the mem_config input of that name
  sq,               \* requests Coyote took and did not complete
  out,              \* beats handed to Coyote for these requests
  mem,              \* what Coyote wrote into each buffer the writer owns
  fed,              \* beats the design sent so far
  mid_stream,       \* is a stream under way at the input?
  undelivered,      \* history: beats accepted and not yet notified
  hist,             \* history: counters of requests and notifications
  flushes           \* flush pulses so far

inputVars  == <<curr_len, data_fifo, fed, mid_stream>>
fsmVars    == <<buffer, bytes_written, beats_written, num_requests>>
hostVars   == <<sq, out, mem>>
configVars == <<empty_stream_consumes_buffer>>
vars == <<inputVars, len_fifo, output_state, fsmVars, pending, num_completions,
          buffers, configVars, hostVars, undelivered, hist, flushes>>

----------------------------------------------------------------------------
(* Data.  A beat carries an identity in place of its bytes, the number of   *)
(* valid bytes (tkeep is contiguous from bit 0) and the last flag.          *)

Beat == [id : Nat, keep : 0 .. BEAT, last : BOOLEAN]

NoBuffer == [id |-> 0, capacity |-> 0]

\* Beats that a transfer or a buffer of len bytes takes.
NumBeats(len) == (len + BEAT - 1) \div BEAT

TARGET_DATA_DEPTH == 2 * (TRANSFER \div BEAT)

\* A plausible slip: the FIFO holds less than one transfer.
ShallowDataFifo == (TRANSFER \div BEAT) - 1

DATA_FIFO_DEPTH == IF TARGET_DATA_DEPTH >= 4 THEN TARGET_DATA_DEPTH ELSE 4

\* Buffer ids somewhere in the writer: enqueued, current, or waiting for
\* their notification.
InUse == {buffers[i].id : i \in DOMAIN buffers}
           \cup {pending[i].id : i \in DOMAIN pending}
           \cup {sq[i].id : i \in DOMAIN sq}
           \cup IF output_state \in {"REQUEST", "TRANSFER"} THEN {buffer.id} ELSE {}

----------------------------------------------------------------------------
Init ==
  /\ curr_len = 0
  /\ data_fifo = <<>>
  /\ len_fifo = <<>>
  /\ output_state = "RESET"
  /\ buffer = NoBuffer
  /\ bytes_written = 0
  /\ beats_written = 0
  /\ num_requests = 0
  /\ pending = <<>>
  /\ num_completions = 0
  /\ buffers = <<>>
  /\ empty_stream_consumes_buffer \in BOOLEAN
  /\ sq = <<>>
  /\ out = <<>>
  /\ mem = [b \in BufferIds |-> {}]
  /\ fed = 0
  /\ mid_stream = FALSE
  /\ undelivered = <<>>
  /\ hist = [requested |-> 0, completed |-> 0, pushed |-> 0, sent |-> 0]
  /\ flushes = 0

----------------------------------------------------------------------------
(* Input side: beats behind the null beat suppressor.                       *)

\* The beats the suppressor passes on: full unless last; a null beat only as
\* the single beat of an empty stream.
LegalBeat(b) ==
  /\ ~b.last => b.keep = BEAT
  /\ b.keep = 0 => ~mid_stream

IsSplit(b) == curr_len = TRANSFER - BEAT \/ b.last

\* A null beat enters the length FIFO alone.
NullInDataFifo(b) == Append(data_fifo, b)
DataFifoIn(b) == IF b.keep = 0 THEN data_fifo ELSE Append(data_fifo, b)

Accept(b) ==
  /\ fed < MAX_BEATS
  /\ LegalBeat(b)
  /\ Len(len_fifo) < LEN_FIFO_DEPTH
  /\ b.keep = 0 \/ Len(data_fifo) < DATA_FIFO_DEPTH
  /\ data_fifo' = DataFifoIn(b)
  /\ IF IsSplit(b)
       THEN /\ len_fifo' = Append(len_fifo, curr_len + b.keep)
            /\ curr_len' = 0
       ELSE /\ curr_len' = curr_len + b.keep
            /\ UNCHANGED len_fifo
  /\ fed' = fed + 1
  /\ mid_stream' = ~b.last
  /\ undelivered' = Append(undelivered, b)
  /\ UNCHANGED <<output_state, fsmVars, pending, num_completions, buffers,
                 configVars, hostVars, hist, flushes>>

AcceptBeat ==
  \E k \in 0 .. BEAT, l \in BOOLEAN : Accept([id |-> fed, keep |-> k, last |-> l])

----------------------------------------------------------------------------
(* Software side of mem_config.                                             *)

EnqueueBuffer(id, size) ==
  /\ Len(buffers) < MAX_ENQUEUED
  /\ id \notin InUse
  /\ \A other \in BufferIds \ InUse : id <= other  \* which one makes no difference
  /\ buffers' = Append(buffers, [id |-> id, capacity |-> size * TRANSFER])
  /\ UNCHANGED <<inputVars, len_fifo, output_state, fsmVars, pending,
                 num_completions, configVars, hostVars, undelivered, hist, flushes>>

\* No stream is under way between the input and the notifications' FIFO.
Idle ==
  /\ ~mid_stream
  /\ len_fifo = <<>>
  /\ output_state # "TRANSFER"
  /\ output_state = "REQUEST" => bytes_written = 0

\* flush_buffers overrides the next state whatever the state is (line 447).
\* Unless FLUSH_MIDSTREAM, the software waits for its streams to end first.
Flush ==
  /\ flushes < MAX_FLUSHES
  /\ FLUSH_MIDSTREAM \/ Idle
  /\ output_state' = "FLUSH_BUFFERS"
  /\ flushes' = flushes + 1
  /\ UNCHANGED <<inputVars, len_fifo, fsmVars, pending, num_completions, buffers,
                 configVars, hostVars, undelivered, hist>>

\* In FLUSH_BUFFERS the buffer is ready: what is enqueued is taken and dropped.
FlushBuffer ==
  /\ output_state = "FLUSH_BUFFERS"
  /\ buffers # <<>>
  /\ buffers' = Tail(buffers)
  /\ UNCHANGED <<inputVars, len_fifo, output_state, fsmVars, pending,
                 num_completions, configVars, hostVars, undelivered, hist, flushes>>

FlushDone ==
  /\ output_state = "FLUSH_BUFFERS"
  /\ buffers = <<>>
  /\ output_state' = "WAIT_FOR_BUFFER"
  /\ UNCHANGED <<inputVars, len_fifo, fsmVars, pending, num_completions, buffers,
                 configVars, hostVars, undelivered, hist, flushes>>

----------------------------------------------------------------------------
(* Output state machine.                                                    *)

LeaveReset ==
  /\ output_state = "RESET"
  /\ output_state' = "WAIT_FOR_BUFFER"
  /\ UNCHANGED <<inputVars, len_fifo, fsmVars, pending, num_completions, buffers,
                 configVars, hostVars, undelivered, hist, flushes>>

TakeBuffer ==
  /\ output_state = "WAIT_FOR_BUFFER"
  /\ buffers # <<>>
  /\ buffer' = Head(buffers)
  /\ buffers' = Tail(buffers)
  /\ bytes_written' = 0
  /\ num_requests' = 0
  /\ output_state' = "REQUEST"
  /\ UNCHANGED <<inputVars, len_fifo, beats_written, pending, num_completions,
                 configVars, hostVars, undelivered, hist, flushes>>

\* Space for a notification is claimed before the transfer starts (line 295).
PendingReady == Len(pending) < PENDING_NOTIFY_DEPTH

RequestRegardless == len_fifo # <<>> /\ Head(len_fifo) # 0 /\ Len(sq) < SQ_DEPTH
CanRequest ==
  /\ len_fifo # <<>>
  /\ Head(len_fifo) # 0
  /\ PendingReady
  /\ Len(sq) < SQ_DEPTH

Request ==
  /\ output_state = "REQUEST"
  /\ CanRequest
  /\ sq' = Append(sq, [id |-> buffer.id, off |-> bytes_written,
                       len |-> Head(len_fifo), entry |-> hist.pushed + 1])
  /\ bytes_written' = bytes_written + Head(len_fifo)
  /\ beats_written' = 0
  /\ num_requests' = num_requests + 1
  /\ output_state' = "TRANSFER"
  /\ hist' = [hist EXCEPT !.requested = @ + 1]
  /\ UNCHANGED <<inputVars, len_fifo, buffer, pending, num_completions, buffers,
                 configVars, out, mem, undelivered, flushes>>

PushPending(last) ==
  /\ pending' = Append(pending, [id |-> buffer.id, size |-> bytes_written,
                                 last |-> last, num_requests |-> num_requests,
                                 upto |-> hist.requested,
                                 capacity |-> buffer.capacity])
  /\ hist' = [hist EXCEPT !.pushed = @ + 1]

\* The next transfer has length 0: an empty stream, notified without a request.
\* The buffer is kept for the next stream unless it holds data or the
\* configuration gives it up.
AlwaysGivesUpBuffer == TRUE
GivesUpBuffer == bytes_written # 0 \/ empty_stream_consumes_buffer

EndEmptyStream ==
  /\ output_state = "REQUEST"
  /\ len_fifo # <<>>
  /\ Head(len_fifo) = 0
  /\ PendingReady
  /\ len_fifo' = Tail(len_fifo)
  /\ PushPending(TRUE)
  /\ output_state' = IF GivesUpBuffer THEN "WAIT_FOR_BUFFER" ELSE "REQUEST"
  /\ UNCHANGED <<inputVars, fsmVars, num_completions, buffers, configVars,
                 hostVars, undelivered, flushes>>

CurrentTransferCompleted == beats_written + 1 = NumBeats(Head(len_fifo))

\* The buffer does not fit another full transfer.
BufferExceeded == buffer.capacity < bytes_written
BufferFull == buffer.capacity < bytes_written + TRANSFER

EndTransfer(b) ==
  /\ len_fifo' = Tail(len_fifo)
  /\ UNCHANGED beats_written
  /\ IF b.last \/ BufferFull
       THEN /\ PushPending(b.last)
            /\ output_state' = "WAIT_FOR_BUFFER"
       ELSE /\ output_state' = "REQUEST"
            /\ UNCHANGED <<pending, hist>>

TransferBeat ==
  /\ output_state = "TRANSFER"
  /\ data_fifo # <<>>
  /\ data_fifo' = Tail(data_fifo)
  /\ out' = Append(out, [beat |-> Head(data_fifo), tlast |-> CurrentTransferCompleted])
  /\ IF CurrentTransferCompleted
       THEN EndTransfer(Head(data_fifo))
       ELSE /\ beats_written' = beats_written + 1
            /\ UNCHANGED <<output_state, len_fifo, pending, hist>>
  /\ UNCHANGED <<curr_len, fed, mid_stream, buffer, bytes_written, num_requests,
                 num_completions, buffers, configVars, sq, mem, undelivered, flushes>>

----------------------------------------------------------------------------
(* Coyote writes the beats of its oldest request to the host and completes  *)
(* it on cq_wr; the writer counts the completion at once.                   *)

HostComplete ==
  /\ sq # <<>>
  /\ LET r == Head(sq)
         n == NumBeats(r.len)
     IN /\ Len(out) >= n
        /\ mem' = [mem EXCEPT ![r.id] =
             @ \cup {<<r.off + BEAT * (i - 1), out[i].beat>> : i \in 1 .. n}]
        /\ out' = SubSeq(out, n + 1, Len(out))
  /\ sq' = Tail(sq)
  /\ num_completions' = num_completions + 1
  /\ hist' = [hist EXCEPT !.completed = @ + 1]
  /\ UNCHANGED <<inputVars, len_fifo, output_state, fsmVars, pending, buffers,
                 configVars, undelivered, flushes>>

----------------------------------------------------------------------------
(* Notifications, in the order of the buffers.                              *)

NotifyAtOnce == pending # <<>>
NotifyValid ==
  /\ pending # <<>>
  /\ num_completions >= Head(pending).num_requests

\* Completions are attributed to the notification that is sent.
ForgetsToAttribute == num_completions
UnattributedCompletions == num_completions - Head(pending).num_requests

Notify ==
  /\ NotifyValid
  /\ pending' = Tail(pending)
  /\ num_completions' = UnattributedCompletions
  \* A buffer with data is the software's from here on.
  /\ mem' = IF Head(pending).size = 0 THEN mem
             ELSE [mem EXCEPT ![Head(pending).id] = {}]
  /\ undelivered' =
       LET n == IF Head(pending).size = 0 THEN 1 ELSE NumBeats(Head(pending).size)
       IN SubSeq(undelivered, n + 1, Len(undelivered))
  /\ hist' = [hist EXCEPT !.sent = @ + 1]
  /\ UNCHANGED <<inputVars, len_fifo, output_state, fsmVars, buffers, configVars,
                 sq, out, flushes>>

----------------------------------------------------------------------------
Enqueue == \E id \in BufferIds, size \in BufferSizes : EnqueueBuffer(id, size)

Next ==
  \/ AcceptBeat
  \/ Enqueue
  \/ Flush
  \/ FlushBuffer
  \/ FlushDone
  \/ LeaveReset
  \/ TakeBuffer
  \/ Request
  \/ EndEmptyStream
  \/ TransferBeat
  \/ HostComplete
  \/ Notify

(* The circuit never stops, Coyote completes what it took, the design sends *)
(* what it has, and the software enqueues buffers and takes notifications.   *)
Fairness ==
  /\ WF_vars(AcceptBeat)
  /\ WF_vars(Enqueue)
  /\ WF_vars(FlushBuffer)
  /\ WF_vars(FlushDone)
  /\ WF_vars(LeaveReset)
  /\ WF_vars(TakeBuffer)
  /\ WF_vars(Request)
  /\ WF_vars(EndEmptyStream)
  /\ WF_vars(TransferBeat)
  /\ WF_vars(HostComplete)
  /\ WF_vars(Notify)

SafeSpec == Init /\ [][Next]_vars
Spec == SafeSpec /\ Fairness

----------------------------------------------------------------------------
TransferRequest == [id : Nat, off : Nat, len : Nat, entry : Nat]
\* upto (requests sent when the buffer was done) and capacity are history.
PendingNotify == [id : Nat, size : Nat, last : BOOLEAN, num_requests : Nat,
                  upto : Nat, capacity : Nat]

FlagsOK == empty_stream_consumes_buffer \in BOOLEAN /\ mid_stream \in BOOLEAN

InputOK ==
  /\ curr_len \in Nat
  /\ data_fifo \in Seq(Beat)
  /\ len_fifo \in Seq(Nat)
  /\ fed \in Nat

FsmOK ==
  /\ output_state \in {"RESET", "WAIT_FOR_BUFFER", "REQUEST", "TRANSFER", "FLUSH_BUFFERS"}
  /\ buffer \in [id : Nat, capacity : Nat]
  /\ bytes_written \in Nat
  /\ beats_written \in Nat
  /\ num_requests \in Nat
  /\ buffers \in Seq([id : BufferIds, capacity : Nat])

NotifyOK == pending \in Seq(PendingNotify) /\ num_completions \in Nat

SqOK == sq \in Seq(TransferRequest)

HostOK ==
  /\ out \in Seq([beat : Beat, tlast : BOOLEAN])
  /\ mem \in [BufferIds -> SUBSET (Nat \X Beat)]

HistOK == hist \in [requested : Nat, completed : Nat, pushed : Nat, sent : Nat]

BoundsOK == undelivered \in Seq(Beat) /\ flushes \in Nat

(* Type invariant.  It keeps the completion counter, an unsigned data32_t  *)
(* that the notifications subtract from, from running below 0.             *)
TypeOK ==
  /\ FlagsOK
  /\ InputOK
  /\ FsmOK
  /\ NotifyOK
  /\ SqOK
  /\ HostOK
  /\ HistOK
  /\ BoundsOK

(* The assertion of stream_writer.sv:284: a notification never finds its   *)
(* FIFO full, although it is checked for space only when a transfer starts. *)
PendingNeverOverflows ==
  /\ Len(pending) <= PENDING_NOTIFY_DEPTH
  /\ output_state = "TRANSFER" => Len(pending) < PENDING_NOTIFY_DEPTH

(* The FPGA never asks Coyote to write beyond the buffer, what the software *)
(* asserts at output_buffer_manager.cpp:217.                                *)
RequestsFitBuffer ==
  output_state = "TRANSFER" => bytes_written <= buffer.capacity

(* "The interrupt is only triggered once all transfers to the buffer        *)
(* completed" (stream_writer.sv:14): when a notification can be sent, no     *)
(* request of its buffer is outstanding at Coyote.                          *)
NotifyAfterCompletion ==
  NotifyValid => \A i \in DOMAIN sq : sq[i].entry > hist.sent + 1

(* Length FIFO and data FIFO are read independently; every transfer's beats *)
(* must nevertheless be the ones its length was counted from: its last beat, *)
(* and only that one, carries the tlast Coyote sees, and only a stream's      *)
(* last beat is shorter than BEAT.                                          *)
TransfersFramed ==
  sq # <<>> =>
    LET n == NumBeats(Head(sq).len)
    IN /\ \A i \in 1 .. n : i <= Len(out) => (out[i].tlast <=> i = n)
       /\ Len(out) >= n => Head(sq).len = BEAT * (n - 1) + out[n].beat.keep

(* When a notification can be sent, its buffer holds exactly the next bytes *)
(* of the output in order, and last tells the end of the stream.            *)
NotifiedDataIsComplete ==
  NotifyValid =>
    LET p == Head(pending)
        n == IF p.size = 0 THEN 1 ELSE NumBeats(p.size)
    IN /\ n <= Len(undelivered)
       /\ p.size = BEAT * (n - 1) + undelivered[n].keep
       /\ \A i \in 1 .. n : undelivered[i].last <=> (p.last /\ i = n)
       /\ p.size # 0 =>
            mem[p.id] = {<<BEAT * (i - 1), undelivered[i]>> : i \in 1 .. n}

(* The writer implements the contract the software is written against.  Its *)
(* buffers are those of the pending notifications that give one up, which   *)
(* are filled, then the current one, then what is enqueued.                 *)
HoldsBuffer(p) == p.size # 0 \/ empty_stream_consumes_buffer
Held ==
  LET upTo[k \in 0 .. Len(pending)] ==
        IF k = 0 THEN <<>>
        ELSE IF HoldsBuffer(pending[k])
          THEN Append(upTo[k - 1], [id |-> pending[k].id, capacity |-> pending[k].capacity])
          ELSE upTo[k - 1]
  IN upTo[Len(pending)]
Current == IF output_state \in {"REQUEST", "TRANSFER"} THEN <<buffer>> ELSE <<>>
Enqueued == Held \o Current \o buffers

Contract == INSTANCE OutputContract
  WITH enqueued <- Enqueued, filled <- Len(Held),
       flushing <- output_state = "FLUSH_BUFFERS",
       consumes <- empty_stream_consumes_buffer, BeatIds <- 0 .. MAX_BEATS

ImplementsContract == Contract!Spec

(* Every stream the design ends is eventually notified, and no FIFO keeps   *)
(* the design from sending.  A flush takes one buffer a cycle, far faster    *)
(* than the software enqueues them, so it is assumed to find the FIFO empty. *)
FlushEnds == []<>(output_state # "FLUSH_BUFFERS")

OutputIsNotified ==
  FlushEnds => <>[](fed = MAX_BEATS /\ \A i \in DOMAIN undelivered : ~undelivered[i].last)

=============================================================================
