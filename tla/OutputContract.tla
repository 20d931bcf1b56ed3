--------------------------- MODULE OutputContract ---------------------------
(***************************************************************************)
(* What the software may rely on of one output stream of the FPGA, with    *)
(* nothing of how the StreamWriter does it: buffers are used in the order  *)
(* they were enqueued and none is lost; each notification hands over one   *)
(* buffer that holds the next bytes of the output; it is short only at the *)
(* end of a stream; every stream ends in exactly one notification marked   *)
(* last, also one without data, which uses a buffer up only if it is       *)
(* configured to; and a flush, which ends once no buffer waits, drops the  *)
(* buffers that were not used before it, first to last, and no other.      *)
(* OutputBufferManager is built on this contract                           *)
(* (output_buffer_manager.cpp:69-76, 208-255), StreamWriter implements it. *)
(***************************************************************************)
EXTENDS Integers, Sequences

CONSTANTS
  BEAT,         \* bytes of a full beat
  TRANSFER,     \* bytes of a full transfer
  BeatIds,      \* identities of beats, in place of their bytes
  BufferIds,    \* buffers of the software
  BufferSizes   \* sizes of buffers, in transfers

VARIABLES
  undelivered,   \* beats the FPGA accepted, not yet covered by a notification
  enqueued,      \* buffers of the software that the FPGA has, in order
  filled,        \* how many of them, the first ones, only await notification
  flushing,      \* is a flush under way?
  consumes       \* does an empty stream use its buffer up?

vars == <<undelivered, enqueued, filled, flushing, consumes>>

Beat == [id : BeatIds, keep : 0 .. BEAT, last : BOOLEAN]

Bytes(n) == BEAT * (n - 1) + undelivered[n].keep

Init ==
  /\ undelivered = <<>>
  /\ enqueued = <<>>
  /\ filled = 0
  /\ flushing = FALSE
  /\ consumes \in BOOLEAN

Input ==
  /\ \E b \in Beat : undelivered' = Append(undelivered, b)
  /\ UNCHANGED <<enqueued, filled, flushing, consumes>>

Enqueue ==
  /\ \E id \in BufferIds, size \in BufferSizes :
       enqueued' = Append(enqueued, [id |-> id, capacity |-> size * TRANSFER])
  /\ UNCHANGED <<undelivered, filled, flushing, consumes>>

\* The next buffer is used: no flush drops it any more.
Fill ==
  /\ ~flushing
  /\ filled < Len(enqueued)
  /\ filled' = filled + 1
  /\ UNCHANGED <<undelivered, enqueued, flushing, consumes>>

HandOver ==
  /\ filled > 0
  /\ filled' = filled - 1
  /\ enqueued' = Tail(enqueued)

\* The notification of the next n beats: all of one stream, ended by its last
\* beat or by the capacity of the buffer.
NotifyBuffer(n) ==
  /\ HandOver
  /\ undelivered[n].keep # 0
  /\ \A i \in 1 .. n - 1 : undelivered[i].keep = BEAT /\ ~undelivered[i].last
  /\ Bytes(n) <= Head(enqueued).capacity
  /\ undelivered[n].last \/ Bytes(n) = Head(enqueued).capacity
  /\ undelivered' = SubSeq(undelivered, n + 1, Len(undelivered))
  /\ UNCHANGED <<flushing, consumes>>

NotifyEmpty ==
  /\ undelivered # <<>>
  /\ Head(undelivered).keep = 0
  /\ Head(undelivered).last
  /\ undelivered' = Tail(undelivered)
  /\ IF consumes THEN HandOver ELSE UNCHANGED <<enqueued, filled>>
  /\ UNCHANGED <<flushing, consumes>>

\* The first buffer that is not used yet goes.
DropNext ==
  /\ filled < Len(enqueued)
  /\ enqueued' = SubSeq(enqueued, 1, filled)
                   \o SubSeq(enqueued, filled + 2, Len(enqueued))

\* A flush may find the FPGA with a buffer taken that holds nothing yet.
Flush ==
  /\ DropNext \/ UNCHANGED enqueued
  /\ flushing' = TRUE
  /\ UNCHANGED <<undelivered, filled, consumes>>

Drop ==
  /\ flushing
  /\ DropNext
  /\ UNCHANGED <<undelivered, filled, flushing, consumes>>

FlushEnd ==
  /\ flushing
  /\ filled = Len(enqueued)
  /\ flushing' = FALSE
  /\ UNCHANGED <<undelivered, enqueued, filled, consumes>>

Next ==
  \/ Input
  \/ Enqueue
  \/ Fill
  \/ \E n \in 1 .. Len(undelivered) : NotifyBuffer(n)
  \/ NotifyEmpty
  \/ Flush
  \/ Drop
  \/ FlushEnd

Spec == Init /\ [][Next]_vars

=============================================================================
