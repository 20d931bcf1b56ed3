------------------------- MODULE StreamWriterProofs -------------------------
(***************************************************************************)
(* Proofs about StreamWriter for every beat and transfer size, FIFO depth, *)
(* number of buffers and length of output.                                 *)
(*                                                                         *)
(* The first part: the types, and that a notification is never early and   *)
(* never lost.  The FIFO of pending notifications cannot overflow, and a   *)
(* notification is valid only once every request of its buffer is          *)
(* complete, as long as the software flushes between streams only.         *)
(*                                                                         *)
(* The second part: under the same condition every beat of the output      *)
(* ends up where its notification says it is.                              *)
(* The history undelivered holds all beats that were accepted and are not  *)
(* notified yet.  The invariant cuts it into pieces: first one piece for   *)
(* each pending notification, then what was requested for the current      *)
(* buffer, then one piece for each length in the length FIFO, and last the *)
(* beats of the transfer that is being cut.  P and L are the positions of  *)
(* the cuts.  The beats handed to Coyote and the data FIFO hold the same   *)
(* beats, except for null beats and for those that are written already;    *)
(* they are cut into one block for each request at Coyote and each waiting *)
(* length.  X holds the positions of these cuts and G says where in        *)
(* undelivered each block comes from.                                      *)
(*                                                                         *)
(* The third part: the writer implements OutputContract.                   *)
(***************************************************************************)
EXTENDS StreamWriter, NumberInduction, SequenceTheorems

----
(* What the FIFO operations do, as every step below uses them.              *)

LEMMA PopFacts ==
  ASSUME NEW S, NEW q \in Seq(S), q # <<>>
  PROVE  /\ Tail(q) \in Seq(S)
         /\ Head(q) = q[1] /\ Head(q) \in S
         /\ Len(q) \in Nat \ {0}
         /\ Len(Tail(q)) = Len(q) - 1
         /\ DOMAIN q = 1 .. Len(q)
         /\ DOMAIN Tail(q) = 1 .. Len(q) - 1
         /\ \A i \in 1 .. Len(q) - 1 : Tail(q)[i] = q[i + 1]
  OBVIOUS

LEMMA PushFacts ==
  ASSUME NEW S, NEW q \in Seq(S), NEW e \in S
  PROVE  /\ Append(q, e) \in Seq(S)
         /\ Len(q) \in Nat
         /\ Len(Append(q, e)) = Len(q) + 1
         /\ DOMAIN q = 1 .. Len(q)
         /\ DOMAIN Append(q, e) = 1 .. Len(q) + 1
         /\ \A i \in 1 .. Len(q) : Append(q, e)[i] = q[i]
         /\ Append(q, e)[Len(q) + 1] = e
  OBVIOUS

LEMMA CutFacts ==
  ASSUME NEW S, NEW q \in Seq(S), NEW n \in Nat
  PROVE  SubSeq(q, n + 1, Len(q)) \in Seq(S)
  OBVIOUS

LEMMA NumBeatsNat ==
  ASSUME NEW len \in Nat
  PROVE  NumBeats(len) \in Nat
  BY WriterAssumption DEF NumBeats

----
(* Types.                                                                   *)

\* The code reads next_len in TRANSFER without looking at its valid signal.
LengthHeld == output_state = "TRANSFER" => len_fifo # <<>>

LEMMA InitTypeOK == Init => TypeOK
  <1>1. Init => FlagsOK  BY Zenon DEF Init, FlagsOK
  <1> QED
    BY <1>1, WriterAssumption DEF Init, TypeOK, InputOK, FsmOK, NotifyOK, SqOK, HostOK,
       HistOK, BoundsOK, NoBuffer

LEMMA NextFlagsOK ==
  ASSUME FlagsOK, [Next]_vars
  PROVE  FlagsOK'
  <1> USE DEF inputVars, fsmVars, hostVars, configVars
  <1>1. ASSUME NEW b, b.last \in BOOLEAN, Accept(b)
        PROVE  FlagsOK'
    BY <1>1, Zenon DEF Accept, FlagsOK
  <1>2. AcceptBeat => FlagsOK'  BY <1>1 DEF AcceptBeat
  <1>3. CASE UNCHANGED <<mid_stream, configVars>>  BY <1>3, Zenon DEF FlagsOK
  <1>4. ASSUME NEW id, NEW size, EnqueueBuffer(id, size)
        PROVE  UNCHANGED <<mid_stream, configVars>>
    BY <1>4, Zenon DEF EnqueueBuffer
  <1>5. Flush \/ FlushBuffer \/ FlushDone \/ LeaveReset \/ TakeBuffer \/ Request
          => UNCHANGED <<mid_stream, configVars>>
    BY Zenon DEF Flush, FlushBuffer, FlushDone, LeaveReset, TakeBuffer, Request
  <1>6. EndEmptyStream \/ TransferBeat \/ HostComplete \/ Notify \/ UNCHANGED vars
          => UNCHANGED <<mid_stream, configVars>>
    BY Zenon DEF EndEmptyStream, TransferBeat, HostComplete, Notify, vars
  <1> QED BY <1>2, <1>3, <1>4, <1>5, <1>6, Zenon DEF Next, Enqueue

\* What an action leaves alone keeps its type.
LEMMA Frames ==
  ASSUME TypeOK
  PROVE  /\ UNCHANGED <<curr_len, data_fifo, len_fifo, fed>> => InputOK'
         /\ UNCHANGED <<output_state, fsmVars, buffers>> => FsmOK'
         /\ UNCHANGED <<pending, num_completions>> => NotifyOK'
         /\ UNCHANGED sq => SqOK'
         /\ UNCHANGED <<out, mem>> => HostOK'
         /\ UNCHANGED hist => HistOK'
         /\ UNCHANGED <<undelivered, flushes>> => BoundsOK'
  <1>1. UNCHANGED <<curr_len, data_fifo, len_fifo, fed>> => InputOK'  BY DEF TypeOK, InputOK
  <1>2. UNCHANGED <<output_state, fsmVars, buffers>> => FsmOK'  BY DEF TypeOK, FsmOK, fsmVars
  <1>3. UNCHANGED <<pending, num_completions>> => NotifyOK'  BY DEF TypeOK, NotifyOK
  <1>4. UNCHANGED sq => SqOK'  BY DEF TypeOK, SqOK
  <1>5. UNCHANGED <<out, mem>> => HostOK'  BY DEF TypeOK, HostOK
  <1>6. UNCHANGED hist => HistOK'  BY DEF TypeOK, HistOK
  <1>7. UNCHANGED <<undelivered, flushes>> => BoundsOK'  BY DEF TypeOK, BoundsOK
  <1> QED BY <1>1, <1>2, <1>3, <1>4, <1>5, <1>6, <1>7

LEMMA AcceptTypeOK ==
  ASSUME TypeOK, FlagsOK', NEW k \in 0 .. BEAT, NEW l \in BOOLEAN,
         Accept([id |-> fed, keep |-> k, last |-> l])
  PROVE  TypeOK'
  <1> DEFINE b == [id |-> fed, keep |-> k, last |-> l]
  <1>1. b \in Beat  BY DEF Beat, TypeOK, InputOK
  <1>2. Accept(b)  OBVIOUS
  <1>3. b.keep \in Nat  BY WriterAssumption
  <1> HIDE DEF b
  <1>4. data_fifo' \in Seq(Beat)  BY <1>1, <1>2, PushFacts DEF Accept, DataFifoIn, TypeOK, InputOK
  <1>5. len_fifo' \in Seq(Nat)
    <2>1. CASE IsSplit(b)
      <3>1. curr_len + b.keep \in Nat  BY <1>3 DEF TypeOK, InputOK
      <3>2. len_fifo' = Append(len_fifo, curr_len + b.keep)  BY <1>2, <2>1 DEF Accept
      <3> QED BY <3>1, <3>2, PushFacts DEF TypeOK, InputOK
    <2>2. CASE ~IsSplit(b)  BY <1>2, <2>2 DEF Accept, TypeOK, InputOK
    <2> QED BY <2>1, <2>2
  <1>6. curr_len' \in Nat /\ fed' \in Nat  BY <1>2, <1>3 DEF Accept, TypeOK, InputOK
  <1>7. InputOK'  BY <1>4, <1>5, <1>6 DEF InputOK
  <1>8. BoundsOK'  BY <1>1, <1>2, PushFacts DEF Accept, TypeOK, BoundsOK
  <1>9. UNCHANGED <<output_state, fsmVars, pending, num_completions, buffers,
                    hostVars, hist>>
    BY <1>2 DEF Accept
  <1> QED BY <1>7, <1>8, <1>9, Frames DEF TypeOK, hostVars

LEMMA RequestTypeOK ==
  ASSUME TypeOK, FlagsOK', Request
  PROVE  TypeOK'
  <1>1. Head(len_fifo) \in Nat  BY PopFacts DEF Request, CanRequest, TypeOK, InputOK
  <1>2. [id |-> buffer.id, off |-> bytes_written, len |-> Head(len_fifo),
         entry |-> hist.pushed + 1] \in TransferRequest
    BY <1>1 DEF TransferRequest, TypeOK, FsmOK, HistOK
  <1>3. SqOK'  BY <1>2, PushFacts DEF Request, TypeOK, SqOK
  <1>4. HistOK'  BY DEF Request, TypeOK, HistOK
  <1>5. FsmOK'  BY <1>1 DEF Request, TypeOK, FsmOK
  <1> QED BY <1>3, <1>4, <1>5, Frames DEF Request, TypeOK, inputVars

LEMMA PushPendingTypeOK ==
  ASSUME TypeOK, NEW last \in BOOLEAN, PushPending(last)
  PROVE  pending' \in Seq(PendingNotify) /\ HistOK'
  <1>1. [id |-> buffer.id, size |-> bytes_written, last |-> last,
         num_requests |-> num_requests, upto |-> hist.requested,
         capacity |-> buffer.capacity] \in PendingNotify
    BY DEF PendingNotify, TypeOK, FsmOK, HistOK
  <1>2. pending' \in Seq(PendingNotify)  BY <1>1, PushFacts DEF PushPending, TypeOK, NotifyOK
  <1>3. HistOK'  BY DEF PushPending, TypeOK, HistOK
  <1> QED BY <1>2, <1>3

LEMMA EndEmptyStreamTypeOK ==
  ASSUME TypeOK, FlagsOK', EndEmptyStream
  PROVE  TypeOK'
  <1>1. Tail(len_fifo) \in Seq(Nat)  BY PopFacts DEF EndEmptyStream, TypeOK, InputOK
  <1>2. InputOK'  BY <1>1 DEF EndEmptyStream, TypeOK, InputOK, inputVars
  <1>3. pending' \in Seq(PendingNotify) /\ HistOK'  BY PushPendingTypeOK DEF EndEmptyStream
  <1>4. NotifyOK'  BY <1>3 DEF EndEmptyStream, TypeOK, NotifyOK
  <1>5. FsmOK'  BY DEF EndEmptyStream, TypeOK, FsmOK, fsmVars
  <1> QED BY <1>2, <1>3, <1>4, <1>5, Frames DEF EndEmptyStream, TypeOK, hostVars

LEMMA TransferBeatTypeOK ==
  ASSUME TypeOK, LengthHeld, FlagsOK', TransferBeat
  PROVE  TypeOK'
  <1>1. Head(data_fifo) \in Beat /\ Tail(data_fifo) \in Seq(Beat)
    BY PopFacts DEF TransferBeat, TypeOK, InputOK
  <1>2. Head(data_fifo).last \in BOOLEAN  BY <1>1 DEF Beat
  <1>3. [beat |-> Head(data_fifo), tlast |-> CurrentTransferCompleted]
          \in [beat : Beat, tlast : BOOLEAN]
    BY <1>1 DEF CurrentTransferCompleted
  <1>4. HostOK'  BY <1>3, PushFacts DEF TransferBeat, TypeOK, HostOK
  <1>5. UNCHANGED <<curr_len, fed, buffer, bytes_written, num_requests,
                    num_completions, buffers, sq, undelivered, flushes>>
    BY DEF TransferBeat
  <1>6. CASE CurrentTransferCompleted
    <2>1. /\ EndTransfer(Head(data_fifo))
          /\ data_fifo' = Tail(data_fifo)
      BY <1>6 DEF TransferBeat
    <2>2. len_fifo' \in Seq(Nat)
      BY <2>1, PopFacts DEF EndTransfer, TransferBeat, LengthHeld, TypeOK, InputOK
    <2>3. InputOK'  BY <1>1, <1>5, <2>1, <2>2 DEF TypeOK, InputOK
    <2>4. FsmOK'  BY <1>5, <2>1 DEF EndTransfer, TypeOK, FsmOK
    <2>5. NotifyOK' /\ HistOK'
      <3>1. CASE PushPending(Head(data_fifo).last)
        BY <3>1, <1>2, <1>5, PushPendingTypeOK DEF TypeOK, NotifyOK
      <3>2. CASE UNCHANGED <<pending, hist>>  BY <3>2, <1>5, Frames
      <3> QED BY <2>1, <3>1, <3>2 DEF EndTransfer
    <2> QED BY <1>4, <1>5, <2>3, <2>4, <2>5, Frames DEF TypeOK
  <1>7. CASE ~CurrentTransferCompleted
    <2>1. UNCHANGED <<output_state, len_fifo, pending, hist>>
          /\ data_fifo' = Tail(data_fifo)
          /\ beats_written' = beats_written + 1
      BY <1>7 DEF TransferBeat
    <2>2. InputOK'  BY <1>1, <1>5, <2>1 DEF TypeOK, InputOK
    <2>3. FsmOK'  BY <1>5, <2>1 DEF TypeOK, FsmOK
    <2> QED BY <1>4, <1>5, <2>1, <2>2, <2>3, Frames DEF TypeOK
  <1> QED BY <1>6, <1>7

LEMMA HostCompleteTypeOK ==
  ASSUME TypeOK, FlagsOK', HostComplete
  PROVE  TypeOK'
  <1> DEFINE r == Head(sq)
             n == NumBeats(r.len)
             W == {<<r.off + BEAT * (i - 1), out[i].beat>> : i \in 1 .. n}
  <1>1. r \in TransferRequest /\ SqOK'  BY PopFacts DEF HostComplete, TypeOK, SqOK
  <1>2. n \in Nat /\ r.off \in Nat  BY <1>1, NumBeatsNat DEF TransferRequest
  <1>3. /\ n <= Len(out)
        /\ mem' = [mem EXCEPT ![r.id] = @ \cup W]
        /\ out' = SubSeq(out, n + 1, Len(out))
    BY DEF HostComplete
  <1> HIDE DEF n, r
  <1>4. out' \in Seq([beat : Beat, tlast : BOOLEAN])  BY <1>2, <1>3, CutFacts DEF TypeOK, HostOK
  <1>5. ASSUME NEW i \in 1 .. n
        PROVE  <<r.off + BEAT * (i - 1), out[i].beat>> \in Nat \X Beat
    <2> DEFINE T == [beat : Beat, tlast : BOOLEAN]
    <2>0. out \in Seq(T)  BY DEF TypeOK, HostOK
    <2> HIDE DEF T
    <2>3. i \in 1 .. Len(out)  BY <1>2, <1>3, <2>0
    <2>4. out[i] \in T  BY <2>0, <2>3
    <2>1. out[i].beat \in Beat  BY <2>4 DEF T
    <2>2. BEAT * (i - 1) \in Nat  BY <1>2, WriterAssumption
    <2> QED BY <1>2, <2>1, <2>2
  <1>6. W \subseteq Nat \X Beat  BY <1>5
  <1> HIDE DEF W
  <1>7. mem' \in [BufferIds -> SUBSET (Nat \X Beat)]  BY <1>3, <1>6 DEF TypeOK, HostOK
  <1>8. HostOK'  BY <1>4, <1>7 DEF HostOK
  <1>9. HistOK'  BY DEF HostComplete, TypeOK, HistOK
  <1>10. NotifyOK'  BY DEF HostComplete, TypeOK, NotifyOK
  <1> QED BY <1>1, <1>8, <1>9, <1>10, Frames DEF HostComplete, TypeOK, inputVars

LEMMA NotifyTypeOK ==
  ASSUME TypeOK, FlagsOK', Notify
  PROVE  TypeOK'
  <1>1. Head(pending) \in PendingNotify /\ Tail(pending) \in Seq(PendingNotify)
    BY PopFacts DEF Notify, NotifyValid, TypeOK, NotifyOK
  <1>2. NotifyOK'
    <2>1. num_completions' = num_completions - Head(pending).num_requests
          /\ pending' = Tail(pending)
          /\ num_completions >= Head(pending).num_requests
      BY DEF Notify, NotifyValid, UnattributedCompletions
    <2>2. Head(pending).num_requests \in Nat  BY <1>1 DEF PendingNotify
    <2>3. num_completions' \in Nat  BY <2>1, <2>2 DEF TypeOK, NotifyOK
    <2> QED BY <1>1, <2>1, <2>3 DEF NotifyOK
  <1>3. HostOK'  BY DEF Notify, TypeOK, HostOK
  <1> DEFINE n == IF Head(pending).size = 0 THEN 1 ELSE NumBeats(Head(pending).size)
  <1>4. n \in Nat  BY <1>1, NumBeatsNat DEF PendingNotify
  <1>5. undelivered' = SubSeq(undelivered, n + 1, Len(undelivered))  BY DEF Notify
  <1> HIDE DEF n
  <1>6. BoundsOK'  BY <1>4, <1>5, CutFacts DEF Notify, TypeOK, BoundsOK
  <1>7. HistOK'
    <2>1. hist' = [hist EXCEPT !.sent = @ + 1]  BY DEF Notify
    <2> QED BY <2>1 DEF TypeOK, HistOK
  <1> QED BY <1>2, <1>3, <1>6, <1>7, Frames DEF Notify, TypeOK, inputVars

LEMMA BufferActionsTypeOK ==
  ASSUME TypeOK, FlagsOK',
         Enqueue \/ Flush \/ FlushBuffer \/ FlushDone \/ LeaveReset \/ TakeBuffer
  PROVE  TypeOK'
  <1>1. FsmOK'
    <2>1. CASE Enqueue
      <3>1. PICK id \in BufferIds, size \in BufferSizes : EnqueueBuffer(id, size)
        BY <2>1 DEF Enqueue
      <3>2. [id |-> id, capacity |-> size * TRANSFER] \in [id : BufferIds, capacity : Nat]
        BY WriterAssumption
      <3> QED BY <3>1, <3>2, PushFacts DEF EnqueueBuffer, TypeOK, FsmOK, fsmVars
    <2>2. CASE Flush  BY <2>2 DEF Flush, TypeOK, FsmOK, fsmVars
    <2>3. CASE FlushBuffer  BY <2>3, PopFacts DEF FlushBuffer, TypeOK, FsmOK, fsmVars
    <2>4. CASE FlushDone  BY <2>4 DEF FlushDone, TypeOK, FsmOK, fsmVars
    <2>5. CASE LeaveReset  BY <2>5 DEF LeaveReset, TypeOK, FsmOK, fsmVars
    <2>6. CASE TakeBuffer
      <3>1. /\ Head(buffers) \in [id : BufferIds, capacity : Nat]
            /\ Tail(buffers) \in Seq([id : BufferIds, capacity : Nat])
        BY <2>6, PopFacts DEF TakeBuffer, TypeOK, FsmOK
      <3>2. buffer' \in [id : Nat, capacity : Nat]  BY <2>6, <3>1, WriterAssumption DEF TakeBuffer
      <3> QED BY <2>6, <3>1, <3>2 DEF TakeBuffer, TypeOK, FsmOK
    <2> QED BY <2>1, <2>2, <2>3, <2>4, <2>5, <2>6
  <1>2. /\ UNCHANGED <<inputVars, len_fifo, pending, num_completions, hostVars,
                       undelivered, hist>>
        /\ flushes' \in {flushes, flushes + 1}
    BY DEF Enqueue, EnqueueBuffer, Flush, FlushBuffer, FlushDone, LeaveReset, TakeBuffer
  <1>3. BoundsOK'  BY <1>2 DEF TypeOK, BoundsOK
  <1> QED BY <1>1, <1>2, <1>3, Frames DEF TypeOK, inputVars, hostVars

LEMMA NextTypeOK ==
  ASSUME TypeOK, LengthHeld, [Next]_vars
  PROVE  TypeOK'
  <1>1. FlagsOK'  BY NextFlagsOK DEF TypeOK
  <1>2. CASE AcceptBeat  BY <1>1, <1>2, AcceptTypeOK DEF AcceptBeat
  <1>3. CASE UNCHANGED vars  BY <1>1, <1>3, Frames DEF vars, TypeOK, inputVars, hostVars
  <1> QED
    BY <1>1, <1>2, <1>3, BufferActionsTypeOK, RequestTypeOK, EndEmptyStreamTypeOK,
       TransferBeatTypeOK, HostCompleteTypeOK, NotifyTypeOK DEF Next

LEMMA NextLengthHeld ==
  ASSUME TypeOK, LengthHeld, [Next]_vars
  PROVE  LengthHeld'
  <1>1. ASSUME NEW b, Accept(b)
        PROVE  LengthHeld'
    <2>1. output_state' = output_state  BY <1>1 DEF Accept
    <2>2. len_fifo' = len_fifo \/ len_fifo' = Append(len_fifo, curr_len + b.keep)
      BY <1>1 DEF Accept
    <2> QED BY <2>1, <2>2 DEF LengthHeld, TypeOK, InputOK
  <1>2. CASE UNCHANGED len_fifo /\ (output_state' = output_state \/ output_state' # "TRANSFER")
    BY <1>2 DEF LengthHeld
  <1>3. CASE Request  BY <1>3 DEF Request, CanRequest, LengthHeld
  <1>4. CASE TransferBeat  BY <1>4 DEF TransferBeat, EndTransfer, LengthHeld
  <1>5. CASE EndEmptyStream  BY <1>5 DEF EndEmptyStream, LengthHeld
  <1> QED
    BY <1>1, <1>2, <1>3, <1>4, <1>5 DEF Next, vars, AcceptBeat, Enqueue, EnqueueBuffer, Flush,
       FlushBuffer, FlushDone, LeaveReset, TakeBuffer, HostComplete, Notify

LEMMA SafeTypes == SafeSpec => [](TypeOK /\ LengthHeld)
  <1>1. Init => LengthHeld  BY DEF Init, LengthHeld
  <1> QED BY <1>1, InitTypeOK, NextTypeOK, NextLengthHeld, PTL DEF SafeSpec

(* Every behaviour of the writer stays within its types; in particular the *)
(* completion counter that notifications subtract from never runs negative. *)
THEOREM TypeCorrect == SafeSpec => []TypeOK
  BY SafeTypes, PTL

----
(* No request reaches beyond its buffer.                                    *)

LEMMA NextMultiple ==
  ASSUME NEW B \in Nat \ {0}, NEW a \in Nat, NEW q \in Nat, B * a + B <= B * q,
         B * a # B * q - B
  PROVE  B * (a + 1) + B <= B * q
  <1>1. a + 1 < q
    <2>1. ASSUME a >= q
          PROVE  FALSE
      <3>1. B * a >= B * q  BY <2>1
      <3> QED BY <3>1
    <2>2. a # q - 1  OBVIOUS
    <2> QED BY <2>1, <2>2
  <1>2. q - (a + 2) \in Nat  BY <1>1
  <1>3. B * (q - (a + 2)) >= 0  BY <1>2
  <1> QED BY <1>3

LEMMA Multiple ==
  ASSUME NEW n \in Nat, NEW B \in Nat \ {0}, n % B = 0
  PROVE  \E q \in Nat : n = B * q
  <1>1. PICK q \in Int : n = q * B  BY Z3
  <1>2. q \in Nat
    <2>1. ASSUME q < 0
          PROVE  FALSE
      <3>1. q * B < 0  BY <2>1
      <3> QED BY <3>1, <1>1
    <2> QED BY <2>1
  <1>3. n = B * q  BY <1>1
  <1> QED BY <1>2, <1>3

LEMMA TransferInBeats == \E q \in Nat : TRANSFER = BEAT * q
  BY Multiple, WriterAssumption

\* A transfer is cut before it exceeds TRANSFER, and a buffer is left before
\* it cannot take a full one.
LengthsFit ==
  /\ \E a \in Nat : curr_len = BEAT * a
  /\ curr_len + BEAT <= TRANSFER
  /\ \A i \in DOMAIN len_fifo : len_fifo[i] <= TRANSFER

BufferFits ==
  /\ \A i \in DOMAIN buffers : buffers[i].capacity >= TRANSFER
  /\ output_state = "REQUEST" => bytes_written + TRANSFER <= buffer.capacity
  /\ output_state = "TRANSFER" => bytes_written <= buffer.capacity

LEMMA NextLengthsFit ==
  ASSUME TypeOK, LengthHeld, LengthsFit, [Next]_vars
  PROVE  LengthsFit'
  <1> USE WriterAssumption
  <1>1. CASE UNCHANGED <<curr_len, len_fifo>>  BY <1>1 DEF LengthsFit
  <1>2. CASE UNCHANGED curr_len /\ len_fifo # <<>> /\ len_fifo' = Tail(len_fifo)
    <2>1. len_fifo \in Seq(Nat)  BY DEF TypeOK, InputOK
    <2>2. \A i \in DOMAIN len_fifo' : i + 1 \in DOMAIN len_fifo /\ len_fifo'[i] = len_fifo[i + 1]
      BY <1>2, <2>1, PopFacts
    <2> QED BY <1>2, <2>2 DEF LengthsFit
  <1>3. ASSUME NEW k \in 0 .. BEAT, NEW l \in BOOLEAN,
               Accept([id |-> fed, keep |-> k, last |-> l])
        PROVE  LengthsFit'
    <2>1. PICK a \in Nat : curr_len = BEAT * a  BY DEF LengthsFit
    <2>2. PICK q \in Nat : TRANSFER = BEAT * q  BY TransferInBeats
    <2> DEFINE b == [id |-> fed, keep |-> k, last |-> l]
    <2>3. CASE IsSplit(b)
      <3>1. len_fifo' = Append(len_fifo, curr_len + k) /\ curr_len' = 0  BY <1>3, <2>3 DEF Accept
      <3>2. curr_len + k \in Nat /\ curr_len + k <= TRANSFER  BY DEF LengthsFit, TypeOK, InputOK
      <3>3. \A i \in DOMAIN len_fifo' : len_fifo'[i] <= TRANSFER
        <4>1. len_fifo \in Seq(Nat)  BY DEF TypeOK, InputOK
        <4> QED BY <3>1, <3>2, <4>1, PushFacts DEF LengthsFit
      <3>4. BEAT * 0 = 0 /\ BEAT <= TRANSFER  BY DEF LengthsFit, TypeOK, InputOK
      <3> QED BY <3>1, <3>3, <3>4 DEF LengthsFit
    <2>4. CASE ~IsSplit(b)
      <3>1. UNCHANGED len_fifo /\ curr_len' = curr_len + k /\ k = BEAT
        BY <1>3, <2>4 DEF Accept, IsSplit, LegalBeat
      <3>2. BEAT * a # BEAT * q - BEAT /\ BEAT * a + BEAT <= BEAT * q
        BY <2>1, <2>2, <2>4 DEF IsSplit, LengthsFit
      <3>3. BEAT * (a + 1) + BEAT <= BEAT * q  BY <3>2, NextMultiple
      <3>4. curr_len' = BEAT * (a + 1)  BY <3>1, <2>1
      <3> QED BY <3>1, <3>3, <3>4, <2>2 DEF LengthsFit
    <2> QED BY <2>3, <2>4
  <1>4. CASE AcceptBeat  BY <1>3, <1>4 DEF AcceptBeat
  <1>5. CASE EndEmptyStream  BY <1>2, <1>5 DEF EndEmptyStream, inputVars
  <1>6. CASE TransferBeat
    <2>1. len_fifo # <<>> /\ UNCHANGED curr_len  BY <1>6 DEF TransferBeat, LengthHeld
    <2>2. UNCHANGED len_fifo \/ len_fifo' = Tail(len_fifo)  BY <1>6 DEF TransferBeat, EndTransfer
    <2> QED BY <1>1, <1>2, <2>1, <2>2
  <1>7. Enqueue \/ Flush \/ FlushBuffer \/ FlushDone \/ LeaveReset \/ TakeBuffer \/ Request
           \/ HostComplete \/ Notify \/ UNCHANGED vars
          => UNCHANGED <<curr_len, len_fifo>>
    BY DEF Enqueue, EnqueueBuffer, Flush, FlushBuffer, FlushDone, LeaveReset, TakeBuffer,
           Request, HostComplete, Notify, vars, inputVars
  <1> QED BY <1>1, <1>4, <1>5, <1>6, <1>7 DEF Next

LEMMA NextBufferFits ==
  ASSUME TypeOK, LengthHeld, LengthsFit, BufferFits, [Next]_vars
  PROVE  BufferFits'
  <1> USE WriterAssumption
  <1>1. CASE UNCHANGED <<buffers, buffer, bytes_written>> /\ output_state' = output_state
    BY <1>1 DEF BufferFits
  <1>2. CASE UNCHANGED <<buffers, buffer, bytes_written>>
               /\ output_state' \notin {"REQUEST", "TRANSFER"}
    BY <1>2 DEF BufferFits
  <1>3. ASSUME NEW b, Accept(b)
        PROVE  BufferFits'
    BY <1>1, <1>3 DEF Accept, fsmVars
  <1>4. CASE Enqueue
    <2>1. PICK id \in BufferIds, size \in BufferSizes : EnqueueBuffer(id, size)  BY <1>4 DEF Enqueue
    <2> DEFINE e == [id |-> id, capacity |-> size * TRANSFER]
    <2>2. size * TRANSFER \in Nat /\ size * TRANSFER >= TRANSFER  BY WriterAssumption
    <2>3. e \in [id : BufferIds, capacity : Nat] /\ e.capacity >= TRANSFER  BY <2>2
    <2>4. buffers' = Append(buffers, e) /\ UNCHANGED <<output_state, buffer, bytes_written>>
      BY <2>1 DEF EnqueueBuffer, fsmVars
    <2> HIDE DEF e
    <2>5. \A i \in DOMAIN buffers' : buffers'[i].capacity >= TRANSFER
      BY <2>3, <2>4, PushFacts DEF BufferFits, TypeOK, FsmOK
    <2> QED BY <2>4, <2>5 DEF BufferFits
  <1>5. ASSUME buffers # <<>>, buffers' = Tail(buffers)
        PROVE  /\ \A i \in DOMAIN buffers' : buffers'[i].capacity >= TRANSFER
               /\ Head(buffers).capacity \in Nat
               /\ Head(buffers).capacity >= TRANSFER
    <2>1. \A i \in DOMAIN buffers' : i + 1 \in DOMAIN buffers /\ buffers'[i] = buffers[i + 1]
      BY <1>5, PopFacts DEF TypeOK, FsmOK
    <2>2. Head(buffers) = buffers[1] /\ 1 \in DOMAIN buffers
          /\ Head(buffers) \in [id : BufferIds, capacity : Nat]
      <3> DEFINE S == [id : BufferIds, capacity : Nat]
      <3>1. buffers \in Seq(S)  BY DEF TypeOK, FsmOK
      <3> HIDE DEF S
      <3>2. Head(buffers) = buffers[1] /\ Head(buffers) \in S
            /\ Len(buffers) \in Nat \ {0} /\ DOMAIN buffers = 1 .. Len(buffers)
        BY <1>5, <3>1, PopFacts
      <3>3. 1 \in DOMAIN buffers  BY <3>2
      <3> QED BY <3>2, <3>3 DEF S
    <2>3. \A i \in DOMAIN buffers : buffers[i].capacity >= TRANSFER  BY DEF BufferFits
    <2>4. Head(buffers).capacity \in Nat  BY <2>2
    <2>5. \A i \in DOMAIN buffers' : buffers'[i].capacity >= TRANSFER  BY <2>1, <2>3
    <2>6. Head(buffers).capacity >= TRANSFER  BY <2>2, <2>3
    <2> QED BY <2>4, <2>5, <2>6
  <1>6. CASE FlushBuffer \/ TakeBuffer
    <2>1. buffers # <<>> /\ buffers' = Tail(buffers)  BY <1>6 DEF FlushBuffer, TakeBuffer
    <2>2. CASE FlushBuffer  BY <1>5, <2>1, <2>2 DEF FlushBuffer, BufferFits, fsmVars
    <2>3. CASE TakeBuffer
      <3>1. /\ buffer' = Head(buffers)
            /\ bytes_written' = 0
            /\ output_state' = "REQUEST"
        BY <2>3 DEF TakeBuffer
      <3>2. 0 + TRANSFER <= Head(buffers).capacity  BY <1>5, <2>1
      <3> QED BY <1>5, <2>1, <3>1, <3>2 DEF BufferFits
    <2> QED BY <1>6, <2>2, <2>3
  <1>7. CASE Flush \/ FlushDone \/ LeaveReset
    BY <1>2, <1>7 DEF Flush, FlushDone, LeaveReset, fsmVars
  <1>8. CASE Request
    <2>1. Head(len_fifo) \in Nat /\ Head(len_fifo) <= TRANSFER
      <3>1. len_fifo \in Seq(Nat) /\ len_fifo # <<>>
        BY <1>8 DEF Request, CanRequest, TypeOK, InputOK
      <3>2. /\ Head(len_fifo) = len_fifo[1] /\ Head(len_fifo) \in Nat
            /\ 1 \in DOMAIN len_fifo
        BY <3>1, PopFacts
      <3> QED BY <3>2 DEF LengthsFit
    <2>2. /\ output_state = "REQUEST" /\ output_state' = "TRANSFER"
          /\ bytes_written' = bytes_written + Head(len_fifo)
          /\ UNCHANGED <<buffer, buffers>>
      BY <1>8 DEF Request
    <2>3. bytes_written \in Nat /\ buffer.capacity \in Nat  BY DEF TypeOK, FsmOK
    <2> QED BY <2>1, <2>2, <2>3 DEF BufferFits
  <1>9. CASE EndEmptyStream  BY <1>1, <1>2, <1>9 DEF EndEmptyStream, fsmVars
  <1>10. CASE TransferBeat
    <2>1. UNCHANGED <<buffers, buffer, bytes_written>>  BY <1>10 DEF TransferBeat
    <2>2. CASE output_state' = "REQUEST" /\ ~BufferFull
      BY <2>1, <2>2 DEF BufferFits, BufferFull, TypeOK, FsmOK
    <2> QED BY <1>1, <1>2, <1>10, <2>1, <2>2 DEF TransferBeat, EndTransfer
  <1>11. CASE HostComplete \/ Notify \/ UNCHANGED vars
    BY <1>1, <1>11 DEF HostComplete, Notify, vars, fsmVars
  <1> QED BY <1>3, <1>4, <1>6, <1>7, <1>8, <1>9, <1>10, <1>11 DEF Next, AcceptBeat

(* The writer never requests a write beyond the end of a buffer: what       *)
(* output_buffer_manager.cpp:217 asserts of the size it is notified of.     *)
THEOREM RequestsStayInBuffer == SafeSpec => []RequestsFitBuffer
  <1>1. Init => LengthsFit
    <2>1. PICK q \in Nat : TRANSFER = BEAT * q  BY TransferInBeats
    <2>2. q >= 1  BY <2>1, WriterAssumption
    <2>3. BEAT * (q - 1) >= 0  BY <2>2, WriterAssumption
    <2>4. BEAT <= TRANSFER  BY <2>1, <2>2, <2>3, WriterAssumption
    <2>5. BEAT * 0 = 0  BY WriterAssumption
    <2> QED BY <2>4, <2>5, WriterAssumption DEF Init, LengthsFit
  <1>2. Init => BufferFits  BY DEF Init, BufferFits
  <1>3. BufferFits => RequestsFitBuffer  BY DEF BufferFits, RequestsFitBuffer
  <1> QED BY <1>1, <1>2, <1>3, NextLengthsFit, NextBufferFits, SafeTypes, PTL DEF SafeSpec

----
(* The FIFO of pending notifications.                                       *)

LEMMA NextPendingNeverOverflows ==
  ASSUME TypeOK, PendingNeverOverflows, [Next]_vars
  PROVE  PendingNeverOverflows'
  <1> USE WriterAssumption
  <1>1. CASE UNCHANGED pending /\ (output_state' = "TRANSFER" => output_state = "TRANSFER")
    BY <1>1 DEF PendingNeverOverflows
  <1>2. CASE Request
    BY <1>2 DEF Request, CanRequest, PendingReady, PendingNeverOverflows, TypeOK, NotifyOK
  <1>3. ASSUME NEW last, PushPending(last), Len(pending) < PENDING_NOTIFY_DEPTH,
               output_state' # "TRANSFER"
        PROVE  PendingNeverOverflows'
    BY <1>3 DEF PushPending, PendingNeverOverflows, TypeOK, NotifyOK
  <1>4. CASE EndEmptyStream  BY <1>3, <1>4 DEF EndEmptyStream, PendingReady
  <1>5. CASE TransferBeat
    <2>1. CASE CurrentTransferCompleted
      BY <1>1, <1>3, <1>5, <2>1 DEF TransferBeat, EndTransfer, PendingNeverOverflows
    <2>2. CASE ~CurrentTransferCompleted  BY <1>1, <1>5, <2>2 DEF TransferBeat
    <2> QED BY <2>1, <2>2
  <1>6. CASE Notify
    <2>1. Len(pending') = Len(pending) - 1 /\ Len(pending) \in Nat
      BY <1>6, PopFacts DEF Notify, NotifyValid, TypeOK, NotifyOK
    <2>2. output_state' = output_state  BY <1>6 DEF Notify
    <2> QED BY <2>1, <2>2 DEF PendingNeverOverflows
  <1>7. \A b : Accept(b) => UNCHANGED <<pending, output_state>>  BY DEF Accept
  <1>8. Enqueue \/ Flush \/ FlushBuffer \/ FlushDone \/ LeaveReset \/ TakeBuffer \/ HostComplete
           => UNCHANGED pending /\ (output_state' = "TRANSFER" => output_state = "TRANSFER")
    BY DEF Enqueue, EnqueueBuffer, Flush, FlushBuffer, FlushDone, LeaveReset, TakeBuffer,
           HostComplete
  <1> QED BY <1>1, <1>2, <1>4, <1>5, <1>6, <1>7, <1>8 DEF Next, AcceptBeat, vars

(* A notification never finds its FIFO full, although space is checked only *)
(* before a transfer starts (the assertion of stream_writer.sv:284); this    *)
(* holds for every FIFO depth and also when the software flushes mid-stream. *)
THEOREM NotificationsFit == SafeSpec => []PendingNeverOverflows
  <1>1. Init => PendingNeverOverflows  BY WriterAssumption DEF Init, PendingNeverOverflows
  <1> QED BY <1>1, NextPendingNeverOverflows, SafeTypes, PTL DEF SafeSpec

----
(* Completions and notifications.                                           *)
(*                                                                          *)
(* The requests are numbered 1, 2, ... in the order they are sent:          *)
(* hist.completed + i is the number of sq[i].  The buffers are numbered in  *)
(* the order of their notifications: hist.sent + j is the number of         *)
(* pending[j].  pending[j].upto is the number of the last request of        *)
(* buffer j.  The invariant relates the counter num_completions, the        *)
(* num_requests in the FIFO and these numbers.                              *)

\* Requests sent for the buffer that is not yet done.
Open == IF output_state \in {"REQUEST", "TRANSFER"} THEN num_requests ELSE 0

\* Number of the last request whose buffer was notified, of the last one
\* whose buffer is done.
Attributed == hist.completed - num_completions
Done == hist.requested - Open

CountsAgree ==
  /\ hist.requested = hist.completed + Len(sq)
  /\ hist.pushed = hist.sent + Len(pending)

\* The buffers partition the requests.
UptoFollows ==
  /\ \A j \in DOMAIN pending :
       pending[j].upto = (IF j = 1 THEN Attributed ELSE pending[j - 1].upto)
                           + pending[j].num_requests
  /\ Done = IF pending = <<>> THEN Attributed ELSE pending[Len(pending)].upto
  /\ \A j \in DOMAIN pending : pending[j].upto <= hist.requested

EmptyBufferHasNoRequests ==
  /\ output_state = "REQUEST" /\ bytes_written = 0 => num_requests = 0
  /\ output_state = "TRANSFER" => bytes_written > 0

\* A request belongs to buffer j or an earlier one iff it is numbered so.
RequestsPartitioned ==
  \A i \in DOMAIN sq :
    /\ sq[i].entry <= hist.pushed + 1
    /\ hist.completed + i <= Done <=> sq[i].entry <= hist.pushed
    /\ \A j \in DOMAIN pending :
         hist.completed + i <= pending[j].upto <=> sq[i].entry <= hist.sent + j

CompletionInv ==
  /\ CountsAgree
  /\ UptoFollows
  /\ EmptyBufferHasNoRequests
  /\ RequestsPartitioned

LEMMA InitCompletion == Init => CompletionInv
  BY DEF Init, CompletionInv, CountsAgree, UptoFollows, EmptyBufferHasNoRequests,
         RequestsPartitioned, Open, Attributed, Done

\* Steps that send no request and no notification and end no buffer.
LEMMA QuietCompletion ==
  ASSUME CompletionInv, UNCHANGED <<hist, sq, pending, num_completions>>,
         Open' = Open, EmptyBufferHasNoRequests'
  PROVE  CompletionInv'
  <1>1. UNCHANGED <<Attributed, Done>>  BY DEF Attributed, Done
  <1>2. CountsAgree' /\ UptoFollows'  BY <1>1 DEF CompletionInv, CountsAgree, UptoFollows
  <1>3. RequestsPartitioned'  BY <1>1 DEF CompletionInv, RequestsPartitioned
  <1> QED BY <1>2, <1>3 DEF CompletionInv

LEMMA OpenNat == TypeOK => Open \in Nat
  BY DEF Open, TypeOK, FsmOK

LEMMA HistNat ==
  TypeOK => /\ hist.requested \in Nat /\ hist.completed \in Nat
            /\ hist.pushed \in Nat /\ hist.sent \in Nat
  BY DEF TypeOK, HistOK

LEMMA EntryNat ==
  ASSUME TypeOK, NEW i \in DOMAIN sq
  PROVE  sq[i].entry \in Nat /\ i \in Nat \ {0} /\ i <= Len(sq) /\ Len(sq) \in Nat
  <1>1. sq \in Seq(TransferRequest)  BY DEF TypeOK, SqOK
  <1>2. sq[i] \in TransferRequest  BY <1>1
  <1> QED BY <1>1, <1>2 DEF TransferRequest

LEMMA UptoNat ==
  ASSUME TypeOK, NEW j \in DOMAIN pending
  PROVE  /\ pending[j].upto \in Nat /\ pending[j].num_requests \in Nat
         /\ j \in Nat \ {0} /\ j <= Len(pending) /\ Len(pending) \in Nat
  <1>1. pending \in Seq(PendingNotify)  BY DEF TypeOK, NotifyOK
  <1>2. pending[j] \in PendingNotify  BY <1>1
  <1> QED BY <1>1, <1>2 DEF PendingNotify

LEMMA RequestCompletion ==
  ASSUME TypeOK, CompletionInv, Request
  PROVE  CompletionInv'
  <1> DEFINE e == [id |-> buffer.id, off |-> bytes_written,
                   len |-> Head(len_fifo), entry |-> hist.pushed + 1]
  <1>1. /\ sq' = Append(sq, e)
        /\ bytes_written' = bytes_written + Head(len_fifo)
        /\ num_requests' = num_requests + 1
        /\ output_state = "REQUEST" /\ output_state' = "TRANSFER"
        /\ UNCHANGED <<pending, num_completions>>
        /\ Head(len_fifo) # 0 /\ len_fifo # <<>>
    BY DEF Request, CanRequest
  <1>2. /\ hist'.requested = hist.requested + 1 /\ hist'.completed = hist.completed
        /\ hist'.pushed = hist.pushed /\ hist'.sent = hist.sent
    <2>1. hist' = [hist EXCEPT !.requested = @ + 1]  BY DEF Request
    <2> QED BY <2>1 DEF TypeOK, HistOK
  <1>3. e.entry = hist.pushed + 1  OBVIOUS
  <1> HIDE DEF e
  <1>4. Open' = Open + 1  BY <1>1 DEF Open
  <1>5. Attributed' = Attributed /\ Done' = Done
    BY <1>1, <1>2, <1>4, OpenNat, HistNat DEF Attributed, Done
  <1>6. /\ Len(sq) \in Nat /\ Len(sq') = Len(sq) + 1
        /\ DOMAIN sq = 1 .. Len(sq) /\ DOMAIN sq' = 1 .. Len(sq) + 1
        /\ \A i \in DOMAIN sq : sq'[i] = sq[i]
        /\ sq'[Len(sq) + 1] = e
    BY <1>1 DEF TypeOK, SqOK
  <1>7. CountsAgree'  BY <1>1, <1>2, <1>6, HistNat DEF CompletionInv, CountsAgree
  <1>8. UptoFollows'
    <2>1. \A j \in DOMAIN pending : pending[j].upto <= hist.requested + 1
      BY UptoNat, HistNat DEF CompletionInv, UptoFollows
    <2> QED BY <1>1, <1>2, <1>5, <2>1 DEF CompletionInv, UptoFollows
  <1>9. EmptyBufferHasNoRequests'
    <2>1. Head(len_fifo) \in Nat  BY <1>1, PopFacts DEF TypeOK, InputOK
    <2>2. bytes_written \in Nat  BY DEF TypeOK, FsmOK
    <2>3. bytes_written' > 0  BY <1>1, <2>1, <2>2
    <2> QED BY <1>1, <2>3 DEF EmptyBufferHasNoRequests
  <1>10. RequestsPartitioned'
    <2>1. ASSUME NEW i \in DOMAIN sq
          PROVE  /\ sq'[i].entry <= hist'.pushed + 1
                 /\ hist'.completed + i <= Done' <=> sq'[i].entry <= hist'.pushed
                 /\ \A j \in DOMAIN pending' :
                      hist'.completed + i <= pending'[j].upto <=> sq'[i].entry <= hist'.sent + j
      BY <1>1, <1>2, <1>5, <1>6 DEF CompletionInv, RequestsPartitioned
    <2> DEFINE i == Len(sq) + 1
    <2>2. hist.completed + i = hist.requested + 1  BY <1>6, HistNat DEF CompletionInv, CountsAgree
    <2>3. /\ sq'[i].entry = hist.pushed + 1
          /\ ~(hist.completed + i <= Done)
      BY <1>3, <1>6, <2>2, OpenNat, HistNat DEF Done
    <2>4. ASSUME NEW j \in DOMAIN pending
          PROVE  ~(hist.completed + i <= pending[j].upto) /\ ~(sq'[i].entry <= hist.sent + j)
      <3>1. pending[j].upto <= hist.requested /\ hist.pushed = hist.sent + Len(pending)
        BY DEF CompletionInv, CountsAgree, UptoFollows
      <3>2. pending[j].upto \in Nat /\ j \in Nat /\ j <= Len(pending) /\ Len(pending) \in Nat
        BY UptoNat
      <3>3. ~(hist.completed + i <= pending[j].upto)  BY <2>2, <3>1, <3>2, HistNat
      <3>4. ~(sq'[i].entry <= hist.sent + j)  BY <2>3, <3>1, <3>2, HistNat
      <3> QED BY <3>3, <3>4
    <2> HIDE DEF i
    <2>5. /\ sq'[i].entry <= hist'.pushed + 1
          /\ hist'.completed + i <= Done' <=> sq'[i].entry <= hist'.pushed
          /\ \A j \in DOMAIN pending' :
               hist'.completed + i <= pending'[j].upto <=> sq'[i].entry <= hist'.sent + j
      BY <1>1, <1>2, <1>5, <2>3, <2>4, HistNat
    <2>6. \A k \in DOMAIN sq' : k \in DOMAIN sq \/ k = i  BY <1>6 DEF i
    <2> QED BY <2>1, <2>5, <2>6 DEF RequestsPartitioned
  <1> QED BY <1>7, <1>8, <1>9, <1>10 DEF CompletionInv

LEMMA PushCompletion ==
  ASSUME TypeOK, CompletionInv, NEW last, PushPending(last),
         UNCHANGED <<sq, num_completions>>, Open' = 0, EmptyBufferHasNoRequests',
         output_state \in {"REQUEST", "TRANSFER"}
  PROVE  CompletionInv'
  <1> DEFINE e == [id |-> buffer.id, size |-> bytes_written, last |-> last,
                   num_requests |-> num_requests, upto |-> hist.requested,
                   capacity |-> buffer.capacity]
             n == Len(pending)
  <1>1. pending' = Append(pending, e)  BY DEF PushPending
  <1>2. /\ hist'.requested = hist.requested /\ hist'.completed = hist.completed
        /\ hist'.pushed = hist.pushed + 1 /\ hist'.sent = hist.sent
    <2>1. hist' = [hist EXCEPT !.pushed = @ + 1]  BY DEF PushPending
    <2> QED BY <2>1 DEF TypeOK, HistOK
  <1>3. e.num_requests = Open /\ e.upto = hist.requested  BY DEF Open
  <1> HIDE DEF e
  <1>4. /\ n \in Nat /\ Len(pending') = n + 1
        /\ DOMAIN pending = 1 .. n /\ DOMAIN pending' = 1 .. n + 1
        /\ \A j \in DOMAIN pending : pending'[j] = pending[j]
        /\ pending'[n + 1] = e
    BY <1>1 DEF TypeOK, NotifyOK
  <1>5. Attributed' = Attributed /\ Done' = hist.requested  BY <1>2, HistNat DEF Attributed, Done
  <1>6. CountsAgree'
    <2>1. CountsAgree  BY DEF CompletionInv
    <2>2. Len(pending') = Len(pending) + 1  BY <1>4
    <2>3. Len(pending) \in Nat /\ hist.pushed \in Nat /\ hist.sent \in Nat  BY <1>4, HistNat
    <2>4. hist.requested = hist.completed + Len(sq) /\ hist.pushed = hist.sent + Len(pending)
      BY <2>1 DEF CountsAgree
    <2>5. hist'.requested = hist'.completed + Len(sq')  BY <1>2, <2>4
    <2>6. hist'.pushed = hist'.sent + Len(pending')
      <3>1. PICK k, l, m : k = hist.pushed /\ l = hist.sent /\ m = Len(pending)  OBVIOUS
      <3>2. k + 1 = l + (m + 1)  BY <2>3, <2>4, <3>1
      <3> QED BY <1>2, <2>2, <3>1, <3>2
    <2> QED BY <2>5, <2>6 DEF CountsAgree
  <1>7. UptoFollows'
    <2>1. Done = hist.requested - Open /\ Open \in Nat  BY OpenNat DEF Done
    <2>2. hist.requested = (IF n + 1 = 1 THEN Attributed ELSE pending[n].upto) + Open
      <3>1. CASE pending = <<>>
        BY <2>1, <3>1, <1>4, HistNat DEF CompletionInv, UptoFollows, Attributed, TypeOK, NotifyOK
      <3>2. CASE pending # <<>>
        <4>1. n # 0 /\ n \in DOMAIN pending  BY <3>2, <1>4 DEF TypeOK, NotifyOK
        <4> QED BY <2>1, <3>2, <4>1, <1>4, UptoNat, HistNat DEF CompletionInv, UptoFollows
      <3> QED BY <3>1, <3>2
    <2>3. ASSUME NEW j \in DOMAIN pending'
          PROVE  pending'[j].upto = (IF j = 1 THEN Attributed ELSE pending'[j - 1].upto)
                                      + pending'[j].num_requests
      <3>1. CASE j \in DOMAIN pending
        <4>1. j # 1 => j - 1 \in DOMAIN pending  BY <3>1, <1>4
        <4> QED BY <3>1, <4>1, <1>4 DEF CompletionInv, UptoFollows
      <3>2. CASE j = n + 1
        <4>1. j # 1 => pending'[j - 1] = pending[n]  BY <3>2, <1>4
        <4> QED BY <3>2, <4>1, <2>2, <1>3, <1>4
      <3> QED BY <3>1, <3>2, <1>4
    <2>4. Done' = IF pending' = <<>> THEN Attributed' ELSE pending'[Len(pending')].upto
      BY <1>1, <1>3, <1>4, <1>5 DEF TypeOK, NotifyOK
    <2>5. \A j \in DOMAIN pending' : pending'[j].upto <= hist.requested
      BY <1>3, <1>4, HistNat DEF CompletionInv, UptoFollows
    <2> QED BY <1>2, <1>5, <2>3, <2>4, <2>5 DEF UptoFollows
  <1>8. RequestsPartitioned'
    <2> SUFFICES ASSUME NEW i \in DOMAIN sq
                 PROVE  /\ sq[i].entry <= hist'.pushed + 1
                        /\ hist'.completed + i <= Done' <=> sq[i].entry <= hist'.pushed
                        /\ \A j \in DOMAIN pending' : hist'.completed + i <= pending'[j].upto
                                                         <=> sq[i].entry <= hist'.sent + j
      BY DEF RequestsPartitioned
    <2>1. sq[i].entry <= hist.pushed + 1  BY DEF CompletionInv, RequestsPartitioned
    <2>2. hist.completed + i <= hist.requested  BY EntryNat, HistNat DEF CompletionInv, CountsAgree
    <2>3. ASSUME NEW j \in DOMAIN pending'
          PROVE  hist'.completed + i <= pending'[j].upto <=> sq[i].entry <= hist'.sent + j
      <3>1. CASE j \in DOMAIN pending  BY <3>1, <1>2, <1>4 DEF CompletionInv, RequestsPartitioned
      <3>2. CASE j = n + 1
        <4>1. hist.sent + j = hist.pushed + 1
          <5>1. hist.pushed = hist.sent + n  BY DEF CompletionInv, CountsAgree
          <5>2. PICK k, m : k = hist.sent /\ m = hist.pushed  OBVIOUS
          <5>3. hist.sent \in Nat /\ hist.pushed \in Nat  BY HistNat
          <5>4. PICK l : l = n  OBVIOUS
          <5>5. k \in Nat /\ m \in Nat /\ l \in Nat /\ m = k + l  BY <5>1, <5>2, <5>3, <5>4, <1>4
          <5>6. k + (l + 1) = m + 1  BY <5>5
          <5> QED BY <5>2, <5>4, <5>6, <3>2
        <4>2. pending'[j].upto = hist.requested  BY <3>2, <1>3, <1>4
        <4>3. hist'.completed + i <= pending'[j].upto  BY <4>2, <2>2, <1>2
        <4>4. sq[i].entry <= hist'.sent + j  BY <4>1, <2>1, <1>2
        <4> QED BY <4>3, <4>4
      <3> QED BY <3>1, <3>2, <1>4
    <2> QED BY <2>1, <2>2, <2>3, <1>2, <1>5, EntryNat, HistNat
  <1> QED BY <1>6, <1>7, <1>8 DEF CompletionInv

LEMMA HostCompletion ==
  ASSUME TypeOK, CompletionInv, HostComplete
  PROVE  CompletionInv'
  <1>1. /\ sq' = Tail(sq) /\ sq # <<>>
        /\ num_completions' = num_completions + 1
        /\ UNCHANGED <<pending, num_requests, output_state, bytes_written>>
    BY DEF HostComplete, fsmVars
  <1>2. /\ hist'.requested = hist.requested /\ hist'.completed = hist.completed + 1
        /\ hist'.pushed = hist.pushed /\ hist'.sent = hist.sent
    <2>1. hist' = [hist EXCEPT !.completed = @ + 1]  BY DEF HostComplete
    <2> QED BY <2>1 DEF TypeOK, HistOK
  <1>3. /\ Len(sq) \in Nat \ {0} /\ Len(sq') = Len(sq) - 1
        /\ DOMAIN sq = 1 .. Len(sq) /\ DOMAIN sq' = 1 .. Len(sq) - 1
        /\ \A i \in DOMAIN sq' : sq'[i] = sq[i + 1]
    BY <1>1, PopFacts DEF TypeOK, SqOK
  <1>4. num_completions \in Nat  BY DEF TypeOK, NotifyOK
  <1>5. Attributed' = Attributed /\ Done' = Done /\ Open' = Open
    BY <1>1, <1>2, <1>4, HistNat DEF Attributed, Done, Open
  <1>6. CountsAgree'  BY <1>1, <1>2, <1>3, HistNat DEF CompletionInv, CountsAgree
  <1>7. UptoFollows' /\ EmptyBufferHasNoRequests'
    BY <1>1, <1>2, <1>5 DEF CompletionInv, UptoFollows, EmptyBufferHasNoRequests
  <1>8. RequestsPartitioned'
    <2> SUFFICES ASSUME NEW i \in DOMAIN sq'
                 PROVE  /\ sq'[i].entry <= hist'.pushed + 1
                        /\ hist'.completed + i <= Done' <=> sq'[i].entry <= hist'.pushed
                        /\ \A j \in DOMAIN pending' : hist'.completed + i <= pending'[j].upto
                                                         <=> sq'[i].entry <= hist'.sent + j
      BY DEF RequestsPartitioned
    <2>1. i + 1 \in DOMAIN sq /\ sq'[i] = sq[i + 1]  BY <1>3
    <2>2. hist'.completed + i = hist.completed + (i + 1)
      <3>1. i \in Nat  BY <1>3
      <3>2. hist.completed \in Nat  BY HistNat
      <3> QED BY <3>1, <3>2, <1>2
    <2> QED BY <2>1, <2>2, <1>1, <1>2, <1>5 DEF CompletionInv, RequestsPartitioned
  <1> QED BY <1>6, <1>7, <1>8 DEF CompletionInv

LEMMA NotifyCompletion ==
  ASSUME TypeOK, CompletionInv, Notify
  PROVE  CompletionInv'
  <1> DEFINE n == Len(pending)
  <1>1. /\ pending' = Tail(pending) /\ pending # <<>>
        /\ num_completions' = num_completions - Head(pending).num_requests
        /\ UNCHANGED <<sq, num_requests, output_state, bytes_written>>
    BY DEF Notify, NotifyValid, UnattributedCompletions, fsmVars
  <1>2. /\ hist'.requested = hist.requested /\ hist'.completed = hist.completed
        /\ hist'.pushed = hist.pushed /\ hist'.sent = hist.sent + 1
    <2>1. hist' = [hist EXCEPT !.sent = @ + 1]  BY DEF Notify
    <2> QED BY <2>1 DEF TypeOK, HistOK
  <1>3. /\ n \in Nat \ {0} /\ Len(pending') = n - 1
        /\ DOMAIN pending = 1 .. n /\ DOMAIN pending' = 1 .. n - 1
        /\ \A j \in DOMAIN pending' : pending'[j] = pending[j + 1]
        /\ Head(pending) = pending[1] /\ 1 \in DOMAIN pending
    <2>1. pending \in Seq(PendingNotify)  BY DEF TypeOK, NotifyOK
    <2> QED BY <1>1, <2>1, PopFacts
  <1>4. num_completions \in Nat /\ pending[1].num_requests \in Nat
    BY <1>3, UptoNat DEF TypeOK, NotifyOK
  <1>5. Attributed' = pending[1].upto
    <2>1. pending[1].upto = Attributed + pending[1].num_requests
      BY <1>3 DEF CompletionInv, UptoFollows
    <2>2. PICK c \in Nat, r \in Nat, h \in Nat :
            c = num_completions /\ r = pending[1].num_requests /\ h = hist.completed
      BY <1>4, HistNat
    <2>3. Attributed' = h - (c - r)  BY <1>1, <1>2, <1>3, <2>2 DEF Attributed
    <2>4. pending[1].upto = (h - c) + r  BY <2>1, <2>2 DEF Attributed
    <2> QED BY <2>2, <2>3, <2>4
  <1>6. Done' = Done /\ Open' = Open  BY <1>1, <1>2 DEF Done, Open
  <1> HIDE DEF n
  <1>7. CountsAgree'  BY <1>1, <1>2, <1>3, HistNat DEF CompletionInv, CountsAgree, n
  <1>8. UptoFollows'
    <2>1. ASSUME NEW j \in DOMAIN pending'
          PROVE  /\ pending'[j].upto = (IF j = 1 THEN Attributed' ELSE pending'[j - 1].upto)
                                         + pending'[j].num_requests
                 /\ pending'[j].upto <= hist.requested
      <3>1. j + 1 \in DOMAIN pending /\ pending'[j] = pending[j + 1] /\ j + 1 # 1
            /\ j \in Nat
        BY <1>3
      <3>2. pending[j + 1].upto = pending[j].upto + pending[j + 1].num_requests
        BY <3>1 DEF CompletionInv, UptoFollows
      <3>3. pending[j].upto = IF j = 1 THEN Attributed' ELSE pending'[j - 1].upto
        <4>1. CASE j = 1  BY <4>1, <1>5
        <4>2. CASE j # 1
          <5>1. j - 1 \in DOMAIN pending' /\ (j - 1) + 1 = j  BY <4>2, <3>1, <1>3
          <5> QED BY <4>2, <5>1, <1>3
        <4> QED BY <4>1, <4>2
      <3> QED BY <3>1, <3>2, <3>3 DEF CompletionInv, UptoFollows
    <2>2. Done' = IF pending' = <<>> THEN Attributed' ELSE pending'[Len(pending')].upto
      <3>1. Done = pending[n].upto  BY <1>1 DEF CompletionInv, UptoFollows, n
      <3>2. CASE n = 1
        <4>1. pending' = <<>>  BY <1>1, <1>3, <3>2, PopFacts, EmptySeq DEF TypeOK, NotifyOK
        <4> QED BY <4>1, <3>1, <3>2, <1>5, <1>6
      <3>3. CASE n # 1
        <4>1. Len(pending') \in DOMAIN pending' /\ Len(pending') + 1 = n  BY <1>3, <3>3
        <4>2. pending' # <<>>  BY <1>3, <3>3
        <4> QED BY <4>1, <4>2, <3>1, <1>3, <1>6
      <3> QED BY <3>2, <3>3
    <2> QED BY <1>2, <2>1, <2>2 DEF UptoFollows
  <1>9. EmptyBufferHasNoRequests'  BY <1>1 DEF CompletionInv, EmptyBufferHasNoRequests
  <1>10. RequestsPartitioned'
    <2> SUFFICES ASSUME NEW i \in DOMAIN sq
                 PROVE  /\ sq[i].entry <= hist'.pushed + 1
                        /\ hist'.completed + i <= Done' <=> sq[i].entry <= hist'.pushed
                        /\ \A j \in DOMAIN pending' : hist'.completed + i <= pending'[j].upto
                                                         <=> sq[i].entry <= hist'.sent + j
      BY <1>1 DEF RequestsPartitioned
    <2>1. ASSUME NEW j \in DOMAIN pending'
          PROVE  hist'.completed + i <= pending'[j].upto <=> sq[i].entry <= hist'.sent + j
      <3>1. j + 1 \in DOMAIN pending /\ pending'[j] = pending[j + 1] /\ j \in Nat  BY <1>3
      <3>2. hist'.sent + j = hist.sent + (j + 1)  BY <3>1, <1>2, HistNat
      <3> QED BY <3>1, <3>2, <1>2 DEF CompletionInv, RequestsPartitioned
    <2> QED BY <2>1, <1>2, <1>6 DEF CompletionInv, RequestsPartitioned
  <1> QED BY <1>7, <1>8, <1>9, <1>10 DEF CompletionInv

LEMMA NextCompletion ==
  ASSUME ~FLUSH_MIDSTREAM, TypeOK, CompletionInv, [Next]_vars
  PROVE  CompletionInv'
  <1> DEFINE Quiet == UNCHANGED <<hist, sq, pending, num_completions>>
  <1>1. ASSUME Quiet, UNCHANGED <<output_state, num_requests, bytes_written>>
        PROVE  CompletionInv'
    BY <1>1, QuietCompletion DEF Open, CompletionInv, EmptyBufferHasNoRequests
  <1>2. ASSUME Quiet, Open = 0, output_state' \notin {"REQUEST", "TRANSFER"}
        PROVE  CompletionInv'
    BY <1>2, QuietCompletion DEF Open, EmptyBufferHasNoRequests
  <1>3. ASSUME NEW b, Accept(b)
        PROVE  CompletionInv'
    BY <1>1, <1>3 DEF Accept, fsmVars, hostVars
  <1>4. CASE Enqueue  BY <1>1, <1>4 DEF Enqueue, EnqueueBuffer, fsmVars, hostVars
  <1>5. CASE Flush
    <2>1. Open = 0
      <3>1. output_state # "TRANSFER" /\ (output_state = "REQUEST" => bytes_written = 0)
        BY <1>5 DEF Flush, Idle
      <3> QED BY <3>1 DEF Open, CompletionInv, EmptyBufferHasNoRequests
    <2> QED BY <1>2, <1>5, <2>1 DEF Flush, hostVars
  <1>6. CASE FlushBuffer  BY <1>1, <1>6 DEF FlushBuffer, fsmVars, hostVars
  <1>7. CASE FlushDone \/ LeaveReset  BY <1>2, <1>7 DEF FlushDone, LeaveReset, hostVars, Open
  <1>8. CASE TakeBuffer
    <2>1. Open = 0 /\ Open' = 0 /\ EmptyBufferHasNoRequests' /\ Quiet
      BY <1>8 DEF TakeBuffer, Open, EmptyBufferHasNoRequests, hostVars
    <2> QED BY <2>1, QuietCompletion
  <1>9. CASE EndEmptyStream
    <2>1. /\ PushPending(TRUE) /\ output_state = "REQUEST"
          /\ UNCHANGED <<sq, num_completions, num_requests, bytes_written>>
          /\ output_state' = IF GivesUpBuffer THEN "WAIT_FOR_BUFFER" ELSE "REQUEST"
      BY <1>9 DEF EndEmptyStream, fsmVars, hostVars
    <2>2. Open' = 0 /\ EmptyBufferHasNoRequests'
      <3>1. CASE GivesUpBuffer  BY <2>1, <3>1 DEF Open, EmptyBufferHasNoRequests
      <3>2. CASE ~GivesUpBuffer
        BY <2>1, <3>2 DEF GivesUpBuffer, Open, CompletionInv, EmptyBufferHasNoRequests
      <3> QED BY <3>1, <3>2
    <2> QED BY <2>1, <2>2, PushCompletion
  <1>10. CASE TransferBeat
    <2>1. /\ output_state = "TRANSFER"
          /\ UNCHANGED <<sq, num_completions, num_requests, bytes_written>>
      BY <1>10 DEF TransferBeat
    <2>2. CASE UNCHANGED <<output_state, pending, hist>>  BY <1>1, <2>1, <2>2
    <2>3. CASE PushPending(Head(data_fifo).last) /\ output_state' = "WAIT_FOR_BUFFER"
      BY <2>1, <2>3, PushCompletion DEF Open, EmptyBufferHasNoRequests
    <2>4. CASE output_state' = "REQUEST" /\ UNCHANGED <<pending, hist>>
      <3>1. EmptyBufferHasNoRequests'
        BY <2>1, <2>4 DEF CompletionInv, EmptyBufferHasNoRequests, TypeOK, FsmOK
      <3> QED BY <2>1, <2>4, <3>1, QuietCompletion DEF Open
    <2> QED BY <1>10, <2>2, <2>3, <2>4 DEF TransferBeat, EndTransfer
  <1>11. CASE UNCHANGED vars  BY <1>1, <1>11 DEF vars, fsmVars, hostVars
  <1> QED
    BY <1>3, <1>4, <1>5, <1>6, <1>7, <1>8, <1>9, <1>10, <1>11, RequestCompletion,
       HostCompletion, NotifyCompletion DEF Next, AcceptBeat

LEMMA CompletionImplies ==
  ASSUME TypeOK, CompletionInv
  PROVE  NotifyAfterCompletion
  <1> SUFFICES ASSUME NotifyValid, NEW i \in DOMAIN sq
               PROVE  sq[i].entry > hist.sent + 1
    BY DEF NotifyAfterCompletion
  <1>1. /\ pending # <<>> /\ Head(pending) = pending[1] /\ 1 \in DOMAIN pending
        /\ num_completions >= pending[1].num_requests
    BY PopFacts DEF NotifyValid, TypeOK, NotifyOK
  <1>2. pending[1].upto = hist.completed - num_completions + pending[1].num_requests
    BY <1>1 DEF CompletionInv, UptoFollows, Attributed
  <1>3. num_completions \in Nat /\ pending[1].num_requests \in Nat
    BY <1>1, UptoNat DEF TypeOK, NotifyOK
  <1>4. ~(hist.completed + i <= pending[1].upto)  BY <1>1, <1>2, <1>3, EntryNat, HistNat
  <1>5. ~(sq[i].entry <= hist.sent + 1)  BY <1>1, <1>4 DEF CompletionInv, RequestsPartitioned
  <1> QED BY <1>5, EntryNat, HistNat

(* "The interrupt is only triggered once all transfers to the buffer        *)
(* completed" (stream_writer.sv:14), for every FIFO depth and every number  *)
(* of requests in flight, if the software flushes between streams only.     *)
THEOREM NotifiedAfterCompletion ==
  ASSUME ~FLUSH_MIDSTREAM
  PROVE  SafeSpec => []NotifyAfterCompletion
  <1>1. TypeOK /\ CompletionInv /\ [Next]_vars => CompletionInv'  BY NextCompletion
  <1>2. TypeOK /\ CompletionInv => NotifyAfterCompletion  BY CompletionImplies
  <1> QED BY <1>1, <1>2, InitCompletion, SafeTypes, PTL DEF SafeSpec

----
(* Lengths and beats.                                                       *)

LEMMA QuotientFacts ==
  ASSUME NEW B \in Nat \ {0}, NEW m \in Int, NEW k \in 0 .. B - 1
  PROVE  (B * m + k) \div B = m
  OBVIOUS

\* The beats of a length, if its last beat holds keep bytes.
LEMMA BeatsOfLength ==
  ASSUME NEW m \in Nat, NEW keep \in 0 .. BEAT
  PROVE  /\ keep # 0 => NumBeats(BEAT * m + keep) = m + 1
         /\ NumBeats(BEAT * m) = m
  <1>1. BEAT \in Nat \ {0}  BY WriterAssumption
  <1>2. \A k \in 0 .. BEAT - 1, q \in Int : (BEAT * q + k) \div BEAT = q  BY <1>1, QuotientFacts
  <1>3. ASSUME keep # 0
        PROVE  NumBeats(BEAT * m + keep) = m + 1
    <2>1. (BEAT * (m + 1) + (keep - 1)) \div BEAT = m + 1
      <3>1. keep - 1 \in 0 .. BEAT - 1 /\ m + 1 \in Int  BY <1>1, <1>3
      <3> QED BY <1>2, <3>1
    <2>2. BEAT * m + keep + BEAT - 1 = BEAT * (m + 1) + (keep - 1)  BY <1>1
    <2> QED BY <2>1, <2>2 DEF NumBeats
  <1>4. NumBeats(BEAT * m) = m
    <2>1. (BEAT * m + (BEAT - 1)) \div BEAT = m
      <3>1. BEAT - 1 \in 0 .. BEAT - 1 /\ m \in Int  BY <1>1
      <3> QED BY <1>2, <3>1
    <2>2. BEAT * m + BEAT - 1 = BEAT * m + (BEAT - 1)  BY <1>1
    <2> QED BY <2>1, <2>2 DEF NumBeats
  <1> QED BY <1>3, <1>4

LEMMA NoBeats == NumBeats(0) = 0
  <1>1. NumBeats(BEAT * 0) = 0  BY BeatsOfLength, WriterAssumption
  <1> QED BY <1>1, WriterAssumption

\* Every other length takes a beat.
LEMMA SomeBeats ==
  ASSUME NEW len \in Nat, len # 0
  PROVE  NumBeats(len) \in Nat \ {0}
  <1>1. BEAT \in Nat \ {0} /\ NumBeats(len) \in Nat  BY WriterAssumption, NumBeatsNat
  <1>2. NumBeats(len) # 0
    <2> SUFFICES ASSUME (len + BEAT - 1) \div BEAT = 0 PROVE FALSE  BY DEF NumBeats
    <2>1. PICK n \in Nat : n = len - 1  BY <1>1
    <2>2. (BEAT + n) \div BEAT = 0  BY <1>1, <2>1
    <2> QED BY <1>1, <2>2, Z3
  <1> QED BY <1>1, <1>2

----
(* Pieces: consecutive beats of one stream, of which a transfer or a buffer *)
(* of size bytes consists.  A null beat is a piece of its own.              *)

Blocks(size) == IF size = 0 THEN 1 ELSE NumBeats(size)

Piece(u, from, to, size) ==
  /\ to = from + Blocks(size) /\ to <= Len(u)
  /\ size = BEAT * (to - from - 1) + u[to].keep
  /\ \A i \in from + 1 .. to - 1 : ~u[i].last

\* What the suppressor of null beats leaves of the output.
Suppressed(u) ==
  \A i \in 1 .. Len(u) :
    /\ ~u[i].last => u[i].keep = BEAT
    /\ i > 1 /\ u[i].keep = 0 => u[i - 1].last

LEMMA BeatTypes ==
  ASSUME NEW u \in Seq(Beat), NEW i \in 1 .. Len(u)
  PROVE  u[i] \in Beat /\ u[i].keep \in 0 .. BEAT /\ u[i].keep \in Nat /\ u[i].last \in BOOLEAN
  <1>1. u[i] \in Beat  OBVIOUS
  <1> QED BY <1>1, WriterAssumption DEF Beat

LEMMA BlocksPositive ==
  ASSUME NEW size \in Nat
  PROVE  Blocks(size) \in Nat \ {0}
  BY SomeBeats DEF Blocks

LEMMA PieceFacts ==
  ASSUME NEW u \in Seq(Beat), Suppressed(u), NEW from \in Nat, NEW to, NEW size \in Nat,
         Piece(u, from, to, size)
  PROVE  /\ to \in Nat /\ from < to /\ to \in 1 .. Len(u)
         /\ size = 0 => to = from + 1 /\ u[to].keep = 0 /\ u[to].last
         /\ size # 0 => \A i \in from + 1 .. to : u[i].keep # 0
         /\ \A i \in from + 1 .. to - 1 : u[i].keep = BEAT
         /\ ~u[to].last => size = BEAT * (to - from)
  <1>1. to = from + Blocks(size) /\ to <= Len(u) /\ Len(u) \in Nat /\ Blocks(size) \in Nat \ {0}
    BY BlocksPositive DEF Piece
  <1>2. to \in Nat /\ from < to /\ to \in 1 .. Len(u)  BY <1>1
  <1>3. u[to].keep \in 0 .. BEAT /\ BEAT \in Nat \ {0}  BY <1>2, BeatTypes, WriterAssumption
  <1>4. \A i \in from + 1 .. to - 1 : u[i].keep = BEAT
    <2> SUFFICES ASSUME NEW i \in from + 1 .. to - 1
                 PROVE  u[i].keep = BEAT
      OBVIOUS
    <2>1. i \in 1 .. Len(u) /\ ~u[i].last  BY <1>1, <1>2 DEF Piece
    <2> QED BY <2>1 DEF Suppressed
  <1>5. PICK m \in Nat : m = to - from - 1  BY <1>2
  <1>6. size = BEAT * m + u[to].keep  BY <1>5 DEF Piece
  <1>7. ASSUME size = 0
        PROVE  to = from + 1 /\ u[to].keep = 0 /\ u[to].last
    <2>1. to = from + 1 /\ m = 0  BY <1>1, <1>5, <1>7 DEF Blocks
    <2>2. u[to].keep = 0  BY <1>3, <1>6, <1>7, <2>1
    <2>3. u[to].last  BY <1>2, <1>3, <2>2 DEF Suppressed
    <2> QED BY <2>1, <2>2, <2>3
  <1>8. ASSUME size # 0
        PROVE  \A i \in from + 1 .. to : u[i].keep # 0
    <2>1. u[to].keep # 0
      <3> SUFFICES ASSUME u[to].keep = 0 PROVE FALSE  OBVIOUS
      <3>1. size = BEAT * m  BY <1>3, <1>6
      <3>2. NumBeats(size) = m  BY <1>3, <3>1, BeatsOfLength
      <3>3. to = from + m  BY <1>1, <1>8, <3>2 DEF Blocks
      <3> QED BY <1>5, <3>3
    <2> QED BY <1>2, <1>3, <1>4, <2>1
  <1>9. ASSUME ~u[to].last
        PROVE  size = BEAT * (to - from)
    <2>1. u[to].keep = BEAT  BY <1>2, <1>9 DEF Suppressed
    <2>2. size = BEAT * m + BEAT /\ m + 1 = to - from  BY <1>2, <1>5, <1>6, <2>1
    <2>3. BEAT * m + BEAT = BEAT * (m + 1)  BY <1>3
    <2> QED BY <2>2, <2>3
  <1> QED BY <1>2, <1>4, <1>7, <1>8, <1>9

\* A piece stays one when beats arrive.
LEMMA PieceGrows ==
  ASSUME NEW u \in Seq(Beat), NEW b \in Beat, NEW from \in Nat, NEW to \in Nat, NEW size \in Nat,
         Piece(u, from, to, size)
  PROVE  Piece(Append(u, b), from, to, size)
  <1> DEFINE v == Append(u, b)
  <1>1. Len(v) = Len(u) + 1 /\ Len(u) \in Nat /\ \A i \in 1 .. Len(u) : v[i] = u[i]  BY PushFacts
  <1>2. to = from + Blocks(size) /\ to <= Len(u) /\ Blocks(size) \in Nat \ {0}
    BY BlocksPositive DEF Piece
  <1>3. v[to] = u[to] /\ to <= Len(v)  BY <1>1, <1>2
  <1>4. \A i \in from + 1 .. to - 1 : v[i] = u[i]  BY <1>1, <1>2
  <1> HIDE DEF v
  <1>5. Piece(v, from, to, size)  BY <1>2, <1>3, <1>4 DEF Piece
  <1> QED BY <1>5 DEF v

\* The sequence without its first d elements.
Drop(u, d) == SubSeq(u, d + 1, Len(u))

LEMMA DropFacts ==
  ASSUME NEW T, NEW u \in Seq(T), NEW d \in 0 .. Len(u)
  PROVE  /\ Drop(u, d) \in Seq(T)
         /\ Len(Drop(u, d)) = Len(u) - d
         /\ \A i \in 1 .. Len(u) - d : Drop(u, d)[i] = u[d + i]
  BY DEF Drop

LEMMA PieceDrop ==
  ASSUME NEW u \in Seq(Beat), NEW d \in 0 .. Len(u), NEW from \in Nat, NEW to \in Nat,
         NEW size \in Nat, d <= from, Piece(u, from, to, size)
  PROVE  Piece(Drop(u, d), from - d, to - d, size)
  <1>1. PICK v : v = Drop(u, d)  OBVIOUS
  <1>2. Len(v) = Len(u) - d /\ Len(u) \in Nat /\ d \in Nat /\ \A i \in 1 .. Len(u) - d : v[i] = u[d + i]
    <2>1. Len(u) \in Nat /\ d \in Nat  OBVIOUS
    <2>2. Len(Drop(u, d)) = Len(u) - d /\ \A i \in 1 .. Len(u) - d : Drop(u, d)[i] = u[d + i]
      BY DropFacts
    <2> QED BY <1>1, <2>1, <2>2
  <1>3. to = from + Blocks(size) /\ to <= Len(u) /\ Blocks(size) \in Nat \ {0}
    BY BlocksPositive DEF Piece
  <1>4. v[to - d] = u[to] /\ to - d <= Len(v) /\ to - d = from - d + Blocks(size)
    <2>1. to - d \in 1 .. Len(u) - d /\ d + (to - d) = to  BY <1>2, <1>3
    <2>2. v[to - d] = u[to]  BY <1>2, <2>1
    <2>3. to - d <= Len(v) /\ to - d = from - d + Blocks(size)  BY <1>2, <1>3, <2>1
    <2> QED BY <2>2, <2>3
  <1>5. ASSUME NEW i \in (from - d) + 1 .. (to - d) - 1
        PROVE  ~v[i].last
    <2>1. d + i \in from + 1 .. to - 1 /\ i \in 1 .. Len(u) - d  BY <1>2, <1>3
    <2> QED BY <1>2, <2>1 DEF Piece
  <1>6. size = BEAT * ((to - d) - (from - d) - 1) + v[to - d].keep
    <2>1. (to - d) - (from - d) - 1 = to - from - 1  BY <1>2
    <2> QED BY <1>4, <2>1 DEF Piece
  <1>7. Piece(v, from - d, to - d, size)  BY <1>4, <1>5, <1>6 DEF Piece
  <1> QED BY <1>1, <1>7

LEMMA SuppressedGrows ==
  ASSUME NEW u \in Seq(Beat), NEW b \in Beat, Suppressed(u),
         ~b.last => b.keep = BEAT, u # <<>> /\ b.keep = 0 => u[Len(u)].last
  PROVE  Suppressed(Append(u, b))
  <1> DEFINE v == Append(u, b)
  <1>1. /\ Len(v) = Len(u) + 1 /\ Len(u) \in Nat /\ \A i \in 1 .. Len(u) : v[i] = u[i]
        /\ v[Len(u) + 1] = b
    BY PushFacts
  <1> HIDE DEF v
  <1>2. ASSUME NEW i \in 1 .. Len(v)
        PROVE  (~v[i].last => v[i].keep = BEAT) /\ (i > 1 /\ v[i].keep = 0 => v[i - 1].last)
    <2>1. CASE i \in 1 .. Len(u)
      <3>1. i > 1 => i - 1 \in 1 .. Len(u)  BY <2>1
      <3> QED BY <1>1, <2>1, <3>1 DEF Suppressed
    <2>2. CASE i = Len(u) + 1
      <3>1. i > 1 => i - 1 = Len(u) /\ i - 1 \in 1 .. Len(u) /\ u # <<>>  BY <1>1, <2>2
      <3>2. v[i] = b  BY <1>1, <2>2
      <3>3. i > 1 => v[i - 1] = u[Len(u)]  BY <1>1, <3>1
      <3> QED BY <3>1, <3>2, <3>3
    <2> QED BY <1>1, <2>1, <2>2
  <1> QED BY <1>2 DEF Suppressed, v

LEMMA SuppressedDrop ==
  ASSUME NEW u \in Seq(Beat), Suppressed(u), NEW d \in 0 .. Len(u)
  PROVE  Suppressed(Drop(u, d))
  <1>1. PICK v : v = Drop(u, d)  OBVIOUS
  <1>2. Len(v) = Len(u) - d /\ Len(u) \in Nat /\ d \in Nat /\ \A i \in 1 .. Len(u) - d : v[i] = u[d + i]
    <2>1. Len(u) \in Nat /\ d \in Nat  OBVIOUS
    <2>2. Len(Drop(u, d)) = Len(u) - d /\ \A i \in 1 .. Len(u) - d : Drop(u, d)[i] = u[d + i]
      BY DropFacts
    <2> QED BY <1>1, <2>1, <2>2
  <1>3. ASSUME NEW i \in 1 .. Len(v)
        PROVE  (~v[i].last => v[i].keep = BEAT) /\ (i > 1 /\ v[i].keep = 0 => v[i - 1].last)
    <2>1. i \in 1 .. Len(u) - d /\ d + i \in 1 .. Len(u) /\ (i > 1 => d + i > 1)  BY <1>2
    <2>2. v[i] = u[d + i]  BY <1>2, <2>1
    <2>3. i > 1 => v[i - 1] = u[(d + i) - 1]
      <3>1. i > 1 => i - 1 \in 1 .. Len(u) - d /\ d + (i - 1) = (d + i) - 1  BY <1>2, <2>1
      <3> QED BY <1>2, <3>1
    <2> QED BY <2>1, <2>2, <2>3 DEF Suppressed
  <1>4. Suppressed(v)  BY <1>3 DEF Suppressed
  <1> QED BY <1>1, <1>4

----
(* Cuts: P[0] .. P[Len(s)] cut the beats behind P[0] into pieces of the     *)
(* sizes s.                                                                 *)

Cut(u, P, s) ==
  /\ P \in [0 .. Len(s) -> Nat]
  /\ \A j, k \in 0 .. Len(s) : j <= k => P[j] <= P[k]
  /\ P[Len(s)] <= Len(u)
  /\ \A k \in 1 .. Len(s) : Piece(u, P[k - 1], P[k], s[k])

\* The positions with one more behind them, without the first one, and moved by d.
Extended(P, n, to) == [k \in 0 .. n + 1 |-> IF k <= n THEN P[k] ELSE to]
Rest(P, n) == [k \in 0 .. n - 1 |-> P[k + 1]]
Less(P, n, d) == [k \in 0 .. n |-> P[k] - d]

LEMMA CutGrows ==
  ASSUME NEW u \in Seq(Beat), NEW b \in Beat, NEW P, NEW s \in Seq(Nat), Cut(u, P, s)
  PROVE  Cut(Append(u, b), P, s)
  <1> DEFINE v == Append(u, b)
  <1>1. Len(v) = Len(u) + 1 /\ Len(u) \in Nat /\ Len(s) \in Nat  BY PushFacts
  <1>2. P \in [0 .. Len(s) -> Nat] /\ P[Len(s)] <= Len(u) /\ P[Len(s)] \in Nat  BY <1>1 DEF Cut
  <1>3. ASSUME NEW k \in 1 .. Len(s)
        PROVE  Piece(v, P[k - 1], P[k], s[k])
    <2>1. k - 1 \in 0 .. Len(s) /\ k \in 0 .. Len(s)  BY <1>1
    <2>2. P[k - 1] \in Nat /\ P[k] \in Nat /\ s[k] \in Nat
      <3>1. P \in [0 .. Len(s) -> Nat]  BY <1>2
      <3>2. P[k - 1] \in Nat /\ P[k] \in Nat  BY <2>1, <3>1
      <3>3. s[k] \in Nat  OBVIOUS
      <3> QED BY <3>2, <3>3
    <2>3. Piece(u, P[k - 1], P[k], s[k])  BY DEF Cut
    <2> QED BY <2>2, <2>3, PieceGrows
  <1> HIDE DEF v
  <1>4. P[Len(s)] <= Len(v)  BY <1>1, <1>2
  <1>5. Cut(v, P, s)  BY <1>2, <1>3, <1>4 DEF Cut
  <1> QED BY <1>5 DEF v

LEMMA CutExtended ==
  ASSUME NEW u \in Seq(Beat), NEW P, NEW s \in Seq(Nat), NEW to \in Nat, NEW x \in Nat,
         Cut(u, P, s), Piece(u, P[Len(s)], to, x)
  PROVE  Cut(u, Extended(P, Len(s), to), Append(s, x))
  <1>1. PICK n, t, Q : n = Len(s) /\ t = Append(s, x) /\ Q = Extended(P, n, to)  OBVIOUS
  <1>2. n \in Nat /\ Len(t) = n + 1 /\ (\A k \in 1 .. n : t[k] = s[k]) /\ t[n + 1] = x
    BY <1>1, PushFacts
  <1>3. P \in [0 .. n -> Nat] /\ \A j, k \in 0 .. n : j <= k => P[j] <= P[k]  BY <1>1 DEF Cut
  <1>4. Q = [k \in 0 .. n + 1 |-> IF k <= n THEN P[k] ELSE to]  BY <1>1 DEF Extended
  <1>5. (\A k \in 0 .. n : Q[k] = P[k]) /\ Q[n + 1] = to  BY <1>2, <1>4
  <1>6. Q \in [0 .. Len(t) -> Nat]  BY <1>2, <1>3, <1>4
  <1>7. P[n] < to /\ to <= Len(u) /\ P[n] \in Nat
    <2>1. Piece(u, P[n], to, x) /\ P[n] \in Nat  BY <1>1, <1>2, <1>3
    <2>2. to = P[n] + Blocks(x) /\ to <= Len(u)  BY <2>1 DEF Piece
    <2>3. Blocks(x) \in Nat \ {0}  BY BlocksPositive
    <2> QED BY <2>1, <2>2, <2>3
  <1>8. ASSUME NEW j \in 0 .. Len(t), NEW k \in 0 .. Len(t), j <= k
        PROVE  Q[j] <= Q[k]
    <2>1. CASE k \in 0 .. n
      <3>1. j \in 0 .. n  BY <1>2, <1>8, <2>1
      <3> QED BY <1>3, <1>5, <1>8, <2>1, <3>1
    <2>2. CASE k = n + 1 /\ j \in 0 .. n
      <3>1. Q[j] = P[j] /\ Q[k] = to /\ n \in 0 .. n /\ j <= n  BY <1>2, <1>5, <2>2
      <3>2. P[j] <= P[n] /\ P[j] \in Nat  BY <1>3, <2>2, <3>1
      <3> QED BY <1>7, <3>1, <3>2
    <2>3. CASE k = n + 1 /\ j = n + 1  BY <1>5, <2>3
    <2> QED BY <1>2, <2>1, <2>2, <2>3
  <1>9. ASSUME NEW k \in 1 .. Len(t)
        PROVE  Piece(u, Q[k - 1], Q[k], t[k])
    <2>1. k - 1 \in 0 .. n  BY <1>2
    <2>2. CASE k \in 1 .. n
      <3>1. Q[k - 1] = P[k - 1] /\ Q[k] = P[k] /\ t[k] = s[k]  BY <1>2, <1>5, <2>1, <2>2
      <3>2. Piece(u, P[k - 1], P[k], s[k])  BY <1>1, <2>2 DEF Cut
      <3> QED BY <3>1, <3>2
    <2>3. CASE k = n + 1
      <3>1. Q[k - 1] = P[n] /\ Q[k] = to /\ t[k] = x  BY <1>2, <1>5, <2>3
      <3> QED BY <1>1, <3>1
    <2> QED BY <1>2, <2>2, <2>3
  <1>10. Q[Len(t)] <= Len(u)  BY <1>2, <1>5, <1>7
  <1>11. Cut(u, Q, t)  BY <1>6, <1>8, <1>9, <1>10 DEF Cut
  <1> QED BY <1>1, <1>11

LEMMA CutRest ==
  ASSUME NEW u \in Seq(Beat), NEW P, NEW s \in Seq(Nat), s # <<>>, Cut(u, P, s)
  PROVE  Cut(u, Rest(P, Len(s)), Tail(s))
  <1>1. PICK n, t, Q : n = Len(s) /\ t = Tail(s) /\ Q = Rest(P, n)  OBVIOUS
  <1>2. n \in Nat \ {0} /\ Len(t) = n - 1 /\ \A k \in 1 .. n - 1 : t[k] = s[k + 1]
    BY <1>1, PopFacts
  <1>3. P \in [0 .. n -> Nat] /\ (\A j, k \in 0 .. n : j <= k => P[j] <= P[k]) /\ P[n] <= Len(u)
    BY <1>1 DEF Cut
  <1>4. Q = [k \in 0 .. n - 1 |-> P[k + 1]]  BY <1>1 DEF Rest
  <1>5. \A k \in 0 .. n - 1 : Q[k] = P[k + 1] /\ k + 1 \in 0 .. n  BY <1>2, <1>4
  <1>6. Q \in [0 .. Len(t) -> Nat]  BY <1>2, <1>3, <1>4, <1>5
  <1>7. ASSUME NEW j \in 0 .. Len(t), NEW k \in 0 .. Len(t), j <= k
        PROVE  Q[j] <= Q[k]
    <2>1. j \in 0 .. n - 1 /\ k \in 0 .. n - 1 /\ j + 1 <= k + 1  BY <1>2, <1>7
    <2> QED BY <1>3, <1>5, <2>1
  <1>8. ASSUME NEW k \in 1 .. Len(t)
        PROVE  Piece(u, Q[k - 1], Q[k], t[k])
    <2>1. k - 1 \in 0 .. n - 1 /\ k \in 0 .. n - 1 /\ (k - 1) + 1 = k /\ (k + 1) - 1 = k
          /\ k + 1 \in 1 .. n
      BY <1>2
    <2>2. Piece(u, P[(k + 1) - 1], P[k + 1], s[k + 1])  BY <1>1, <2>1 DEF Cut
    <2>3. Q[k - 1] = P[k] /\ Q[k] = P[k + 1] /\ t[k] = s[k + 1]  BY <1>2, <1>5, <2>1
    <2> QED BY <2>1, <2>2, <2>3
  <1>9. Q[Len(t)] <= Len(u)
    <2>1. n - 1 \in 0 .. n - 1 /\ (n - 1) + 1 = n  BY <1>2
    <2> QED BY <1>2, <1>3, <1>5, <2>1
  <1>10. Cut(u, Q, t)  BY <1>6, <1>7, <1>8, <1>9 DEF Cut
  <1> QED BY <1>1, <1>10

LEMMA CutDropped ==
  ASSUME NEW u \in Seq(Beat), NEW P, NEW s \in Seq(Nat), NEW d \in 0 .. Len(u),
         Cut(u, P, s), d <= P[0]
  PROVE  Cut(Drop(u, d), Less(P, Len(s), d), s)
  <1>1. PICK n, v, Q : n = Len(s) /\ v = Drop(u, d) /\ Q = Less(P, n, d)  OBVIOUS
  <1>2. n \in Nat /\ Len(u) \in Nat /\ d \in Nat /\ Len(v) = Len(u) - d  BY <1>1, DropFacts
  <1>3. P \in [0 .. n -> Nat] /\ (\A j, k \in 0 .. n : j <= k => P[j] <= P[k]) /\ P[n] <= Len(u)
    BY <1>1 DEF Cut
  <1>4. Q = [k \in 0 .. n |-> P[k] - d]  BY <1>1 DEF Less
  <1>5. \A k \in 0 .. n : Q[k] = P[k] - d /\ P[k] \in Nat /\ d <= P[k]
    <2>1. 0 \in 0 .. n  BY <1>2
    <2>2. \A k \in 0 .. n : P[0] <= P[k] /\ P[k] \in Nat /\ P[0] \in Nat  BY <1>3, <2>1
    <2> QED BY <1>2, <1>4, <2>2
  <1>6. Q \in [0 .. n -> Nat]
    <2>1. \A k \in 0 .. n : P[k] - d \in Nat  BY <1>2, <1>5
    <2> QED BY <1>4, <2>1
  <1>7. ASSUME NEW j \in 0 .. n, NEW k \in 0 .. n, j <= k
        PROVE  Q[j] <= Q[k]
    <2>1. P[j] <= P[k]  BY <1>3, <1>7
    <2> QED BY <1>2, <1>5, <2>1
  <1>8. ASSUME NEW k \in 1 .. n
        PROVE  Piece(v, Q[k - 1], Q[k], s[k])
    <2>1. k - 1 \in 0 .. n /\ k \in 0 .. n /\ s[k] \in Nat  BY <1>1, <1>2
    <2>2. Piece(u, P[k - 1], P[k], s[k])  BY <1>1 DEF Cut
    <2>3. P[k - 1] \in Nat /\ P[k] \in Nat /\ d <= P[k - 1]  BY <1>5, <2>1
    <2>4. Piece(Drop(u, d), P[k - 1] - d, P[k] - d, s[k])  BY <2>1, <2>2, <2>3, PieceDrop
    <2> QED BY <1>1, <1>5, <2>1, <2>4
  <1>9. Q[n] <= Len(v)
    <2>1. n \in 0 .. n  BY <1>2
    <2> QED BY <1>2, <1>3, <1>5, <2>1
  <1>10. Cut(v, Q, s)  BY <1>1, <1>6, <1>7, <1>8, <1>9 DEF Cut
  <1> QED BY <1>1, <1>10

----
(* Blocks: X[0] .. X[n] cut the beats at Coyote (o) and in the data FIFO    *)
(* (d) into blocks, and block j holds the beats of u behind G[j].           *)

OutBeat == [beat : Beat, tlast : BOOLEAN]

Data(o, d, i) == IF i <= Len(o) THEN o[i].beat ELSE d[i - Len(o)]

Offsets(X, n, end) ==
  /\ X \in [0 .. n -> Nat] /\ X[0] = 0 /\ X[n] = end
  /\ \A j, k \in 0 .. n : j <= k => X[j] <= X[k]

Filled(u, o, d, X, G, n) ==
  /\ G \in [1 .. n -> Nat]
  /\ \A j \in 1 .. n : \A i \in 1 .. X[j] - X[j - 1] :
       G[j] + i <= Len(u) /\ Data(o, d, X[j - 1] + i) = u[G[j] + i]

\* A beat that moves from the FIFO to Coyote stays the same beat.
LEMMA DataMoves ==
  ASSUME NEW o \in Seq(OutBeat), NEW d \in Seq(Beat), d # <<>>, NEW x \in OutBeat, x.beat = Head(d)
  PROVE  /\ Len(Append(o, x)) + Len(Tail(d)) = Len(o) + Len(d)
         /\ \A i \in 1 .. Len(o) + Len(d) : Data(Append(o, x), Tail(d), i) = Data(o, d, i)
  <1>1. PICK p, e : p = Append(o, x) /\ e = Tail(d)  OBVIOUS
  <1>2. Len(o) \in Nat /\ Len(p) = Len(o) + 1 /\ (\A i \in 1 .. Len(o) : p[i] = o[i]) /\ p[Len(o) + 1] = x
    BY <1>1, PushFacts
  <1>3. Len(d) \in Nat /\ Len(e) = Len(d) - 1 /\ (\A i \in 1 .. Len(d) - 1 : e[i] = d[i + 1]) /\ x.beat = d[1]
    BY <1>1, PopFacts
  <1>4. ASSUME NEW i \in 1 .. Len(o) + Len(d)
        PROVE  Data(p, e, i) = Data(o, d, i)
    <2>1. CASE i <= Len(o)
      <3>1. i \in 1 .. Len(o) /\ i <= Len(p)  BY <1>2, <2>1
      <3> QED BY <1>2, <2>1, <3>1 DEF Data
    <2>2. CASE i = Len(o) + 1
      <3>1. i <= Len(p) /\ ~(i <= Len(o)) /\ i - Len(o) = 1  BY <1>2, <2>2
      <3> QED BY <1>2, <1>3, <2>2, <3>1 DEF Data
    <2>3. CASE i > Len(o) + 1
      <3>1. ~(i <= Len(p)) /\ ~(i <= Len(o)) /\ i - Len(p) \in 1 .. Len(d) - 1
            /\ (i - Len(p)) + 1 = i - Len(o)
        BY <1>2, <1>3, <2>3
      <3>2. e[i - Len(p)] = d[i - Len(o)]  BY <1>3, <3>1
      <3> QED BY <3>1, <3>2 DEF Data
    <2> QED BY <1>2, <1>3, <2>1, <2>2, <2>3
  <1>5. Len(p) + Len(e) = Len(o) + Len(d)  BY <1>2, <1>3
  <1> QED BY <1>1, <1>4, <1>5

\* Filled and Offsets depend on the beats alone.
LEMMA FilledSame ==
  ASSUME NEW u \in Seq(Beat), NEW o, NEW d, NEW p, NEW e, NEW n \in Nat, NEW end \in Nat, NEW X, NEW G,
         Offsets(X, n, end), Filled(u, o, d, X, G, n),
         \A i \in 1 .. end : Data(p, e, i) = Data(o, d, i)
  PROVE  Filled(u, p, e, X, G, n)
  <1>1. ASSUME NEW j \in 1 .. n, NEW i \in 1 .. X[j] - X[j - 1]
        PROVE  G[j] + i <= Len(u) /\ Data(p, e, X[j - 1] + i) = u[G[j] + i]
    <2>1. j - 1 \in 0 .. n /\ j \in 0 .. n /\ n \in 0 .. n /\ j <= n  OBVIOUS
    <2>2. X[j - 1] \in Nat /\ X[j] \in Nat /\ X[j] <= end  BY <2>1 DEF Offsets
    <2>3. X[j - 1] + i \in 1 .. end  BY <2>2
    <2>4. G[j] + i <= Len(u) /\ Data(o, d, X[j - 1] + i) = u[G[j] + i]  BY DEF Filled
    <2> QED BY <2>3, <2>4
  <1> QED BY <1>1 DEF Filled

\* The blocks behind the first one, when it is written.
FirstGone(X, n) == [k \in 0 .. n - 1 |-> X[k + 1] - X[1]]
RestBlocks(G, n) == [k \in 1 .. n - 1 |-> G[k + 1]]

LEMMA OffsetsFirstGone ==
  ASSUME NEW n \in Nat \ {0}, NEW end \in Nat, NEW X, Offsets(X, n, end)
  PROVE  /\ X[1] \in Nat /\ X[1] <= end
         /\ Offsets(FirstGone(X, n), n - 1, end - X[1])
         /\ \A k \in 0 .. n - 1 : FirstGone(X, n)[k] = X[k + 1] - X[1]
  <1>1. PICK Y : Y = FirstGone(X, n)  OBVIOUS
  <1>2. Y = [k \in 0 .. n - 1 |-> X[k + 1] - X[1]]  BY <1>1 DEF FirstGone
  <1>3. \A k \in 0 .. n - 1 : Y[k] = X[k + 1] - X[1]  BY <1>2
  <1>4. X \in [0 .. n -> Nat] /\ X[n] = end /\ \A j, k \in 0 .. n : j <= k => X[j] <= X[k]
    BY DEF Offsets
  <1>5. \A k \in 0 .. n - 1 : k + 1 \in 0 .. n /\ 1 \in 0 .. n /\ 1 <= k + 1  OBVIOUS
  <1>6. \A k \in 0 .. n - 1 : X[k + 1] \in Nat /\ X[1] \in Nat /\ X[1] <= X[k + 1]  BY <1>4, <1>5
  <1>7. Y \in [0 .. n - 1 -> Nat]
    <2>1. \A k \in 0 .. n - 1 : X[k + 1] - X[1] \in Nat  BY <1>6
    <2> QED BY <1>2, <2>1
  <1>8. 0 \in 0 .. n - 1 /\ n - 1 \in 0 .. n - 1 /\ (n - 1) + 1 = n /\ 0 + 1 = 1  OBVIOUS
  <1>9. Y[0] = 0 /\ Y[n - 1] = end - X[1] /\ X[1] \in Nat /\ X[1] <= end  BY <1>3, <1>4, <1>6, <1>8
  <1>10. ASSUME NEW j \in 0 .. n - 1, NEW k \in 0 .. n - 1, j <= k
         PROVE  Y[j] <= Y[k]
    <2>1. X[j + 1] <= X[k + 1]
      <3>1. j + 1 <= k + 1 /\ j + 1 \in 0 .. n /\ k + 1 \in 0 .. n  BY <1>10
      <3> QED BY <1>4, <3>1
    <2> QED BY <1>3, <1>6, <2>1
  <1>11. Offsets(Y, n - 1, end - X[1])  BY <1>7, <1>9, <1>10 DEF Offsets
  <1> QED BY <1>1, <1>3, <1>9, <1>11

LEMMA PositiveBehind ==
  ASSUME NEW b \in Nat, NEW x \in Nat, x <= b, NEW i \in Nat \ {0}
  PROVE  (b + i) - x \in Nat \ {0}
  OBVIOUS

LEMMA FilledFirstGone ==
  ASSUME NEW u \in Seq(Beat), NEW o \in Seq(OutBeat), NEW d \in Seq(Beat), NEW n \in Nat \ {0},
         NEW X, NEW G, Offsets(X, n, Len(o) + Len(d)), Filled(u, o, d, X, G, n), X[1] <= Len(o)
  PROVE  Filled(u, Drop(o, X[1]), d, FirstGone(X, n), RestBlocks(G, n), n - 1)
  <1>1. PICK Y, H, p, x : Y = FirstGone(X, n) /\ H = RestBlocks(G, n) /\ x = X[1] /\ p = Drop(o, x)
    OBVIOUS
  <1>2. Len(o) \in Nat /\ Len(d) \in Nat /\ x \in Nat /\ x <= Len(o)
    <2>1. Len(o) \in Nat /\ Len(d) \in Nat /\ Len(o) + Len(d) \in Nat  OBVIOUS
    <2> QED BY <1>1, <2>1, OffsetsFirstGone
  <1>3. Len(p) = Len(o) - x /\ \A i \in 1 .. Len(o) - x : p[i] = o[x + i]
    <2>1. x \in 0 .. Len(o)  BY <1>2
    <2>2. Len(Drop(o, x)) = Len(o) - x /\ \A i \in 1 .. Len(o) - x : Drop(o, x)[i] = o[x + i]
      BY <2>1, DropFacts
    <2> QED BY <1>1, <2>2
  <1>4. H = [k \in 1 .. n - 1 |-> G[k + 1]]  BY <1>1 DEF RestBlocks
  <1>5. \A k \in 0 .. n - 1 : Y[k] = X[k + 1] - x
    <2>1. Len(o) + Len(d) \in Nat  BY <1>2
    <2> QED BY <1>1, <2>1, OffsetsFirstGone
  <1>6. \A k \in 1 .. n - 1 : H[k] = G[k + 1] /\ k + 1 \in 1 .. n  BY <1>4
  <1>7. H \in [1 .. n - 1 -> Nat]  BY <1>4, <1>6 DEF Filled
  <1>8. ASSUME NEW j \in 1 .. n - 1, NEW i \in 1 .. Y[j] - Y[j - 1]
        PROVE  H[j] + i <= Len(u) /\ Data(p, d, Y[j - 1] + i) = u[H[j] + i]
    <2>1. /\ j - 1 \in 0 .. n - 1 /\ j \in 0 .. n - 1 /\ (j - 1) + 1 = j /\ j \in 1 .. n
          /\ j + 1 \in 1 .. n /\ (j + 1) - 1 = j
      OBVIOUS
    <2>2. Y[j] = X[j + 1] - x /\ Y[j - 1] = X[j] - x  BY <1>5, <2>1
    <2>3. X[j] \in Nat /\ X[j + 1] \in Nat /\ x <= X[j]
      <3>1. j \in 0 .. n /\ j + 1 \in 0 .. n /\ 1 \in 0 .. n /\ 1 <= j  OBVIOUS
      <3> QED BY <1>1, <3>1 DEF Offsets
    <2>4. i \in 1 .. X[j + 1] - X[j]  BY <1>2, <2>2, <2>3
    <2>5. G[j + 1] + i <= Len(u) /\ Data(o, d, X[(j + 1) - 1] + i) = u[G[j + 1] + i]
      BY <2>1, <2>4 DEF Filled
    <2>6. Data(p, d, Y[j - 1] + i) = Data(o, d, X[j] + i)
      <3>1. PICK a \in Nat : a = X[j] + i  BY <2>3
      <3>2. Y[j - 1] + i = a - x
        <4>1. PICK b, y : b = X[j] /\ y = Y[j - 1]  OBVIOUS
        <4>2. b \in Nat /\ x \in Nat /\ i \in Int /\ a = b + i /\ y = b - x
          BY <1>2, <2>2, <2>3, <2>4, <3>1, <4>1
        <4>3. y + i = a - x  BY <4>2
        <4> QED BY <4>1, <4>3
      <3>3. a - x \in Nat \ {0}
        <4>1. PICK b \in Nat : b = X[j] /\ x <= b  BY <2>3
        <4>2. i \in Nat \ {0} /\ a = b + i  BY <2>3, <2>4, <3>1, <4>1
        <4>3. x \in Nat  BY <1>2
        <4>4. (b + i) - x \in Nat \ {0}  BY <4>1, <4>2, <4>3, PositiveBehind
        <4> QED BY <4>2, <4>4
      <3>4. CASE a <= Len(o)
        <4>1. a - x \in 1 .. Len(o) - x /\ a - x <= Len(p) /\ x + (a - x) = a
          BY <1>2, <1>3, <3>3, <3>4
        <4> QED BY <1>3, <3>1, <3>2, <3>4, <4>1 DEF Data
      <3>5. CASE ~(a <= Len(o))
        <4>1. ~(a - x <= Len(p)) /\ (a - x) - Len(p) = a - Len(o)  BY <1>2, <1>3, <3>3, <3>5
        <4> QED BY <3>1, <3>2, <3>5, <4>1 DEF Data
      <3> QED BY <3>4, <3>5
    <2> QED BY <1>6, <2>1, <2>5, <2>6
  <1>9. Filled(u, p, d, Y, H, n - 1)  BY <1>7, <1>8 DEF Filled
  <1> QED BY <1>1, <1>9

\* The blocks without block s, which is that of a null beat.
Without(X, n, s) == [k \in 0 .. n - 1 |-> IF k < s THEN X[k] ELSE X[k + 1]]
BlocksWithout(G, n, s) == [k \in 1 .. n - 1 |-> IF k < s THEN G[k] ELSE G[k + 1]]

LEMMA OffsetsWithout ==
  ASSUME NEW n \in Nat \ {0}, NEW end \in Nat, NEW X, Offsets(X, n, end),
         NEW s \in 1 .. n - 1
  PROVE  /\ Offsets(Without(X, n, s), n - 1, end)
         /\ \A k \in 0 .. s - 1 : Without(X, n, s)[k] = X[k]
         /\ \A k \in s .. n - 1 : Without(X, n, s)[k] = X[k + 1]
  <1>1. PICK Y : Y = Without(X, n, s)  OBVIOUS
  <1>2. Y = [k \in 0 .. n - 1 |-> IF k < s THEN X[k] ELSE X[k + 1]]  BY <1>1 DEF Without
  <1>3. (\A k \in 0 .. s - 1 : Y[k] = X[k]) /\ (\A k \in s .. n - 1 : Y[k] = X[k + 1])
    <2>1. ASSUME NEW k \in 0 .. s - 1
          PROVE  Y[k] = X[k]
      <3>1. k \in 0 .. n - 1 /\ k < s  OBVIOUS
      <3> QED BY <1>2, <3>1
    <2>2. ASSUME NEW k \in s .. n - 1
          PROVE  Y[k] = X[k + 1]
      <3>1. k \in 0 .. n - 1 /\ ~(k < s)  OBVIOUS
      <3> QED BY <1>2, <3>1
    <2> QED BY <2>1, <2>2
  <1>4. X \in [0 .. n -> Nat] /\ X[0] = 0 /\ X[n] = end /\ \A j, k \in 0 .. n : j <= k => X[j] <= X[k]
    BY DEF Offsets
  <1>5. ASSUME NEW k \in 0 .. n - 1
        PROVE  k \in 0 .. n /\ k + 1 \in 0 .. n /\ (k \in 0 .. s - 1 \/ k \in s .. n - 1)
    OBVIOUS
  <1>6. Y \in [0 .. n - 1 -> Nat]
    <2>1. \A k \in 0 .. n - 1 : X[k] \in Nat /\ X[k + 1] \in Nat  BY <1>4, <1>5
    <2> QED BY <1>2, <2>1
  <1>7. ASSUME NEW j \in 0 .. n - 1, NEW k \in 0 .. n - 1, j <= k
        PROVE  Y[j] <= Y[k]
    <2>1. CASE k \in 0 .. s - 1
      <3>1. j \in 0 .. s - 1 /\ j \in 0 .. n /\ k \in 0 .. n  BY <1>7, <2>1
      <3> QED BY <1>3, <1>4, <1>7, <2>1, <3>1
    <2>2. CASE k \in s .. n - 1 /\ j \in 0 .. s - 1
      <3>1. j <= k + 1 /\ j \in 0 .. n /\ k + 1 \in 0 .. n  BY <2>2
      <3> QED BY <1>3, <1>4, <2>2, <3>1
    <2>3. CASE k \in s .. n - 1 /\ j \in s .. n - 1
      <3>1. j + 1 <= k + 1 /\ j + 1 \in 0 .. n /\ k + 1 \in 0 .. n  BY <1>7, <2>3
      <3> QED BY <1>3, <1>4, <2>3, <3>1
    <2> QED BY <1>5, <2>1, <2>2, <2>3
  <1>8. Y[0] = 0 /\ Y[n - 1] = end
    <2>1. 0 \in 0 .. s - 1 /\ n - 1 \in s .. n - 1 /\ (n - 1) + 1 = n  OBVIOUS
    <2> QED BY <1>3, <1>4, <2>1
  <1>9. Offsets(Y, n - 1, end)  BY <1>6, <1>7, <1>8 DEF Offsets
  <1> QED BY <1>1, <1>3, <1>9

LEMMA FilledWithout ==
  ASSUME NEW u \in Seq(Beat), NEW o, NEW d, NEW n \in Nat \ {0}, NEW end \in Nat,
         NEW X, NEW G, Offsets(X, n, end), Filled(u, o, d, X, G, n),
         NEW s \in 1 .. n - 1, X[s] = X[s - 1]
  PROVE  Filled(u, o, d, Without(X, n, s), BlocksWithout(G, n, s), n - 1)
  <1>1. PICK Y, H : Y = Without(X, n, s) /\ H = BlocksWithout(G, n, s)  OBVIOUS
  <1>2. H = [k \in 1 .. n - 1 |-> IF k < s THEN G[k] ELSE G[k + 1]]  BY <1>1 DEF BlocksWithout
  <1>3. (\A k \in 0 .. s - 1 : Y[k] = X[k]) /\ (\A k \in s .. n - 1 : Y[k] = X[k + 1])
    BY <1>1, OffsetsWithout
  <1>4. G \in [1 .. n -> Nat]  BY DEF Filled
  <1>5. H \in [1 .. n - 1 -> Nat]
    <2>1. \A k \in 1 .. n - 1 : k \in 1 .. n /\ k + 1 \in 1 .. n  OBVIOUS
    <2>2. \A k \in 1 .. n - 1 : G[k] \in Nat /\ G[k + 1] \in Nat  BY <1>4, <2>1
    <2> QED BY <1>2, <2>2
  <1>6. ASSUME NEW j \in 1 .. n - 1, NEW i \in 1 .. Y[j] - Y[j - 1]
        PROVE  H[j] + i <= Len(u) /\ Data(o, d, Y[j - 1] + i) = u[H[j] + i]
    <2>1. CASE j < s
      <3>1. j \in 0 .. s - 1 /\ j - 1 \in 0 .. s - 1 /\ j \in 1 .. n  BY <2>1
      <3>2. Y[j] = X[j] /\ Y[j - 1] = X[j - 1] /\ H[j] = G[j]  BY <1>2, <1>3, <2>1, <3>1
      <3> QED BY <3>1, <3>2 DEF Filled
    <2>2. CASE j >= s
      <3>1. j \in s .. n - 1 /\ j + 1 \in 1 .. n /\ (j + 1) - 1 = j  BY <2>2
      <3>2. Y[j] = X[j + 1] /\ H[j] = G[j + 1]  BY <1>2, <1>3, <2>2, <3>1
      <3>3. Y[j - 1] = X[j]
        <4>1. CASE j = s
          <5>1. j - 1 \in 0 .. s - 1  BY <4>1
          <5> QED BY <1>3, <4>1, <5>1
        <4>2. CASE j > s
          <5>1. j - 1 \in s .. n - 1 /\ (j - 1) + 1 = j  BY <4>2
          <5> QED BY <1>3, <5>1
        <4> QED BY <2>2, <4>1, <4>2
      <3>4. G[j + 1] + i <= Len(u) /\ Data(o, d, X[(j + 1) - 1] + i) = u[G[j + 1] + i]
        BY <3>1, <3>2, <3>3 DEF Filled
      <3> QED BY <3>1, <3>2, <3>3, <3>4
    <2> QED BY <2>1, <2>2
  <1>7. Filled(u, o, d, Y, H, n - 1)  BY <1>5, <1>6 DEF Filled
  <1> QED BY <1>1, <1>7

\* One more block, without beats, behind the others.
OneMore(X, n) == [k \in 0 .. n + 1 |-> IF k <= n THEN X[k] ELSE X[n]]
BlocksOneMore(G, n, g) == [k \in 1 .. n + 1 |-> IF k <= n THEN G[k] ELSE g]

LEMMA OneMoreBlock ==
  ASSUME NEW u \in Seq(Beat), NEW o, NEW d, NEW n \in Nat, NEW end \in Nat, NEW g \in Nat,
         NEW X, NEW G, Offsets(X, n, end), Filled(u, o, d, X, G, n)
  PROVE  /\ Offsets(OneMore(X, n), n + 1, end)
         /\ Filled(u, o, d, OneMore(X, n), BlocksOneMore(G, n, g), n + 1)
         /\ \A k \in 0 .. n : OneMore(X, n)[k] = X[k]
         /\ OneMore(X, n)[n + 1] = X[n]
  <1>1. PICK Y, H : Y = OneMore(X, n) /\ H = BlocksOneMore(G, n, g)  OBVIOUS
  <1>2. Y = [k \in 0 .. n + 1 |-> IF k <= n THEN X[k] ELSE X[n]]
        /\ H = [k \in 1 .. n + 1 |-> IF k <= n THEN G[k] ELSE g]
    BY <1>1 DEF OneMore, BlocksOneMore
  <1>3. (\A k \in 0 .. n : Y[k] = X[k]) /\ Y[n + 1] = X[n]  BY <1>2
  <1>4. (\A k \in 1 .. n : H[k] = G[k]) /\ H[n + 1] = g  BY <1>2
  <1>5. X \in [0 .. n -> Nat] /\ X[0] = 0 /\ X[n] = end /\ \A j, k \in 0 .. n : j <= k => X[j] <= X[k]
    BY DEF Offsets
  <1>6. Y \in [0 .. n + 1 -> Nat] /\ H \in [1 .. n + 1 -> Nat]
    <2>1. G \in [1 .. n -> Nat] /\ n \in 0 .. n  BY DEF Filled
    <2>2. \A k \in 0 .. n + 1 : k \in 0 .. n \/ ~(k <= n)  OBVIOUS
    <2>3. Y \in [0 .. n + 1 -> Nat]  BY <1>2, <1>5, <2>1, <2>2
    <2>4. \A k \in 1 .. n + 1 : k \in 1 .. n \/ ~(k <= n)  OBVIOUS
    <2>5. H \in [1 .. n + 1 -> Nat]  BY <1>2, <2>1, <2>4
    <2> QED BY <2>3, <2>5
  <1>7. ASSUME NEW j \in 0 .. n + 1, NEW k \in 0 .. n + 1, j <= k
        PROVE  Y[j] <= Y[k]
    <2>1. \A i \in 0 .. n + 1 : i \in 0 .. n \/ i = n + 1  OBVIOUS
    <2>2. CASE k \in 0 .. n
      <3>1. j \in 0 .. n  BY <1>7, <2>2
      <3> QED BY <1>3, <1>5, <1>7, <2>2, <3>1
    <2>3. CASE k = n + 1 /\ j \in 0 .. n
      <3>1. n \in 0 .. n /\ j <= n  BY <2>3
      <3> QED BY <1>3, <1>5, <2>3, <3>1
    <2>4. CASE k = n + 1 /\ j = n + 1
      <3>1. Y[n + 1] \in Nat  BY <1>6
      <3> QED BY <2>4, <3>1
    <2> QED BY <2>1, <2>2, <2>3, <2>4
  <1>8. Offsets(Y, n + 1, end)
    <2>1. 0 \in 0 .. n  OBVIOUS
    <2> QED BY <1>3, <1>5, <1>6, <1>7, <2>1 DEF Offsets
  <1>9. ASSUME NEW j \in 1 .. n + 1, NEW i \in 1 .. Y[j] - Y[j - 1]
        PROVE  H[j] + i <= Len(u) /\ Data(o, d, Y[j - 1] + i) = u[H[j] + i]
    <2>1. CASE j \in 1 .. n
      <3>1. j - 1 \in 0 .. n /\ j \in 0 .. n  BY <2>1
      <3>2. Y[j] = X[j] /\ Y[j - 1] = X[j - 1] /\ H[j] = G[j]  BY <1>3, <1>4, <2>1, <3>1
      <3> QED BY <2>1, <3>2 DEF Filled
    <2>2. CASE j = n + 1
      <3>1. j - 1 = n /\ n \in 0 .. n  BY <2>2
      <3>2. Y[j] = X[n] /\ Y[j - 1] = X[n] /\ X[n] \in Nat  BY <1>3, <1>5, <2>2, <3>1
      <3> QED BY <3>2
    <2> QED BY <2>1, <2>2
  <1>10. Filled(u, o, d, Y, H, n + 1)  BY <1>6, <1>9 DEF Filled
  <1> QED BY <1>1, <1>3, <1>8, <1>10

\* The last beat of block n, and the numbers of the beats of block j.
BlockEnd(X, G, n) == G[n] + (X[n] - X[n - 1])
BlockBeats(X, j) == 1 .. X[j] - X[j - 1]

LEMMA OneBeyond ==
  ASSUME NEW a \in Nat, NEW c \in Nat, NEW i \in 1 .. (a + 1) - c, i \notin 1 .. a - c
  PROVE  i = a - c + 1
  OBVIOUS

\* A beat that arrives joins the last block, and the data FIFO unless it is null.
Longer(X, Y, n) ==
  /\ Y \in [0 .. n -> Nat]
  /\ \A k \in 0 .. n - 1 : Y[k] = X[k]
  /\ Y[n] = X[n] + 1

LEMMA FilledAccepts ==
  ASSUME NEW u \in Seq(Beat), NEW o \in Seq(OutBeat), NEW d \in Seq(Beat), NEW n \in Nat \ {0},
         NEW X, NEW G, NEW b \in Beat, Offsets(X, n, Len(o) + Len(d)), Filled(u, o, d, X, G, n),
         BlockEnd(X, G, n) = Len(u), NEW Y, Longer(X, Y, n)
  PROVE  /\ Offsets(Y, n, Len(o) + Len(Append(d, b)))
         /\ Filled(Append(u, b), o, Append(d, b), Y, G, n)
  <1>1. PICK v, e : v = Append(u, b) /\ e = Append(d, b)  OBVIOUS
  <1>2. Len(u) \in Nat /\ Len(v) = Len(u) + 1 /\ (\A i \in 1 .. Len(u) : v[i] = u[i]) /\ v[Len(u) + 1] = b
    BY <1>1, PushFacts
  <1>3. Len(d) \in Nat /\ Len(e) = Len(d) + 1 /\ (\A i \in 1 .. Len(d) : e[i] = d[i]) /\ e[Len(d) + 1] = b
    BY <1>1, PushFacts
  <1>4. Len(o) \in Nat  OBVIOUS
  <1>5. /\ X \in [0 .. n -> Nat] /\ X[0] = 0 /\ X[n] = Len(o) + Len(d)
        /\ \A j, k \in 0 .. n : j <= k => X[j] <= X[k]
    BY DEF Offsets
  <1>6. (\A k \in 0 .. n - 1 : Y[k] = X[k]) /\ Y[n] = X[n] + 1 /\ Y \in [0 .. n -> Nat]
    BY DEF Longer
  <1>7. \A k \in 0 .. n : k \in 0 .. n - 1 \/ k = n  OBVIOUS
  <1>8. ASSUME NEW j \in 0 .. n, NEW k \in 0 .. n, j <= k
        PROVE  Y[j] <= Y[k]
    <2>1. X[j] <= X[k] /\ X[j] \in Nat /\ X[k] \in Nat  BY <1>5, <1>8
    <2>2. CASE k \in 0 .. n - 1
      <3>1. j \in 0 .. n - 1  BY <1>8, <2>2
      <3> QED BY <1>6, <2>1, <2>2, <3>1
    <2>3. CASE k = n
      <3>1. Y[k] = X[k] + 1 /\ (j \in 0 .. n - 1 => Y[j] = X[j]) /\ (j = n => Y[j] = X[j] + 1)
        BY <1>6, <2>3
      <3> QED BY <1>7, <2>1, <3>1
    <2> QED BY <1>7, <2>2, <2>3
  <1>9. Offsets(Y, n, Len(o) + Len(e))
    <2>1. 0 \in 0 .. n - 1  OBVIOUS
    <2>2. Y[0] = 0 /\ Y[n] = Len(o) + Len(e)  BY <1>3, <1>4, <1>5, <1>6, <2>1
    <2> QED BY <1>6, <1>8, <2>2 DEF Offsets
  <1>10. \A i \in 1 .. Len(o) + Len(d) : Data(o, e, i) = Data(o, d, i)
    <2> SUFFICES ASSUME NEW i \in 1 .. Len(o) + Len(d)
                 PROVE  Data(o, e, i) = Data(o, d, i)
      OBVIOUS
    <2>1. CASE i <= Len(o)  BY <2>1 DEF Data
    <2>2. CASE ~(i <= Len(o))
      <3>1. i - Len(o) \in 1 .. Len(d)  BY <1>3, <1>4, <2>2
      <3> QED BY <1>3, <2>2, <3>1 DEF Data
    <2> QED BY <2>1, <2>2
  <1>11. Data(o, e, X[n] + 1) = b
    <2>1. ~(X[n] + 1 <= Len(o)) /\ (X[n] + 1) - Len(o) = Len(d) + 1  BY <1>3, <1>4, <1>5
    <2> QED BY <1>3, <2>1 DEF Data
  <1>12. G \in [1 .. n -> Nat]  BY DEF Filled
  <1>13. ASSUME NEW j \in 1 .. n, NEW i \in 1 .. X[j] - X[j - 1]
         PROVE  G[j] + i <= Len(v) /\ Data(o, e, X[j - 1] + i) = v[G[j] + i]
    <2>1. G[j] + i <= Len(u) /\ Data(o, d, X[j - 1] + i) = u[G[j] + i]  BY DEF Filled
    <2>2. j \in 0 .. n /\ j - 1 \in 0 .. n /\ n \in 0 .. n /\ j <= n  OBVIOUS
    <2>3. X[j] \in Nat /\ X[j - 1] \in Nat /\ X[j] <= Len(o) + Len(d) /\ G[j] \in Nat
      BY <1>5, <1>12, <2>2
    <2>4. X[j - 1] + i \in 1 .. Len(o) + Len(d) /\ G[j] + i \in 1 .. Len(u)
      <3>1. i \in Nat \ {0} /\ i <= X[j] - X[j - 1]  BY <2>3
      <3>2. PICK a \in Nat, c \in Nat, g \in Nat, l \in Nat :
              a = X[j] /\ c = X[j - 1] /\ g = G[j] /\ l = Len(o) + Len(d)
        <4>1. Len(o) + Len(d) \in Nat  BY <1>3, <1>4
        <4> QED BY <2>3, <4>1
      <3>3. i <= a - c /\ a <= l /\ g + i <= Len(u)  BY <2>1, <2>3, <3>1, <3>2
      <3>4. i \in Nat \ {0}  BY <3>1
      <3>5. c + i \in 1 .. l /\ g + i \in 1 .. Len(u)  BY <1>2, <3>3, <3>4
      <3> QED BY <3>2, <3>5
    <2>5. G[j] + i <= Len(v)  BY <1>2, <2>4
    <2> QED BY <1>2, <1>10, <2>1, <2>4, <2>5
  <1>14. PICK a \in Nat, c \in Nat, g \in Nat :
           a = X[n] /\ c = X[n - 1] /\ g = G[n] /\ g + (a - c) = Len(u)
    <2>1. n \in 0 .. n /\ n - 1 \in 0 .. n /\ n \in 1 .. n  OBVIOUS
    <2> QED BY <1>5, <1>12, <2>1 DEF BlockEnd
  <1>15. ASSUME NEW j \in 1 .. n, NEW i \in BlockBeats(Y, j)
         PROVE  G[j] + i <= Len(v) /\ Data(o, e, Y[j - 1] + i) = v[G[j] + i]
    <2>1. j - 1 \in 0 .. n - 1 /\ n - 1 \in 0 .. n  OBVIOUS
    <2>2. Y[j - 1] = X[j - 1]  BY <1>6, <2>1
    <2>3. CASE i \in 1 .. X[j] - X[j - 1]  BY <1>13, <2>2, <2>3
    <2>4. CASE i \notin 1 .. X[j] - X[j - 1]
      <3>1. X[j] \in Nat /\ X[j - 1] \in Nat
        <4>1. j \in 0 .. n /\ j - 1 \in 0 .. n  OBVIOUS
        <4> QED BY <1>5, <4>1
      <3>2. j = n
        <4> SUFFICES ASSUME j # n PROVE FALSE  OBVIOUS
        <4>1. j \in 0 .. n - 1  OBVIOUS
        <4>2. Y[j] = X[j]  BY <1>6, <4>1
        <4> QED BY <2>2, <2>4, <4>2 DEF BlockBeats
      <3>3. i = a - c + 1
        <4>1. Y[j] = a + 1 /\ Y[j - 1] = c /\ X[j] = a /\ X[j - 1] = c  BY <1>6, <1>14, <2>2, <3>2
        <4>2. i \in 1 .. (a + 1) - c /\ i \notin 1 .. a - c  BY <2>4, <4>1 DEF BlockBeats
        <4> QED BY <4>2, OneBeyond
      <3>4. G[n] + i = Len(u) + 1 /\ X[n - 1] + i = X[n] + 1
        <4>1. PICK m \in Nat : m = Len(u) /\ g + (a - c) = m  BY <1>2, <1>14
        <4>2. c + i = a + 1  BY <3>3
        <4>3. g + i = m + 1
          <5>1. g + (a - c + 1) = (g + (a - c)) + 1  OBVIOUS
          <5> QED BY <3>3, <4>1, <5>1
        <4> QED BY <1>14, <4>1, <4>2, <4>3
      <3> QED BY <1>2, <1>11, <2>2, <3>2, <3>4
    <2> QED BY <2>3, <2>4
  <1>16. Filled(v, o, e, Y, G, n)  BY <1>12, <1>15 DEF Filled, BlockBeats
  <1> QED BY <1>1, <1>9, <1>16

\* A null beat does not enter the data FIFO.
LEMMA FilledIgnores ==
  ASSUME NEW u \in Seq(Beat), NEW o, NEW d, NEW n \in Nat, NEW X, NEW G, NEW b \in Beat,
         NEW end \in Nat, Offsets(X, n, end), Filled(u, o, d, X, G, n)
  PROVE  Filled(Append(u, b), o, d, X, G, n)
  <1>1. PICK v : v = Append(u, b)  OBVIOUS
  <1>2. Len(u) \in Nat /\ Len(v) = Len(u) + 1 /\ (\A i \in 1 .. Len(u) : v[i] = u[i])
    BY <1>1, PushFacts
  <1>3. G \in [1 .. n -> Nat]  BY DEF Filled
  <1>4. ASSUME NEW j \in 1 .. n, NEW i \in 1 .. X[j] - X[j - 1]
        PROVE  G[j] + i <= Len(v) /\ Data(o, d, X[j - 1] + i) = v[G[j] + i]
    <2>1. G[j] + i <= Len(u) /\ Data(o, d, X[j - 1] + i) = u[G[j] + i]  BY DEF Filled
    <2>2. G[j] \in Nat /\ i \in Nat \ {0}
      <3>1. X[j] - X[j - 1] \in Int
        <4>1. j \in 0 .. n /\ j - 1 \in 0 .. n  OBVIOUS
        <4> QED BY <4>1 DEF Offsets
      <3> QED BY <1>3, <3>1
    <2>3. G[j] + i \in 1 .. Len(u) /\ G[j] + i <= Len(v)  BY <1>2, <2>1, <2>2
    <2> QED BY <1>2, <2>1, <2>3
  <1>5. Filled(v, o, d, X, G, n)  BY <1>3, <1>4 DEF Filled
  <1> QED BY <1>1, <1>5

\* The first m beats of u are notified.
BlocksLess(G, n, m) == [k \in 1 .. n |-> G[k] - m]

LEMMA FilledDropped ==
  ASSUME NEW u \in Seq(Beat), NEW o, NEW d, NEW n \in Nat, NEW X, NEW G, NEW m \in 0 .. Len(u),
         NEW end \in Nat, Offsets(X, n, end), Filled(u, o, d, X, G, n), \A k \in 1 .. n : m <= G[k]
  PROVE  Filled(Drop(u, m), o, d, X, BlocksLess(G, n, m), n)
  <1>1. PICK v, H : v = Drop(u, m) /\ H = BlocksLess(G, n, m)  OBVIOUS
  <1>2. Len(u) \in Nat /\ m \in Nat  OBVIOUS
  <1>3. Len(v) = Len(u) - m /\ (\A i \in 1 .. Len(u) - m : v[i] = u[m + i])  BY <1>1, DropFacts
  <1>4. H = [k \in 1 .. n |-> G[k] - m]  BY <1>1 DEF BlocksLess
  <1>5. G \in [1 .. n -> Nat]  BY DEF Filled
  <1>6. H \in [1 .. n -> Nat] /\ \A k \in 1 .. n : H[k] = G[k] - m
    <2>1. \A k \in 1 .. n : G[k] - m \in Nat  BY <1>2, <1>5
    <2> QED BY <1>4, <2>1
  <1>7. ASSUME NEW j \in 1 .. n, NEW i \in 1 .. X[j] - X[j - 1]
        PROVE  H[j] + i <= Len(v) /\ Data(o, d, X[j - 1] + i) = v[H[j] + i]
    <2>1. G[j] + i <= Len(u) /\ Data(o, d, X[j - 1] + i) = u[G[j] + i]  BY DEF Filled
    <2>2. G[j] \in Nat /\ i \in Nat \ {0} /\ m <= G[j]
      <3>1. X[j] - X[j - 1] \in Int
        <4>1. j \in 0 .. n /\ j - 1 \in 0 .. n  OBVIOUS
        <4> QED BY <4>1 DEF Offsets
      <3> QED BY <1>5, <3>1
    <2>3. H[j] = G[j] - m  BY <1>6
    <2>4. H[j] + i \in 1 .. Len(u) - m /\ m + (H[j] + i) = G[j] + i
      <3>1. PICK g \in Nat, z \in Nat : g = G[j] /\ z = Len(u)  BY <1>2, <2>2
      <3>2. g + i <= z /\ m <= g /\ m \in Nat /\ i \in Nat \ {0}  BY <1>2, <2>1, <2>2, <3>1
      <3>3. (g - m) + i \in 1 .. z - m /\ m + ((g - m) + i) = g + i  BY <3>2
      <3> QED BY <2>3, <3>1, <3>3
    <2>5. PICK e : e = H[j] + i  OBVIOUS
    <2>6. e \in 1 .. Len(u) - m /\ m + e = G[j] + i  BY <2>4, <2>5
    <2>7. v[e] = u[m + e] /\ e <= Len(v)  BY <1>2, <1>3, <2>6
    <2> QED BY <2>1, <2>5, <2>6, <2>7
  <1>8. Filled(v, o, d, X, H, n)  BY <1>6, <1>7 DEF Filled
  <1> QED BY <1>1, <1>8

----
(* The buffers that hold data are different ones.                           *)

Active == output_state \in {"REQUEST", "TRANSFER"}

IdsKnown ==
  /\ \A k \in 1 .. Len(pending) : pending[k].id \in BufferIds
  /\ Active => buffer.id \in BufferIds

PendingApart ==
  /\ \A j, k \in 1 .. Len(pending) :
       j # k /\ pending[j].size # 0 /\ pending[k].size # 0 => pending[j].id # pending[k].id
  /\ \A k \in 1 .. Len(pending) : pending[k].size # 0 /\ Active => pending[k].id # buffer.id

BuffersApart ==
  /\ \A i \in 1 .. Len(buffers), k \in 1 .. Len(pending) :
       pending[k].size # 0 => pending[k].id # buffers[i].id
  /\ \A i \in 1 .. Len(buffers) : Active => buffers[i].id # buffer.id
  /\ \A i, j \in 1 .. Len(buffers) : i # j => buffers[i].id # buffers[j].id

IdsInv == IdsKnown /\ PendingApart /\ BuffersApart

LEMMA InitIds == Init => IdsInv
  BY DEF Init, IdsInv, IdsKnown, PendingApart, BuffersApart, Active

LEMMA QuietIds ==
  ASSUME IdsInv, UNCHANGED <<pending, buffer, buffers>>, Active' => Active
  PROVE  IdsInv'
  <1>1. IdsKnown' /\ PendingApart'  BY DEF IdsInv, IdsKnown, PendingApart
  <1>2. BuffersApart'  BY DEF IdsInv, BuffersApart
  <1> QED BY <1>1, <1>2 DEF IdsInv

LEMMA EnqueueIds ==
  ASSUME TypeOK, IdsInv, Enqueue
  PROVE  IdsInv'
  <1>1. PICK id \in BufferIds, size \in BufferSizes : EnqueueBuffer(id, size)  BY DEF Enqueue
  <1>2. PICK e : e = [id |-> id, capacity |-> size * TRANSFER]  OBVIOUS
  <1>3. /\ buffers' = Append(buffers, e) /\ e.id = id
        /\ UNCHANGED <<pending, buffer, output_state>> /\ id \notin InUse
    BY <1>1, <1>2 DEF EnqueueBuffer, fsmVars
  <1>4. e \in [id : BufferIds, capacity : Nat]
    <2>1. size * TRANSFER \in Nat  BY WriterAssumption
    <2> QED BY <1>2, <2>1
  <1>5. /\ Len(buffers) \in Nat /\ Len(buffers') = Len(buffers) + 1
        /\ (\A i \in 1 .. Len(buffers) : buffers'[i] = buffers[i]) /\ buffers'[Len(buffers) + 1] = e
        /\ DOMAIN buffers = 1 .. Len(buffers)
    <2>1. buffers \in Seq([id : BufferIds, capacity : Nat])  BY DEF TypeOK, FsmOK
    <2> QED BY <1>3, <1>4, <2>1, PushFacts
  <1>6. /\ \A i \in 1 .. Len(buffers) : id # buffers[i].id
        /\ \A k \in 1 .. Len(pending) : id # pending[k].id
        /\ Active => id # buffer.id
    <2>1. DOMAIN pending = 1 .. Len(pending)  BY DEF TypeOK, NotifyOK
    <2> QED BY <1>3, <1>5, <2>1 DEF InUse, Active
  <1>7. \A i \in 1 .. Len(buffers') : i \in 1 .. Len(buffers) \/ i = Len(buffers) + 1  BY <1>5
  <1>8. IdsKnown' /\ PendingApart'  BY <1>3 DEF IdsInv, IdsKnown, PendingApart, Active
  <1>9. BuffersApart'
    <2>1. \A i \in 1 .. Len(buffers'), k \in 1 .. Len(pending) :
            pending[k].size # 0 => pending[k].id # buffers'[i].id
      BY <1>3, <1>5, <1>6, <1>7 DEF IdsInv, BuffersApart
    <2>2. \A i \in 1 .. Len(buffers') : Active => buffers'[i].id # buffer.id
      BY <1>3, <1>5, <1>6, <1>7 DEF IdsInv, BuffersApart
    <2>3. \A i, j \in 1 .. Len(buffers') : i # j => buffers'[i].id # buffers'[j].id
      BY <1>3, <1>5, <1>6, <1>7 DEF IdsInv, BuffersApart
    <2> QED BY <1>3, <2>1, <2>2, <2>3 DEF BuffersApart, Active
  <1> QED BY <1>8, <1>9 DEF IdsInv

LEMMA NextBufferIds ==
  ASSUME TypeOK, IdsInv, FlushBuffer \/ TakeBuffer
  PROVE  IdsInv'
  <1>1. buffers # <<>> /\ buffers' = Tail(buffers) /\ ~Active /\ UNCHANGED pending
    BY DEF FlushBuffer, TakeBuffer, Active
  <1>2. Active' => buffer' = Head(buffers)  BY DEF FlushBuffer, TakeBuffer, Active
  <1>3. /\ Len(buffers) \in Nat \ {0} /\ Len(buffers') = Len(buffers) - 1 /\ Head(buffers) = buffers[1]
        /\ (\A i \in 1 .. Len(buffers) - 1 : buffers'[i] = buffers[i + 1])
        /\ Head(buffers) \in [id : BufferIds, capacity : Nat]
    <2>1. buffers \in Seq([id : BufferIds, capacity : Nat])  BY DEF TypeOK, FsmOK
    <2> QED BY <1>1, <2>1, PopFacts
  <1>4. \A i \in 1 .. Len(buffers') : i + 1 \in 1 .. Len(buffers) /\ i + 1 # 1 /\ buffers'[i] = buffers[i + 1]
    BY <1>3
  <1>5. 1 \in 1 .. Len(buffers)  BY <1>3
  <1>6. IdsKnown'  BY <1>1, <1>2, <1>3 DEF IdsInv, IdsKnown
  <1>7. PendingApart'
    <2>1. \A k \in 1 .. Len(pending) : pending[k].size # 0 => pending[k].id # buffers[1].id
      BY <1>5 DEF IdsInv, BuffersApart
    <2> QED BY <1>1, <1>2, <1>3, <2>1 DEF IdsInv, PendingApart
  <1>8. BuffersApart'
    <2>1. \A i \in 1 .. Len(buffers'), k \in 1 .. Len(pending) :
            pending[k].size # 0 => pending[k].id # buffers'[i].id
      BY <1>4 DEF IdsInv, BuffersApart
    <2>2. \A i \in 1 .. Len(buffers') : buffers'[i].id # buffers[1].id
      BY <1>4, <1>5 DEF IdsInv, BuffersApart
    <2>3. \A i, j \in 1 .. Len(buffers') : i # j => buffers'[i].id # buffers'[j].id
      <3>1. \A i, j \in 1 .. Len(buffers') : i # j => i + 1 # j + 1  BY <1>3
      <3> QED BY <1>4, <3>1 DEF IdsInv, BuffersApart
    <2> QED BY <1>1, <1>2, <1>3, <2>1, <2>2, <2>3 DEF BuffersApart
  <1> QED BY <1>6, <1>7, <1>8 DEF IdsInv

LEMMA PushFactsPending ==
  ASSUME TypeOK, NEW last, PushPending(last), last \in BOOLEAN
  PROVE  \E e \in PendingNotify :
           /\ pending' = Append(pending, e)
           /\ e.id = buffer.id /\ e.size = bytes_written /\ (e.last <=> last)
           /\ e.num_requests = num_requests /\ e.capacity = buffer.capacity
  <1>1. PICK e : e = [id |-> buffer.id, size |-> bytes_written, last |-> last,
                      num_requests |-> num_requests, upto |-> hist.requested,
                      capacity |-> buffer.capacity]
    OBVIOUS
  <1>2. buffer.id \in Nat /\ bytes_written \in Nat /\ num_requests \in Nat /\ buffer.capacity \in Nat
    BY DEF TypeOK, FsmOK
  <1>3. hist.requested \in Nat  BY HistNat
  <1>4. e \in PendingNotify  BY <1>1, <1>2, <1>3 DEF PendingNotify
  <1>5. pending' = Append(pending, e)  BY <1>1 DEF PushPending
  <1>6. e.id = buffer.id /\ e.size = bytes_written /\ e.num_requests = num_requests
        /\ e.capacity = buffer.capacity
    BY <1>1
  <1>7. e.last <=> last  BY <1>1
  <1> QED BY <1>4, <1>5, <1>6, <1>7

LEMMA PushIds ==
  ASSUME TypeOK, IdsInv, Active, NEW e \in PendingNotify, pending' = Append(pending, e),
         e.id = buffer.id, Active' => e.size = 0, UNCHANGED <<buffer, buffers>>
  PROVE  IdsInv'
  <1>1. /\ Len(pending) \in Nat /\ Len(pending') = Len(pending) + 1
        /\ (\A i \in 1 .. Len(pending) : pending'[i] = pending[i]) /\ pending'[Len(pending) + 1] = e
    BY PushFacts DEF TypeOK, NotifyOK
  <1>2. \A k \in 1 .. Len(pending') : k \in 1 .. Len(pending) \/ k = Len(pending) + 1  BY <1>1
  <1>3. IdsKnown'  BY <1>1, <1>2 DEF IdsInv, IdsKnown
  <1>4. PendingApart'  BY <1>1, <1>2 DEF IdsInv, PendingApart
  <1>5. BuffersApart'  BY <1>1, <1>2 DEF IdsInv, BuffersApart
  <1> QED BY <1>3, <1>4, <1>5 DEF IdsInv

LEMMA NotifyIds ==
  ASSUME TypeOK, IdsInv, Notify
  PROVE  IdsInv'
  <1>1. pending # <<>> /\ pending' = Tail(pending) /\ UNCHANGED <<buffer, buffers, output_state>>
    BY DEF Notify, NotifyValid, fsmVars
  <1>2. /\ Len(pending) \in Nat \ {0} /\ Len(pending') = Len(pending) - 1
        /\ (\A i \in 1 .. Len(pending) - 1 : pending'[i] = pending[i + 1])
    BY <1>1, PopFacts DEF TypeOK, NotifyOK
  <1>3. \A i \in 1 .. Len(pending') : i + 1 \in 1 .. Len(pending) /\ pending'[i] = pending[i + 1]
    BY <1>2
  <1>4. \A i, j \in 1 .. Len(pending') : i # j => i + 1 # j + 1  BY <1>2
  <1>5. IdsKnown'  BY <1>1, <1>3 DEF IdsInv, IdsKnown, Active
  <1>6. PendingApart'  BY <1>1, <1>3, <1>4 DEF IdsInv, PendingApart, Active
  <1>7. BuffersApart'  BY <1>1, <1>3 DEF IdsInv, BuffersApart, Active
  <1> QED BY <1>5, <1>6, <1>7 DEF IdsInv

LEMMA NextIds ==
  ASSUME TypeOK, IdsInv, [Next]_vars
  PROVE  IdsInv'
  <1> DEFINE Quiet == UNCHANGED <<pending, buffer, buffers>> /\ (Active' => Active)
  <1>1. ASSUME NEW b, Accept(b)
        PROVE  Quiet
    BY <1>1 DEF Accept, fsmVars, Active
  <1>2. Flush \/ FlushDone \/ LeaveReset => Quiet
    BY DEF Flush, FlushDone, LeaveReset, fsmVars, Active
  <1>3. Request \/ HostComplete \/ UNCHANGED vars => Quiet
    BY DEF Request, HostComplete, vars, fsmVars, Active
  <1>4. CASE EndEmptyStream
    <2>1. /\ Active /\ PushPending(TRUE) /\ UNCHANGED <<buffer, buffers>>
          /\ Active' => ~GivesUpBuffer
      BY <1>4 DEF EndEmptyStream, Active, fsmVars
    <2>2. PICK e \in PendingNotify :
            pending' = Append(pending, e) /\ e.id = buffer.id /\ e.size = bytes_written
      BY <2>1, PushFactsPending
    <2>3. Active' => e.size = 0  BY <2>1, <2>2 DEF GivesUpBuffer
    <2> QED BY <2>1, <2>2, <2>3, PushIds
  <1>5. CASE TransferBeat
    <2>1. /\ Active /\ UNCHANGED <<buffer, buffers>> /\ data_fifo # <<>>
      BY <1>5 DEF TransferBeat, Active
    <2>2. CASE UNCHANGED pending  BY <2>1, <2>2, QuietIds
    <2>3. CASE PushPending(Head(data_fifo).last) /\ output_state' = "WAIT_FOR_BUFFER"
      <3>1. Head(data_fifo).last \in BOOLEAN
        <4>1. Head(data_fifo) \in Beat  BY <2>1, PopFacts DEF TypeOK, InputOK
        <4> QED BY <4>1 DEF Beat
      <3>2. PICK e \in PendingNotify :
              pending' = Append(pending, e) /\ e.id = buffer.id /\ e.size = bytes_written
        BY <2>3, <3>1, PushFactsPending
      <3>3. ~Active'  BY <2>3 DEF Active
      <3> QED BY <2>1, <3>2, <3>3, PushIds
    <2> QED BY <1>5, <2>2, <2>3 DEF TransferBeat, EndTransfer
  <1> QED
    BY <1>1, <1>2, <1>3, <1>4, <1>5, QuietIds, EnqueueIds, NextBufferIds, NotifyIds
       DEF Next, AcceptBeat

----
(* The invariant.                                                           *)

\* Bytes in the current buffer, the length of the transfer under way (0: none)
\* and the lengths behind it.
Transferring == output_state = "TRANSFER"
Written == IF Active THEN bytes_written ELSE 0
Ahead == IF Transferring THEN Head(len_fifo) ELSE 0
Waiting == IF Transferring THEN Tail(len_fifo) ELSE len_fifo
PendingSizes == [k \in 1 .. Len(pending) |-> pending[k].size]

\* In all parts u stands for undelivered, P and L cut it at the pending
\* notifications and at the waiting lengths; l is L[0], p the last of P.
InputPart(u) ==
  /\ Suppressed(u)
  /\ u # <<>> => (mid_stream <=> ~u[Len(u)].last)

PendingPart(u, P) ==
  /\ Cut(u, P, PendingSizes) /\ P[0] = 0
  /\ \A k \in 1 .. Len(pending) : pending[k].last <=> u[P[k]].last

\* A length was cut where the stream ends or where the transfer is full.
WaitingPart(u, L) ==
  /\ Cut(u, L, Waiting)
  /\ \A k \in 1 .. Len(Waiting) : u[L[k]].last \/ Waiting[k] = TRANSFER
  /\ curr_len = BEAT * (Len(u) - L[Len(Waiting)])
  /\ \A i \in L[Len(Waiting)] + 1 .. Len(u) : ~u[i].last

\* Between transfers the buffer holds full beats of a stream that goes on.
CurrentPart(u, p, l) ==
  /\ l = p + NumBeats(Written)
  /\ Written # 0 => Piece(u, p, l, Written)
  /\ ~Transferring => Written = BEAT * (l - p) /\ (Written # 0 => ~u[l].last)

\* The transfer under way is full or ends its stream.
AheadPart(u, p, l) ==
  Transferring =>
    /\ Written # 0 /\ Ahead # 0
    /\ Piece(u, l - NumBeats(Ahead), l, Ahead)
    /\ p <= l - NumBeats(Ahead)
    /\ u[l].last \/ Ahead = TRANSFER

\* The buffer a request belongs to, as an index of pending or the one behind.
Entry(j) == sq[j].entry - hist.sent

RequestAt(u, P, l, G, j, k, n) ==
  /\ k \in 1 .. Len(pending) + 1
  /\ P[k - 1] <= G[j]
  /\ G[j] + n <= IF k <= Len(pending) THEN P[k] ELSE l
  /\ sq[j].off = BEAT * (G[j] - P[k - 1])
  /\ sq[j].len # 0 /\ Piece(u, G[j], G[j] + n, sq[j].len)
  /\ IF k <= Len(pending)
       THEN pending[k].size # 0 /\ sq[j].id = pending[k].id
       ELSE Written # 0 /\ sq[j].id = buffer.id
  \* Null beats alone are between two requests.
  /\ G[j] + n <= G[j + 1] /\ \A i \in G[j] + n + 1 .. G[j + 1] : u[i].keep = 0

RequestPart(u, P, l, G) ==
  \A j \in 1 .. Len(sq) : RequestAt(u, P, l, G, j, Entry(j), NumBeats(sq[j].len))

\* The transfer under way is that of the last request.
LastPart(l, G) ==
  Transferring =>
    /\ sq # <<>> /\ sq[Len(sq)].len = Ahead
    /\ Entry(Len(sq)) = Len(pending) + 1
    /\ G[Len(sq)] + NumBeats(Ahead) = l

\* One block for each request, each waiting length, and the beats behind.
BlockCount == Len(sq) + Len(Waiting) + 1

DataPart(u, X, G) ==
  /\ Offsets(X, BlockCount, Len(out) + Len(data_fifo))
  /\ Filled(u, out, data_fifo, X, G, BlockCount)

BlocksPart(u, L, X, G) ==
  /\ \A i \in 0 .. Len(Waiting) : G[Len(sq) + 1 + i] = L[i]
  /\ \A j \in 1 .. Len(sq) : X[j] = X[j - 1] + NumBeats(sq[j].len)
  /\ \A i \in 1 .. Len(Waiting) : X[Len(sq) + i] = X[Len(sq) + i - 1] + NumBeats(Waiting[i])
  /\ X[BlockCount] = X[BlockCount - 1] + (Len(u) - L[Len(Waiting)])

\* Coyote has the beats of all requests, up to the transfer under way.
SentPart(X) ==
  IF Transferring
    THEN X[Len(sq)] + beats_written = Len(out) + NumBeats(Ahead) /\ beats_written < NumBeats(Ahead)
    ELSE X[Len(sq)] = Len(out)

MarkPart(X) ==
  \A j \in 1 .. Len(sq) : \A i \in 1 .. NumBeats(sq[j].len) :
    X[j - 1] + i <= Len(out) => (out[X[j - 1] + i].tlast <=> i = NumBeats(sq[j].len))

\* What is written of the beats from + 1 .. to, when the first done are complete.
Stored(u, from, to, done) ==
  {<<BEAT * (i - from - 1), u[i]>> : i \in {j \in from + 1 .. to : j <= done}}

\* Does buffer b hold data that is not notified yet?
Holds(b) ==
  \/ \E k \in 1 .. Len(pending) : pending[k].size # 0 /\ pending[k].id = b
  \/ Written # 0 /\ buffer.id = b

MemoryPart(u, P, l, done) ==
  /\ \A k \in 1 .. Len(pending) : pending[k].size # 0 =>
       mem[pending[k].id] = Stored(u, P[k - 1], P[k], done)
  /\ Written # 0 => mem[buffer.id] = Stored(u, P[Len(pending)], l, done)
  /\ \A b \in BufferIds : ~Holds(b) => mem[b] = {}

Parts(u, P, p, L, X, G) ==
  /\ u = undelivered /\ p = P[Len(pending)]
  /\ InputPart(u)
  /\ PendingPart(u, P)
  /\ WaitingPart(u, L)
  /\ CurrentPart(u, p, L[0])
  /\ AheadPart(u, p, L[0])
  /\ RequestPart(u, P, L[0], G)
  /\ LastPart(L[0], G)
  /\ DataPart(u, X, G)
  /\ BlocksPart(u, L, X, G)
  /\ SentPart(X)
  /\ MarkPart(X)
  /\ MemoryPart(u, P, L[0], G[1])

DataInv == \E u, P, p, L, X, G : Parts(u, P, p, L, X, G)

LEMMA PartFrames ==
  ASSUME NEW u, NEW P, NEW p, NEW L, NEW l, NEW X, NEW G, NEW done
  PROVE  /\ InputPart(u) /\ UNCHANGED mid_stream => InputPart(u)'
         /\ PendingPart(u, P) /\ UNCHANGED pending => PendingPart(u, P)'
         /\ WaitingPart(u, L) /\ UNCHANGED <<Waiting, curr_len>> => WaitingPart(u, L)'
         /\ CurrentPart(u, p, l) /\ UNCHANGED <<Written, Transferring>> => CurrentPart(u, p, l)'
         /\ AheadPart(u, p, l) /\ UNCHANGED <<Written, Transferring, Ahead>> => AheadPart(u, p, l)'
         /\ (RequestPart(u, P, l, G) /\ UNCHANGED <<sq, pending, hist, Written>>
               /\ (Written # 0 => buffer' = buffer)) => RequestPart(u, P, l, G)'
         /\ LastPart(l, G) /\ UNCHANGED <<sq, pending, hist, Transferring, Ahead>> => LastPart(l, G)'
         /\ DataPart(u, X, G) /\ UNCHANGED <<sq, Waiting, out, data_fifo>> => DataPart(u, X, G)'
         /\ BlocksPart(u, L, X, G) /\ UNCHANGED <<sq, Waiting>> => BlocksPart(u, L, X, G)'
         /\ (SentPart(X) /\ UNCHANGED <<sq, out, Transferring, Ahead>>
               /\ (Transferring => beats_written' = beats_written)) => SentPart(X)'
         /\ MarkPart(X) /\ UNCHANGED <<sq, out>> => MarkPart(X)'
         /\ (MemoryPart(u, P, l, done) /\ UNCHANGED <<pending, mem, Written>>
               /\ (Written # 0 => buffer' = buffer)) => MemoryPart(u, P, l, done)'
  <1>1. InputPart(u) /\ UNCHANGED mid_stream => InputPart(u)'  BY DEF InputPart
  <1>2. PendingPart(u, P) /\ UNCHANGED pending => PendingPart(u, P)'
    BY DEF PendingPart, PendingSizes
  <1>3. WaitingPart(u, L) /\ UNCHANGED <<Waiting, curr_len>> => WaitingPart(u, L)'
    BY DEF WaitingPart
  <1>4. CurrentPart(u, p, l) /\ UNCHANGED <<Written, Transferring>> => CurrentPart(u, p, l)'
    BY DEF CurrentPart
  <1>5. AheadPart(u, p, l) /\ UNCHANGED <<Written, Transferring, Ahead>> => AheadPart(u, p, l)'
    BY DEF AheadPart
  <1>6. (RequestPart(u, P, l, G) /\ UNCHANGED <<sq, pending, hist, Written>>
           /\ (Written # 0 => buffer' = buffer)) => RequestPart(u, P, l, G)'
    BY DEF RequestPart, RequestAt, Entry
  <1>7. LastPart(l, G) /\ UNCHANGED <<sq, pending, hist, Transferring, Ahead>> => LastPart(l, G)'
    BY DEF LastPart, Entry
  <1>8. DataPart(u, X, G) /\ UNCHANGED <<sq, Waiting, out, data_fifo>> => DataPart(u, X, G)'
    BY DEF DataPart, BlockCount
  <1>9. BlocksPart(u, L, X, G) /\ UNCHANGED <<sq, Waiting>> => BlocksPart(u, L, X, G)'
    BY DEF BlocksPart, BlockCount
  <1>10. (SentPart(X) /\ UNCHANGED <<sq, out, Transferring, Ahead>>
            /\ (Transferring => beats_written' = beats_written)) => SentPart(X)'
    BY DEF SentPart
  <1>11. MarkPart(X) /\ UNCHANGED <<sq, out>> => MarkPart(X)'  BY DEF MarkPart
  <1>12. (MemoryPart(u, P, l, done) /\ UNCHANGED <<pending, mem, Written>>
            /\ (Written # 0 => buffer' = buffer)) => MemoryPart(u, P, l, done)'
    BY DEF MemoryPart, Holds
  <1> QED BY <1>1, <1>2, <1>3, <1>4, <1>5, <1>6, <1>7, <1>8, <1>9, <1>10, <1>11, <1>12

LEMMA ViewTypes ==
  ASSUME TypeOK, LengthHeld
  PROVE  /\ Written \in Nat /\ Ahead \in Nat
         /\ Waiting \in Seq(Nat) /\ Len(Waiting) \in Nat
         /\ PendingSizes \in Seq(Nat) /\ Len(PendingSizes) = Len(pending)
         /\ Len(pending) \in Nat /\ Len(sq) \in Nat
         /\ undelivered \in Seq(Beat) /\ Len(undelivered) \in Nat
         /\ out \in Seq(OutBeat) /\ Len(out) \in Nat
         /\ data_fifo \in Seq(Beat) /\ Len(data_fifo) \in Nat
         /\ curr_len \in Nat /\ hist.sent \in Nat /\ beats_written \in Nat
  <1>1. Written \in Nat  BY DEF Written, TypeOK, FsmOK
  <1>2. len_fifo \in Seq(Nat) /\ (Transferring => len_fifo # <<>>)
    BY DEF TypeOK, InputOK, LengthHeld, Transferring
  <1>3. Ahead \in Nat /\ Waiting \in Seq(Nat)  BY <1>2, PopFacts DEF Ahead, Waiting
  <1>4. pending \in Seq(PendingNotify)  BY DEF TypeOK, NotifyOK
  <1>5. Len(pending) \in Nat /\ \A k \in 1 .. Len(pending) : pending[k] \in PendingNotify  BY <1>4
  <1>6. PendingSizes \in Seq(Nat) /\ Len(PendingSizes) = Len(pending)
    <2>1. \A k \in 1 .. Len(pending) : pending[k].size \in Nat  BY <1>5 DEF PendingNotify
    <2>2. PICK n, s : n \in Nat /\ n = Len(pending) /\ s = PendingSizes  BY <1>5
    <2>3. s = [k \in 1 .. n |-> pending[k].size] /\ \A k \in 1 .. n : pending[k].size \in Nat
      BY <2>1, <2>2 DEF PendingSizes
    <2>4. s \in [1 .. n -> Nat]  BY <2>3
    <2>5. s \in Seq(Nat) /\ Len(s) = n  BY <2>2, <2>4, SeqDef, LenProperties
    <2> QED BY <2>2, <2>5
  <1>7. undelivered \in Seq(Beat) /\ data_fifo \in Seq(Beat) /\ curr_len \in Nat
    BY DEF TypeOK, BoundsOK, InputOK
  <1>8. out \in Seq(OutBeat)  BY DEF TypeOK, HostOK, OutBeat
  <1>9. sq \in Seq(TransferRequest) /\ beats_written \in Nat  BY DEF TypeOK, SqOK, FsmOK
  <1>10. /\ Len(Waiting) \in Nat /\ Len(sq) \in Nat /\ Len(undelivered) \in Nat
         /\ Len(out) \in Nat /\ Len(data_fifo) \in Nat
    BY <1>3, <1>7, <1>8, <1>9
  <1> QED BY <1>1, <1>3, <1>5, <1>6, <1>7, <1>8, <1>9, <1>10, HistNat

LEMMA SizeOf ==
  ASSUME TypeOK, NEW k \in 1 .. Len(pending)
  PROVE  /\ pending[k].size \in Nat /\ PendingSizes[k] = pending[k].size
         /\ pending[k].last \in BOOLEAN /\ pending[k].id \in Nat
  <1>1. pending[k] \in PendingNotify  BY DEF TypeOK, NotifyOK
  <1>2. PendingSizes[k] = pending[k].size  BY DEF PendingSizes
  <1> QED BY <1>1, <1>2 DEF PendingNotify

LEMMA InitData == Init => DataInv
  <1> SUFFICES ASSUME Init PROVE DataInv  OBVIOUS
  <1>1. /\ Written = 0 /\ ~Transferring /\ Waiting = <<>> /\ pending = <<>> /\ sq = <<>>
        /\ undelivered = <<>> /\ out = <<>> /\ data_fifo = <<>> /\ curr_len = 0
    BY DEF Init, Written, Active, Transferring, Waiting
  <1>2. PICK u, P, G, X : u = <<>> /\ P = [k \in 0 .. 0 |-> 0] /\ G = [k \in 1 .. 1 |-> 0]
                            /\ X = [k \in 0 .. 1 |-> 0]
    OBVIOUS
  <1>3. P \in [0 .. 0 -> Nat] /\ P[0] = 0 /\ G[1] = 0 /\ X[0] = 0 /\ X[1] = 0
        /\ G \in [1 .. 1 -> Nat] /\ X \in [0 .. 1 -> Nat]
    BY <1>2
  <1>4. Len(u) = 0 /\ Len(pending) = 0 /\ Len(Waiting) = 0 /\ Len(sq) = 0 /\ Len(out) = 0
        /\ Len(data_fifo) = 0 /\ u = undelivered
    BY <1>1, <1>2
  <1>5. PendingSizes = <<>> /\ Len(PendingSizes) = 0  BY <1>1 DEF PendingSizes
  <1>6. InputPart(u) /\ PendingPart(u, P)
    <2>1. Cut(u, P, PendingSizes)  BY <1>3, <1>4, <1>5 DEF Cut
    <2> QED BY <1>2, <1>3, <1>4, <2>1 DEF InputPart, PendingPart, Suppressed
  <1>7. WaitingPart(u, P)
    <2>1. Cut(u, P, Waiting)  BY <1>3, <1>4 DEF Cut
    <2>2. BEAT * (0 - 0) = 0  BY WriterAssumption
    <2> QED BY <1>1, <1>3, <1>4, <2>1, <2>2 DEF WaitingPart
  <1>8. CurrentPart(u, 0, 0) /\ AheadPart(u, 0, 0)
    <2>1. BEAT * (0 - 0) = 0 /\ NumBeats(0) = 0  BY WriterAssumption, NoBeats
    <2> QED BY <1>1, <2>1 DEF CurrentPart, AheadPart
  <1>9. RequestPart(u, P, 0, G) /\ LastPart(0, G) /\ MarkPart(X) /\ SentPart(X)
    BY <1>1, <1>3, <1>4 DEF RequestPart, LastPart, MarkPart, SentPart
  <1>10. BlockCount = 1  BY <1>4 DEF BlockCount
  <1>11. DataPart(u, X, G)
    <2>1. Offsets(X, 1, 0)  BY <1>3 DEF Offsets
    <2>2. Filled(u, out, data_fifo, X, G, 1)  BY <1>3 DEF Filled
    <2> QED BY <1>4, <1>10, <2>1, <2>2 DEF DataPart
  <1>12. BlocksPart(u, P, X, G)  BY <1>3, <1>4, <1>10 DEF BlocksPart
  <1>13. MemoryPart(u, P, 0, 0)  BY <1>1, <1>4 DEF MemoryPart, Init
  <1>14. Parts(u, P, 0, P, X, G)
    BY <1>3, <1>4, <1>6, <1>7, <1>8, <1>9, <1>11, <1>12, <1>13 DEF Parts
  <1> QED BY <1>14 DEF DataInv

----
(* Steps that move no data.                                                 *)

LEMMA QuietData ==
  ASSUME DataInv,
         UNCHANGED <<undelivered, mid_stream, curr_len, pending, sq, out, data_fifo, mem, hist>>,
         UNCHANGED <<Written, Transferring, Ahead, Waiting>>,
         Transferring => beats_written' = beats_written,
         Written # 0 => buffer' = buffer
  PROVE  DataInv'
  <1>1. PICK u, P, p, L, X, G : Parts(u, P, p, L, X, G)  BY DEF DataInv
  <1>2. PICK l, done : l = L[0] /\ done = G[1]  OBVIOUS
  <1>3. /\ InputPart(u) /\ PendingPart(u, P) /\ WaitingPart(u, L) /\ CurrentPart(u, p, l)
        /\ AheadPart(u, p, l) /\ RequestPart(u, P, l, G) /\ LastPart(l, G) /\ DataPart(u, X, G)
        /\ BlocksPart(u, L, X, G) /\ SentPart(X) /\ MarkPart(X) /\ MemoryPart(u, P, l, done)
    BY <1>1, <1>2 DEF Parts
  <1>4. /\ InputPart(u)' /\ PendingPart(u, P)' /\ WaitingPart(u, L)' /\ CurrentPart(u, p, l)'
        /\ AheadPart(u, p, l)' /\ RequestPart(u, P, l, G)' /\ LastPart(l, G)' /\ DataPart(u, X, G)'
        /\ BlocksPart(u, L, X, G)' /\ SentPart(X)' /\ MarkPart(X)' /\ MemoryPart(u, P, l, done)'
    BY <1>3, PartFrames
  <1>5. Parts(u, P, p, L, X, G)'  BY <1>1, <1>2, <1>4 DEF Parts
  <1> QED BY <1>5 DEF DataInv

LEMMA QuietSteps ==
  ASSUME ~FLUSH_MIDSTREAM, TypeOK, CompletionInv, DataInv,
         \/ Enqueue \/ Flush \/ FlushBuffer \/ FlushDone \/ LeaveReset \/ TakeBuffer
         \/ UNCHANGED vars
  PROVE  DataInv'
  <1>1. UNCHANGED <<undelivered, mid_stream, curr_len, pending, sq, out, data_fifo, mem, hist,
                    len_fifo, beats_written>>
    BY DEF Enqueue, EnqueueBuffer, Flush, FlushBuffer, FlushDone, LeaveReset, TakeBuffer, vars,
           inputVars, hostVars, fsmVars
  <1>2. CASE UNCHANGED <<output_state, bytes_written, buffer>>
    <2>1. UNCHANGED <<Written, Transferring, Ahead, Waiting>>
      BY <1>1, <1>2 DEF Written, Active, Transferring, Ahead, Waiting
    <2> QED BY <1>1, <1>2, <2>1, QuietData
  <1>3. CASE ~Transferring /\ ~Transferring' /\ Written = 0 /\ Written' = 0
    <2>1. UNCHANGED <<Written, Transferring, Ahead, Waiting>>
      BY <1>1, <1>3 DEF Ahead, Waiting, Transferring
    <2> QED BY <1>1, <1>3, <2>1, QuietData
  <1>4. CASE Flush
    <2>1. /\ output_state' = "FLUSH_BUFFERS" /\ output_state # "TRANSFER"
          /\ output_state = "REQUEST" => bytes_written = 0
      BY <1>4 DEF Flush, Idle
    <2> QED BY <1>3, <2>1 DEF Transferring, Written, Active
  <1>5. CASE FlushDone \/ LeaveReset
    BY <1>3, <1>5 DEF FlushDone, LeaveReset, Transferring, Written, Active
  <1>6. CASE TakeBuffer  BY <1>3, <1>6 DEF TakeBuffer, Transferring, Written, Active
  <1>7. CASE Enqueue \/ FlushBuffer \/ UNCHANGED vars
    BY <1>2, <1>7 DEF Enqueue, EnqueueBuffer, FlushBuffer, vars, fsmVars
  <1> QED BY <1>4, <1>5, <1>6, <1>7

----
(* Where the cuts are.                                                      *)

LEMMA CutBounds ==
  ASSUME NEW u \in Seq(Beat), NEW P, NEW s \in Seq(Nat), Cut(u, P, s)
  PROVE  /\ P \in [0 .. Len(s) -> Nat]
         /\ \A k \in 0 .. Len(s) : P[k] \in Nat /\ P[0] <= P[k] /\ P[k] <= P[Len(s)] /\ P[k] <= Len(u)
         /\ \A k \in 1 .. Len(s) : P[k - 1] \in Nat /\ P[k - 1] < P[k] /\ P[k] \in 1 .. Len(u)
         /\ \A j, k \in 0 .. Len(s) : j <= k => P[j] <= P[k]
  <1>1. PICK n \in Nat : n = Len(s)  OBVIOUS
  <1>2. P \in [0 .. n -> Nat] /\ (\A j, k \in 0 .. n : j <= k => P[j] <= P[k]) /\ P[n] <= Len(u)
    BY <1>1 DEF Cut
  <1>3. Len(u) \in Nat  OBVIOUS
  <1>4. ASSUME NEW k \in 0 .. n
        PROVE  P[k] \in Nat /\ P[0] <= P[k] /\ P[k] <= P[n] /\ P[k] <= Len(u)
    <2>1. 0 \in 0 .. n /\ n \in 0 .. n /\ 0 <= k /\ k <= n  OBVIOUS
    <2>2. P[k] \in Nat /\ P[n] \in Nat /\ P[0] <= P[k] /\ P[k] <= P[n]  BY <1>2, <2>1
    <2> QED BY <1>2, <1>3, <2>2
  <1>5. ASSUME NEW k \in 1 .. n
        PROVE  P[k - 1] \in Nat /\ P[k - 1] < P[k] /\ P[k] \in 1 .. Len(u)
    <2>1. k - 1 \in 0 .. n /\ k \in 0 .. n /\ s[k] \in Nat  BY <1>1
    <2>2. P[k - 1] \in Nat /\ P[k] \in Nat /\ P[k] <= Len(u)  BY <1>4, <2>1
    <2>3. P[k] = P[k - 1] + Blocks(s[k])  BY <1>1 DEF Cut, Piece
    <2>4. Blocks(s[k]) \in Nat \ {0}  BY <2>1, BlocksPositive
    <2>5. PICK a \in Nat, c \in Nat \ {0} : a = P[k - 1] /\ c = Blocks(s[k])  BY <2>2, <2>4
    <2>6. P[k] = a + c  BY <2>3, <2>5
    <2> QED BY <1>3, <2>2, <2>5, <2>6
  <1> QED BY <1>1, <1>2, <1>4, <1>5

LEMMA PartsTypes ==
  ASSUME TypeOK, LengthHeld, NEW u, NEW P, NEW p, NEW L, NEW X, NEW G, Parts(u, P, p, L, X, G)
  PROVE  /\ u \in Seq(Beat) /\ Len(u) \in Nat /\ Suppressed(u) /\ u = undelivered
         /\ P \in [0 .. Len(pending) -> Nat] /\ p \in Nat /\ p = P[Len(pending)] /\ P[0] = 0
         /\ \A k \in 0 .. Len(pending) : P[k] \in Nat /\ P[k] <= p
         /\ L \in [0 .. Len(Waiting) -> Nat] /\ L[0] \in Nat /\ p <= L[0]
         /\ \A k \in 0 .. Len(Waiting) : L[k] \in Nat /\ L[0] <= L[k] /\ L[k] <= Len(u)
         /\ BlockCount \in Nat \ {0} /\ BlockCount = Len(sq) + Len(Waiting) + 1
         /\ G \in [1 .. BlockCount -> Nat] /\ X \in [0 .. BlockCount -> Nat]
         /\ G[Len(sq) + 1] = L[0]
         /\ Len(pending) \in Nat /\ Len(sq) \in Nat /\ Len(Waiting) \in Nat
  <1>1. u \in Seq(Beat) /\ Len(u) \in Nat /\ Suppressed(u) /\ u = undelivered
    BY ViewTypes DEF Parts, InputPart
  <1>2. /\ Len(pending) \in Nat /\ Len(sq) \in Nat /\ Len(Waiting) \in Nat
        /\ PendingSizes \in Seq(Nat) /\ Len(PendingSizes) = Len(pending) /\ Waiting \in Seq(Nat)
    BY ViewTypes
  <1>3. Cut(u, P, PendingSizes) /\ P[0] = 0 /\ p = P[Len(pending)]  BY DEF Parts, PendingPart
  <1>4. /\ P \in [0 .. Len(pending) -> Nat]
        /\ \A k \in 0 .. Len(pending) : P[k] \in Nat /\ P[k] <= P[Len(pending)]
    BY <1>1, <1>2, <1>3, CutBounds
  <1>5. p \in Nat
    <2>1. Len(pending) \in 0 .. Len(pending)  BY <1>2
    <2> QED BY <1>3, <1>4, <2>1
  <1>6. Cut(u, L, Waiting)  BY DEF Parts, WaitingPart
  <1>7. /\ L \in [0 .. Len(Waiting) -> Nat]
        /\ \A k \in 0 .. Len(Waiting) : L[k] \in Nat /\ L[0] <= L[k] /\ L[k] <= Len(u)
    BY <1>1, <1>2, <1>6, CutBounds
  <1>8. L[0] \in Nat
    <2>1. 0 \in 0 .. Len(Waiting)  BY <1>2
    <2> QED BY <1>7, <2>1
  <1>9. p <= L[0]
    <2>1. L[0] = p + NumBeats(Written)  BY DEF Parts, CurrentPart
    <2>2. NumBeats(Written) \in Nat  BY ViewTypes, NumBeatsNat
    <2> QED BY <1>5, <2>1, <2>2
  <1>10. BlockCount \in Nat \ {0} /\ BlockCount = Len(sq) + Len(Waiting) + 1  BY <1>2 DEF BlockCount
  <1>11. G \in [1 .. BlockCount -> Nat] /\ X \in [0 .. BlockCount -> Nat]
    BY DEF Parts, DataPart, Filled, Offsets
  <1>12. G[Len(sq) + 1] = L[0]
    <2>1. G[Len(sq) + 1 + 0] = L[0]
      <3>1. 0 \in 0 .. Len(Waiting)  BY <1>2
      <3> QED BY <3>1 DEF Parts, BlocksPart
    <2>2. Len(sq) + 1 + 0 = Len(sq) + 1  BY <1>2
    <2> QED BY <2>1, <2>2
  <1> QED BY <1>1, <1>2, <1>3, <1>4, <1>5, <1>7, <1>8, <1>9, <1>10, <1>11, <1>12

LEMMA RequestBounds ==
  ASSUME TypeOK, LengthHeld, NEW u, NEW P, NEW p, NEW L, NEW X, NEW G, Parts(u, P, p, L, X, G),
         NEW j \in 1 .. Len(sq)
  PROVE  /\ RequestAt(u, P, L[0], G, j, Entry(j), NumBeats(sq[j].len))
         /\ sq[j].len \in Nat /\ sq[j].len # 0 /\ NumBeats(sq[j].len) \in Nat \ {0}
         /\ G[j] \in Nat /\ G[j + 1] \in Nat /\ G[j] + NumBeats(sq[j].len) <= G[j + 1]
         /\ G[j + 1] <= L[0] /\ G[j + 1] <= Len(u) /\ G[j] + NumBeats(sq[j].len) <= L[0]
         /\ Entry(j) \in 1 .. Len(pending) + 1
  <1>1. \A i \in 1 .. Len(sq) : RequestAt(u, P, L[0], G, i, Entry(i), NumBeats(sq[i].len))
    BY DEF Parts, RequestPart
  <1>2. \A i \in 1 .. Len(sq) : sq[i].len \in Nat
    <2>1. sq \in Seq(TransferRequest)  BY DEF TypeOK, SqOK
    <2>2. \A i \in 1 .. Len(sq) : sq[i] \in TransferRequest  BY <2>1
    <2> QED BY <2>2 DEF TransferRequest
  <1>3. \A i \in 1 .. Len(sq) : sq[i].len # 0  BY <1>1 DEF RequestAt
  <1>4. \A i \in 1 .. Len(sq) : NumBeats(sq[i].len) \in Nat \ {0}  BY <1>2, <1>3, SomeBeats
  <1>5. /\ G \in [1 .. BlockCount -> Nat] /\ BlockCount = Len(sq) + Len(Waiting) + 1
        /\ Len(sq) \in Nat /\ Len(Waiting) \in Nat /\ L[0] \in Nat /\ p \in Nat /\ p <= L[0]
        /\ G[Len(sq) + 1] = L[0] /\ Len(u) \in Nat /\ L[0] <= Len(u) /\ Len(pending) \in Nat
        /\ \A k \in 0 .. Len(pending) : P[k] \in Nat /\ P[k] <= p
    <2>1. 0 \in 0 .. Len(Waiting)  BY PartsTypes
    <2> QED BY PartsTypes, <2>1
  <1>6. \A i \in 1 .. Len(sq) : G[i] \in Nat /\ G[i + 1] \in Nat
    <2>1. \A i \in 1 .. Len(sq) : i \in 1 .. BlockCount /\ i + 1 \in 1 .. BlockCount  BY <1>5
    <2> QED BY <1>5, <2>1
  <1>7. \A i \in 1 .. Len(sq) : G[i] + NumBeats(sq[i].len) <= L[0] /\ Entry(i) \in 1 .. Len(pending) + 1
    <2> SUFFICES ASSUME NEW i \in 1 .. Len(sq)
                 PROVE  G[i] + NumBeats(sq[i].len) <= L[0] /\ Entry(i) \in 1 .. Len(pending) + 1
      OBVIOUS
    <2>1. PICK k, n : k = Entry(i) /\ n = NumBeats(sq[i].len)  OBVIOUS
    <2>2. /\ k \in 1 .. Len(pending) + 1
          /\ G[i] + n <= IF k <= Len(pending) THEN P[k] ELSE L[0]
      BY <1>1, <2>1 DEF RequestAt
    <2>3. n \in Nat /\ G[i] \in Nat  BY <1>4, <1>6, <2>1
    <2>4. G[i] + n <= L[0]
      <3>1. CASE k <= Len(pending)
        <4>1. k \in 0 .. Len(pending)  BY <1>5, <2>2, <3>1
        <4>2. P[k] \in Nat /\ P[k] <= p  BY <1>5, <4>1
        <4>3. PICK g \in Nat, l \in Nat, c \in Nat : g = G[i] /\ l = L[0] /\ c = P[k] /\ p <= l /\ p \in Nat
          BY <1>5, <2>3, <4>2
        <4>4. g + n <= c  BY <2>2, <3>1, <4>3
        <4>5. g + n <= l  BY <2>3, <4>2, <4>3, <4>4
        <4> QED BY <4>3, <4>5
      <3>2. CASE ~(k <= Len(pending))  BY <2>2, <3>2
      <3> QED BY <3>1, <3>2
    <2> QED BY <2>1, <2>2, <2>4
  <1>8. G[j] + NumBeats(sq[j].len) <= G[j + 1]  BY <1>1 DEF RequestAt
  <1>9. G[j + 1] <= L[0] /\ G[j + 1] <= Len(u)
    <2>1. CASE j = Len(sq)  BY <1>5, <2>1
    <2>2. CASE j # Len(sq)
      <3>1. j + 1 \in 1 .. Len(sq)  BY <1>5, <2>2
      <3>2. PICK g \in Nat, n \in Nat : g = G[j + 1] /\ n = NumBeats(sq[j + 1].len)
        BY <1>4, <1>6, <3>1
      <3>3. g + n <= L[0]  BY <1>7, <3>1, <3>2
      <3> QED BY <1>5, <3>2, <3>3
    <2> QED BY <2>1, <2>2
  <1> QED BY <1>1, <1>2, <1>3, <1>4, <1>6, <1>7, <1>8, <1>9

----
(* A beat is accepted.                                                      *)

LEMMA AcceptViews ==
  ASSUME TypeOK, LengthHeld, NEW b \in Beat, Accept(b)
  PROVE  /\ undelivered' = Append(undelivered, b) /\ (mid_stream' <=> ~b.last)
         /\ b.keep \in 0 .. BEAT /\ b.keep \in Nat /\ b.last \in BOOLEAN /\ curr_len + b.keep \in Nat
         /\ UNCHANGED <<Written, Transferring, Ahead>>
         /\ UNCHANGED <<pending, sq, out, mem, hist, buffer, beats_written>>
         /\ IsSplit(b) => Waiting' = Append(Waiting, curr_len + b.keep) /\ curr_len' = 0
         /\ ~IsSplit(b) => Waiting' = Waiting /\ curr_len' = curr_len + b.keep /\ ~b.last
  <1>1. undelivered' = Append(undelivered, b) /\ (mid_stream' <=> ~b.last)  BY DEF Accept
  <1>2. b.keep \in 0 .. BEAT /\ b.keep \in Nat /\ b.last \in BOOLEAN  BY WriterAssumption DEF Beat
  <1>3. curr_len + b.keep \in Nat  BY <1>2, ViewTypes
  <1>4. UNCHANGED <<output_state, bytes_written, pending, sq, out, mem, hist, buffer, beats_written>>
    BY DEF Accept, fsmVars, hostVars
  <1>5. Transferring => len_fifo # <<>>  BY DEF LengthHeld, Transferring
  <1>6. len_fifo \in Seq(Nat)  BY DEF TypeOK, InputOK
  <1>7. UNCHANGED <<Written, Transferring>>  BY <1>4 DEF Written, Active, Transferring
  <1>8. CASE IsSplit(b)
    <2>1. len_fifo' = Append(len_fifo, curr_len + b.keep) /\ curr_len' = 0  BY <1>8 DEF Accept
    <2>2. Transferring => /\ Head(len_fifo') = Head(len_fifo)
                          /\ Tail(len_fifo') = Append(Tail(len_fifo), curr_len + b.keep)
      BY <1>3, <1>5, <1>6, <2>1, HeadTailAppend
    <2>3. Ahead' = Ahead /\ Waiting' = Append(Waiting, curr_len + b.keep)
      BY <1>7, <2>1, <2>2 DEF Ahead, Waiting
    <2> QED BY <1>1, <1>2, <1>3, <1>4, <1>7, <1>8, <2>1, <2>3
  <1>9. CASE ~IsSplit(b)
    <2>1. len_fifo' = len_fifo /\ curr_len' = curr_len + b.keep /\ ~b.last
      BY <1>9 DEF Accept, IsSplit
    <2>2. Ahead' = Ahead /\ Waiting' = Waiting  BY <1>7, <2>1 DEF Ahead, Waiting
    <2> QED BY <1>1, <1>2, <1>3, <1>4, <1>7, <1>9, <2>1, <2>2
  <1> QED BY <1>8, <1>9

LEMMA AcceptInput ==
  ASSUME NEW u \in Seq(Beat), NEW b \in Beat, InputPart(u), LegalBeat(b), mid_stream' <=> ~b.last
  PROVE  InputPart(Append(u, b))'
  <1>1. PICK v : v = Append(u, b)  OBVIOUS
  <1>2. Len(v) = Len(u) + 1 /\ v[Len(u) + 1] = b  BY <1>1, PushFacts
  <1>3. Suppressed(v)
    <2>1. Suppressed(u) /\ (u # <<>> => (mid_stream <=> ~u[Len(u)].last))  BY DEF InputPart
    <2>2. (~b.last => b.keep = BEAT) /\ (b.keep = 0 => ~mid_stream)  BY DEF LegalBeat
    <2>3. u # <<>> /\ b.keep = 0 => u[Len(u)].last  BY <2>1, <2>2
    <2> QED BY <1>1, <2>1, <2>2, <2>3, SuppressedGrows
  <1>4. v[Len(v)] = b  BY <1>2
  <1>5. InputPart(v)'  BY <1>3, <1>4 DEF InputPart
  <1> QED BY <1>1, <1>5

LEMMA AcceptPending ==
  ASSUME TypeOK, LengthHeld, NEW u \in Seq(Beat), NEW b \in Beat, NEW P, PendingPart(u, P),
         pending' = pending
  PROVE  PendingPart(Append(u, b), P)'
  <1>1. PICK v : v = Append(u, b)  OBVIOUS
  <1>2. \A i \in 1 .. Len(u) : v[i] = u[i]  BY <1>1, PushFacts
  <1>3. Cut(u, P, PendingSizes) /\ P[0] = 0
        /\ \A k \in 1 .. Len(pending) : pending[k].last <=> u[P[k]].last
    BY DEF PendingPart
  <1>4. PendingSizes \in Seq(Nat) /\ Len(PendingSizes) = Len(pending)  BY ViewTypes
  <1>5. \A k \in 1 .. Len(pending) : P[k] \in 1 .. Len(u)  BY <1>3, <1>4, CutBounds
  <1>6. Cut(v, P, PendingSizes)  BY <1>1, <1>3, <1>4, CutGrows
  <1>7. \A k \in 1 .. Len(pending) : pending[k].last <=> v[P[k]].last  BY <1>2, <1>3, <1>5
  <1>8. PendingPart(v, P)  BY <1>3, <1>6, <1>7 DEF PendingPart
  <1>9. PendingPart(v, P)'  BY <1>8, PartFrames
  <1> QED BY <1>1, <1>9

\* The piece that a split ends.
LEMMA SplitPiece ==
  ASSUME TypeOK, LengthHeld, NEW u \in Seq(Beat), NEW b \in Beat, NEW L,
         InputPart(u), WaitingPart(u, L), Accept(b)
  PROVE  Piece(Append(u, b), L[Len(Waiting)], Len(u) + 1, curr_len + b.keep)
  <1>1. PICK v, f : v = Append(u, b) /\ f = L[Len(Waiting)]  OBVIOUS
  <1>2. Len(u) \in Nat /\ Len(v) = Len(u) + 1 /\ (\A i \in 1 .. Len(u) : v[i] = u[i]) /\ v[Len(u) + 1] = b
    BY <1>1, PushFacts
  <1>3. f \in Nat /\ f <= Len(u)
    <2>1. Waiting \in Seq(Nat) /\ Len(Waiting) \in 0 .. Len(Waiting)  BY ViewTypes
    <2> QED BY <1>1, <2>1, CutBounds DEF WaitingPart
  <1>4. PICK m \in Nat : m = Len(u) - f  BY <1>2, <1>3
  <1>5. curr_len = BEAT * m /\ \A i \in f + 1 .. Len(u) : ~u[i].last  BY <1>1, <1>4 DEF WaitingPart
  <1>6. BEAT \in Nat \ {0} /\ b.keep \in 0 .. BEAT  BY AcceptViews, WriterAssumption
  <1>7. b.keep = 0 => m = 0
    <2> SUFFICES ASSUME b.keep = 0, m # 0 PROVE FALSE  OBVIOUS
    <2>1. Len(u) \in f + 1 .. Len(u) /\ u # <<>>  BY <1>2, <1>3, <1>4
    <2>2. mid_stream  BY <1>5, <2>1 DEF InputPart
    <2> QED BY <2>2 DEF Accept, LegalBeat
  <1>8. Blocks(BEAT * m + b.keep) = m + 1
    <2>1. CASE b.keep = 0
      <3>1. BEAT * m + b.keep = 0 /\ m = 0  BY <1>6, <1>7, <2>1
      <3> QED BY <3>1 DEF Blocks
    <2>2. CASE b.keep # 0
      <3>1. BEAT * m \in Nat  BY <1>6
      <3>2. BEAT * m + b.keep # 0  BY <1>6, <2>2, <3>1
      <3>3. NumBeats(BEAT * m + b.keep) = m + 1  BY <1>6, <2>2, BeatsOfLength
      <3> QED BY <3>2, <3>3 DEF Blocks
    <2> QED BY <2>1, <2>2
  <1>9. Piece(v, f, Len(u) + 1, BEAT * m + b.keep)
    <2>1. Len(u) + 1 = f + (m + 1) /\ Len(u) + 1 - f - 1 = m /\ (Len(u) + 1) - 1 = Len(u)
      BY <1>2, <1>3, <1>4
    <2>2. \A i \in f + 1 .. Len(u) : ~v[i].last  BY <1>2, <1>3, <1>5
    <2>3. Len(u) + 1 <= Len(v)  BY <1>2
    <2>4. PICK t, x : t = Len(u) + 1 /\ x = BEAT * m + b.keep  OBVIOUS
    <2>5. t = f + Blocks(x) /\ t <= Len(v)  BY <1>8, <2>1, <2>3, <2>4
    <2>6. x = BEAT * (t - f - 1) + v[t].keep
      <3>1. v[t] = b  BY <1>2, <2>4
      <3>2. t - f - 1 = m  BY <1>2, <1>3, <1>4, <2>4
      <3> QED BY <2>4, <3>1, <3>2
    <2>7. \A i \in f + 1 .. t - 1 : ~v[i].last  BY <2>1, <2>2, <2>4
    <2>8. Piece(v, f, t, x)  BY <2>5, <2>6, <2>7 DEF Piece
    <2> QED BY <2>4, <2>8
  <1> QED BY <1>1, <1>5, <1>9

LEMMA AcceptWaiting ==
  ASSUME TypeOK, LengthHeld, NEW u \in Seq(Beat), NEW b \in Beat, NEW L, NEW M,
         InputPart(u), WaitingPart(u, L), Accept(b),
         M = IF IsSplit(b) THEN Extended(L, Len(Waiting), Len(u) + 1) ELSE L
  PROVE  WaitingPart(Append(u, b), M)'
  <1>1. PICK v, n : v = Append(u, b) /\ n = Len(Waiting)  OBVIOUS
  <1>2. Len(u) \in Nat /\ Len(v) = Len(u) + 1 /\ (\A i \in 1 .. Len(u) : v[i] = u[i]) /\ v[Len(u) + 1] = b
    BY <1>1, PushFacts
  <1>3. /\ Cut(u, L, Waiting) /\ (\A k \in 1 .. n : u[L[k]].last \/ Waiting[k] = TRANSFER)
        /\ curr_len = BEAT * (Len(u) - L[n]) /\ \A i \in L[n] + 1 .. Len(u) : ~u[i].last
    BY <1>1 DEF WaitingPart
  <1>4. Waiting \in Seq(Nat) /\ n \in Nat  BY <1>1, ViewTypes
  <1>5. /\ L \in [0 .. n -> Nat] /\ (\A k \in 1 .. n : L[k] \in 1 .. Len(u))
        /\ \A k \in 0 .. n : L[k] \in Nat /\ L[k] <= Len(u)
    BY <1>1, <1>3, <1>4, CutBounds
  <1>6. L[n] \in Nat /\ L[n] <= Len(u)  BY <1>4, <1>5
  <1>7. Cut(v, L, Waiting)  BY <1>1, <1>3, <1>4, CutGrows
  <1>8. \A k \in 1 .. n : v[L[k]].last \/ Waiting[k] = TRANSFER  BY <1>2, <1>3, <1>5
  <1>9. BEAT \in Nat \ {0} /\ b.keep \in 0 .. BEAT  BY AcceptViews, WriterAssumption
  <1>10. CASE ~IsSplit(b)
    <2>1. /\ Waiting' = Waiting /\ curr_len' = curr_len + b.keep /\ ~b.last /\ M = L
          /\ b.keep = BEAT
      BY <1>10, AcceptViews DEF Accept, LegalBeat
    <2>2. curr_len + BEAT = BEAT * (Len(v) - L[n])
      <3>1. PICK m \in Nat : m = Len(u) - L[n]  BY <1>2, <1>6
      <3>2. Len(v) - L[n] = m + 1
        <4>1. PICK k, w : k = Len(u) /\ w = L[n]  OBVIOUS
        <4>2. (k + 1) - w = m + 1  BY <1>2, <1>6, <3>1, <4>1
        <4> QED BY <1>2, <4>1, <4>2
      <3>3. BEAT * m + BEAT = BEAT * (m + 1)  BY <1>9
      <3> QED BY <1>3, <3>1, <3>2, <3>3
    <2>3. ASSUME NEW i \in L[n] + 1 .. Len(v)
          PROVE  ~v[i].last
      <3>1. CASE i = Len(u) + 1  BY <1>2, <2>1, <3>1
      <3>2. CASE i # Len(u) + 1
        <4>1. i \in L[n] + 1 .. Len(u) /\ i \in 1 .. Len(u)  BY <1>2, <1>6, <3>2
        <4> QED BY <1>2, <1>3, <4>1
      <3> QED BY <3>1, <3>2
    <2>4. WaitingPart(v, L)'  BY <1>1, <1>7, <1>8, <2>1, <2>2, <2>3 DEF WaitingPart
    <2> QED BY <1>1, <2>1, <2>4
  <1>11. CASE IsSplit(b)
    <2>1. PICK x, W : x = curr_len + b.keep /\ x \in Nat /\ W = Append(Waiting, x)  BY AcceptViews
    <2>2. Waiting' = W /\ curr_len' = 0 /\ M = Extended(L, n, Len(u) + 1)
      BY <1>1, <1>11, <2>1, AcceptViews
    <2>3. Len(W) = n + 1 /\ (\A k \in 1 .. n : W[k] = Waiting[k]) /\ W[n + 1] = x
      BY <1>1, <1>4, <2>1, PushFacts
    <2>4. Cut(v, M, W)
      <3>1. v \in Seq(Beat) /\ Len(u) + 1 \in Nat  BY <1>1, <1>2, PushFacts
      <3>2. Piece(v, L[n], Len(u) + 1, x)  BY <1>1, <2>1, SplitPiece
      <3> QED BY <1>1, <1>4, <1>7, <2>1, <2>2, <3>1, <3>2, CutExtended
    <2>5. M = [k \in 0 .. n + 1 |-> IF k <= n THEN L[k] ELSE Len(u) + 1]  BY <2>2 DEF Extended
    <2>6. (\A k \in 0 .. n : M[k] = L[k]) /\ M[n + 1] = Len(u) + 1
      <3>1. (\A k \in 0 .. n : k \in 0 .. n + 1 /\ k <= n) /\ n + 1 \in 0 .. n + 1 /\ ~(n + 1 <= n)
        BY <1>4
      <3> QED BY <2>5, <3>1
    <2>7. b.last \/ x = TRANSFER
      <3> SUFFICES ASSUME ~b.last PROVE x = TRANSFER  OBVIOUS
      <3>1. curr_len = TRANSFER - BEAT /\ b.keep = BEAT  BY <1>11 DEF IsSplit, Accept, LegalBeat
      <3> QED BY <2>1, <3>1, WriterAssumption
    <2>8. ASSUME NEW k \in 1 .. n + 1
          PROVE  v[M[k]].last \/ W[k] = TRANSFER
      <3>1. CASE k = n + 1  BY <1>2, <2>3, <2>6, <2>7, <3>1
      <3>2. CASE k # n + 1
        <4>1. k \in 1 .. n /\ k \in 0 .. n  BY <1>4, <3>2
        <4> QED BY <1>8, <2>3, <2>6, <4>1
      <3> QED BY <3>1, <3>2
    <2>9. Len(v) = M[n + 1] /\ BEAT * (Len(v) - M[n + 1]) = 0 /\ \A i \in M[n + 1] + 1 .. Len(v) : ~v[i].last
      <3>1. Len(v) = M[n + 1] /\ Len(v) \in Nat  BY <1>2, <2>6
      <3>2. Len(v) - M[n + 1] = 0 /\ ~(M[n + 1] + 1 <= Len(v))  BY <3>1
      <3>3. BEAT * 0 = 0  BY <1>9
      <3>4. \A i \in M[n + 1] + 1 .. Len(v) : FALSE  BY <3>1
      <3> QED BY <3>1, <3>2, <3>3, <3>4
    <2>10. WaitingPart(v, M)'  BY <2>2, <2>3, <2>4, <2>8, <2>9 DEF WaitingPart
    <2> QED BY <1>1, <2>10
  <1> QED BY <1>10, <1>11

LEMMA AcceptCurrent ==
  ASSUME NEW u \in Seq(Beat), NEW b \in Beat, NEW p \in Nat, NEW l \in Nat, l <= Len(u),
         Written \in Nat, Ahead \in Nat
  PROVE  /\ CurrentPart(u, p, l) => CurrentPart(Append(u, b), p, l)
         /\ AheadPart(u, p, l) => AheadPart(Append(u, b), p, l)
  <1>1. PICK v : v = Append(u, b)  OBVIOUS
  <1>2. Len(u) \in Nat /\ \A i \in 1 .. Len(u) : v[i] = u[i]  BY <1>1, PushFacts
  <1>3. ASSUME CurrentPart(u, p, l)
        PROVE  CurrentPart(v, p, l)
    <2>1. Written # 0 => Piece(v, p, l, Written)  BY <1>1, <1>3, PieceGrows DEF CurrentPart
    <2>2. Written # 0 => v[l] = u[l]
      <3>1. NumBeats(Written) \in Nat /\ (Written # 0 => NumBeats(Written) \in Nat \ {0})
        BY SomeBeats, NumBeatsNat
      <3>2. l = p + NumBeats(Written)  BY <1>3 DEF CurrentPart
      <3>3. Written # 0 => l \in 1 .. Len(u)  BY <1>2, <3>1, <3>2
      <3> QED BY <1>2, <3>3
    <2> QED BY <1>3, <2>1, <2>2 DEF CurrentPart
  <1>4. ASSUME AheadPart(u, p, l)
        PROVE  AheadPart(v, p, l)
    <2> SUFFICES ASSUME Transferring
                 PROVE  Written # 0 /\ Ahead # 0 /\ Piece(v, l - NumBeats(Ahead), l, Ahead)
                        /\ p <= l - NumBeats(Ahead) /\ (v[l].last \/ Ahead = TRANSFER)
      BY DEF AheadPart
    <2>1. Written # 0 /\ Ahead # 0 /\ Piece(u, l - NumBeats(Ahead), l, Ahead)
          /\ p <= l - NumBeats(Ahead) /\ (u[l].last \/ Ahead = TRANSFER)
      BY <1>4 DEF AheadPart
    <2>2. NumBeats(Ahead) \in Nat \ {0}  BY <2>1, SomeBeats
    <2>3. l - NumBeats(Ahead) \in Nat  BY <2>1, <2>2
    <2>4. Piece(v, l - NumBeats(Ahead), l, Ahead)  BY <1>1, <2>1, <2>3, PieceGrows
    <2>5. l \in 1 .. Len(u)  BY <1>2, <2>2, <2>3
    <2>6. v[l] = u[l]  BY <1>2, <2>5
    <2> QED BY <2>1, <2>4, <2>6
  <1> QED BY <1>1, <1>3, <1>4

LEMMA AcceptRequests ==
  ASSUME TypeOK, LengthHeld, NEW u, NEW P, NEW p, NEW L, NEW X, NEW G, Parts(u, P, p, L, X, G),
         NEW b \in Beat
  PROVE  RequestPart(Append(u, b), P, L[0], G)
  <1>1. PICK v, l : v = Append(u, b) /\ l = L[0]  OBVIOUS
  <1>2. u \in Seq(Beat)  BY PartsTypes
  <1>3. Len(u) \in Nat /\ \A i \in 1 .. Len(u) : v[i] = u[i]  BY <1>1, <1>2, PushFacts
  <1>4. ASSUME NEW j \in 1 .. Len(sq)
        PROVE  RequestAt(v, P, l, G, j, Entry(j), NumBeats(sq[j].len))
    <2>1. PICK k, n : k = Entry(j) /\ n = NumBeats(sq[j].len)  OBVIOUS
    <2>2. /\ RequestAt(u, P, l, G, j, k, n) /\ sq[j].len \in Nat /\ n \in Nat \ {0}
          /\ G[j] \in Nat /\ G[j + 1] \in Nat /\ G[j + 1] <= Len(u)
      BY <1>1, <2>1, RequestBounds
    <2>3. Piece(v, G[j], G[j] + n, sq[j].len)
      <3>1. G[j] + n \in Nat  BY <2>2
      <3>2. Piece(u, G[j], G[j] + n, sq[j].len)  BY <2>2 DEF RequestAt
      <3> QED BY <1>1, <1>2, <2>2, <3>1, <3>2, PieceGrows
    <2>4. \A i \in G[j] + n + 1 .. G[j + 1] : v[i].keep = 0
      <3>1. PICK g \in Nat, h \in Nat : g = G[j] + n /\ h = G[j + 1]  BY <2>2
      <3>2. \A i \in g + 1 .. h : i \in 1 .. Len(u)
        <4>1. PICK z \in Nat : z = Len(u) /\ h <= z  BY <1>3, <2>2, <3>1
        <4> QED BY <4>1
      <3>3. \A i \in g + 1 .. h : u[i].keep = 0  BY <2>2, <3>1 DEF RequestAt
      <3>4. \A i \in g + 1 .. h : v[i].keep = 0  BY <1>3, <3>2, <3>3
      <3> QED BY <3>1, <3>4
    <2>5. RequestAt(v, P, l, G, j, k, n)  BY <2>2, <2>3, <2>4 DEF RequestAt
    <2> QED BY <2>1, <2>5
  <1>5. RequestPart(v, P, l, G)  BY <1>4 DEF RequestPart
  <1> QED BY <1>1, <1>5

\* The blocks behind L[0] matter to the requests no more.
LEMMA RequestsSame ==
  ASSUME TypeOK, NEW u, NEW P, NEW l, NEW G, NEW H,
         \A j \in 1 .. Len(sq) : H[j] = G[j] /\ H[j + 1] = G[j + 1]
  PROVE  /\ RequestPart(u, P, l, G) => RequestPart(u, P, l, H)
         /\ LastPart(l, G) => LastPart(l, H)
  <1>1. RequestPart(u, P, l, G) => RequestPart(u, P, l, H)  BY DEF RequestPart, RequestAt
  <1>2. ASSUME LastPart(l, G), Transferring
        PROVE  H[Len(sq)] + NumBeats(Ahead) = l
    <2>1. sq # <<>> /\ G[Len(sq)] + NumBeats(Ahead) = l  BY <1>2 DEF LastPart
    <2>2. Len(sq) \in 1 .. Len(sq)  BY <2>1, EmptySeq DEF TypeOK, SqOK
    <2> QED BY <2>1, <2>2
  <1>3. LastPart(l, G) => LastPart(l, H)  BY <1>2 DEF LastPart
  <1> QED BY <1>1, <1>3

LEMMA StoredSame ==
  ASSUME NEW u, NEW v, NEW from \in Nat, NEW to \in Nat, NEW done,
         \A i \in from + 1 .. to : v[i] = u[i]
  PROVE  Stored(v, from, to, done) = Stored(u, from, to, done)
  <1>1. PICK I : I = {j \in from + 1 .. to : j <= done}  OBVIOUS
  <1>2. \A i \in I : v[i] = u[i]  BY <1>1
  <1>3. {<<BEAT * (i - from - 1), v[i]>> : i \in I} = {<<BEAT * (i - from - 1), u[i]>> : i \in I}
    BY <1>2
  <1> QED BY <1>1, <1>3 DEF Stored

LEMMA AcceptMemory ==
  ASSUME TypeOK, LengthHeld, NEW u, NEW P, NEW p, NEW L, NEW X, NEW G, Parts(u, P, p, L, X, G),
         NEW b \in Beat
  PROVE  MemoryPart(Append(u, b), P, L[0], G[1])
  <1>1. PICK v, l, done : v = Append(u, b) /\ l = L[0] /\ done = G[1]  OBVIOUS
  <1>2. u \in Seq(Beat) /\ l \in Nat /\ l <= Len(u) /\ p \in Nat /\ p = P[Len(pending)] /\ p <= l
        /\ Len(pending) \in Nat /\ \A k \in 0 .. Len(pending) : P[k] \in Nat /\ P[k] <= p
    <2>1. 0 \in 0 .. Len(Waiting)  BY PartsTypes
    <2> QED BY <1>1, <2>1, PartsTypes
  <1>3. Len(u) \in Nat /\ \A i \in 1 .. Len(u) : v[i] = u[i]  BY <1>1, <1>2, PushFacts
  <1>4. MemoryPart(u, P, l, done)  BY <1>1 DEF Parts
  <1>5. ASSUME NEW f \in Nat, NEW t \in Nat, t <= Len(u)
        PROVE  Stored(v, f, t, done) = Stored(u, f, t, done)
    <2>1. \A i \in f + 1 .. t : i \in 1 .. Len(u)  BY <1>3, <1>5
    <2> QED BY <1>3, <2>1, StoredSame
  <1>6. ASSUME NEW k \in 1 .. Len(pending)
        PROVE  Stored(v, P[k - 1], P[k], done) = Stored(u, P[k - 1], P[k], done)
    <2>1. k - 1 \in 0 .. Len(pending) /\ k \in 0 .. Len(pending)  BY <1>2
    <2>2. P[k - 1] \in Nat /\ P[k] \in Nat /\ P[k] <= Len(u)  BY <1>2, <1>3, <2>1
    <2> QED BY <1>5, <2>2
  <1>7. Stored(v, P[Len(pending)], l, done) = Stored(u, P[Len(pending)], l, done)  BY <1>2, <1>5
  <1>8. MemoryPart(v, P, l, done)  BY <1>4, <1>6, <1>7 DEF MemoryPart
  <1> QED BY <1>1, <1>8

\* The beat joins the last block; a split starts another one.
LEMMA AcceptBlocks ==
  ASSUME TypeOK, LengthHeld, NEW u, NEW P, NEW p, NEW L, NEW X, NEW G, Parts(u, P, p, L, X, G),
         NEW b \in Beat, Accept(b)
  PROVE  \E Y :
           /\ Offsets(Y, BlockCount, Len(out) + Len(data_fifo'))
           /\ Filled(Append(u, b), out, data_fifo', Y, G, BlockCount)
           /\ \A k \in 0 .. BlockCount - 1 : Y[k] = X[k]
           /\ Y[BlockCount] = Y[BlockCount - 1] + (Len(u) - L[Len(Waiting)])
                                + (IF b.keep = 0 THEN 0 ELSE 1)
  <1>1. PICK n : n = BlockCount  OBVIOUS
  <1>2. /\ u \in Seq(Beat) /\ Len(u) \in Nat /\ n \in Nat \ {0} /\ n = Len(sq) + Len(Waiting) + 1
        /\ X \in [0 .. n -> Nat] /\ G \in [1 .. n -> Nat] /\ Len(Waiting) \in Nat /\ Len(sq) \in Nat
        /\ \A k \in 0 .. Len(Waiting) : L[k] \in Nat /\ L[k] <= Len(u)
    BY <1>1, PartsTypes
  <1>3. out \in Seq(OutBeat) /\ data_fifo \in Seq(Beat) /\ Len(out) \in Nat /\ Len(data_fifo) \in Nat
    BY ViewTypes
  <1>4. Offsets(X, n, Len(out) + Len(data_fifo)) /\ Filled(u, out, data_fifo, X, G, n)
    BY <1>1 DEF Parts, DataPart
  <1>5. PICK f \in Nat : f = L[Len(Waiting)] /\ f <= Len(u)
    <2>1. Len(Waiting) \in 0 .. Len(Waiting)  BY <1>2
    <2> QED BY <1>2, <2>1
  <1>6. X[n] = X[n - 1] + (Len(u) - f) /\ X[n] \in Nat /\ X[n - 1] \in Nat
    <2>1. n \in 0 .. n /\ n - 1 \in 0 .. n  BY <1>2
    <2>2. X[n] = X[n - 1] + (Len(u) - f)  BY <1>1, <1>5 DEF Parts, BlocksPart
    <2> QED BY <1>2, <2>1, <2>2
  <1>7. G[n] = f
    <2>1. Len(Waiting) \in 0 .. Len(Waiting) /\ Len(sq) + 1 + Len(Waiting) = n  BY <1>2
    <2> QED BY <1>5, <2>1 DEF Parts, BlocksPart
  <1>8. CASE b.keep = 0
    <2>1. data_fifo' = data_fifo  BY <1>8 DEF Accept, DataFifoIn
    <2>2. Filled(Append(u, b), out, data_fifo, X, G, n)
      <3>1. Len(out) + Len(data_fifo) \in Nat /\ n \in Nat  BY <1>2, <1>3
      <3> QED BY <1>2, <1>4, <3>1, FilledIgnores
    <2>3. X[n] = X[n - 1] + (Len(u) - f) + 0  BY <1>2, <1>5, <1>6
    <2> QED BY <1>1, <1>4, <1>5, <1>8, <2>1, <2>2, <2>3
  <1>9. CASE b.keep # 0
    <2>1. data_fifo' = Append(data_fifo, b)  BY <1>9 DEF Accept, DataFifoIn
    <2>2. BlockEnd(X, G, n) = Len(u)
      <3>1. PICK x \in Nat : x = X[n - 1]  BY <1>6
      <3>2. X[n] - X[n - 1] = Len(u) - f
        <4>1. Len(u) - f \in Int  BY <1>2, <1>5
        <4>2. PICK z \in Int : z = Len(u) - f  BY <4>1
        <4>3. X[n] = x + z  BY <1>6, <3>1, <4>2
        <4>4. (x + z) - x = z  OBVIOUS
        <4> QED BY <3>1, <4>2, <4>3, <4>4
      <3> QED BY <1>2, <1>5, <1>7, <3>2 DEF BlockEnd
    <2>3. PICK Y : Longer(X, Y, n)
      <3>1. PICK Z : Z = [X EXCEPT ![n] = @ + 1]  OBVIOUS
      <3>2. Z \in [0 .. n -> Nat] /\ (\A k \in 0 .. n - 1 : Z[k] = X[k]) /\ Z[n] = X[n] + 1
        BY <1>2, <3>1
      <3> QED BY <3>2 DEF Longer
    <2>4. /\ Offsets(Y, n, Len(out) + Len(Append(data_fifo, b)))
          /\ Filled(Append(u, b), out, Append(data_fifo, b), Y, G, n)
      <3>1. u \in Seq(Beat) /\ n \in Nat \ {0} /\ out \in Seq(OutBeat) /\ data_fifo \in Seq(Beat)
        BY <1>2, <1>3
      <3> QED BY <1>4, <2>2, <2>3, <3>1, FilledAccepts
    <2>5. Y[n] = Y[n - 1] + (Len(u) - f) + 1
      <3>1. n - 1 \in 0 .. n - 1  BY <1>2
      <3>2. Y[n - 1] = X[n - 1]  BY <2>3, <3>1 DEF Longer
      <3> QED BY <1>2, <1>5, <1>6, <2>3, <3>2 DEF Longer
    <2> QED BY <1>1, <1>5, <1>9, <2>1, <2>3, <2>4, <2>5 DEF Longer
  <1> QED BY <1>8, <1>9

\* What was sent and how it is marked depends on the first blocks alone.
LEMMA SentSame ==
  ASSUME TypeOK, NEW X, NEW Y, \A k \in 0 .. Len(sq) : Y[k] = X[k]
  PROVE  /\ SentPart(X) => SentPart(Y)
         /\ MarkPart(X) => MarkPart(Y)
  <1>1. Len(sq) \in Nat  BY DEF TypeOK, SqOK
  <1>2. Y[Len(sq)] = X[Len(sq)]
    <2>1. Len(sq) \in 0 .. Len(sq)  BY <1>1
    <2> QED BY <2>1
  <1>3. \A j \in 1 .. Len(sq) : Y[j - 1] = X[j - 1]
    <2>1. \A j \in 1 .. Len(sq) : j - 1 \in 0 .. Len(sq)  BY <1>1
    <2> QED BY <2>1
  <1>4. SentPart(X) => SentPart(Y)  BY <1>2 DEF SentPart
  <1>5. MarkPart(X) => MarkPart(Y)  BY <1>3 DEF MarkPart
  <1> QED BY <1>4, <1>5

\* The length a split enters into the length FIFO takes as many beats as the
\* split ends, a null beat not counted.
LEMMA SplitBeats ==
  ASSUME TypeOK, LengthHeld, NEW u \in Seq(Beat), NEW b \in Beat, NEW L,
         InputPart(u), WaitingPart(u, L), Accept(b)
  PROVE  NumBeats(curr_len + b.keep) = (Len(u) - L[Len(Waiting)]) + (IF b.keep = 0 THEN 0 ELSE 1)
  <1>1. PICK f : f = L[Len(Waiting)]  OBVIOUS
  <1>2. f \in Nat /\ f <= Len(u) /\ Len(u) \in Nat
    <2>1. Waiting \in Seq(Nat) /\ Len(Waiting) \in 0 .. Len(Waiting)  BY ViewTypes
    <2> QED BY <1>1, <2>1, CutBounds DEF WaitingPart
  <1>3. PICK m \in Nat : m = Len(u) - f  BY <1>2
  <1>4. curr_len = BEAT * m  BY <1>1, <1>3 DEF WaitingPart
  <1>5. b.keep \in 0 .. BEAT /\ BEAT \in Nat \ {0}  BY AcceptViews, WriterAssumption
  <1>6. NumBeats(BEAT * m + b.keep) = m + (IF b.keep = 0 THEN 0 ELSE 1)
    <2>1. CASE b.keep = 0
      <3>1. BEAT * m + b.keep = BEAT * m  BY <1>5, <2>1
      <3>2. NumBeats(BEAT * m) = m  BY <1>5, BeatsOfLength
      <3> QED BY <2>1, <3>1, <3>2
    <2>2. CASE b.keep # 0
      <3>1. NumBeats(BEAT * m + b.keep) = m + 1  BY <1>5, <2>2, BeatsOfLength
      <3> QED BY <2>2, <3>1
    <2> QED BY <2>1, <2>2
  <1> QED BY <1>1, <1>3, <1>4, <1>6

LEMMA AcceptData ==
  ASSUME TypeOK, LengthHeld, DataInv, NEW b \in Beat, Accept(b)
  PROVE  DataInv'
  <1>1. PICK u, P, p, L, X, G : Parts(u, P, p, L, X, G)  BY DEF DataInv
  <1>2. PICK v, l, done, n, S, N :
          v = Append(u, b) /\ l = L[0] /\ done = G[1] /\ n = BlockCount /\ S = Len(sq) /\ N = Len(Waiting)
    OBVIOUS
  <1>3. /\ u \in Seq(Beat) /\ Len(u) \in Nat /\ n \in Nat \ {0} /\ n = S + N + 1
        /\ S \in Nat /\ N \in Nat /\ p \in Nat /\ l \in Nat /\ p = P[Len(pending)]
        /\ G \in [1 .. n -> Nat] /\ v = undelivered' /\ Len(v) = Len(u) + 1
        /\ l <= Len(u)
    <2>1. 0 \in 0 .. Len(Waiting)  BY <1>1, PartsTypes
    <2>2. u = undelivered /\ u \in Seq(Beat)  BY <1>1, PartsTypes
    <2>3. v = undelivered' /\ Len(v) = Len(u) + 1  BY <1>2, <2>2, AcceptViews, PushFacts
    <2> QED BY <1>1, <1>2, <2>1, <2>3, PartsTypes
  <1>4. /\ UNCHANGED <<Written, Transferring, Ahead>>
        /\ UNCHANGED <<pending, sq, out, mem, hist, buffer, beats_written>>
    BY AcceptViews
  <1>5. /\ InputPart(u) /\ PendingPart(u, P) /\ WaitingPart(u, L) /\ CurrentPart(u, p, l)
        /\ AheadPart(u, p, l) /\ LastPart(l, G) /\ SentPart(X) /\ MarkPart(X) /\ BlocksPart(u, L, X, G)
    BY <1>1, <1>2 DEF Parts
  <1>6. InputPart(v)'  BY <1>2, <1>3, <1>5, AcceptViews, AcceptInput DEF Accept
  <1>7. PendingPart(v, P)'  BY <1>2, <1>3, <1>4, <1>5, AcceptPending
  <1>8. CurrentPart(v, p, l)' /\ AheadPart(v, p, l)'
    <2>1. CurrentPart(v, p, l) /\ AheadPart(v, p, l)  BY <1>2, <1>3, <1>5, ViewTypes, AcceptCurrent
    <2> QED BY <1>4, <2>1, PartFrames
  <1>9. RequestPart(v, P, l, G)  BY <1>1, <1>2, AcceptRequests
  <1>10. MemoryPart(v, P, l, done)'
    <2>1. MemoryPart(v, P, l, done)  BY <1>1, <1>2, AcceptMemory
    <2> QED BY <1>4, <2>1, PartFrames
  <1>11. PICK Y :
           /\ Offsets(Y, n, Len(out) + Len(data_fifo'))
           /\ Filled(v, out, data_fifo', Y, G, n)
           /\ \A k \in 0 .. n - 1 : Y[k] = X[k]
           /\ Y[n] = Y[n - 1] + (Len(u) - L[N]) + (IF b.keep = 0 THEN 0 ELSE 1)
    BY <1>1, <1>2, AcceptBlocks
  <1>12. SentPart(Y) /\ MarkPart(Y)
    <2>1. \A k \in 0 .. S : Y[k] = X[k]  BY <1>3, <1>11
    <2> QED BY <1>2, <1>5, <2>1, SentSame
  <1>13. L[N] \in Nat /\ L[N] <= Len(u) /\ Y[n] \in Nat /\ Y[n - 1] \in Nat
    <2>1. N \in 0 .. N /\ n \in 0 .. n /\ n - 1 \in 0 .. n  BY <1>3
    <2>2. Y \in [0 .. n -> Nat]  BY <1>11 DEF Offsets
    <2> QED BY <1>1, <1>2, <2>1, <2>2, PartsTypes
  <1>14. /\ \A i \in 0 .. N : G[S + 1 + i] = L[i]
         /\ \A j \in 1 .. S : Y[j] = Y[j - 1] + NumBeats(sq[j].len)
         /\ \A i \in 1 .. N : Y[S + i] = Y[S + i - 1] + NumBeats(Waiting[i])
    <2>1. /\ \A i \in 0 .. N : G[S + 1 + i] = L[i]
          /\ \A j \in 1 .. S : X[j] = X[j - 1] + NumBeats(sq[j].len)
          /\ \A i \in 1 .. N : X[S + i] = X[S + i - 1] + NumBeats(Waiting[i])
      BY <1>2, <1>5 DEF BlocksPart
    <2>2. \A j \in 1 .. S : Y[j] = X[j] /\ Y[j - 1] = X[j - 1]
      <3>1. \A j \in 1 .. S : j \in 0 .. n - 1 /\ j - 1 \in 0 .. n - 1  BY <1>3
      <3> QED BY <1>11, <3>1
    <2>3. \A i \in 1 .. N : Y[S + i] = X[S + i] /\ Y[S + i - 1] = X[S + i - 1]
      <3>1. \A i \in 1 .. N : S + i \in 0 .. n - 1 /\ S + i - 1 \in 0 .. n - 1  BY <1>3
      <3> QED BY <1>11, <3>1
    <2> QED BY <2>1, <2>2, <2>3
  <1>15. CASE ~IsSplit(b)
    <2>1. Waiting' = Waiting /\ ~b.last  BY <1>15, AcceptViews
    <2>2. WaitingPart(v, L)'  BY <1>2, <1>3, <1>5, <1>15, AcceptWaiting
    <2>3. BlockCount' = n  BY <1>2, <1>4, <2>1 DEF BlockCount
    <2>4. DataPart(v, Y, G)'  BY <1>4, <1>11, <2>3 DEF DataPart
    <2>5. Y[n] = Y[n - 1] + (Len(v) - L[N])
      <3>1. b.keep # 0  BY <2>1, WriterAssumption DEF Accept, LegalBeat
      <3> QED BY <1>3, <1>11, <1>13, <3>1
    <2>6. BlocksPart(v, L, Y, G)'  BY <1>2, <1>4, <1>14, <2>1, <2>3, <2>5 DEF BlocksPart
    <2>7. RequestPart(v, P, l, G)' /\ LastPart(l, G)' /\ SentPart(Y)' /\ MarkPart(Y)'
      BY <1>4, <1>5, <1>9, <1>12, PartFrames
    <2>8. Parts(v, P, p, L, Y, G)'
      BY <1>2, <1>3, <1>4, <1>6, <1>7, <1>8, <1>10, <2>2, <2>4, <2>6, <2>7 DEF Parts
    <2> QED BY <2>8 DEF DataInv
  <1>16. CASE IsSplit(b)
    <2>1. PICK x, W : x = curr_len + b.keep /\ x \in Nat /\ W = Append(Waiting, x)  BY AcceptViews
    <2>2. PICK M, Z, H, g : /\ g = Len(u) + 1 /\ M = Extended(L, N, Len(u) + 1)
                            /\ Z = OneMore(Y, n) /\ H = BlocksOneMore(G, n, g)
      OBVIOUS
    <2>3. Waiting' = W /\ Len(W) = N + 1 /\ (\A i \in 1 .. N : W[i] = Waiting[i]) /\ W[N + 1] = x
      <3>1. Waiting \in Seq(Nat)  BY ViewTypes
      <3> QED BY <1>2, <1>16, <2>1, <3>1, AcceptViews, PushFacts
    <2>4. WaitingPart(v, M)'  BY <1>2, <1>3, <1>5, <1>16, <2>2, AcceptWaiting
    <2>5. BlockCount' = n + 1  BY <1>2, <1>3, <1>4, <2>3 DEF BlockCount
    <2>6. /\ Offsets(Z, n + 1, Len(out) + Len(data_fifo')) /\ Filled(v, out, data_fifo', Z, H, n + 1)
          /\ (\A k \in 0 .. n : Z[k] = Y[k]) /\ Z[n + 1] = Y[n]
      <3>1. PICK e : e = Len(out) + Len(data_fifo')  OBVIOUS
      <3>2. e \in Nat
        <4>1. n \in 0 .. n  BY <1>3
        <4> QED BY <1>11, <1>13, <3>1, <4>1 DEF Offsets
      <3>3. v \in Seq(Beat)
        <4>1. Append(u, b) \in Seq(Beat)  BY <1>3, PushFacts
        <4> QED BY <1>2, <4>1
      <3>4. g \in Nat  BY <1>3, <2>2
      <3>7. PICK o, d : o = out /\ d = data_fifo'  OBVIOUS
      <3>5. n \in Nat /\ Offsets(Y, n, e) /\ Filled(v, o, d, Y, G, n)  BY <1>3, <1>11, <3>1, <3>7
      <3>6. /\ Offsets(OneMore(Y, n), n + 1, e)
            /\ Filled(v, o, d, OneMore(Y, n), BlocksOneMore(G, n, g), n + 1)
        <4>1. Offsets(OneMore(Y, n), n + 1, e)  BY <3>2, <3>3, <3>4, <3>5, OneMoreBlock
        <4>2. Filled(v, o, d, OneMore(Y, n), BlocksOneMore(G, n, g), n + 1)
          BY <3>2, <3>3, <3>4, <3>5, OneMoreBlock
        <4> QED BY <4>1, <4>2
      <3>8. (\A k \in 0 .. n : Z[k] = Y[k]) /\ Z[n + 1] = Y[n]
        <4>1. Z = [k \in 0 .. n + 1 |-> IF k <= n THEN Y[k] ELSE Y[n]]  BY <2>2 DEF OneMore
        <4>2. (\A k \in 0 .. n : k \in 0 .. n + 1 /\ k <= n) /\ n + 1 \in 0 .. n + 1 /\ ~(n + 1 <= n)
          BY <1>3
        <4> QED BY <4>1, <4>2
      <3> QED BY <2>2, <3>1, <3>6, <3>7, <3>8
    <2>7. (\A k \in 1 .. n : H[k] = G[k]) /\ H[n + 1] = g
      <3>1. H = [k \in 1 .. n + 1 |-> IF k <= n THEN G[k] ELSE g]  BY <2>2 DEF BlocksOneMore
      <3>2. (\A k \in 1 .. n : k \in 1 .. n + 1 /\ k <= n) /\ n + 1 \in 1 .. n + 1 /\ ~(n + 1 <= n)
        BY <1>3
      <3> QED BY <3>1, <3>2
    <2>8. (\A k \in 0 .. N : M[k] = L[k]) /\ M[N + 1] = Len(u) + 1
      <3>1. M = [k \in 0 .. N + 1 |-> IF k <= N THEN L[k] ELSE Len(u) + 1]  BY <2>2 DEF Extended
      <3>2. (\A k \in 0 .. N : k \in 0 .. N + 1 /\ k <= N) /\ N + 1 \in 0 .. N + 1 /\ ~(N + 1 <= N)
        BY <1>3
      <3> QED BY <3>1, <3>2
    <2>9. M[0] = l /\ H[1] = done
      <3>1. 0 \in 0 .. N /\ 1 \in 1 .. n  BY <1>3
      <3> QED BY <1>2, <2>7, <2>8, <3>1
    <2>10. DataPart(v, Z, H)'  BY <1>4, <2>5, <2>6 DEF DataPart
    <2>11. \A i \in 0 .. N + 1 : H[S + 1 + i] = M[i]
      <3> SUFFICES ASSUME NEW i \in 0 .. N + 1
                   PROVE  H[S + 1 + i] = M[i]
        OBVIOUS
      <3>1. CASE i = N + 1
        <4>1. S + 1 + i = n + 1  BY <1>3, <3>1
        <4> QED BY <2>2, <2>7, <2>8, <3>1, <4>1
      <3>2. CASE i # N + 1
        <4>1. i \in 0 .. N /\ S + 1 + i \in 1 .. n  BY <1>3, <3>2
        <4> QED BY <1>14, <2>7, <2>8, <4>1
      <3> QED BY <3>1, <3>2
    <2>12. \A j \in 1 .. S : Z[j] = Z[j - 1] + NumBeats(sq[j].len)
      <3>1. \A j \in 1 .. S : j \in 0 .. n /\ j - 1 \in 0 .. n  BY <1>3
      <3> QED BY <1>14, <2>6, <3>1
    <2>13. \A i \in 1 .. N + 1 : Z[S + i] = Z[S + i - 1] + NumBeats(W[i])
      <3> SUFFICES ASSUME NEW i \in 1 .. N + 1
                   PROVE  Z[S + i] = Z[S + i - 1] + NumBeats(W[i])
        OBVIOUS
      <3>1. S + i \in 0 .. n /\ S + i - 1 \in 0 .. n  BY <1>3
      <3>2. CASE i = N + 1
        <4>1. S + i = n /\ S + i - 1 = n - 1  BY <1>3, <3>2
        <4>2. NumBeats(x) = (Len(u) - L[N]) + (IF b.keep = 0 THEN 0 ELSE 1)
          BY <1>2, <1>3, <1>5, <2>1, SplitBeats
        <4>3. Y[n] = Y[n - 1] + NumBeats(x)
          <5>1. PICK e : e = IF b.keep = 0 THEN 0 ELSE 1  OBVIOUS
          <5>2. PICK q \in Nat, z \in Nat, y \in Nat : q = L[N] /\ z = Y[n] /\ y = Y[n - 1]
            BY <1>13
          <5>3. e \in Nat /\ q <= Len(u) /\ Len(u) \in Nat /\ z = y + (Len(u) - q) + e
            BY <1>3, <1>11, <1>13, <5>1, <5>2
          <5>4. z = y + ((Len(u) - q) + e)  BY <5>3
          <5> QED BY <4>2, <5>1, <5>2, <5>4
        <4>4. Z[S + i] = Y[n] /\ Z[S + i - 1] = Y[n - 1]  BY <2>6, <3>1, <4>1
        <4>5. W[i] = x  BY <2>3, <3>2
        <4> QED BY <4>3, <4>4, <4>5
      <3>3. CASE i # N + 1
        <4>1. i \in 1 .. N  BY <1>3, <3>3
        <4> QED BY <1>14, <2>3, <2>6, <3>1, <4>1
      <3> QED BY <3>2, <3>3
    <2>14. Z[n + 1] = Z[n] + (Len(v) - M[N + 1])
      <3>1. n \in 0 .. n  BY <1>3
      <3>2. Len(v) - M[N + 1] = 0  BY <1>3, <2>8
      <3> QED BY <1>13, <2>6, <3>1, <3>2
    <2>15. BlocksPart(v, M, Z, H)'
      <3>1. n + 1 - 1 = n  BY <1>3
      <3>2. Len(sq') = S /\ sq' = sq /\ Len(Waiting') = N + 1 /\ Waiting' = W  BY <1>2, <1>4, <2>3
      <3>3. \A i \in 0 .. Len(Waiting') : H[Len(sq') + 1 + i] = M[i]  BY <2>11, <3>2
      <3>4. \A j \in 1 .. Len(sq') : Z[j] = Z[j - 1] + NumBeats(sq'[j].len)  BY <2>12, <3>2
      <3>5. \A i \in 1 .. Len(Waiting') : Z[Len(sq') + i] = Z[Len(sq') + i - 1] + NumBeats(Waiting'[i])
        BY <2>13, <3>2
      <3>6. Z[BlockCount'] = Z[BlockCount' - 1] + (Len(v) - M[Len(Waiting')])
        <4>1. BlockCount' - 1 = n  BY <1>3, <2>5
        <4> QED BY <2>5, <2>14, <3>2, <4>1
      <3> QED BY <3>3, <3>4, <3>5, <3>6, Zenon DEF BlocksPart
    <2>16. RequestPart(v, P, l, H) /\ LastPart(l, H)
      <3>1. \A j \in 1 .. Len(sq) : H[j] = G[j] /\ H[j + 1] = G[j + 1]
        <4>1. \A j \in 1 .. Len(sq) : j \in 1 .. n /\ j + 1 \in 1 .. n  BY <1>2, <1>3
        <4> QED BY <2>7, <4>1
      <3> QED BY <1>5, <1>9, <3>1, RequestsSame
    <2>17. SentPart(Z) /\ MarkPart(Z)
      <3>1. \A k \in 0 .. Len(sq) : Z[k] = Y[k]  BY <1>2, <1>3, <2>6
      <3> QED BY <1>12, <3>1, SentSame
    <2>18. RequestPart(v, P, l, H)' /\ LastPart(l, H)' /\ SentPart(Z)' /\ MarkPart(Z)'
      BY <1>4, <2>16, <2>17, PartFrames
    <2>19. Parts(v, P, p, M, Z, H)'
      BY <1>2, <1>3, <1>4, <1>6, <1>7, <1>8, <1>10, <2>4, <2>9, <2>10, <2>15, <2>18 DEF Parts
    <2> QED BY <2>19 DEF DataInv
  <1> QED BY <1>15, <1>16

----
(* A request is sent.                                                       *)

\* Full beats of a stream that goes on behind them.
GoesOn(u, p, l, w) ==
  /\ w = BEAT * (l - p) /\ (w = 0 => l = p)
  /\ w # 0 => Piece(u, p, l, w) /\ ~u[l].last

\* Two pieces of one stream are a piece.
LEMMA PieceJoin ==
  ASSUME NEW u \in Seq(Beat), Suppressed(u), NEW p \in Nat, NEW l \in Nat, NEW m \in Nat,
         NEW w \in Nat, NEW h \in Nat, h # 0, p <= l, GoesOn(u, p, l, w), Piece(u, l, m, h)
  PROVE  Piece(u, p, m, w + h) /\ m = p + NumBeats(w + h) /\ w + h \in Nat /\ w + h # 0
  <1>1. /\ m = l + Blocks(h) /\ m <= Len(u) /\ h = BEAT * (m - l - 1) + u[m].keep
        /\ \A i \in l + 1 .. m - 1 : ~u[i].last
    BY DEF Piece
  <1>2. l < m /\ m \in 1 .. Len(u) /\ Len(u) \in Nat  BY PieceFacts
  <1>3. BEAT \in Nat \ {0} /\ u[m].keep \in 0 .. BEAT  BY <1>2, BeatTypes, WriterAssumption
  <1>4. u[m].keep # 0
    <2>1. m \in l + 1 .. m  BY <1>2
    <2> QED BY <2>1, PieceFacts
  <1>5. PICK q \in Nat, r \in Nat, e \in 0 .. BEAT : q = l - p /\ r = m - l - 1 /\ e = u[m].keep
    <2>1. l - p \in Nat /\ m - l - 1 \in Nat  BY <1>2
    <2>2. PICK q \in Nat, r \in Nat : q = l - p /\ r = m - l - 1  BY <2>1
    <2>3. PICK e : e = u[m].keep  OBVIOUS
    <2>4. e \in 0 .. BEAT  BY <1>3, <2>3
    <2> QED BY <2>2, <2>3, <2>4
  <1>6. w + h = BEAT * (q + r) + e
    <2>1. w = BEAT * q /\ h = BEAT * r + e  BY <1>1, <1>5 DEF GoesOn
    <2>2. BEAT * (q + r) = BEAT * q + BEAT * r  BY <1>3, <1>5
    <2>3. BEAT * q \in Nat /\ BEAT * r \in Nat /\ e \in Nat  BY <1>3, <1>5
    <2> QED BY <2>1, <2>2, <2>3
  <1>7. w + h \in Nat /\ w + h # 0  OBVIOUS
  <1>8. NumBeats(w + h) = q + r + 1
    <2>1. PICK y \in Nat : y = q + r  BY <1>5
    <2>2. e # 0 /\ e \in 0 .. BEAT  BY <1>4, <1>5
    <2>3. NumBeats(BEAT * y + e) = y + 1  BY <2>2, BeatsOfLength
    <2> QED BY <1>6, <2>1, <2>3
  <1>9. m = p + NumBeats(w + h) /\ m - p - 1 = q + r
    <2>1. m = p + (q + r + 1) /\ m - p - 1 = q + r  BY <1>2, <1>5
    <2> QED BY <1>8, <2>1
  <1>10. Blocks(w + h) = NumBeats(w + h)  BY <1>7 DEF Blocks
  <1>11. ASSUME NEW i \in p + 1 .. m - 1
         PROVE  ~u[i].last
    <2>1. CASE i \in l + 1 .. m - 1  BY <1>1, <2>1
    <2>2. CASE i <= l
      <3>1. l # p  BY <2>2
      <3>2. Piece(u, p, l, w) /\ ~u[l].last  BY <3>1 DEF GoesOn
      <3>3. i = l \/ i \in p + 1 .. l - 1  BY <2>2
      <3> QED BY <3>2, <3>3 DEF Piece
    <2> QED BY <2>1, <2>2
  <1>12. w + h = BEAT * (m - p - 1) + u[m].keep  BY <1>5, <1>6, <1>9
  <1>13. Piece(u, p, m, w + h)  BY <1>1, <1>9, <1>10, <1>11, <1>12 DEF Piece
  <1> QED BY <1>7, <1>9, <1>13

\* Everything before the first request's beats is complete.
LEMMA DoneBound ==
  ASSUME TypeOK, LengthHeld, NEW u, NEW P, NEW p, NEW L, NEW X, NEW G, Parts(u, P, p, L, X, G)
  PROVE  G[1] \in Nat /\ G[1] <= L[0]
  <1>1. G[Len(sq) + 1] = L[0] /\ L[0] \in Nat /\ Len(sq) \in Nat  BY PartsTypes
  <1>2. CASE Len(sq) = 0  BY <1>1, <1>2
  <1>3. CASE Len(sq) # 0
    <2>1. 1 \in 1 .. Len(sq)  BY <1>1, <1>3
    <2>2. PICK n \in Nat : n = NumBeats(sq[1].len)  BY <2>1, RequestBounds
    <2>3. G[1] \in Nat /\ G[1] + n <= L[0]  BY <2>1, <2>2, RequestBounds
    <2> QED BY <1>1, <2>2, <2>3
  <1> QED BY <1>2, <1>3

LEMMA StoredWithin ==
  ASSUME NEW u, NEW f \in Nat, NEW l \in Nat, NEW m \in Nat, NEW done \in Nat, l <= m, done <= l
  PROVE  Stored(u, f, m, done) = Stored(u, f, l, done)
  <1>1. {j \in f + 1 .. m : j <= done} = {j \in f + 1 .. l : j <= done}  OBVIOUS
  <1> QED BY <1>1 DEF Stored

LEMMA StoredNone ==
  ASSUME NEW u, NEW f \in Nat, NEW m \in Nat, NEW done \in Nat, done <= f
  PROVE  Stored(u, f, m, done) = {}
  <1>1. {j \in f + 1 .. m : j <= done} = {}  OBVIOUS
  <1> QED BY <1>1 DEF Stored

LEMMA RequestViews ==
  ASSUME TypeOK, CompletionInv, Request
  PROVE  /\ ~Transferring /\ Transferring' /\ Active /\ Active'
         /\ Waiting # <<>> /\ Waiting = len_fifo
         /\ Head(Waiting) \in Nat /\ Head(Waiting) # 0
         /\ Written = bytes_written /\ Written' = Written + Head(Waiting)
         /\ Ahead' = Head(Waiting) /\ Waiting' = Tail(Waiting)
         /\ beats_written' = 0 /\ hist'.sent = hist.sent
         /\ UNCHANGED <<pending, out, data_fifo, mem, undelivered, curr_len, mid_stream, buffer>>
         /\ \E r \in TransferRequest :
              /\ sq' = Append(sq, r) /\ r.id = buffer.id /\ r.off = Written
              /\ r.len = Head(Waiting) /\ r.entry = hist.sent + Len(pending) + 1
  <1>1. output_state = "REQUEST" /\ output_state' = "TRANSFER"  BY DEF Request
  <1>2. ~Transferring /\ Transferring' /\ Active /\ Active'  BY <1>1 DEF Transferring, Active
  <1>3. Waiting = len_fifo /\ Written = bytes_written  BY <1>2 DEF Waiting, Written
  <1>4. len_fifo # <<>> /\ Head(len_fifo) # 0 /\ len_fifo' = len_fifo
        /\ bytes_written' = bytes_written + Head(len_fifo)
    BY DEF Request, CanRequest, inputVars
  <1>5. Head(len_fifo) \in Nat  BY <1>4, PopFacts DEF TypeOK, InputOK
  <1>6. Written' = bytes_written' /\ Ahead' = Head(len_fifo') /\ Waiting' = Tail(len_fifo')
    BY <1>2 DEF Waiting, Written, Ahead
  <1>7. beats_written' = 0
        /\ UNCHANGED <<pending, out, data_fifo, mem, undelivered, curr_len, mid_stream, buffer>>
    BY DEF Request, inputVars
  <1>8. hist'.sent = hist.sent
    <2>1. hist' = [hist EXCEPT !.requested = @ + 1]  BY DEF Request
    <2> QED BY <2>1 DEF TypeOK, HistOK
  <1>9. PICK r : r = [id |-> buffer.id, off |-> bytes_written, len |-> Head(len_fifo), entry |-> hist.pushed + 1]
    OBVIOUS
  <1>10. r \in TransferRequest
    <2>1. buffer.id \in Nat /\ bytes_written \in Nat /\ hist.pushed + 1 \in Nat
      BY HistNat DEF TypeOK, FsmOK
    <2> QED BY <1>5, <1>9, <2>1 DEF TransferRequest
  <1>11. sq' = Append(sq, r)  BY <1>9 DEF Request
  <1>12. hist.pushed + 1 = hist.sent + Len(pending) + 1  BY DEF CompletionInv, CountsAgree
  <1>13. r.id = buffer.id /\ r.off = Written /\ r.len = Head(Waiting) /\ r.entry = hist.sent + Len(pending) + 1
    BY <1>3, <1>9, <1>12
  <1> QED BY <1>2, <1>3, <1>4, <1>5, <1>6, <1>7, <1>8, <1>10, <1>11, <1>13

\* The lengths behind the first one.
LEMMA RestWaiting ==
  ASSUME NEW u \in Seq(Beat), NEW L, NEW W \in Seq(Nat), W # <<>>, Cut(u, L, W), NEW M,
         M = Rest(L, Len(W))
  PROVE  /\ Cut(u, M, Tail(W)) /\ Len(W) \in Nat \ {0} /\ Len(Tail(W)) = Len(W) - 1
         /\ \A k \in 0 .. Len(W) - 1 : M[k] = L[k + 1]
         /\ \A k \in 1 .. Len(W) - 1 : Tail(W)[k] = W[k + 1]
         /\ M[0] = L[1] /\ M[Len(W) - 1] = L[Len(W)] /\ Head(W) = W[1]
         /\ L[0] \in Nat /\ L[1] \in Nat /\ L[1] <= Len(u) /\ L[0] < L[1]
         /\ Piece(u, L[0], L[1], Head(W))
  <1>1. Len(W) \in Nat \ {0} /\ Len(Tail(W)) = Len(W) - 1 /\ Head(W) = W[1]
        /\ \A k \in 1 .. Len(W) - 1 : Tail(W)[k] = W[k + 1]
    BY PopFacts
  <1>2. Cut(u, M, Tail(W))  BY CutRest
  <1>3. \A k \in 0 .. Len(W) - 1 : M[k] = L[k + 1]  BY DEF Rest
  <1>4. M[0] = L[1] /\ M[Len(W) - 1] = L[Len(W)]
    <2>1. 0 \in 0 .. Len(W) - 1 /\ Len(W) - 1 \in 0 .. Len(W) - 1 /\ (Len(W) - 1) + 1 = Len(W) /\ 0 + 1 = 1
      BY <1>1
    <2> QED BY <1>3, <2>1
  <1>5. L[0] \in Nat /\ L[1] \in Nat /\ L[1] <= Len(u) /\ L[0] < L[1]
    <2>1. 1 \in 1 .. Len(W) /\ 1 - 1 = 0  BY <1>1
    <2>2. L[1 - 1] \in Nat /\ L[1 - 1] < L[1] /\ L[1] \in 1 .. Len(u)  BY <2>1, CutBounds
    <2>3. L[0] \in Nat /\ L[0] < L[1] /\ L[1] \in 1 .. Len(u)  BY <2>1, <2>2
    <2>4. Len(u) \in Nat  OBVIOUS
    <2> QED BY <2>3, <2>4
  <1>6. Piece(u, L[0], L[1], Head(W))
    <2>1. 1 \in 1 .. Len(W) /\ 1 - 1 = 0  BY <1>1
    <2>2. Piece(u, L[1 - 1], L[1], W[1])  BY <2>1 DEF Cut
    <2> QED BY <1>1, <2>1, <2>2
  <1> QED BY <1>1, <1>2, <1>3, <1>4, <1>5, <1>6

\* The lengths that wait when the first one is taken.
LEMMA RestWaitingPart ==
  ASSUME TypeOK, LengthHeld, NEW u \in Seq(Beat), NEW L, WaitingPart(u, L), Waiting # <<>>, NEW M,
         M = Rest(L, Len(Waiting)), Waiting' = Tail(Waiting), curr_len' = curr_len
  PROVE  WaitingPart(u, M)'
  <1>1. PICK W, N : W = Waiting /\ N = Len(W)  OBVIOUS
  <1>2. W \in Seq(Nat)  BY <1>1, ViewTypes
  <1>3. /\ Cut(u, L, W) /\ (\A k \in 1 .. N : u[L[k]].last \/ W[k] = TRANSFER)
        /\ curr_len = BEAT * (Len(u) - L[N]) /\ \A i \in L[N] + 1 .. Len(u) : ~u[i].last
    BY <1>1 DEF WaitingPart
  <1>4. PICK V : V = Tail(W)  OBVIOUS
  <1>5. /\ Cut(u, M, V) /\ N \in Nat \ {0} /\ Len(V) = N - 1
        /\ (\A k \in 0 .. N - 1 : M[k] = L[k + 1])
        /\ (\A k \in 1 .. N - 1 : V[k] = W[k + 1]) /\ M[N - 1] = L[N]
    BY <1>1, <1>2, <1>3, <1>4, RestWaiting
  <1>6. \A k \in 1 .. N - 1 : u[M[k]].last \/ V[k] = TRANSFER
    <2>1. \A k \in 1 .. N - 1 : k + 1 \in 1 .. N /\ k \in 0 .. N - 1  BY <1>5
    <2> QED BY <1>3, <1>5, <2>1
  <1>7. Waiting' = V  BY <1>1, <1>4
  <1> QED BY <1>3, <1>5, <1>6, <1>7 DEF WaitingPart

\* The blocks, when the first length becomes a request.
LEMMA RequestBlocks ==
  ASSUME TypeOK, LengthHeld, NEW u \in Seq(Beat), NEW L, NEW X, NEW G, NEW M, NEW r \in TransferRequest,
         Cut(u, L, Waiting), BlocksPart(u, L, X, G), Waiting # <<>>,
         M = Rest(L, Len(Waiting)), Waiting' = Tail(Waiting), sq' = Append(sq, r), r.len = Head(Waiting)
  PROVE  BlockCount' = BlockCount /\ BlocksPart(u, M, X, G)'
  <1>1. PICK W, N, S, V, T : W = Waiting /\ N = Len(W) /\ S = Len(sq) /\ V = Tail(W) /\ T = Append(sq, r)
    OBVIOUS
  <1>2. W \in Seq(Nat) /\ sq \in Seq(TransferRequest)  BY <1>1, ViewTypes DEF TypeOK, SqOK
  <1>3. /\ S \in Nat /\ Len(T) = S + 1 /\ (\A j \in 1 .. S : T[j] = sq[j]) /\ T[S + 1] = r
    BY <1>1, <1>2, PushFacts
  <1>4. /\ N \in Nat \ {0} /\ Len(V) = N - 1 /\ (\A k \in 0 .. N - 1 : M[k] = L[k + 1])
        /\ (\A k \in 1 .. N - 1 : V[k] = W[k + 1]) /\ M[N - 1] = L[N] /\ Head(W) = W[1]
    BY <1>1, <1>2, RestWaiting
  <1>5. BlockCount = S + N + 1 /\ BlockCount' = (S + 1) + (N - 1) + 1 /\ BlockCount' = BlockCount
    BY <1>1, <1>3, <1>4 DEF BlockCount
  <1>6. /\ \A i \in 0 .. N : G[S + 1 + i] = L[i]
        /\ \A j \in 1 .. S : X[j] = X[j - 1] + NumBeats(sq[j].len)
        /\ \A i \in 1 .. N : X[S + i] = X[S + i - 1] + NumBeats(W[i])
        /\ X[BlockCount] = X[BlockCount - 1] + (Len(u) - L[N])
    BY <1>1 DEF BlocksPart
  <1>7. \A i \in 0 .. N - 1 : G[S + 1 + 1 + i] = M[i]
    <2> SUFFICES ASSUME NEW i \in 0 .. N - 1
                 PROVE  G[S + 1 + 1 + i] = M[i]
      OBVIOUS
    <2>1. i + 1 \in 0 .. N /\ S + 1 + (i + 1) = S + 1 + 1 + i
      <3>1. S \in Nat /\ N \in Nat \ {0} /\ i \in Nat /\ i <= N - 1  BY <1>3, <1>4
      <3> QED BY <3>1
    <2>2. G[S + 1 + (i + 1)] = L[i + 1]  BY <1>6, <2>1
    <2> QED BY <1>4, <2>1, <2>2
  <1>8. \A j \in 1 .. S + 1 : X[j] = X[j - 1] + NumBeats(T[j].len)
    <2> SUFFICES ASSUME NEW j \in 1 .. S + 1
                 PROVE  X[j] = X[j - 1] + NumBeats(T[j].len)
      OBVIOUS
    <2>1. CASE j = S + 1
      <3>1. 1 \in 1 .. N /\ S + 1 - 1 = j - 1  BY <1>3, <1>4, <2>1
      <3>2. X[S + 1] = X[S + 1 - 1] + NumBeats(W[1])  BY <1>6, <3>1
      <3>3. T[j].len = W[1]  BY <1>1, <1>3, <1>4, <2>1
      <3> QED BY <2>1, <3>1, <3>2, <3>3
    <2>2. CASE j # S + 1
      <3>1. j \in 1 .. S  BY <1>3, <2>2
      <3> QED BY <1>3, <1>6, <3>1
    <2> QED BY <2>1, <2>2
  <1>9. \A i \in 1 .. N - 1 : X[S + 1 + i] = X[S + 1 + i - 1] + NumBeats(V[i])
    <2> SUFFICES ASSUME NEW i \in 1 .. N - 1
                 PROVE  X[S + 1 + i] = X[S + 1 + i - 1] + NumBeats(V[i])
      OBVIOUS
    <2>1. i + 1 \in 1 .. N /\ S + (i + 1) = S + 1 + i /\ S + (i + 1) - 1 = S + 1 + i - 1
      BY <1>3, <1>4
    <2>2. X[S + (i + 1)] = X[S + (i + 1) - 1] + NumBeats(W[i + 1])  BY <1>6, <2>1
    <2> QED BY <1>4, <2>1, <2>2
  <1>10. X[BlockCount'] = X[BlockCount' - 1] + (Len(u) - M[N - 1])  BY <1>4, <1>5, <1>6
  <1>11. sq' = T /\ Len(sq') = S + 1 /\ Waiting' = V /\ Len(Waiting') = N - 1  BY <1>1, <1>3, <1>4
  <1>12. BlocksPart(u, M, X, G)'
    <2>1. \A i \in 0 .. Len(Waiting') : G[Len(sq') + 1 + i] = M[i]  BY <1>7, <1>11
    <2>2. \A j \in 1 .. Len(sq') : X[j] = X[j - 1] + NumBeats(sq'[j].len)  BY <1>8, <1>11
    <2>3. \A i \in 1 .. Len(Waiting') : X[Len(sq') + i] = X[Len(sq') + i - 1] + NumBeats(Waiting'[i])
      BY <1>9, <1>11
    <2>4. X[BlockCount'] = X[BlockCount' - 1] + (Len(u) - M[Len(Waiting')])  BY <1>10, <1>11
    <2> QED BY <2>1, <2>2, <2>3, <2>4, Zenon DEF BlocksPart
  <1> QED BY <1>5, <1>12

LEMMA RequestMemory ==
  ASSUME TypeOK, IdsInv, Active, NEW u, NEW P, NEW p \in Nat, NEW l \in Nat, NEW m \in Nat, NEW done \in Nat,
         p = P[Len(pending)], p <= l, l <= m, done <= l, Written = 0 => l = p,
         MemoryPart(u, P, l, done), UNCHANGED <<pending, mem, buffer>>, Written' # 0
  PROVE  MemoryPart(u, P, m, done)'
  <1>1. /\ \A k \in 1 .. Len(pending) : pending[k].size # 0 =>
             mem[pending[k].id] = Stored(u, P[k - 1], P[k], done)
        /\ Written # 0 => mem[buffer.id] = Stored(u, P[Len(pending)], l, done)
        /\ \A b \in BufferIds : ~Holds(b) => mem[b] = {}
    BY DEF MemoryPart
  <1>2. mem[buffer.id] = Stored(u, p, m, done)
    <2>1. CASE Written # 0  BY <1>1, <2>1, StoredWithin
    <2>2. CASE Written = 0
      <3>1. buffer.id \in BufferIds /\ \A k \in 1 .. Len(pending) : pending[k].size # 0 => pending[k].id # buffer.id
        BY DEF IdsInv, IdsKnown, PendingApart
      <3>2. ~Holds(buffer.id)  BY <2>2, <3>1 DEF Holds
      <3>3. Stored(u, p, m, done) = {}  BY <2>2, StoredNone
      <3> QED BY <1>1, <3>1, <3>2, <3>3
    <2> QED BY <2>1, <2>2
  <1>3. ASSUME NEW b \in BufferIds, ~Holds(b)'
        PROVE  mem[b] = {}
    <2>1. ~Holds(b)  BY <1>3 DEF Holds
    <2> QED BY <1>1, <2>1
  <1> QED BY <1>1, <1>2, <1>3 DEF MemoryPart


LEMMA RequestRequests ==
  ASSUME TypeOK, LengthHeld, CompletionInv, NEW u, NEW P, NEW p, NEW L, NEW X, NEW G, NEW m,
         Parts(u, P, p, L, X, G), Request, m = L[1]
  PROVE  RequestPart(u, P, m, G)' /\ LastPart(m, G)'
  <1>1. PICK K, S, N, l, h : K = Len(pending) /\ S = Len(sq) /\ N = Len(Waiting) /\ l = L[0] /\ h = Head(Waiting)
    OBVIOUS
  <1>2. /\ Waiting # <<>> /\ h \in Nat /\ h # 0 /\ ~Transferring /\ Transferring' /\ Ahead' = h
        /\ Written' = Written + h /\ hist'.sent = hist.sent /\ UNCHANGED <<pending, buffer>>
    BY <1>1, RequestViews
  <1>3. PICK r \in TransferRequest :
          /\ sq' = Append(sq, r) /\ r.id = buffer.id /\ r.off = Written
          /\ r.len = h /\ r.entry = hist.sent + K + 1
    BY <1>1, RequestViews
  <1>4. /\ u \in Seq(Beat) /\ K \in Nat /\ S \in Nat /\ p \in Nat /\ p = P[K] /\ l \in Nat /\ p <= l
        /\ G[S + 1] = l
    BY <1>1, PartsTypes
  <1>5. m \in Nat /\ l < m /\ Piece(u, l, m, h) /\ N \in Nat \ {0}
    <2>1. Waiting \in Seq(Nat) /\ Cut(u, L, Waiting)  BY ViewTypes DEF Parts, WaitingPart
    <2>2. PICK W, M : W = Waiting /\ M = Rest(L, Len(W))  OBVIOUS
    <2>3. L[1] \in Nat /\ L[0] < L[1] /\ Piece(u, L[0], L[1], Head(W)) /\ Len(W) \in Nat \ {0}
      <3>1. u \in Seq(Beat) /\ W \in Seq(Nat) /\ W # <<>> /\ Cut(u, L, W)  BY <1>2, <1>4, <2>1, <2>2
      <3> QED BY <2>2, <3>1, RestWaiting
    <2> QED BY <1>1, <2>2, <2>3
  <1>6. G[S + 2] = m
    <2>1. 1 \in 0 .. N /\ S + 1 + 1 = S + 2  BY <1>4, <1>5
    <2>2. G[S + 1 + 1] = L[1]  BY <1>1, <2>1 DEF Parts, BlocksPart
    <2> QED BY <2>1, <2>2
  <1>7. PICK T : T = Append(sq, r)  OBVIOUS
  <1>8. sq' = T /\ Len(T) = S + 1 /\ (\A j \in 1 .. S : T[j] = sq[j]) /\ T[S + 1] = r
    <2>1. sq \in Seq(TransferRequest)  BY DEF TypeOK, SqOK
    <2> QED BY <1>1, <1>3, <1>7, <2>1, PushFacts
  <1>9. hist.sent \in Nat /\ Written \in Nat /\ Written = BEAT * (l - p)
    <2>1. Written = BEAT * (l - p)  BY <1>1, <1>2 DEF Parts, CurrentPart
    <2> QED BY <2>1, ViewTypes
  <1>10. Written' # 0  BY <1>2, <1>9
  <1>11. Entry(S + 1)' = K + 1
    <2>1. r.entry - hist.sent = K + 1  BY <1>3, <1>4, <1>9
    <2> QED BY <1>2, <1>8, <2>1 DEF Entry
  <1>12. \A j \in 1 .. S : Entry(j)' = Entry(j)  BY <1>2, <1>8 DEF Entry
  <1>13. NumBeats(h) \in Nat \ {0} /\ m = l + NumBeats(h)
    <2>1. NumBeats(h) \in Nat \ {0}  BY <1>2, SomeBeats
    <2> QED BY <1>2, <1>5, <2>1 DEF Piece, Blocks
  <1>14. ASSUME NEW j \in 1 .. S
         PROVE  RequestAt(u, P, m, G, j, Entry(j), NumBeats(sq[j].len))'
    <2>1. PICK k, n, q : k = Entry(j) /\ n = NumBeats(sq[j].len) /\ q = sq[j]  OBVIOUS
    <2>2. k = Entry(j)' /\ n = NumBeats(sq'[j].len) /\ q = sq'[j]  BY <1>8, <1>12, <2>1
    <2>3. RequestAt(u, P, l, G, j, k, n)  BY <1>1, <2>1, RequestBounds
    <2>4. n \in Nat /\ G[j] \in Nat /\ G[j] + n <= l  BY <1>1, <2>1, RequestBounds
    <2>5. G[j] + n <= m  BY <1>4, <1>5, <2>4
    <2>6. RequestAt(u, P, m, G, j, k, n)'  BY <1>2, <1>10, <2>1, <2>2, <2>3, <2>5 DEF RequestAt
    <2> QED BY <2>2, <2>6
  <1>15. RequestAt(u, P, m, G, S + 1, Entry(S + 1), NumBeats(sq[S + 1].len))'
    <2>1. PICK j, n, k : j = S + 1 /\ n = NumBeats(h) /\ k = K + 1  OBVIOUS
    <2>2. /\ k - 1 = K /\ ~(k <= K) /\ k \in 1 .. K + 1 /\ j + 1 = S + 2  BY <1>4, <2>1
    <2>3. G[j] = l /\ G[j + 1] = m /\ l + n = m /\ P[k - 1] = p  BY <1>4, <1>6, <1>13, <2>1, <2>2
    <2>4. m <= m /\ \A i \in m + 1 .. m : u[i].keep = 0  BY <1>5
    <2>5. sq'[j] = r /\ Len(pending') = K /\ buffer' = buffer  BY <1>1, <1>2, <1>8, <2>1
    <2>6. RequestAt(u, P, m, G, j, k, n)'
      <3>1. k \in 1 .. Len(pending') + 1 /\ ~(k <= Len(pending'))  BY <2>2, <2>5
      <3>2. P[k - 1] <= G[j] /\ G[j] + n <= m  BY <1>4, <1>5, <2>3
      <3>3. sq'[j].off = BEAT * (G[j] - P[k - 1])  BY <1>3, <1>9, <2>3, <2>5
      <3>4. sq'[j].len # 0 /\ Piece(u, G[j], G[j] + n, sq'[j].len)  BY <1>2, <1>3, <1>5, <2>3, <2>5
      <3>5. sq'[j].id = buffer'.id  BY <1>3, <2>5
      <3>6. G[j] + n <= G[j + 1] /\ \A i \in G[j] + n + 1 .. G[j + 1] : u[i].keep = 0  BY <2>3, <2>4
      <3> QED BY <1>10, <3>1, <3>2, <3>3, <3>4, <3>5, <3>6 DEF RequestAt
    <2>7. Entry(j)' = k /\ NumBeats(sq'[j].len) = n  BY <1>3, <1>11, <2>1, <2>5
    <2> QED BY <2>1, <2>6, <2>7
  <1>16. RequestPart(u, P, m, G)'
    <2>1. \A j \in 1 .. Len(sq') : j \in 1 .. S \/ j = S + 1  BY <1>4, <1>8
    <2> QED BY <1>14, <1>15, <2>1 DEF RequestPart
  <1>17. LastPart(m, G)'
    <2>1. sq' # <<>> /\ Len(sq') = S + 1 /\ sq'[S + 1].len = h
      <3>1. sq' # <<>>  BY <1>4, <1>8
      <3> QED BY <1>3, <1>8, <3>1
    <2>2. Len(pending') = K  BY <1>1, <1>2
    <2> QED BY <1>2, <1>4, <1>11, <1>13, <2>1, <2>2 DEF LastPart
  <1> QED BY <1>16, <1>17

LEMMA RequestSent ==
  ASSUME TypeOK, LengthHeld, CompletionInv, NEW X, NEW h, Request, SentPart(X), MarkPart(X),
         h = Head(Waiting), X[Len(sq) + 1] = X[Len(sq)] + NumBeats(h)
  PROVE  SentPart(X)' /\ MarkPart(X)'
  <1>1. PICK S, o, c : S = Len(sq) /\ o = Len(out) /\ c = NumBeats(h)  OBVIOUS
  <1>2. /\ h \in Nat /\ h # 0 /\ ~Transferring /\ Transferring' /\ Ahead' = h
        /\ beats_written' = 0 /\ out' = out
    BY RequestViews
  <1>3. PICK r \in TransferRequest : sq' = Append(sq, r)  BY RequestViews
  <1>4. PICK T : T = Append(sq, r)  OBVIOUS
  <1>5. sq' = T /\ S \in Nat /\ Len(T) = S + 1 /\ \A j \in 1 .. S : T[j] = sq[j]
    <2>1. sq \in Seq(TransferRequest)  BY DEF TypeOK, SqOK
    <2> QED BY <1>1, <1>3, <1>4, <2>1, PushFacts
  <1>6. X[S] = o /\ o \in Nat /\ c \in Nat \ {0} /\ X[S + 1] = o + c
    BY <1>1, <1>2, ViewTypes, SomeBeats DEF SentPart
  <1>7. SentPart(X)'
    <2>1. X[Len(sq')] + 0 = Len(out') + NumBeats(Ahead') /\ 0 < NumBeats(Ahead')
      BY <1>1, <1>2, <1>5, <1>6
    <2> QED BY <1>2, <2>1 DEF SentPart
  <1>8. MarkPart(X)'
    <2> SUFFICES ASSUME NEW j \in 1 .. S + 1, NEW i \in 1 .. NumBeats(T[j].len), X[j - 1] + i <= o
                 PROVE  out[X[j - 1] + i].tlast <=> i = NumBeats(T[j].len)
      BY <1>1, <1>2, <1>5 DEF MarkPart
    <2>1. CASE j = S + 1
      <3>1. X[j - 1] = o  BY <1>5, <1>6, <2>1
      <3>2. i >= 1 /\ i \in Int  OBVIOUS
      <3> QED BY <1>6, <3>1, <3>2
    <2>2. CASE j # S + 1
      <3>1. j \in 1 .. S  BY <1>5, <2>2
      <3>2. T[j] = sq[j]  BY <1>5, <3>1
      <3> QED BY <1>1, <3>1, <3>2 DEF MarkPart
    <2> QED BY <2>1, <2>2
  <1> QED BY <1>7, <1>8

LEMMA RequestData ==
  ASSUME TypeOK, LengthHeld, CompletionInv, IdsInv, DataInv, Request
  PROVE  DataInv'
  <1>1. PICK u, P, p, L, X, G : Parts(u, P, p, L, X, G)  BY DEF DataInv
  <1>2. PICK l, m, done, h, M :
          l = L[0] /\ m = L[1] /\ done = G[1] /\ h = Head(Waiting) /\ M = Rest(L, Len(Waiting))
    OBVIOUS
  <1>3. /\ Waiting # <<>> /\ h \in Nat /\ h # 0 /\ ~Transferring /\ Transferring' /\ Ahead' = h
        /\ Active /\ Written' = Written + h /\ Waiting' = Tail(Waiting) /\ hist'.sent = hist.sent
        /\ UNCHANGED <<pending, out, data_fifo, mem, undelivered, curr_len, mid_stream, buffer>>
    BY <1>2, RequestViews
  <1>4. /\ u \in Seq(Beat) /\ Suppressed(u) /\ p \in Nat /\ l \in Nat /\ p <= l /\ p = P[Len(pending)]
        /\ u = undelivered
    BY <1>1, <1>2, PartsTypes
  <1>5. /\ InputPart(u) /\ PendingPart(u, P) /\ WaitingPart(u, L) /\ CurrentPart(u, p, l)
        /\ SentPart(X) /\ MarkPart(X) /\ BlocksPart(u, L, X, G) /\ DataPart(u, X, G)
        /\ MemoryPart(u, P, l, done)
    BY <1>1, <1>2 DEF Parts
  <1>6. Waiting \in Seq(Nat) /\ Cut(u, L, Waiting) /\ Written \in Nat
    BY <1>5, ViewTypes DEF WaitingPart
  <1>7. m \in Nat /\ l < m /\ Piece(u, l, m, h) /\ M[0] = m
    <2>1. u \in Seq(Beat)  BY <1>4
    <2>2. Waiting \in Seq(Nat) /\ Waiting # <<>> /\ Cut(u, L, Waiting)  BY <1>3, <1>6
    <2>3. M = Rest(L, Len(Waiting))  BY <1>2
    <2>4. M[0] = L[1] /\ L[1] \in Nat /\ L[0] < L[1] /\ Piece(u, L[0], L[1], Head(Waiting))
      BY <2>1, <2>2, <2>3, RestWaiting
    <2> QED BY <2>4, <1>2
  <1>8. InputPart(u)' /\ PendingPart(u, P)'  BY <1>3, <1>5, PartFrames
  <1>9. WaitingPart(u, M)'  BY <1>2, <1>3, <1>4, <1>5, RestWaitingPart
  <1>10. GoesOn(u, p, l, Written)
    <2>1. Written = BEAT * (l - p) /\ (Written # 0 => Piece(u, p, l, Written) /\ ~u[l].last)
          /\ l = p + NumBeats(Written)
      BY <1>3, <1>5 DEF CurrentPart
    <2>2. Written = 0 => l = p  BY <1>4, <2>1, NoBeats
    <2> QED BY <2>1, <2>2 DEF GoesOn
  <1>11. Piece(u, p, m, Written + h) /\ m = p + NumBeats(Written + h) /\ Written + h # 0
    BY <1>3, <1>4, <1>6, <1>7, <1>10, PieceJoin
  <1>12. CurrentPart(u, p, m)'  BY <1>3, <1>11 DEF CurrentPart
  <1>13. NumBeats(h) \in Nat \ {0} /\ m = l + NumBeats(h) /\ m - NumBeats(h) = l
    <2>1. NumBeats(h) \in Nat \ {0}  BY <1>3, SomeBeats
    <2>2. m = l + NumBeats(h)  BY <1>3, <1>7 DEF Piece, Blocks
    <2> QED BY <1>4, <2>1, <2>2
  <1>14. AheadPart(u, p, m)'
    <2>1. Len(Waiting) \in Nat \ {0} /\ Head(Waiting) = Waiting[1]  BY <1>3, <1>6, PopFacts
    <2>2. 1 \in 1 .. Len(Waiting)  BY <2>1
    <2>3. u[m].last \/ h = TRANSFER  BY <1>2, <1>5, <2>1, <2>2 DEF WaitingPart
    <2> QED BY <1>3, <1>4, <1>7, <1>11, <1>13, <2>3 DEF AheadPart
  <1>15. RequestPart(u, P, m, G)' /\ LastPart(m, G)'  BY <1>1, <1>2, RequestRequests
  <1>16. PICK r \in TransferRequest : sq' = Append(sq, r) /\ r.len = h  BY <1>2, RequestViews
  <1>17. BlockCount' = BlockCount /\ BlocksPart(u, M, X, G)'
    BY <1>2, <1>3, <1>4, <1>5, <1>6, <1>16, RequestBlocks
  <1>18. DataPart(u, X, G)'  BY <1>3, <1>5, <1>17 DEF DataPart
  <1>19. X[Len(sq) + 1] = X[Len(sq)] + NumBeats(h)
    <2>1. Len(sq) \in Nat /\ Len(Waiting) \in Nat \ {0} /\ h = Waiting[1]
      BY <1>2, <1>3, <1>6, PopFacts, PartsTypes, <1>1
    <2>2. 1 \in 1 .. Len(Waiting) /\ Len(sq) + 1 - 1 = Len(sq)  BY <2>1
    <2>3. X[Len(sq) + 1] = X[Len(sq) + 1 - 1] + NumBeats(Waiting[1])  BY <1>5, <2>2 DEF BlocksPart
    <2> QED BY <2>1, <2>2, <2>3
  <1>20. SentPart(X)' /\ MarkPart(X)'  BY <1>2, <1>5, <1>19, RequestSent
  <1>21. MemoryPart(u, P, m, done)'
    <2>1. done \in Nat /\ done <= l  BY <1>1, <1>2, DoneBound
    <2>2. Written = 0 => l = p  BY <1>10 DEF GoesOn
    <2>3. Written' # 0  BY <1>3, <1>11
    <2> QED BY <1>3, <1>4, <1>5, <1>7, <2>1, <2>2, <2>3, RequestMemory
  <1>22. p = P[Len(pending')] /\ u = undelivered' /\ M[0] = m /\ G[1] = done
    BY <1>2, <1>3, <1>4, <1>7
  <1>23. Parts(u, P, p, M, X, G)'
    BY <1>8, <1>9, <1>12, <1>14, <1>15, <1>17, <1>18, <1>20, <1>21, <1>22 DEF Parts
  <1> QED BY <1>23 DEF DataInv

----
(* A notification is pushed.                                                *)

LEMMA PushedFacts ==
  ASSUME TypeOK, NEW e \in PendingNotify, pending' = Append(pending, e)
  PROVE  /\ Len(pending) \in Nat /\ Len(pending') = Len(pending) + 1
         /\ (\A k \in 1 .. Len(pending) : pending'[k] = pending[k])
         /\ pending'[Len(pending) + 1] = e
         /\ e.size \in Nat
  <1>1. pending \in Seq(PendingNotify)  BY DEF TypeOK, NotifyOK
  <1>2. e.size \in Nat  BY DEF PendingNotify
  <1> QED BY <1>1, <1>2, PushFacts

LEMMA PushedSizes ==
  ASSUME TypeOK, LengthHeld, NEW e \in PendingNotify, pending' = Append(pending, e)
  PROVE  PendingSizes' = Append(PendingSizes, e.size)
  <1>1. PICK K, T, s, z : K = Len(pending) /\ T = pending' /\ s = PendingSizes /\ z = e.size
    OBVIOUS
  <1>2. K \in Nat /\ Len(T) = K + 1 /\ (\A k \in 1 .. K : T[k] = pending[k]) /\ T[K + 1] = e /\ z \in Nat
    BY <1>1, PushedFacts
  <1>3. s = [k \in 1 .. K |-> pending[k].size] /\ s \in Seq(Nat) /\ Len(s) = K
    BY <1>1, ViewTypes DEF PendingSizes
  <1>4. PICK t : t = [k \in 1 .. Len(T) |-> T[k].size]  OBVIOUS
  <1>5. PendingSizes' = t  BY <1>1, <1>4 DEF PendingSizes
  <1>6. PICK v : v = Append(s, z)  OBVIOUS
  <1>7. v \in Seq(Nat) /\ Len(v) = K + 1 /\ (\A k \in 1 .. K : v[k] = s[k]) /\ v[K + 1] = z /\ DOMAIN v = 1 .. K + 1
    BY <1>2, <1>3, <1>6, PushFacts
  <1>8. \A k \in 1 .. K + 1 : T[k].size = v[k]
    <2> SUFFICES ASSUME NEW k \in 1 .. K + 1
                 PROVE  T[k].size = v[k]
      OBVIOUS
    <2>1. CASE k = K + 1  BY <1>1, <1>2, <1>7, <2>1
    <2>2. CASE k # K + 1
      <3>1. k \in 1 .. K  BY <1>2, <2>2
      <3> QED BY <1>2, <1>3, <1>7, <3>1
    <2> QED BY <2>1, <2>2
  <1>9. t = [k \in 1 .. K + 1 |-> v[k]]  BY <1>2, <1>4, <1>8
  <1>10. v = [k \in 1 .. K + 1 |-> v[k]]  BY <1>7
  <1> QED BY <1>1, <1>5, <1>6, <1>9, <1>10

LEMMA ExtendedFacts ==
  ASSUME NEW P, NEW n \in Nat, NEW to, NEW Q, Q = Extended(P, n, to)
  PROVE  (\A k \in 0 .. n : Q[k] = P[k]) /\ Q[n + 1] = to
  <1>1. Q = [k \in 0 .. n + 1 |-> IF k <= n THEN P[k] ELSE to]  BY DEF Extended
  <1>2. (\A k \in 0 .. n : k \in 0 .. n + 1 /\ k <= n) /\ n + 1 \in 0 .. n + 1 /\ ~(n + 1 <= n)
    OBVIOUS
  <1> QED BY <1>1, <1>2

LEMMA PushPendingPart ==
  ASSUME TypeOK, LengthHeld, NEW u \in Seq(Beat), NEW P, PendingPart(u, P), NEW e \in PendingNotify,
         pending' = Append(pending, e), NEW to \in Nat, Piece(u, P[Len(pending)], to, e.size),
         e.last <=> u[to].last, NEW Q, Q = Extended(P, Len(pending), to)
  PROVE  PendingPart(u, Q)'
  <1>1. PICK K, s, x, T : K = Len(pending) /\ s = PendingSizes /\ x = e.size /\ T = Append(pending, e)
    OBVIOUS
  <1>2. K \in Nat /\ Len(T) = K + 1 /\ (\A k \in 1 .. K : T[k] = pending[k]) /\ T[K + 1] = e /\ x \in Nat
    BY <1>1, PushedFacts
  <1>3. s \in Seq(Nat) /\ Len(s) = K  BY <1>1, ViewTypes
  <1>4. Cut(u, P, s) /\ P[0] = 0 /\ \A k \in 1 .. K : pending[k].last <=> u[P[k]].last
    BY <1>1 DEF PendingPart
  <1>5. Cut(u, Q, Append(s, x))  BY <1>1, <1>2, <1>3, <1>4, CutExtended
  <1>6. (\A k \in 0 .. K : Q[k] = P[k]) /\ Q[K + 1] = to  BY <1>1, <1>2, ExtendedFacts
  <1>7. Q[0] = 0  BY <1>2, <1>4, <1>6
  <1>8. ASSUME NEW k \in 1 .. K + 1
        PROVE  T[k].last <=> u[Q[k]].last
    <2>1. CASE k = K + 1  BY <1>2, <1>6, <2>1
    <2>2. CASE k # K + 1
      <3>1. k \in 1 .. K /\ k \in 0 .. K  BY <1>2, <2>2
      <3> QED BY <1>2, <1>4, <1>6, <3>1
    <2> QED BY <2>1, <2>2
  <1>9. PendingSizes' = Append(s, x)  BY <1>1, PushedSizes
  <1>10. pending' = T /\ Len(pending') = K + 1  BY <1>1, <1>2
  <1> QED BY <1>5, <1>7, <1>8, <1>9, <1>10 DEF PendingPart

LEMMA StoredDone ==
  ASSUME NEW u, NEW f \in Nat, NEW t \in Nat, NEW c \in Nat, NEW d \in Nat, t <= c, t <= d
  PROVE  Stored(u, f, t, c) = Stored(u, f, t, d)
  <1>1. {j \in f + 1 .. t : j <= c} = {j \in f + 1 .. t : j <= d}  OBVIOUS
  <1> QED BY <1>1 DEF Stored

----
(* An empty stream ends.                                                    *)

LEMMA EmptyViews ==
  ASSUME TypeOK, CompletionInv, EndEmptyStream
  PROVE  /\ ~Transferring /\ ~Transferring' /\ Active
         /\ Waiting # <<>> /\ Waiting = len_fifo /\ Head(Waiting) = 0
         /\ Written = bytes_written /\ (Written = 0 => Written' = 0)
         /\ Waiting' = Tail(Waiting) /\ hist'.sent = hist.sent
         /\ UNCHANGED <<sq, out, data_fifo, mem, undelivered, curr_len, mid_stream, buffer>>
         /\ \E e \in PendingNotify :
              pending' = Append(pending, e) /\ e.size = Written /\ e.last
  <1>1. output_state = "REQUEST" /\ output_state' \in {"REQUEST", "WAIT_FOR_BUFFER"}
        /\ bytes_written' = bytes_written /\ PushPending(TRUE)
        /\ len_fifo # <<>> /\ Head(len_fifo) = 0 /\ len_fifo' = Tail(len_fifo)
        /\ UNCHANGED <<sq, out, data_fifo, mem, undelivered, curr_len, mid_stream, buffer>>
    BY DEF EndEmptyStream, fsmVars, inputVars, hostVars
  <1>2. ~Transferring /\ ~Transferring' /\ Active  BY <1>1 DEF Transferring, Active
  <1>3. Waiting = len_fifo /\ Waiting' = len_fifo' /\ Written = bytes_written
    BY <1>2 DEF Waiting, Written
  <1>4. Written = 0 => Written' = 0  BY <1>1, <1>3 DEF Written
  <1>5. PICK e \in PendingNotify : pending' = Append(pending, e) /\ e.size = bytes_written /\ (e.last <=> TRUE)
    BY <1>1, PushFactsPending
  <1>6. hist'.sent = hist.sent
    <2>1. hist' = [hist EXCEPT !.pushed = @ + 1]  BY <1>1 DEF PushPending
    <2> QED BY <2>1 DEF TypeOK, HistOK
  <1> QED BY <1>1, <1>2, <1>3, <1>4, <1>5, <1>6

\* An empty stream finds nothing in the buffer.
LEMMA EmptyFacts ==
  ASSUME TypeOK, LengthHeld, CompletionInv, NEW u, NEW P, NEW p, NEW L, NEW X, NEW G,
         Parts(u, P, p, L, X, G), EndEmptyStream
  PROVE  /\ Written = 0 /\ L[0] = p /\ L[1] = p + 1 /\ Piece(u, p, p + 1, 0)
         /\ u[p + 1].keep = 0 /\ u[p + 1].last /\ p + 1 \in 1 .. Len(u)
  <1>1. PICK l, m : l = L[0] /\ m = L[1]  OBVIOUS
  <1>2. ~Transferring /\ Waiting # <<>> /\ Head(Waiting) = 0  BY EmptyViews
  <1>3. u \in Seq(Beat) /\ Suppressed(u) /\ p \in Nat /\ l \in Nat /\ p <= l  BY <1>1, PartsTypes
  <1>4. Waiting \in Seq(Nat) /\ Cut(u, L, Waiting) /\ Written \in Nat
    BY ViewTypes DEF Parts, WaitingPart
  <1>5. m \in Nat /\ Piece(u, l, m, 0)
    <2>1. PICK M : M = Rest(L, Len(Waiting))  OBVIOUS
    <2>2. u \in Seq(Beat) /\ Waiting \in Seq(Nat) /\ Waiting # <<>> /\ Cut(u, L, Waiting)
      BY <1>2, <1>3, <1>4
    <2>3. L[1] \in Nat /\ Piece(u, L[0], L[1], Head(Waiting))  BY <2>1, <2>2, RestWaiting
    <2> QED BY <1>1, <1>2, <2>3
  <1>6. m = l + 1 /\ u[m].keep = 0 /\ u[m].last /\ m \in 1 .. Len(u)
    <2>1. PICK z \in Nat : z = 0  OBVIOUS
    <2>2. Piece(u, l, m, z)  BY <1>5, <2>1
    <2>3. u \in Seq(Beat) /\ Suppressed(u) /\ l \in Nat /\ m \in Nat  BY <1>3, <1>5
    <2>4. m = l + 1 /\ u[m].keep = 0 /\ u[m].last  BY <2>1, <2>2, <2>3, PieceFacts
    <2>5. m \in 1 .. Len(u)  BY <2>1, <2>2, <2>3, PieceFacts
    <2> QED BY <2>4, <2>5
  <1>7. l = p + NumBeats(Written) /\ (Written # 0 => ~u[l].last)
    BY <1>1, <1>2 DEF Parts, CurrentPart
  <1>8. Written = 0
    <2> SUFFICES ASSUME Written # 0 PROVE FALSE  OBVIOUS
    <2>1. NumBeats(Written) \in Nat \ {0}  BY <1>4, SomeBeats
    <2>2. m > 1 /\ m - 1 = l  BY <1>3, <1>6, <1>7, <2>1
    <2>3. u[m - 1].last  BY <1>3, <1>6, <2>2 DEF Suppressed
    <2> QED BY <1>7, <2>2, <2>3
  <1>9. l = p  BY <1>3, <1>7, <1>8, NoBeats
  <1> QED BY <1>1, <1>5, <1>6, <1>8, <1>9

\* The blocks without that of the null beat.
LEMMA EmptyBlocks ==
  ASSUME TypeOK, LengthHeld, NEW u \in Seq(Beat), NEW L, NEW X, NEW G, NEW M, NEW Y, NEW H,
         Cut(u, L, Waiting), BlocksPart(u, L, X, G), DataPart(u, X, G), Waiting # <<>>, Head(Waiting) = 0,
         M = Rest(L, Len(Waiting)), Waiting' = Tail(Waiting), UNCHANGED <<sq, out, data_fifo>>,
         Y = Without(X, BlockCount, Len(sq) + 1), H = BlocksWithout(G, BlockCount, Len(sq) + 1)
  PROVE  /\ BlocksPart(u, M, Y, H)' /\ DataPart(u, Y, H)'
         /\ \A k \in 0 .. Len(sq) : Y[k] = X[k]
         /\ \A j \in 1 .. Len(sq) : H[j] = G[j]
         /\ H[Len(sq) + 1] = L[1]
  <1>1. PICK W, N, S, V, n, s :
          W = Waiting /\ N = Len(W) /\ S = Len(sq) /\ V = Tail(W) /\ n = BlockCount /\ s = Len(sq) + 1
    OBVIOUS
  <1>2. W \in Seq(Nat) /\ S \in Nat  BY <1>1, ViewTypes
  <1>3. /\ N \in Nat \ {0} /\ Len(V) = N - 1 /\ (\A k \in 0 .. N - 1 : M[k] = L[k + 1])
        /\ (\A k \in 1 .. N - 1 : V[k] = W[k + 1]) /\ M[N - 1] = L[N] /\ Head(W) = W[1]
    BY <1>1, <1>2, RestWaiting
  <1>4. n = S + N + 1 /\ BlockCount' = n - 1 /\ n \in Nat \ {0} /\ s \in 1 .. n - 1 /\ s = S + 1
        /\ n - 1 = S + (N - 1) + 1
    <2>1. n = S + N + 1 /\ s = S + 1  BY <1>1 DEF BlockCount
    <2>2. Len(sq') = S /\ Len(Waiting') = N - 1  BY <1>1, <1>3
    <2>3. BlockCount' = S + (N - 1) + 1  BY <2>2 DEF BlockCount
    <2> QED BY <1>2, <1>3, <2>1, <2>3
  <1>5. /\ \A i \in 0 .. N : G[S + 1 + i] = L[i]
        /\ \A j \in 1 .. S : X[j] = X[j - 1] + NumBeats(sq[j].len)
        /\ \A i \in 1 .. N : X[S + i] = X[S + i - 1] + NumBeats(W[i])
        /\ X[n] = X[n - 1] + (Len(u) - L[N])
    BY <1>1 DEF BlocksPart
  <1>6. PICK end : end = Len(out) + Len(data_fifo)  OBVIOUS
  <1>7. end \in Nat /\ Offsets(X, n, end) /\ Filled(u, out, data_fifo, X, G, n)
    <2>1. Len(out) \in Nat /\ Len(data_fifo) \in Nat  BY ViewTypes
    <2> QED BY <1>1, <1>6, <2>1 DEF DataPart
  <1>8. X[s] = X[s - 1] /\ X[S + 1] = X[S]
    <2>1. 1 \in 1 .. N /\ S + 1 - 1 = S  BY <1>2, <1>3
    <2>4. X[S + 1] = X[S + 1 - 1] + NumBeats(W[1])  BY <1>5, <2>1
    <2>5. W[1] = 0  BY <1>1, <1>3
    <2>2. X[S + 1] = X[S] + NumBeats(0)  BY <2>1, <2>4, <2>5
    <2>3. X[S] \in Nat
      <3>1. S \in 0 .. n  BY <1>2, <1>3, <1>4
      <3> QED BY <1>7, <3>1 DEF Offsets
    <2>6. X[S + 1] = X[S]  BY <2>2, <2>3, NoBeats
    <2>7. s = S + 1 /\ s - 1 = S  BY <1>2, <1>4
    <2> QED BY <2>6, <2>7
  <1>9. /\ Offsets(Y, n - 1, end) /\ Filled(u, out, data_fifo, Y, H, n - 1)
        /\ (\A k \in 0 .. s - 1 : Y[k] = X[k]) /\ \A k \in s .. n - 1 : Y[k] = X[k + 1]
    <2>1. PICK o, d : o = out /\ d = data_fifo  OBVIOUS
    <2>2. Filled(u, o, d, X, G, n)  BY <1>7, <2>1
    <2>3. Y = Without(X, n, s) /\ H = BlocksWithout(G, n, s)  BY <1>1
    <2>4. Filled(u, o, d, Without(X, n, s), BlocksWithout(G, n, s), n - 1)
      BY <1>4, <1>7, <1>8, <2>2, FilledWithout
    <2>5. /\ Offsets(Without(X, n, s), n - 1, end)
          /\ \A k \in 0 .. s - 1 : Without(X, n, s)[k] = X[k]
          /\ \A k \in s .. n - 1 : Without(X, n, s)[k] = X[k + 1]
      BY <1>4, <1>7, OffsetsWithout
    <2> QED BY <2>1, <2>3, <2>4, <2>5
  <1>10. (\A k \in 1 .. S : H[k] = G[k]) /\ \A k \in S + 1 .. n - 1 : H[k] = G[k + 1]
    <2>1. H = [k \in 1 .. n - 1 |-> IF k < s THEN G[k] ELSE G[k + 1]]  BY <1>1 DEF BlocksWithout
    <2>2. (\A k \in 1 .. S : k \in 1 .. n - 1 /\ k < s) /\ \A k \in S + 1 .. n - 1 : k \in 1 .. n - 1 /\ ~(k < s)
      BY <1>2, <1>3, <1>4
    <2> QED BY <2>1, <2>2
  <1>11. (\A k \in 0 .. S : Y[k] = X[k]) /\ \A k \in S .. n - 1 : Y[k] = X[k + 1]
    <2>1. \A k \in 0 .. S : Y[k] = X[k]
      <3>1. s - 1 = S  BY <1>2, <1>4
      <3> QED BY <1>9, <3>1
    <2>2. ASSUME NEW k \in S .. n - 1
          PROVE  Y[k] = X[k + 1]
      <3>1. CASE k = S
        <4>1. S \in 0 .. S  BY <1>2
        <4> QED BY <1>8, <2>1, <3>1, <4>1
      <3>2. CASE k # S
        <4>1. k \in s .. n - 1  BY <1>2, <1>4, <3>2
        <4> QED BY <1>9, <4>1
      <3> QED BY <3>1, <3>2
    <2> QED BY <2>1, <2>2
  <1>12. DataPart(u, Y, H)'  BY <1>4, <1>6, <1>9 DEF DataPart
  <1>13. sq' = sq /\ Len(sq') = S /\ Waiting' = V /\ Len(Waiting') = N - 1  BY <1>1, <1>3
  <1>14. \A i \in 0 .. N - 1 : H[S + 1 + i] = M[i]
    <2> SUFFICES ASSUME NEW i \in 0 .. N - 1
                 PROVE  H[S + 1 + i] = M[i]
      OBVIOUS
    <2>1. i + 1 \in 0 .. N /\ S + 1 + (i + 1) = (S + 1 + i) + 1 /\ S + 1 + i \in S + 1 .. n - 1
      <3>1. S \in Nat /\ N \in Nat \ {0} /\ i \in Nat /\ i <= N - 1 /\ n - 1 = S + (N - 1) + 1
        BY <1>2, <1>3, <1>4
      <3> QED BY <3>1
    <2>2. G[S + 1 + (i + 1)] = L[i + 1]  BY <1>5, <2>1
    <2> QED BY <1>3, <1>10, <2>1, <2>2
  <1>15. \A j \in 1 .. S : Y[j] = Y[j - 1] + NumBeats(sq[j].len)
    <2>1. \A j \in 1 .. S : j \in 0 .. S /\ j - 1 \in 0 .. S  BY <1>2
    <2> QED BY <1>5, <1>11, <2>1
  <1>16. \A i \in 1 .. N - 1 : Y[S + i] = Y[S + i - 1] + NumBeats(V[i])
    <2> SUFFICES ASSUME NEW i \in 1 .. N - 1
                 PROVE  Y[S + i] = Y[S + i - 1] + NumBeats(V[i])
      OBVIOUS
    <2>1. /\ S \in Nat /\ N \in Nat \ {0} /\ i \in Nat \ {0} /\ i <= N - 1 /\ n - 1 = S + (N - 1) + 1
      BY <1>2, <1>3, <1>4
    <2>2. /\ i + 1 \in 1 .. N /\ S + (i + 1) = (S + i) + 1 /\ S + (i + 1) - 1 = (S + i - 1) + 1
          /\ S + i \in S .. n - 1 /\ S + i - 1 \in S .. n - 1
      BY <2>1
    <2>3. X[S + (i + 1)] = X[S + (i + 1) - 1] + NumBeats(W[i + 1])  BY <1>5, <2>2
    <2>4. Y[S + i] = X[(S + i) + 1] /\ Y[S + i - 1] = X[(S + i - 1) + 1]  BY <1>11, <2>2
    <2>5. V[i] = W[i + 1]  BY <1>3
    <2> QED BY <2>2, <2>3, <2>4, <2>5
  <1>17. Y[n - 1] = Y[n - 1 - 1] + (Len(u) - M[N - 1])
    <2>1. n - 1 \in S .. n - 1 /\ n - 1 - 1 \in S .. n - 1 /\ (n - 1) + 1 = n /\ (n - 1 - 1) + 1 = n - 1
      <3>1. S \in Nat /\ N \in Nat \ {0} /\ n \in Nat /\ n - 1 = S + (N - 1) + 1
        BY <1>2, <1>3, <1>4
      <3> QED BY <3>1
    <2>2. Y[n - 1] = X[(n - 1) + 1] /\ Y[n - 1 - 1] = X[(n - 1 - 1) + 1]  BY <1>11, <2>1
    <2> QED BY <1>3, <1>5, <2>1, <2>2
  <1>18. BlocksPart(u, M, Y, H)'
    <2>1. \A i \in 0 .. Len(Waiting') : H[Len(sq') + 1 + i] = M[i]  BY <1>13, <1>14
    <2>2. \A j \in 1 .. Len(sq') : Y[j] = Y[j - 1] + NumBeats(sq'[j].len)  BY <1>13, <1>15
    <2>3. \A i \in 1 .. Len(Waiting') : Y[Len(sq') + i] = Y[Len(sq') + i - 1] + NumBeats(Waiting'[i])
      BY <1>13, <1>16
    <2>4. Y[BlockCount'] = Y[BlockCount' - 1] + (Len(u) - M[Len(Waiting')])  BY <1>4, <1>13, <1>17
    <2> QED BY <2>1, <2>2, <2>3, <2>4, Zenon DEF BlocksPart
  <1>19. H[S + 1] = L[1]
    <2>1. S + 1 \in S + 1 .. n - 1 /\ 1 \in 0 .. N /\ (S + 1) + 1 = S + 1 + 1  BY <1>2, <1>3, <1>4
    <2> QED BY <1>5, <1>10, <2>1
  <1> QED BY <1>1, <1>10, <1>11, <1>12, <1>18, <1>19

\* The requests, which all have their notification or none of them is under way.
LEMMA EmptyRequests ==
  ASSUME TypeOK, LengthHeld, CompletionInv, NEW u, NEW P, NEW p, NEW L, NEW X, NEW G,
         Parts(u, P, p, L, X, G), EndEmptyStream, NEW Q, Q = Extended(P, Len(pending), p + 1),
         NEW H, \A j \in 1 .. Len(sq) : H[j] = G[j], H[Len(sq) + 1] = p + 1
  PROVE  RequestPart(u, Q, p + 1, H)'
  <1>1. PICK K, S, l, m : K = Len(pending) /\ S = Len(sq) /\ l = L[0] /\ m = p + 1  OBVIOUS
  <1>2. /\ u \in Seq(Beat) /\ K \in Nat /\ S \in Nat /\ p \in Nat /\ m \in Nat /\ p = P[K]
        /\ G[S + 1] = l /\ Written = 0 /\ l = p /\ u[m].keep = 0
    BY <1>1, PartsTypes, EmptyFacts
  <1>3. hist'.sent = hist.sent /\ sq' = sq /\ buffer' = buffer  BY EmptyViews
  <1>4. PICK e \in PendingNotify : pending' = Append(pending, e)  BY EmptyViews
  <1>5. Len(pending') = K + 1 /\ \A k \in 1 .. K : pending'[k] = pending[k]
    BY <1>1, <1>4, PushedFacts
  <1>6. \A k \in 0 .. K : Q[k] = P[k]  BY <1>1, <1>2, ExtendedFacts
  <1>7. \A j \in 1 .. S : Entry(j)' = Entry(j)  BY <1>3 DEF Entry
  <1>8. ASSUME NEW j \in 1 .. S
        PROVE  RequestAt(u, Q, m, H, j, Entry(j), NumBeats(sq[j].len))'
    <2>1. PICK k, n, q : k = Entry(j) /\ n = NumBeats(sq[j].len) /\ q = sq[j]  OBVIOUS
    <2>2. RequestAt(u, P, l, G, j, k, n)  BY <1>1, <2>1, RequestBounds
    <2>3. n \in Nat /\ G[j] \in Nat /\ G[j + 1] \in Nat /\ k \in 1 .. K + 1 /\ G[j] + n <= G[j + 1]
      BY <1>1, <2>1, RequestBounds
    <2>4. k <= K  BY <1>1, <1>2, <2>2 DEF RequestAt
    <2>5. k \in 1 .. K /\ k - 1 \in 0 .. K /\ k \in 0 .. K
      <3>1. k \in 1 .. K + 1 /\ K \in Nat  BY <1>2, <2>3
      <3> QED BY <2>4, <3>1
    <2>6. /\ P[k - 1] <= G[j] /\ G[j] + n <= P[k] /\ q.off = BEAT * (G[j] - P[k - 1])
          /\ q.len # 0 /\ Piece(u, G[j], G[j] + n, q.len)
          /\ pending[k].size # 0 /\ q.id = pending[k].id
          /\ \A i \in G[j] + n + 1 .. G[j + 1] : u[i].keep = 0
      BY <1>1, <2>1, <2>2, <2>4 DEF RequestAt
    <2>7. H[j] = G[j] /\ Q[k - 1] = P[k - 1] /\ Q[k] = P[k] /\ pending'[k] = pending[k]
      BY <1>1, <1>5, <1>6, <2>5
    <2>8. G[j] + n <= H[j + 1] /\ \A i \in G[j] + n + 1 .. H[j + 1] : u[i].keep = 0
      <3>1. CASE j = S
        <4>1. H[j + 1] = m /\ G[j + 1] = p  BY <1>1, <1>2, <3>1
        <4>2. PICK g \in Nat : g = G[j] + n /\ g <= p  BY <2>3, <4>1
        <4>3. g <= m /\ \A i \in g + 1 .. m : i \in g + 1 .. p \/ i = m
          <5>1. p \in Nat /\ m = p + 1  BY <1>1, <1>2
          <5> QED BY <4>2, <5>1
        <4> QED BY <1>2, <2>6, <4>1, <4>2, <4>3
      <3>2. CASE j # S
        <4>1. j + 1 \in 1 .. S  BY <1>2, <3>2
        <4>2. H[j + 1] = G[j + 1]  BY <1>1, <4>1
        <4> QED BY <2>3, <2>6, <4>2
      <3> QED BY <3>1, <3>2
    <2>9. RequestAt(u, Q, m, H, j, k, n)'
      <3>1. k \in 1 .. Len(pending') + 1 /\ k <= Len(pending')  BY <1>2, <1>5, <2>5
      <3> QED BY <1>3, <2>1, <2>6, <2>7, <2>8, <3>1 DEF RequestAt
    <2>10. Entry(j)' = k /\ NumBeats(sq'[j].len) = n  BY <1>3, <1>7, <2>1
    <2> QED BY <2>9, <2>10
  <1>9. RequestPart(u, Q, m, H)'  BY <1>1, <1>3, <1>8 DEF RequestPart
  <1> QED BY <1>1, <1>9

\* What is complete ends before the null beat or with it.
LEMMA EmptyMemory ==
  ASSUME TypeOK, LengthHeld, CompletionInv, NEW u, NEW P, NEW p, NEW L, NEW X, NEW G,
         Parts(u, P, p, L, X, G), EndEmptyStream, NEW Q, Q = Extended(P, Len(pending), p + 1),
         NEW done, done = G[1] \/ (G[1] = p /\ done = p + 1)
  PROVE  MemoryPart(u, Q, p + 1, done)'
  <1>1. PICK K, l, c : K = Len(pending) /\ l = L[0] /\ c = G[1]  OBVIOUS
  <1>2. /\ K \in Nat /\ p \in Nat /\ p = P[K] /\ (\A k \in 0 .. K : P[k] \in Nat /\ P[k] <= p)
        /\ Written = 0 /\ c \in Nat
    BY <1>1, PartsTypes, EmptyFacts, DoneBound
  <1>3. mem' = mem /\ Written' = 0  BY <1>2, EmptyViews
  <1>4. PICK e \in PendingNotify : pending' = Append(pending, e) /\ e.size = 0  BY <1>2, EmptyViews
  <1>5. PICK T : T = pending'  OBVIOUS
  <1>6. /\ Len(T) = K + 1 /\ (\A k \in 1 .. K : T[k] = pending[k]) /\ T[K + 1].size = 0
    BY <1>1, <1>4, <1>5, PushedFacts
  <1>7. \A k \in 0 .. K : Q[k] = P[k]  BY <1>1, <1>2, ExtendedFacts
  <1>8. /\ \A k \in 1 .. K : pending[k].size # 0 => mem[pending[k].id] = Stored(u, P[k - 1], P[k], c)
        /\ \A b \in BufferIds : ~Holds(b) => mem[b] = {}
    BY <1>1 DEF Parts, MemoryPart
  <1>9. ASSUME NEW k \in 1 .. K
        PROVE  Stored(u, Q[k - 1], Q[k], done) = Stored(u, P[k - 1], P[k], c)
    <2>1. k - 1 \in 0 .. K /\ k \in 0 .. K  BY <1>2
    <2>2. PICK f \in Nat, t \in Nat : f = P[k - 1] /\ t = P[k] /\ t <= p  BY <1>2, <2>1
    <2>3. Q[k - 1] = f /\ Q[k] = t  BY <1>7, <2>1, <2>2
    <2>4. Stored(u, f, t, done) = Stored(u, f, t, c)
      <3>1. CASE done = c  BY <3>1
      <3>2. CASE c = p /\ done = p + 1
        <4>1. done \in Nat /\ t <= done /\ t <= c  BY <1>2, <2>2, <3>2
        <4> QED BY <1>2, <2>2, <4>1, StoredDone
      <3> QED BY <1>1, <3>1, <3>2
    <2> QED BY <2>2, <2>3, <2>4
  <1>10. ASSUME NEW k \in 1 .. K + 1, T[k].size # 0
         PROVE  mem[T[k].id] = Stored(u, Q[k - 1], Q[k], done)
    <2>1. k \in 1 .. K  BY <1>2, <1>6, <1>10
    <2> QED BY <1>6, <1>8, <1>9, <1>10, <2>1
  <1>11. ASSUME NEW b \in BufferIds, ~Holds(b)'
         PROVE  mem[b] = {}
    <2>1. ~(\E k \in 1 .. K : pending[k].size # 0 /\ pending[k].id = b)
      <3>1. ~(\E k \in 1 .. K + 1 : T[k].size # 0 /\ T[k].id = b)  BY <1>5, <1>6, <1>11 DEF Holds
      <3>2. \A k \in 1 .. K : k \in 1 .. K + 1  BY <1>2
      <3> QED BY <1>6, <3>1, <3>2
    <2>2. ~Holds(b)  BY <1>1, <1>2, <2>1 DEF Holds
    <2> QED BY <1>8, <2>2
  <1> QED BY <1>3, <1>5, <1>6, <1>10, <1>11 DEF MemoryPart

LEMMA EmptyData ==
  ASSUME TypeOK, LengthHeld, CompletionInv, DataInv, EndEmptyStream
  PROVE  DataInv'
  <1>1. PICK u, P, p, L, X, G : Parts(u, P, p, L, X, G)  BY DEF DataInv
  <1>2. PICK K, S, m, M, Q, Y, H :
          /\ K = Len(pending) /\ S = Len(sq) /\ m = p + 1 /\ M = Rest(L, Len(Waiting))
          /\ Q = Extended(P, K, m) /\ Y = Without(X, BlockCount, S + 1)
          /\ H = BlocksWithout(G, BlockCount, S + 1)
    OBVIOUS
  <1>3. /\ ~Transferring /\ ~Transferring' /\ Waiting # <<>> /\ Head(Waiting) = 0
        /\ Waiting' = Tail(Waiting) /\ hist'.sent = hist.sent
        /\ UNCHANGED <<sq, out, data_fifo, mem, undelivered, curr_len, mid_stream, buffer>>
    BY EmptyViews
  <1>4. /\ Written = 0 /\ L[0] = p /\ L[1] = m /\ Piece(u, p, m, 0) /\ u[m].last /\ Written' = 0
    BY <1>1, <1>2, EmptyFacts, EmptyViews
  <1>5. PICK e \in PendingNotify : pending' = Append(pending, e) /\ e.size = 0 /\ e.last
    BY <1>4, EmptyViews
  <1>6. /\ u \in Seq(Beat) /\ p \in Nat /\ p = P[K] /\ u = undelivered /\ K \in Nat /\ S \in Nat /\ m \in Nat
        /\ G[S + 1] = p
    BY <1>1, <1>2, <1>4, PartsTypes
  <1>7. /\ InputPart(u) /\ PendingPart(u, P) /\ WaitingPart(u, L)
        /\ SentPart(X) /\ MarkPart(X) /\ BlocksPart(u, L, X, G) /\ DataPart(u, X, G)
    BY <1>1 DEF Parts
  <1>8. Waiting \in Seq(Nat) /\ Cut(u, L, Waiting)  BY <1>7, ViewTypes DEF WaitingPart
  <1>9. InputPart(u)'  BY <1>3, <1>7, PartFrames
  <1>10. PendingPart(u, Q)'
    <2>1. Piece(u, P[Len(pending)], m, e.size) /\ (e.last <=> u[m].last)  BY <1>2, <1>4, <1>5, <1>6
    <2> QED BY <1>2, <1>5, <1>6, <1>7, <2>1, PushPendingPart
  <1>11. WaitingPart(u, M)'  BY <1>2, <1>3, <1>6, <1>7, RestWaitingPart
  <1>12. M[0] = m  BY <1>2, <1>3, <1>4, <1>6, <1>8, RestWaiting
  <1>13. CurrentPart(u, m, m)' /\ AheadPart(u, m, m)'
    <2>1. m = m + NumBeats(0) /\ 0 = BEAT * (m - m)  BY <1>6, NoBeats, WriterAssumption
    <2> QED BY <1>3, <1>4, <2>1 DEF CurrentPart, AheadPart
  <1>14. /\ BlocksPart(u, M, Y, H)' /\ DataPart(u, Y, H)'
         /\ (\A k \in 0 .. S : Y[k] = X[k]) /\ (\A j \in 1 .. S : H[j] = G[j]) /\ H[S + 1] = m
    <2>1. /\ u \in Seq(Beat) /\ BlocksPart(u, L, X, G) /\ DataPart(u, X, G) /\ M = Rest(L, Len(Waiting))
          /\ Waiting' = Tail(Waiting) /\ Waiting # <<>> /\ Head(Waiting) = 0
          /\ UNCHANGED <<sq, out, data_fifo>> /\ Cut(u, L, Waiting)
          /\ Y = Without(X, BlockCount, Len(sq) + 1) /\ H = BlocksWithout(G, BlockCount, Len(sq) + 1)
      BY <1>2, <1>3, <1>4, <1>6, <1>7, <1>8
    <2>2. /\ BlocksPart(u, M, Y, H)' /\ DataPart(u, Y, H)'
          /\ (\A k \in 0 .. Len(sq) : Y[k] = X[k]) /\ (\A j \in 1 .. Len(sq) : H[j] = G[j])
          /\ H[Len(sq) + 1] = L[1]
      BY <2>1, EmptyBlocks
    <2>3. S = Len(sq) /\ m = L[1]  BY <1>2, <1>4, <1>6
    <2> QED BY <2>2, <2>3
  <1>15. RequestPart(u, Q, m, H)'  BY <1>1, <1>2, <1>14, EmptyRequests
  <1>16. LastPart(m, H)'  BY <1>3 DEF LastPart
  <1>17. SentPart(Y)' /\ MarkPart(Y)'
    <2>1. SentPart(Y) /\ MarkPart(Y)  BY <1>2, <1>7, <1>14, SentSame
    <2>2. SentPart(Y)'  BY <1>3, <2>1 DEF SentPart
    <2> QED BY <1>3, <2>1, <2>2, PartFrames
  <1>18. MemoryPart(u, Q, m, H[1])'
    <2>1. PICK done : done = H[1]  OBVIOUS
    <2>2. done = G[1] \/ (G[1] = p /\ done = m)
      <3>1. CASE S = 0  BY <1>6, <1>14, <2>1, <3>1
      <3>2. CASE S # 0
        <4>1. 1 \in 1 .. S  BY <1>6, <3>2
        <4> QED BY <1>14, <2>1, <4>1
      <3> QED BY <3>1, <3>2
    <2>3. MemoryPart(u, Q, m, done)'  BY <1>1, <1>2, <2>2, EmptyMemory
    <2> QED BY <2>1, <2>3
  <1>19. m = Q[Len(pending')] /\ u = undelivered'
    <2>1. Len(pending') = K + 1  BY <1>2, <1>5, PushedFacts
    <2>2. Q[K + 1] = m  BY <1>2, <1>6, ExtendedFacts
    <2> QED BY <1>3, <1>6, <2>1, <2>2
  <1>20. PICK done : done = H[1]  OBVIOUS
  <1>21. MemoryPart(u, Q, m, done)'  BY <1>18, <1>20
  <1>22. Parts(u, Q, m, M, Y, H)'
    BY <1>9, <1>10, <1>11, <1>12, <1>13, <1>14, <1>15, <1>16, <1>17, <1>19, <1>20, <1>21 DEF Parts
  <1> QED BY <1>22 DEF DataInv

----
(* A beat is handed to Coyote.                                              *)

LEMMA TransferViews ==
  ASSUME TypeOK, LengthHeld, TransferBeat
  PROVE  /\ Transferring /\ Active /\ data_fifo # <<>> /\ Written = bytes_written
         /\ Ahead = Head(len_fifo) /\ Waiting = Tail(len_fifo) /\ Waiting' = Waiting
         /\ data_fifo' = Tail(data_fifo) /\ hist'.sent = hist.sent
         /\ UNCHANGED <<sq, mem, undelivered, curr_len, mid_stream, buffer, bytes_written>>
         /\ CurrentTransferCompleted <=> beats_written + 1 = NumBeats(Ahead)
         /\ \E x \in OutBeat : /\ out' = Append(out, x) /\ x.beat = Head(data_fifo)
                               /\ x.tlast <=> CurrentTransferCompleted
         /\ ~CurrentTransferCompleted =>
              /\ Transferring' /\ Written' = Written /\ Ahead' = Ahead /\ UNCHANGED <<pending, hist>>
              /\ beats_written' = beats_written + 1
         /\ CurrentTransferCompleted => ~Transferring'
         /\ (CurrentTransferCompleted /\ (Head(data_fifo).last \/ BufferFull)) =>
              /\ Written' = 0
              /\ \E e \in PendingNotify :
                   /\ pending' = Append(pending, e) /\ e.size = Written /\ e.id = buffer.id
                   /\ e.last <=> Head(data_fifo).last
         /\ (CurrentTransferCompleted /\ ~(Head(data_fifo).last \/ BufferFull)) =>
              Written' = Written /\ UNCHANGED <<pending, hist>>
  <1>1. /\ output_state = "TRANSFER" /\ data_fifo # <<>> /\ data_fifo' = Tail(data_fifo)
        /\ UNCHANGED <<sq, mem, undelivered, curr_len, mid_stream, buffer, bytes_written>>
        /\ out' = Append(out, [beat |-> Head(data_fifo), tlast |-> CurrentTransferCompleted])
    BY DEF TransferBeat
  <1>2. Transferring /\ Active /\ Written = bytes_written /\ Ahead = Head(len_fifo) /\ Waiting = Tail(len_fifo)
    BY <1>1 DEF Transferring, Active, Written, Ahead, Waiting
  <1>3. CurrentTransferCompleted <=> beats_written + 1 = NumBeats(Ahead)
    BY <1>2 DEF CurrentTransferCompleted
  <1>4. Head(data_fifo) \in Beat /\ Head(data_fifo).last \in BOOLEAN
    <2>1. Head(data_fifo) \in Beat  BY <1>1, PopFacts DEF TypeOK, InputOK
    <2> QED BY <2>1 DEF Beat
  <1>5. PICK x : x = [beat |-> Head(data_fifo), tlast |-> CurrentTransferCompleted]  OBVIOUS
  <1>6. x \in OutBeat /\ x.beat = Head(data_fifo) /\ (x.tlast <=> CurrentTransferCompleted)
    <2>1. CurrentTransferCompleted \in BOOLEAN  BY DEF CurrentTransferCompleted
    <2>2. x \in OutBeat  BY <1>4, <1>5, <2>1 DEF OutBeat
    <2>3. x.beat = Head(data_fifo)  BY <1>5
    <2>4. x.tlast <=> CurrentTransferCompleted  BY <1>5
    <2> QED BY <2>2, <2>3, <2>4
  <1>7. out' = Append(out, x)  BY <1>1, <1>5
  <1>8. CASE ~CurrentTransferCompleted
    <2>1. UNCHANGED <<output_state, len_fifo, pending, hist>> /\ beats_written' = beats_written + 1
      BY <1>8 DEF TransferBeat
    <2>2. Transferring' /\ Written' = Written /\ Ahead' = Ahead /\ Waiting' = Waiting
      BY <1>1, <2>1 DEF Transferring, Active, Written, Ahead, Waiting
    <2> QED BY <1>1, <1>2, <1>3, <1>6, <1>7, <1>8, <2>1, <2>2
  <1>9. CASE CurrentTransferCompleted
    <2>1. EndTransfer(Head(data_fifo))  BY <1>9 DEF TransferBeat
    <2>2. len_fifo' = Tail(len_fifo) /\ output_state' \in {"WAIT_FOR_BUFFER", "REQUEST"}
      BY <2>1 DEF EndTransfer
    <2>3. ~Transferring' /\ Waiting' = Waiting  BY <1>2, <2>2 DEF Transferring, Waiting
    <2>4. CASE Head(data_fifo).last \/ BufferFull
      <3>1. PushPending(Head(data_fifo).last) /\ output_state' = "WAIT_FOR_BUFFER"
        BY <2>1, <2>4 DEF EndTransfer
      <3>2. Written' = 0  BY <3>1 DEF Written, Active
      <3>3. PICK e \in PendingNotify :
              /\ pending' = Append(pending, e) /\ e.id = buffer.id /\ e.size = bytes_written
              /\ e.last <=> Head(data_fifo).last
        BY <1>4, <3>1, PushFactsPending
      <3>4. hist'.sent = hist.sent
        <4>1. hist' = [hist EXCEPT !.pushed = @ + 1]  BY <3>1 DEF PushPending
        <4> QED BY <4>1 DEF TypeOK, HistOK
      <3> QED BY <1>1, <1>2, <1>3, <1>6, <1>7, <1>9, <2>3, <2>4, <3>2, <3>3, <3>4
    <2>5. CASE ~(Head(data_fifo).last \/ BufferFull)
      <3>1. UNCHANGED <<pending, hist>> /\ output_state' = "REQUEST"  BY <2>1, <2>5 DEF EndTransfer
      <3>2. Written' = Written  BY <1>1, <1>2, <3>1 DEF Written, Active
      <3> QED BY <1>1, <1>2, <1>3, <1>6, <1>7, <1>9, <2>3, <2>5, <3>1, <3>2
    <2> QED BY <2>4, <2>5
  <1> QED BY <1>8, <1>9

\* Where the next beat of Coyote's is.
LEMMA NextBeat ==
  ASSUME TypeOK, LengthHeld, NEW u, NEW P, NEW p, NEW L, NEW X, NEW G, Parts(u, P, p, L, X, G),
         Transferring
  PROVE  /\ Len(sq) \in Nat \ {0} /\ Len(sq) \in 1 .. Len(sq) /\ NumBeats(Ahead) \in Nat \ {0}
         /\ sq[Len(sq)].len = Ahead
         /\ X[Len(sq) - 1] \in Nat /\ X[Len(sq)] = X[Len(sq) - 1] + NumBeats(Ahead)
         /\ Len(out) = X[Len(sq) - 1] + beats_written /\ beats_written < NumBeats(Ahead)
         /\ G[Len(sq)] \in Nat /\ G[Len(sq)] + NumBeats(Ahead) = L[0]
         /\ \A j \in 1 .. Len(sq) : j # Len(sq) => X[j - 1] \in Nat /\ X[j] <= X[Len(sq) - 1]
                                                   /\ X[j] = X[j - 1] + NumBeats(sq[j].len)
  <1>1. PICK S, c : S = Len(sq) /\ c = NumBeats(Ahead)  OBVIOUS
  <1>2. S \in Nat \ {0} /\ S \in 1 .. S /\ S \in 0 .. S /\ S - 1 \in 0 .. S
    <2>1. sq # <<>> /\ Len(sq) \in Nat  BY ViewTypes DEF Parts, LastPart
    <2>2. S # 0  BY <1>1, <2>1, EmptySeq DEF TypeOK, SqOK
    <2> QED BY <1>1, <2>1, <2>2
  <1>3. sq[S].len = Ahead /\ G[S] + c = L[0] /\ X[S] + beats_written = Len(out) + c /\ beats_written < c
    BY <1>1 DEF Parts, LastPart, SentPart
  <1>4. c \in Nat \ {0} /\ G[S] \in Nat  BY <1>1, <1>2, <1>3, RequestBounds
  <1>5. BlockCount \in Nat /\ (\A k \in 0 .. S : k \in 0 .. BlockCount) /\ S - 1 \in 0 .. BlockCount
    <2>1. BlockCount = S + Len(Waiting) + 1 /\ Len(Waiting) \in Nat  BY <1>1, PartsTypes
    <2> QED BY <1>2, <2>1
  <1>6. X \in [0 .. BlockCount -> Nat] /\ \A j, k \in 0 .. BlockCount : j <= k => X[j] <= X[k]
    BY DEF Parts, DataPart, Offsets
  <1>7. X[S - 1] \in Nat /\ X[S] \in Nat  BY <1>2, <1>5, <1>6
  <1>8. \A j \in 1 .. S : X[j] = X[j - 1] + NumBeats(sq[j].len)  BY <1>1 DEF Parts, BlocksPart
  <1>9. X[S] = X[S - 1] + c  BY <1>1, <1>2, <1>3, <1>8
  <1>10. Len(out) = X[S - 1] + beats_written
    <2>1. Len(out) \in Nat /\ beats_written \in Nat  BY ViewTypes
    <2> QED BY <1>3, <1>4, <1>7, <1>9, <2>1
  <1>11. ASSUME NEW j \in 1 .. S, j # S
         PROVE  X[j - 1] \in Nat /\ X[j] <= X[S - 1]
    <2>1. j \in 0 .. S /\ j - 1 \in 0 .. S /\ j <= S - 1  BY <1>2, <1>11
    <2> QED BY <1>5, <1>6, <2>1
  <1> QED BY <1>1, <1>2, <1>3, <1>4, <1>7, <1>8, <1>9, <1>10, <1>11

LEMMA TransferMarks ==
  ASSUME TypeOK, LengthHeld, NEW u, NEW P, NEW p, NEW L, NEW X, NEW G, Parts(u, P, p, L, X, G),
         Transferring, NEW x \in OutBeat, out' = Append(out, x), sq' = sq,
         x.tlast <=> beats_written + 1 = NumBeats(Ahead)
  PROVE  MarkPart(X)'
  <1>1. PICK S, c, n, a, w : S = Len(sq) /\ c = NumBeats(Ahead) /\ n = Len(out) /\ a = X[S - 1] /\ w = beats_written
    OBVIOUS
  <1>2. /\ S \in Nat \ {0} /\ sq[S].len = Ahead /\ c \in Nat \ {0} /\ a \in Nat /\ n = a + w /\ w < c
        /\ \A j \in 1 .. S : j # S => X[j - 1] \in Nat /\ X[j] <= a /\ X[j] = X[j - 1] + NumBeats(sq[j].len)
    BY <1>1, NextBeat
  <1>3. w \in Nat /\ n \in Nat /\ out \in Seq(OutBeat)  BY <1>1, ViewTypes
  <1>4. PICK o : o = Append(out, x)  OBVIOUS
  <1>5. out' = o /\ Len(o) = n + 1 /\ (\A i \in 1 .. n : o[i] = out[i]) /\ o[n + 1] = x
    BY <1>1, <1>3, <1>4, PushFacts
  <1>6. \A j \in 1 .. S : NumBeats(sq[j].len) \in Nat \ {0} /\ X[j - 1] \in Nat
    <2>1. \A j \in 1 .. S : NumBeats(sq[j].len) \in Nat \ {0}  BY <1>1, RequestBounds
    <2> QED BY <1>1, <1>2, <2>1
  <1>7. ASSUME NEW j \in 1 .. S, NEW i \in 1 .. NumBeats(sq[j].len), X[j - 1] + i <= n + 1
        PROVE  o[X[j - 1] + i].tlast <=> i = NumBeats(sq[j].len)
    <2>1. PICK b, d, k : b \in Nat /\ d \in Nat /\ k \in Nat \ {0} /\ b = X[j - 1] /\ d = NumBeats(sq[j].len) /\ k = i
      BY <1>6
    <2>2. k <= d /\ b + k <= n + 1 /\ b + k \in Nat \ {0}  BY <1>7, <2>1
    <2>3. CASE b + k <= n
      <3>1. b + k \in 1 .. n  BY <1>3, <2>2, <2>3
      <3>2. o[b + k] = out[b + k]  BY <1>5, <3>1
      <3>3. out[b + k].tlast <=> k = d  BY <1>1, <2>1, <2>3 DEF Parts, MarkPart
      <3> QED BY <2>1, <3>2, <3>3
    <2>4. CASE b + k = n + 1
      <3>1. j = S
        <4> SUFFICES ASSUME j # S PROVE FALSE  OBVIOUS
        <4>1. X[j] <= a /\ X[j] = b + d  BY <1>2, <2>1
        <4> QED BY <1>2, <1>3, <2>1, <2>2, <2>4, <4>1
      <3>2. b = a /\ d = c  BY <1>1, <1>2, <2>1, <3>1
      <3>3. k = w + 1  BY <1>2, <1>3, <2>1, <2>4, <3>2
      <3>4. x.tlast <=> k = d  BY <1>1, <3>2, <3>3
      <3> QED BY <1>5, <2>1, <2>4, <3>4
    <2>5. b + k <= n \/ b + k = n + 1  BY <1>3, <2>2
    <2> QED BY <2>3, <2>4, <2>5
  <1> QED BY <1>1, <1>5, <1>7 DEF MarkPart

LEMMA TransferFilled ==
  ASSUME TypeOK, LengthHeld, NEW u \in Seq(Beat), NEW X, NEW G, DataPart(u, X, G), data_fifo # <<>>,
         NEW x \in OutBeat, out' = Append(out, x), x.beat = Head(data_fifo), data_fifo' = Tail(data_fifo),
         UNCHANGED <<sq, Waiting>>
  PROVE  DataPart(u, X, G)'
  <1>1. PICK n, end, o, e : n = BlockCount /\ end = Len(out) + Len(data_fifo)
                             /\ o = Append(out, x) /\ e = Tail(data_fifo)
    OBVIOUS
  <1>2. out \in Seq(OutBeat) /\ data_fifo \in Seq(Beat) /\ end \in Nat
    <2>1. out \in Seq(OutBeat) /\ data_fifo \in Seq(Beat) /\ Len(out) \in Nat /\ Len(data_fifo) \in Nat
      BY ViewTypes
    <2> QED BY <1>1, <2>1
  <1>3. n \in Nat  BY <1>1, ViewTypes DEF BlockCount
  <1>4. Offsets(X, n, end) /\ Filled(u, out, data_fifo, X, G, n)  BY <1>1 DEF DataPart
  <1>5. Len(o) + Len(e) = end /\ \A i \in 1 .. end : Data(o, e, i) = Data(out, data_fifo, i)
    <2>1. /\ Len(Append(out, x)) + Len(Tail(data_fifo)) = Len(out) + Len(data_fifo)
          /\ \A i \in 1 .. Len(out) + Len(data_fifo) :
               Data(Append(out, x), Tail(data_fifo), i) = Data(out, data_fifo, i)
      BY <1>2, DataMoves
    <2> QED BY <1>1, <2>1
  <1>6. Filled(u, o, e, X, G, n)  BY <1>2, <1>3, <1>4, <1>5, FilledSame
  <1>7. BlockCount' = n /\ out' = o /\ data_fifo' = e  BY <1>1 DEF BlockCount
  <1> QED BY <1>4, <1>5, <1>6, <1>7 DEF DataPart

\* The last beat of the transfer is the last one of the buffer so far.
LEMMA LastBeat ==
  ASSUME TypeOK, LengthHeld, NEW u, NEW P, NEW p, NEW L, NEW X, NEW G, Parts(u, P, p, L, X, G),
         Transferring, data_fifo # <<>>, beats_written + 1 = NumBeats(Ahead)
  PROVE  Head(data_fifo) = u[L[0]]
  <1>1. PICK S, c, n, a, w : S = Len(sq) /\ c = NumBeats(Ahead) /\ n = Len(out) /\ a = X[S - 1] /\ w = beats_written
    OBVIOUS
  <1>2. /\ S \in Nat \ {0} /\ S \in 1 .. S /\ c \in Nat \ {0} /\ a \in Nat /\ n = a + w /\ X[S] = a + c
        /\ G[S] \in Nat /\ G[S] + c = L[0]
    BY <1>1, NextBeat
  <1>3. w \in Nat /\ n \in Nat /\ data_fifo \in Seq(Beat) /\ w + 1 = c  BY <1>1, ViewTypes
  <1>4. a + c = n + 1  BY <1>2, <1>3
  <1>5. S \in 1 .. BlockCount
    <2>1. BlockCount = S + Len(Waiting) + 1 /\ Len(Waiting) \in Nat  BY <1>1, PartsTypes
    <2> QED BY <1>2, <2>1
  <1>6. c \in 1 .. X[S] - X[S - 1]
    <2>1. X[S] - X[S - 1] = c  BY <1>1, <1>2
    <2> QED BY <1>2, <2>1
  <1>7. Data(out, data_fifo, X[S - 1] + c) = u[G[S] + c]  BY <1>5, <1>6 DEF Parts, DataPart, Filled
  <1>8. Data(out, data_fifo, n + 1) = data_fifo[1]
    <2>1. ~(n + 1 <= Len(out)) /\ (n + 1) - Len(out) = 1  BY <1>1, <1>3
    <2> QED BY <2>1 DEF Data
  <1>9. Head(data_fifo) = data_fifo[1]  BY <1>3, PopFacts
  <1> QED BY <1>1, <1>2, <1>4, <1>7, <1>8, <1>9

\* The transfer ends and its buffer is not full: the stream goes on in it.
LEMMA TransferKeeps ==
  ASSUME TypeOK, LengthHeld, NEW u, NEW P, NEW p, NEW L, NEW X, NEW G, Parts(u, P, p, L, X, G),
         Transferring, ~Transferring', Written' = Written, ~u[L[0]].last
  PROVE  CurrentPart(u, p, L[0])'
  <1>1. PICK l, w : l = L[0] /\ w = Written  OBVIOUS
  <1>2. u \in Seq(Beat) /\ Suppressed(u) /\ p \in Nat /\ w \in Nat  BY <1>1, PartsTypes, ViewTypes
  <1>3. l = p + NumBeats(w) /\ (w # 0 => Piece(u, p, l, w)) /\ w # 0
    BY <1>1 DEF Parts, CurrentPart, AheadPart
  <1>4. w = BEAT * (l - p)  BY <1>1, <1>2, <1>3, PieceFacts
  <1>5. Written' = w  BY <1>1
  <1>6. CurrentPart(u, p, l)'  BY <1>1, <1>3, <1>4, <1>5 DEF CurrentPart
  <1> QED BY <1>1, <1>6

\* The buffer is done: its requests are those of the new notification.
LEMMA TransferRequests ==
  ASSUME TypeOK, LengthHeld, NEW u, NEW P, NEW p, NEW L, NEW X, NEW G, Parts(u, P, p, L, X, G),
         NEW e \in PendingNotify, pending' = Append(pending, e), e.size = Written, e.id = buffer.id,
         Written # 0, hist'.sent = hist.sent, sq' = sq,
         NEW Q, Q = Extended(P, Len(pending), L[0])
  PROVE  RequestPart(u, Q, L[0], G)'
  <1>1. PICK K, S, l : K = Len(pending) /\ S = Len(sq) /\ l = L[0]  OBVIOUS
  <1>2. K \in Nat /\ S \in Nat /\ p = P[K]  BY <1>1, PartsTypes
  <1>3. Len(pending') = K + 1 /\ (\A k \in 1 .. K : pending'[k] = pending[k]) /\ pending'[K + 1] = e
    BY <1>1, PushedFacts
  <1>4. (\A k \in 0 .. K : Q[k] = P[k]) /\ Q[K + 1] = l  BY <1>1, <1>2, ExtendedFacts
  <1>5. \A j \in 1 .. S : Entry(j)' = Entry(j)  BY DEF Entry
  <1>6. ASSUME NEW j \in 1 .. S
        PROVE  RequestAt(u, Q, l, G, j, Entry(j), NumBeats(sq[j].len))'
    <2>1. PICK k, n, q : k = Entry(j) /\ n = NumBeats(sq[j].len) /\ q = sq[j]  OBVIOUS
    <2>2. RequestAt(u, P, l, G, j, k, n) /\ k \in 1 .. K + 1  BY <1>1, <2>1, RequestBounds
    <2>3. k - 1 \in 0 .. K /\ k <= K + 1 /\ k \in 1 .. K + 2  BY <1>2, <2>2
    <2>4. /\ P[k - 1] <= G[j] /\ q.off = BEAT * (G[j] - P[k - 1])
          /\ q.len # 0 /\ Piece(u, G[j], G[j] + n, q.len)
          /\ G[j] + n <= G[j + 1] /\ \A i \in G[j] + n + 1 .. G[j + 1] : u[i].keep = 0
      BY <2>1, <2>2 DEF RequestAt
    <2>5. G[j] + n <= Q[k] /\ pending'[k].size # 0 /\ q.id = pending'[k].id
      <3>1. CASE k <= K
        <4>1. G[j] + n <= P[k] /\ pending[k].size # 0 /\ q.id = pending[k].id
          BY <1>1, <2>1, <2>2, <3>1 DEF RequestAt
        <4>2. k \in 1 .. K /\ k \in 0 .. K  BY <1>2, <2>2, <3>1
        <4> QED BY <1>3, <1>4, <4>1, <4>2
      <3>2. CASE ~(k <= K)
        <4>1. G[j] + n <= l /\ q.id = buffer.id  BY <1>1, <2>1, <2>2, <3>2 DEF RequestAt
        <4>2. k = K + 1  BY <1>2, <2>2, <3>2
        <4> QED BY <1>3, <1>4, <4>1, <4>2
      <3> QED BY <3>1, <3>2
    <2>6. Q[k - 1] = P[k - 1]  BY <1>4, <2>3
    <2>7. RequestAt(u, Q, l, G, j, k, n)'
      <3>1. k \in 1 .. Len(pending') + 1 /\ k <= Len(pending')  BY <1>2, <1>3, <2>2
      <3>2. sq'[j] = q  BY <2>1
      <3> QED BY <2>4, <2>5, <2>6, <3>1, <3>2 DEF RequestAt
    <2>8. Entry(j)' = k /\ NumBeats(sq'[j].len) = n  BY <1>5, <2>1
    <2> QED BY <2>7, <2>8
  <1>7. RequestPart(u, Q, l, G)'  BY <1>1, <1>6 DEF RequestPart
  <1> QED BY <1>1, <1>7

LEMMA TransferMemory ==
  ASSUME TypeOK, LengthHeld, NEW u, NEW P, NEW p, NEW l, NEW done, MemoryPart(u, P, l, done),
         NEW e \in PendingNotify, pending' = Append(pending, e), e.size = Written, e.id = buffer.id,
         Written # 0, Written' = 0, mem' = mem, NEW Q, Q = Extended(P, Len(pending), l)
  PROVE  MemoryPart(u, Q, l, done)'
  <1>1. PICK K, T : K = Len(pending) /\ T = pending'  OBVIOUS
  <1>2. K \in Nat /\ Len(T) = K + 1 /\ (\A k \in 1 .. K : T[k] = pending[k]) /\ T[K + 1] = e
    BY <1>1, PushedFacts
  <1>3. (\A k \in 0 .. K : Q[k] = P[k]) /\ Q[K + 1] = l  BY <1>1, <1>2, ExtendedFacts
  <1>4. /\ \A k \in 1 .. K : pending[k].size # 0 => mem[pending[k].id] = Stored(u, P[k - 1], P[k], done)
        /\ mem[buffer.id] = Stored(u, P[K], l, done)
        /\ \A b \in BufferIds : ~Holds(b) => mem[b] = {}
    BY <1>1 DEF MemoryPart
  <1>5. ASSUME NEW k \in 1 .. K + 1, T[k].size # 0
        PROVE  mem[T[k].id] = Stored(u, Q[k - 1], Q[k], done)
    <2>1. CASE k = K + 1
      <3>1. Q[k] = l /\ Q[k - 1] = P[K]
        <4>1. k - 1 = K /\ K \in 0 .. K  BY <1>2, <2>1
        <4> QED BY <1>3, <2>1, <4>1
      <3> QED BY <1>2, <1>4, <2>1, <3>1
    <2>2. CASE k # K + 1
      <3>1. k \in 1 .. K /\ k \in 0 .. K /\ k - 1 \in 0 .. K  BY <1>2, <2>2
      <3> QED BY <1>2, <1>3, <1>4, <1>5, <3>1
    <2> QED BY <2>1, <2>2
  <1>6. ASSUME NEW b \in BufferIds, ~Holds(b)'
        PROVE  mem[b] = {}
    <2>1. ~(\E k \in 1 .. K + 1 : T[k].size # 0 /\ T[k].id = b)  BY <1>1, <1>2, <1>6 DEF Holds
    <2>2. ~(\E k \in 1 .. K : pending[k].size # 0 /\ pending[k].id = b)
      <3>1. \A k \in 1 .. K : k \in 1 .. K + 1  BY <1>2
      <3> QED BY <1>2, <2>1, <3>1
    <2>3. buffer.id # b
      <3>1. K + 1 \in 1 .. K + 1  BY <1>2
      <3> QED BY <1>2, <2>1, <3>1
    <2>4. ~Holds(b)  BY <1>1, <2>2, <2>3 DEF Holds
    <2> QED BY <1>4, <2>4
  <1>7. Len(pending') = K + 1 /\ pending' = T  BY <1>1, <1>2
  <1> QED BY <1>5, <1>6, <1>7 DEF MemoryPart

LEMMA TransferData ==
  ASSUME TypeOK, LengthHeld, DataInv, TransferBeat
  PROVE  DataInv'
  <1>1. PICK u, P, p, L, X, G : Parts(u, P, p, L, X, G)  BY DEF DataInv
  <1>2. PICK K, l, done : K = Len(pending) /\ l = L[0] /\ done = G[1]  OBVIOUS
  <1>3. /\ Transferring /\ data_fifo # <<>> /\ Waiting' = Waiting
        /\ data_fifo' = Tail(data_fifo) /\ hist'.sent = hist.sent
        /\ UNCHANGED <<sq, mem, undelivered, curr_len, mid_stream, buffer>>
        /\ CurrentTransferCompleted <=> beats_written + 1 = NumBeats(Ahead)
    BY TransferViews
  <1>4. PICK x \in OutBeat :
          out' = Append(out, x) /\ x.beat = Head(data_fifo) /\ (x.tlast <=> CurrentTransferCompleted)
    BY TransferViews
  <1>5. /\ u \in Seq(Beat) /\ Suppressed(u) /\ p \in Nat /\ p = P[K] /\ l \in Nat /\ p <= l
        /\ u = undelivered /\ K \in Nat
    BY <1>1, <1>2, PartsTypes
  <1>6. /\ InputPart(u) /\ PendingPart(u, P) /\ WaitingPart(u, L) /\ CurrentPart(u, p, l)
        /\ AheadPart(u, p, l) /\ RequestPart(u, P, l, G) /\ LastPart(l, G) /\ DataPart(u, X, G)
        /\ BlocksPart(u, L, X, G) /\ SentPart(X) /\ MemoryPart(u, P, l, done)
    BY <1>1, <1>2 DEF Parts
  <1>7. /\ InputPart(u)' /\ WaitingPart(u, L)' /\ BlocksPart(u, L, X, G)'  BY <1>3, <1>6, PartFrames
  <1>8. DataPart(u, X, G)'  BY <1>3, <1>4, <1>5, <1>6, TransferFilled
  <1>9. MarkPart(X)'  BY <1>1, <1>3, <1>4, TransferMarks
  <1>10. Len(out') = Len(out) + 1 /\ Len(out) \in Nat /\ beats_written \in Nat
    BY <1>4, ViewTypes, PushFacts
  <1>11. /\ X[Len(sq)] + beats_written = Len(out) + NumBeats(Ahead) /\ beats_written < NumBeats(Ahead)
         /\ X[Len(sq)] \in Nat /\ NumBeats(Ahead) \in Nat
    <2>1. /\ X[Len(sq) - 1] \in Nat /\ X[Len(sq)] = X[Len(sq) - 1] + NumBeats(Ahead)
          /\ NumBeats(Ahead) \in Nat \ {0}
      BY <1>1, <1>3, NextBeat
    <2>2. X[Len(sq)] \in Nat  BY <2>1
    <2> QED BY <1>3, <1>6, <2>1, <2>2 DEF SentPart
  <1>12. CASE ~CurrentTransferCompleted
    <2>1. /\ Transferring' /\ Written' = Written /\ Ahead' = Ahead /\ UNCHANGED <<pending, hist>>
          /\ beats_written' = beats_written + 1
      BY <1>12, TransferViews
    <2>2. UNCHANGED <<Transferring, Written, Ahead>>  BY <1>3, <2>1 DEF Transferring
    <2>3. /\ PendingPart(u, P)' /\ CurrentPart(u, p, l)' /\ AheadPart(u, p, l)' /\ RequestPart(u, P, l, G)'
          /\ LastPart(l, G)' /\ MemoryPart(u, P, l, done)'
      BY <1>3, <1>6, <2>1, <2>2, PartFrames
    <2>4. SentPart(X)'
      <3>1. PICK a \in Nat, c \in Nat, w \in Nat, n \in Nat :
              a = X[Len(sq)] /\ c = NumBeats(Ahead) /\ w = beats_written /\ n = Len(out)
        BY <1>10, <1>11
      <3>2. a + w = n + c /\ w < c /\ w + 1 # c  BY <1>3, <1>11, <1>12, <3>1
      <3>3. a + (w + 1) = (n + 1) + c /\ w + 1 < c  BY <3>2
      <3>4. X[Len(sq')] + beats_written' = Len(out') + NumBeats(Ahead') /\ beats_written' < NumBeats(Ahead')
        BY <1>3, <1>10, <2>1, <3>1, <3>3
      <3> QED BY <2>1, <3>4 DEF SentPart
    <2>5. p = P[Len(pending')] /\ u = undelivered'  BY <1>2, <1>3, <1>5, <2>1
    <2>6. Parts(u, P, p, L, X, G)'  BY <1>2, <1>7, <1>8, <1>9, <2>3, <2>4, <2>5 DEF Parts
    <2> QED BY <2>6 DEF DataInv
  <1>13. CASE CurrentTransferCompleted
    <2>1. ~Transferring'  BY <1>13, TransferViews
    <2>2. Head(data_fifo) = u[l]  BY <1>1, <1>2, <1>3, <1>13, LastBeat
    <2>3. SentPart(X)'
      <3>1. PICK a \in Nat, c \in Nat, w \in Nat, n \in Nat :
              a = X[Len(sq)] /\ c = NumBeats(Ahead) /\ w = beats_written /\ n = Len(out)
        BY <1>10, <1>11
      <3>2. a + w = n + c /\ w + 1 = c  BY <1>3, <1>11, <1>13, <3>1
      <3>3. a = n + 1  BY <3>2
      <3> QED BY <1>3, <1>10, <2>1, <3>1, <3>3 DEF SentPart
    <2>4. LastPart(l, G)'  BY <2>1 DEF LastPart
    <2>5. Written # 0 /\ Piece(u, p, l, Written)  BY <1>3, <1>6 DEF AheadPart, CurrentPart
    <2>6. CASE Head(data_fifo).last \/ BufferFull
      <3>1. Written' = 0  BY <1>13, <2>6, TransferViews
      <3>2. PICK e \in PendingNotify :
              /\ pending' = Append(pending, e) /\ e.size = Written /\ e.id = buffer.id
              /\ e.last <=> Head(data_fifo).last
        BY <1>13, <2>6, TransferViews
      <3>3. PICK Q : Q = Extended(P, K, l)  OBVIOUS
      <3>4. PendingPart(u, Q)'
        <4>1. Piece(u, P[Len(pending)], l, e.size) /\ (e.last <=> u[l].last)
          BY <1>2, <1>5, <2>2, <2>5, <3>2
        <4> QED BY <1>2, <1>5, <1>6, <3>2, <3>3, <4>1, PushPendingPart
      <3>5. CurrentPart(u, l, l)' /\ AheadPart(u, l, l)'
        <4>1. l = l + NumBeats(0) /\ 0 = BEAT * (l - l)  BY <1>5, NoBeats, WriterAssumption
        <4> QED BY <2>1, <3>1, <4>1 DEF CurrentPart, AheadPart
      <3>6. RequestPart(u, Q, l, G)'  BY <1>1, <1>2, <1>3, <2>5, <3>2, <3>3, TransferRequests
      <3>7. MemoryPart(u, Q, l, done)'  BY <1>2, <1>3, <1>6, <2>5, <3>1, <3>2, <3>3, TransferMemory
      <3>8. l = Q[Len(pending')] /\ u = undelivered'
        <4>1. Len(pending') = K + 1  BY <1>2, <3>2, PushedFacts
        <4>2. Q[K + 1] = l  BY <1>5, <3>3, ExtendedFacts
        <4> QED BY <1>3, <1>5, <4>1, <4>2
      <3>9. Parts(u, Q, l, L, X, G)'
        BY <1>2, <1>7, <1>8, <1>9, <2>3, <2>4, <3>4, <3>5, <3>6, <3>7, <3>8 DEF Parts
      <3> QED BY <3>9 DEF DataInv
    <2>7. CASE ~(Head(data_fifo).last \/ BufferFull)
      <3>1. Written' = Written /\ UNCHANGED <<pending, hist>>  BY <1>13, <2>7, TransferViews
      <3>2. CurrentPart(u, p, l)'  BY <1>1, <1>2, <1>3, <2>1, <2>2, <2>7, <3>1, TransferKeeps
      <3>3. AheadPart(u, p, l)'  BY <2>1 DEF AheadPart
      <3>4. PendingPart(u, P)' /\ RequestPart(u, P, l, G)' /\ MemoryPart(u, P, l, done)'
        BY <1>3, <1>6, <3>1, PartFrames
      <3>5. p = P[Len(pending')] /\ u = undelivered'  BY <1>2, <1>3, <1>5, <3>1
      <3>6. Parts(u, P, p, L, X, G)'
        BY <1>2, <1>7, <1>8, <1>9, <2>3, <2>4, <3>2, <3>3, <3>4, <3>5 DEF Parts
      <3> QED BY <3>6 DEF DataInv
    <2> QED BY <2>6, <2>7
  <1> QED BY <1>12, <1>13

----
(* Coyote writes the beats of its oldest request.                           *)

LEMMA CompleteViews ==
  ASSUME TypeOK, HostComplete
  PROVE  /\ Len(sq) \in Nat \ {0} /\ sq' = Tail(sq) /\ Len(sq') = Len(sq) - 1
         /\ \A j \in 1 .. Len(sq) - 1 : sq'[j] = sq[j + 1]
         /\ Len(out) >= NumBeats(sq[1].len) /\ out' = Drop(out, NumBeats(sq[1].len))
         /\ hist'.sent = hist.sent
         /\ UNCHANGED <<pending, buffer, undelivered, curr_len, mid_stream, data_fifo, beats_written>>
         /\ UNCHANGED <<Written, Transferring, Ahead, Waiting, Active>>
         /\ mem' = [mem EXCEPT ![sq[1].id] =
              @ \cup {<<sq[1].off + BEAT * (i - 1), out[i].beat>> : i \in 1 .. NumBeats(sq[1].len)}]
  <1>1. sq # <<>> /\ sq' = Tail(sq)  BY DEF HostComplete
  <1>2. /\ Len(sq) \in Nat \ {0} /\ Len(sq') = Len(sq) - 1 /\ Head(sq) = sq[1]
        /\ \A j \in 1 .. Len(sq) - 1 : sq'[j] = sq[j + 1]
    BY <1>1, PopFacts DEF TypeOK, SqOK
  <1>3. /\ Len(out) >= NumBeats(Head(sq).len)
        /\ out' = SubSeq(out, NumBeats(Head(sq).len) + 1, Len(out))
        /\ mem' = [mem EXCEPT ![Head(sq).id] = @ \cup
             {<<Head(sq).off + BEAT * (i - 1), out[i].beat>> : i \in 1 .. NumBeats(Head(sq).len)}]
    BY DEF HostComplete
  <1>4. hist'.sent = hist.sent
    <2>1. hist' = [hist EXCEPT !.completed = @ + 1]  BY DEF HostComplete
    <2> QED BY <2>1 DEF TypeOK, HistOK
  <1>5. /\ UNCHANGED <<pending, buffer, undelivered, curr_len, mid_stream, data_fifo, beats_written>>
        /\ UNCHANGED <<output_state, bytes_written, len_fifo>>
    BY DEF HostComplete, inputVars, fsmVars
  <1>6. UNCHANGED <<Written, Transferring, Ahead, Waiting, Active>>
    BY <1>5 DEF Written, Transferring, Ahead, Waiting, Active
  <1>7. out' = Drop(out, NumBeats(sq[1].len))  BY <1>2, <1>3 DEF Drop
  <1>8. /\ Len(out) >= NumBeats(sq[1].len)
        /\ mem' = [mem EXCEPT ![sq[1].id] =
             @ \cup {<<sq[1].off + BEAT * (i - 1), out[i].beat>> : i \in 1 .. NumBeats(sq[1].len)}]
    <2>1. PICK r : r = Head(sq) /\ r = sq[1]  BY <1>2
    <2>2. Len(out) >= NumBeats(r.len)  BY <1>3, <2>1
    <2>3. mem' = [mem EXCEPT ![r.id] =
            @ \cup {<<r.off + BEAT * (i - 1), out[i].beat>> : i \in 1 .. NumBeats(r.len)}]
      BY <1>3, <2>1
    <2> QED BY <2>1, <2>2, <2>3
  <1> QED BY <1>1, <1>2, <1>4, <1>5, <1>6, <1>7, <1>8

\* The first block is that of the oldest request.
LEMMA FirstBlock ==
  ASSUME TypeOK, LengthHeld, NEW u, NEW P, NEW p, NEW L, NEW X, NEW G, Parts(u, P, p, L, X, G),
         HostComplete
  PROVE  /\ X[1] = NumBeats(sq[1].len) /\ X[1] \in Nat /\ X[1] <= Len(out)
         /\ X[0] = 0
         /\ \A i \in 1 .. X[1] : out[i].beat = u[G[1] + i]
         /\ Transferring => Len(sq) # 1
  <1>1. Len(sq) \in Nat \ {0} /\ Len(out) >= NumBeats(sq[1].len) /\ 1 \in 1 .. Len(sq)
    BY CompleteViews
  <1>2. /\ X \in [0 .. BlockCount -> Nat] /\ X[0] = 0 /\ BlockCount \in Nat
        /\ BlockCount = Len(sq) + Len(Waiting) + 1 /\ Len(Waiting) \in Nat
    BY PartsTypes DEF Parts, DataPart, Offsets
  <1>3. NumBeats(sq[1].len) \in Nat \ {0}  BY <1>1, RequestBounds
  <1>4. X[1] = X[1 - 1] + NumBeats(sq[1].len)  BY <1>1 DEF Parts, BlocksPart
  <1>5. X[1] = NumBeats(sq[1].len)  BY <1>2, <1>3, <1>4
  <1>6. ASSUME NEW i \in 1 .. X[1]
        PROVE  out[i].beat = u[G[1] + i]
    <2>1. 1 \in 1 .. BlockCount /\ 1 - 1 = 0  BY <1>1, <1>2
    <2>2. Filled(u, out, data_fifo, X, G, BlockCount)  BY DEF Parts, DataPart
    <2>3. i \in 1 .. X[1] - X[1 - 1] /\ X[1 - 1] + i = i  BY <1>2, <1>3, <1>5, <2>1
    <2>4. Data(out, data_fifo, i) = u[G[1] + i]  BY <2>1, <2>2, <2>3 DEF Filled
    <2>5. i <= Len(out)  BY <1>1, <1>3, <1>5, ViewTypes
    <2> QED BY <2>4, <2>5 DEF Data
  <1>7. Transferring => Len(sq) # 1
    <2> SUFFICES ASSUME Transferring, Len(sq) = 1 PROVE FALSE  OBVIOUS
    <2>1. X[1] + beats_written = Len(out) + NumBeats(Ahead) /\ beats_written < NumBeats(Ahead)
      BY DEF Parts, SentPart
    <2>2. Len(out) \in Nat /\ beats_written \in Nat /\ NumBeats(Ahead) \in Nat
      BY ViewTypes, NumBeatsNat
    <2> QED BY <1>1, <1>3, <1>5, <2>1, <2>2
  <1> QED BY <1>1, <1>2, <1>3, <1>5, <1>6, <1>7

\* The other blocks move up.
LEMMA CompleteShift ==
  ASSUME TypeOK, LengthHeld, NEW u, NEW P, NEW p, NEW L, NEW X, NEW G, Parts(u, P, p, L, X, G),
         HostComplete, NEW Y, Y = FirstGone(X, BlockCount), NEW H, H = RestBlocks(G, BlockCount)
  PROVE  /\ BlockCount' = BlockCount - 1
         /\ \A k \in 0 .. BlockCount - 1 : Y[k] = X[k + 1] - X[1] /\ X[k + 1] \in Nat
         /\ \A k \in 1 .. BlockCount - 1 : H[k] = G[k + 1]
         /\ DataPart(u, Y, H)'
  <1>1. PICK n, x : n = BlockCount /\ x = X[1]  OBVIOUS
  <1>2. n \in Nat \ {0} /\ n = Len(sq) + Len(Waiting) + 1 /\ X \in [0 .. n -> Nat]
        /\ Len(sq) \in Nat /\ Len(Waiting) \in Nat /\ u \in Seq(Beat)
    BY <1>1, PartsTypes
  <1>3. BlockCount' = n - 1
    <2>1. Len(sq') = Len(sq) - 1 /\ Waiting' = Waiting  BY CompleteViews
    <2>2. BlockCount' = Len(sq') + Len(Waiting') + 1  BY DEF BlockCount
    <2> QED BY <1>2, <2>1, <2>2
  <1>4. out \in Seq(OutBeat) /\ data_fifo \in Seq(Beat) /\ Len(out) \in Nat /\ Len(data_fifo) \in Nat
    BY ViewTypes
  <1>5. x \in Nat /\ x <= Len(out) /\ out' = Drop(out, x) /\ data_fifo' = data_fifo
    BY <1>1, FirstBlock, CompleteViews
  <1>6. Offsets(X, n, Len(out) + Len(data_fifo)) /\ Filled(u, out, data_fifo, X, G, n)
    BY <1>1 DEF Parts, DataPart
  <1>7. PICK end \in Nat : end = Len(out) + Len(data_fifo)  BY <1>4
  <1>8. /\ Offsets(Y, n - 1, end - x)
        /\ \A k \in 0 .. n - 1 : Y[k] = X[k + 1] - x
    <2>1. n \in Nat \ {0} /\ Offsets(X, n, end) /\ x = X[1] /\ Y = FirstGone(X, n)
      BY <1>1, <1>2, <1>6, <1>7
    <2> QED BY <2>1, OffsetsFirstGone
  <1>9. \A k \in 0 .. n - 1 : X[k + 1] \in Nat
    <2>1. \A k \in 0 .. n - 1 : k + 1 \in 0 .. n  BY <1>2
    <2> QED BY <1>2, <2>1
  <1>10. \A k \in 1 .. n - 1 : H[k] = G[k + 1]  BY <1>1 DEF RestBlocks
  <1>11. Len(out') + Len(data_fifo') = end - x
    <2>1. Len(Drop(out, x)) = Len(out) - x
      <3>1. x \in 0 .. Len(out)  BY <1>4, <1>5
      <3> QED BY <1>4, <3>1, DropFacts
    <2> QED BY <1>4, <1>5, <1>7, <2>1
  <1>12. Filled(u, out', data_fifo', Y, H, n - 1)
    <2>1. Filled(u, Drop(out, x), data_fifo, Y, H, n - 1)
      BY <1>1, <1>2, <1>4, <1>5, <1>6, FilledFirstGone
    <2> QED BY <1>5, <2>1
  <1>13. DataPart(u, Y, H)'  BY <1>3, <1>8, <1>11, <1>12 DEF DataPart
  <1> QED BY <1>1, <1>3, <1>8, <1>9, <1>10, <1>13

LEMMA CompleteBlocks ==
  ASSUME TypeOK, LengthHeld, NEW u, NEW P, NEW p, NEW L, NEW X, NEW G, Parts(u, P, p, L, X, G),
         HostComplete, NEW Y, Y = FirstGone(X, BlockCount), NEW H, H = RestBlocks(G, BlockCount)
  PROVE  BlocksPart(u, L, Y, H)' /\ SentPart(Y)' /\ MarkPart(Y)'
  <1>1. PICK n, x, S, W : n = BlockCount /\ x = X[1] /\ S = Len(sq) /\ W = Len(Waiting)  OBVIOUS
  <1>2. n \in Nat \ {0} /\ n = S + W + 1 /\ S \in Nat \ {0} /\ W \in Nat
    BY <1>1, PartsTypes, CompleteViews
  <1>3. /\ BlockCount' = n - 1 /\ (\A k \in 0 .. n - 1 : Y[k] = X[k + 1] - x /\ X[k + 1] \in Nat)
        /\ \A k \in 1 .. n - 1 : H[k] = G[k + 1]
    BY <1>1, CompleteShift
  <1>4. x \in Nat /\ x <= Len(out) /\ Len(out) \in Nat /\ out' = Drop(out, x) /\ out \in Seq(OutBeat)
    BY <1>1, FirstBlock, CompleteViews, ViewTypes
  <1>5. Len(out') = Len(out) - x /\ \A i \in 1 .. Len(out) - x : out'[i] = out[x + i]
    <2>1. x \in 0 .. Len(out)  BY <1>4
    <2> QED BY <1>4, <2>1, DropFacts
  <1>6. Len(sq') = S - 1 /\ (\A j \in 1 .. S - 1 : sq'[j] = sq[j + 1]) /\ Waiting' = Waiting
        /\ UNCHANGED <<Transferring, Ahead, beats_written>>
    BY <1>1, CompleteViews
  <1>7. /\ \A i \in 0 .. W : G[S + 1 + i] = L[i]
        /\ \A j \in 1 .. S : X[j] = X[j - 1] + NumBeats(sq[j].len)
        /\ \A i \in 1 .. W : X[S + i] = X[S + i - 1] + NumBeats(Waiting[i])
        /\ X[n] = X[n - 1] + (Len(u) - L[W])
    BY <1>1 DEF Parts, BlocksPart
  <1>8. \A j \in 1 .. S : NumBeats(sq[j].len) \in Nat  BY <1>1, RequestBounds
  <1>9. \A i \in 1 .. W : NumBeats(Waiting[i]) \in Nat
    <2>1. \A i \in 1 .. W : Waiting[i] \in Nat  BY <1>1, ViewTypes
    <2> QED BY <2>1, NumBeatsNat
  <1>10. ASSUME NEW k \in 1 .. n - 1
         PROVE  Y[k] = X[k + 1] - x /\ Y[k - 1] = X[k] - x /\ X[k + 1] \in Nat /\ X[k] \in Nat
    <2>1. k \in 0 .. n - 1 /\ k - 1 \in 0 .. n - 1 /\ (k - 1) + 1 = k  BY <1>2
    <2> QED BY <1>3, <2>1
  <1>11. ASSUME NEW k \in 1 .. n - 1, NEW m \in Int, X[k + 1] = X[k] + m
         PROVE  Y[k] = Y[k - 1] + m
    <2>1. PICK a \in Nat, c \in Nat : a = X[k + 1] /\ c = X[k]  BY <1>10
    <2>2. a - x = (c - x) + m  BY <1>4, <1>11, <2>1
    <2> QED BY <1>10, <2>1, <2>2
  <1>12. \A i \in 0 .. W : H[(S - 1) + 1 + i] = L[i]
    <2> SUFFICES ASSUME NEW i \in 0 .. W PROVE H[(S - 1) + 1 + i] = L[i]  OBVIOUS
    <2>1. (S - 1) + 1 + i \in 1 .. n - 1 /\ ((S - 1) + 1 + i) + 1 = S + 1 + i  BY <1>2
    <2> QED BY <1>3, <1>7, <2>1
  <1>13. \A j \in 1 .. S - 1 : Y[j] = Y[j - 1] + NumBeats(sq'[j].len)
    <2> SUFFICES ASSUME NEW j \in 1 .. S - 1 PROVE Y[j] = Y[j - 1] + NumBeats(sq'[j].len)  OBVIOUS
    <2>1. j + 1 \in 1 .. S /\ (j + 1) - 1 = j /\ j \in 1 .. n - 1  BY <1>2
    <2>2. X[j + 1] = X[j] + NumBeats(sq[j + 1].len) /\ NumBeats(sq[j + 1].len) \in Int
      BY <1>7, <1>8, <2>1
    <2> QED BY <1>6, <1>11, <2>1, <2>2
  <1>14. \A i \in 1 .. W : Y[(S - 1) + i] = Y[(S - 1) + i - 1] + NumBeats(Waiting[i])
    <2> SUFFICES ASSUME NEW i \in 1 .. W PROVE Y[(S - 1) + i] = Y[(S - 1) + i - 1] + NumBeats(Waiting[i])
      OBVIOUS
    <2>1. PICK k \in 1 .. n - 1 : k = (S - 1) + i /\ k + 1 = S + i /\ k = S + i - 1 /\ k - 1 = (S - 1) + i - 1
      BY <1>2
    <2>2. X[k + 1] = X[k] + NumBeats(Waiting[i]) /\ NumBeats(Waiting[i]) \in Int
      BY <1>7, <1>9, <2>1
    <2>3. Y[k] = Y[k - 1] + NumBeats(Waiting[i])  BY <1>11, <2>2
    <2> QED BY <2>1, <2>3
  <1>15. Y[n - 1] = Y[(n - 1) - 1] + (Len(u) - L[W])
    <2>1. PICK k \in 1 .. n - 1 : k = n - 1 /\ k + 1 = n  BY <1>2
    <2>2. Len(u) - L[W] \in Int
      <3>1. W \in 0 .. W  BY <1>2
      <3>2. L[W] \in Nat /\ Len(u) \in Nat  BY <1>1, <3>1, PartsTypes
      <3> QED BY <3>2
    <2>3. X[k + 1] = X[k] + (Len(u) - L[W])  BY <1>7, <2>1
    <2>4. Y[k] = Y[k - 1] + (Len(u) - L[W])  BY <1>11, <2>2, <2>3
    <2> QED BY <2>1, <2>4
  <1>16. BlocksPart(u, L, Y, H)'  BY <1>1, <1>3, <1>6, <1>12, <1>13, <1>14, <1>15 DEF BlocksPart
  <1>17. Y[S - 1] = X[S] - x /\ X[S] \in Nat
    <2>1. S - 1 \in 0 .. n - 1 /\ (S - 1) + 1 = S  BY <1>2
    <2> QED BY <1>3, <2>1
  <1>18. SentPart(Y)'
    <2>1. CASE Transferring
      <3>1. X[S] + beats_written = Len(out) + NumBeats(Ahead) /\ beats_written < NumBeats(Ahead)
        BY <1>1, <2>1 DEF Parts, SentPart
      <3>2. beats_written \in Nat /\ NumBeats(Ahead) \in Nat  BY ViewTypes, NumBeatsNat
      <3>3. PICK a \in Nat, c \in Nat, w \in Nat, m \in Nat, y \in Nat :
              a = X[S] /\ c = NumBeats(Ahead) /\ w = beats_written /\ m = Len(out) /\ y = x
        BY <1>4, <1>17, <3>2
      <3>4. a + w = m + c  BY <3>1, <3>3
      <3>5. (a - y) + w = (m - y) + c  BY <3>4
      <3>6. Y[S - 1] + beats_written = Len(out') + NumBeats(Ahead)  BY <1>5, <1>17, <3>3, <3>5
      <3> QED BY <1>6, <2>1, <3>1, <3>6 DEF SentPart
    <2>2. CASE ~Transferring
      <3>1. X[S] = Len(out)  BY <1>1, <2>2 DEF Parts, SentPart
      <3>2. Y[S - 1] = Len(out')  BY <1>5, <1>17, <3>1
      <3> QED BY <1>6, <2>2, <3>2 DEF SentPart
    <2> QED BY <2>1, <2>2
  <1>19. MarkPart(Y)'
    <2>1. ASSUME NEW j \in 1 .. S - 1, NEW i \in 1 .. NumBeats(sq'[j].len), Y[j - 1] + i <= Len(out')
          PROVE  out'[Y[j - 1] + i].tlast <=> i = NumBeats(sq'[j].len)
      <3>1. j + 1 \in 1 .. S /\ (j + 1) - 1 = j /\ j \in 1 .. n - 1  BY <1>2
      <3>2. sq'[j] = sq[j + 1] /\ NumBeats(sq[j + 1].len) \in Nat  BY <1>6, <1>8, <3>1
      <3>3. Y[j - 1] = X[j] - x /\ X[j] \in Nat  BY <1>10, <3>1
      <3>4. x <= X[j]
        <4>1. Offsets(X, n, Len(out) + Len(data_fifo))  BY <1>1 DEF Parts, DataPart
        <4>2. 1 \in 0 .. n /\ j \in 0 .. n /\ 1 <= j  BY <1>2
        <4> QED BY <1>1, <4>1, <4>2 DEF Offsets
      <3>5. PICK a \in Nat, d \in Nat : a = X[j] + i /\ d = Y[j - 1] + i
        <4>1. X[j] + i \in Nat /\ Y[j - 1] + i \in Nat  BY <1>4, <3>2, <3>3, <3>4
        <4> QED BY <4>1
      <3>6. d \in 1 .. Len(out) - x /\ x + d = a /\ a <= Len(out)
        <4>1. PICK b \in Nat, z \in Nat : b = X[j] /\ z = Len(out)  BY <1>4, <3>3
        <4>2. x <= b /\ a = b + i /\ d = (b - x) + i /\ d <= Len(out')
          BY <2>1, <3>3, <3>4, <3>5, <4>1
        <4>3. Len(out') = z - x /\ x \in Nat /\ i \in Nat \ {0}  BY <1>4, <1>5, <3>2, <4>1
        <4>4. d \in 1 .. z - x /\ x + d = a /\ a <= z  BY <4>2, <4>3
        <4> QED BY <4>1, <4>4
      <3>7. out'[d] = out[a]  BY <1>5, <3>6
      <3>8. out[a].tlast <=> i = NumBeats(sq[j + 1].len)
        <4>1. X[(j + 1) - 1] + i <= Len(out) => (out[X[(j + 1) - 1] + i].tlast <=> i = NumBeats(sq[j + 1].len))
          BY <1>1, <3>1, <3>2 DEF Parts, MarkPart
        <4> QED BY <3>1, <3>5, <3>6, <4>1
      <3> QED BY <3>2, <3>5, <3>7, <3>8
    <2> QED BY <1>6, <2>1 DEF MarkPart
  <1> QED BY <1>16, <1>18, <1>19

LEMMA CompleteRequests ==
  ASSUME TypeOK, LengthHeld, NEW u, NEW P, NEW p, NEW L, NEW X, NEW G, Parts(u, P, p, L, X, G),
         HostComplete, NEW H, H = RestBlocks(G, BlockCount)
  PROVE  RequestPart(u, P, L[0], H)' /\ LastPart(L[0], H)'
  <1>1. PICK n, S, l, K : n = BlockCount /\ S = Len(sq) /\ l = L[0] /\ K = Len(pending)  OBVIOUS
  <1>2. n \in Nat \ {0} /\ n = S + Len(Waiting) + 1 /\ S \in Nat \ {0} /\ Len(Waiting) \in Nat /\ K \in Nat
    BY <1>1, PartsTypes, CompleteViews
  <1>3. \A k \in 1 .. n - 1 : H[k] = G[k + 1]  BY <1>1 DEF RestBlocks
  <1>4. /\ Len(sq') = S - 1 /\ (\A j \in 1 .. S - 1 : sq'[j] = sq[j + 1])
        /\ UNCHANGED <<Transferring, Ahead, Written, pending, buffer>> /\ hist'.sent = hist.sent
    BY <1>1, CompleteViews
  <1>5. \A j \in 1 .. S - 1 : Entry(j)' = Entry(j + 1)  BY <1>4 DEF Entry
  <1>6. ASSUME NEW j \in 1 .. S - 1
        PROVE  RequestAt(u, P, l, H, j, Entry(j), NumBeats(sq[j].len))'
    <2>1. PICK i, k, m, q : i = j + 1 /\ k = Entry(i) /\ m = NumBeats(sq[i].len) /\ q = sq[i]
      OBVIOUS
    <2>2. i \in 1 .. S /\ j \in 1 .. n - 1 /\ i \in 1 .. n - 1  BY <1>2, <2>1
    <2>3. RequestAt(u, P, l, G, i, k, m)  BY <1>1, <2>1, <2>2, RequestBounds
    <2>4. H[j] = G[i] /\ H[j + 1] = G[i + 1] /\ sq'[j] = q  BY <1>3, <1>4, <2>1, <2>2
    <2>5. RequestAt(u, P, l, H, j, k, m)'  BY <1>4, <2>1, <2>3, <2>4 DEF RequestAt
    <2>6. Entry(j)' = k /\ NumBeats(sq'[j].len) = m  BY <1>5, <2>1, <2>4
    <2> QED BY <2>5, <2>6
  <1>7. RequestPart(u, P, l, H)'  BY <1>4, <1>6 DEF RequestPart
  <1>8. ASSUME Transferring
        PROVE  /\ sq' # <<>> /\ sq'[S - 1].len = Ahead
               /\ Entry(S - 1)' = K + 1 /\ H[S - 1] + NumBeats(Ahead) = l
    <2>1. S # 1  BY <1>1, <1>8, FirstBlock
    <2>2. S - 1 \in 1 .. S - 1 /\ (S - 1) + 1 = S /\ S - 1 \in 1 .. n - 1  BY <1>2, <2>1
    <2>3. sq[S].len = Ahead /\ Entry(S) = K + 1 /\ G[S] + NumBeats(Ahead) = l
      BY <1>1, <1>8 DEF Parts, LastPart
    <2>4. sq' # <<>>
      <3>1. sq' # <<>> \/ Len(sq') = 0  OBVIOUS
      <3> QED BY <1>4, <2>2, <3>1
    <2> QED BY <1>3, <1>4, <1>5, <2>2, <2>3, <2>4
  <1>9. LastPart(l, H)'
    <2>1. Transferring' = Transferring /\ Len(sq') = S - 1 /\ Ahead' = Ahead /\ Len(pending') = K
      BY <1>1, <1>4
    <2> QED BY <1>8, <2>1 DEF LastPart
  <1> QED BY <1>1, <1>7, <1>9

----
(* The buffers with data that is not notified: those of pending, and the    *)
(* current one behind them.                                                 *)

SizeAt(k) == IF k <= Len(pending) THEN pending[k].size ELSE Written
IdAt(k) == IF k <= Len(pending) THEN pending[k].id ELSE buffer.id
EndAt(P, l, k) == IF k <= Len(pending) THEN P[k] ELSE l

NonNull(u, from, to) == \A i \in from + 1 .. to : u[i].keep # 0
OnlyNull(u, from, to) == \A i \in from + 1 .. to : u[i].keep = 0

LEMMA MemoryAt ==
  ASSUME TypeOK, NEW u, NEW P, NEW l, NEW done
  PROVE  MemoryPart(u, P, l, done) <=>
           /\ \A k \in 1 .. Len(pending) + 1 : SizeAt(k) # 0 =>
                mem[IdAt(k)] = Stored(u, P[k - 1], EndAt(P, l, k), done)
           /\ \A b \in BufferIds :
                (\A k \in 1 .. Len(pending) + 1 : SizeAt(k) # 0 => IdAt(k) # b) => mem[b] = {}
  <1>1. PICK K \in Nat : K = Len(pending)  BY DEF TypeOK, NotifyOK
  <1>2. \A k \in 1 .. K : /\ k \in 1 .. K + 1 /\ SizeAt(k) = pending[k].size
                          /\ IdAt(k) = pending[k].id /\ EndAt(P, l, k) = P[k]
    BY <1>1 DEF SizeAt, IdAt, EndAt
  <1>3. /\ K + 1 \in 1 .. K + 1 /\ (K + 1) - 1 = K /\ SizeAt(K + 1) = Written
        /\ IdAt(K + 1) = buffer.id /\ EndAt(P, l, K + 1) = l
    BY <1>1 DEF SizeAt, IdAt, EndAt
  <1>4. \A k \in 1 .. K + 1 : k \in 1 .. K \/ k = K + 1  OBVIOUS
  <1>5. ASSUME NEW b
        PROVE  Holds(b) <=> ~(\A k \in 1 .. K + 1 : SizeAt(k) # 0 => IdAt(k) # b)
    BY <1>1, <1>2, <1>3, <1>4 DEF Holds
  <1>6. ASSUME MemoryPart(u, P, l, done)
        PROVE  \A k \in 1 .. K + 1 : SizeAt(k) # 0 =>
                 mem[IdAt(k)] = Stored(u, P[k - 1], EndAt(P, l, k), done)
    BY <1>1, <1>2, <1>3, <1>4, <1>6 DEF MemoryPart
  <1>7. ASSUME \A k \in 1 .. K + 1 : SizeAt(k) # 0 =>
                 mem[IdAt(k)] = Stored(u, P[k - 1], EndAt(P, l, k), done)
        PROVE  /\ \A k \in 1 .. K : pending[k].size # 0 =>
                    mem[pending[k].id] = Stored(u, P[k - 1], P[k], done)
               /\ Written # 0 => mem[buffer.id] = Stored(u, P[K], l, done)
    BY <1>2, <1>3, <1>7
  <1> QED BY <1>1, <1>5, <1>6, <1>7 DEF MemoryPart

LEMMA OwnersApart ==
  ASSUME TypeOK, IdsInv, NEW j \in 1 .. Len(pending) + 1, NEW k \in 1 .. Len(pending) + 1,
         j # k, SizeAt(j) # 0, SizeAt(k) # 0
  PROVE  IdAt(j) # IdAt(k)
  <1>1. Written # 0 => Active  BY DEF Written
  <1>2. PICK K \in Nat : K = Len(pending)  BY DEF TypeOK, NotifyOK
  <1>3. j \in 1 .. K \/ j = K + 1  BY <1>2
  <1>4. k \in 1 .. K \/ k = K + 1  BY <1>2
  <1>5. ASSUME NEW i \in 1 .. K
        PROVE  SizeAt(i) = pending[i].size /\ IdAt(i) = pending[i].id
    BY <1>2 DEF SizeAt, IdAt
  <1>6. SizeAt(K + 1) = Written /\ IdAt(K + 1) = buffer.id  BY <1>2 DEF SizeAt, IdAt
  <1> QED BY <1>1, <1>2, <1>3, <1>4, <1>5, <1>6 DEF IdsInv, PendingApart

LEMMA OwnersKnown ==
  ASSUME TypeOK, IdsInv, NEW k \in 1 .. Len(pending) + 1, SizeAt(k) # 0
  PROVE  IdAt(k) \in BufferIds
  <1>1. Written # 0 => Active  BY DEF Written
  <1>2. PICK K \in Nat : K = Len(pending)  BY DEF TypeOK, NotifyOK
  <1>3. k \in 1 .. K \/ k = K + 1  BY <1>2
  <1>4. CASE k \in 1 .. K  BY <1>2, <1>4 DEF IdAt, IdsInv, IdsKnown
  <1>5. CASE k = K + 1  BY <1>1, <1>2, <1>5 DEF IdAt, SizeAt, IdsInv, IdsKnown
  <1> QED BY <1>3, <1>4, <1>5

LEMMA OwnerPieces ==
  ASSUME TypeOK, LengthHeld, NEW u, NEW P, NEW p, NEW L, NEW X, NEW G, Parts(u, P, p, L, X, G),
         NEW k \in 1 .. Len(pending) + 1
  PROVE  /\ P[k - 1] \in Nat /\ EndAt(P, L[0], k) \in Nat /\ EndAt(P, L[0], k) <= Len(u)
         /\ P[k - 1] <= EndAt(P, L[0], k)
         /\ SizeAt(k) \in Nat
         /\ SizeAt(k) # 0 => NonNull(u, P[k - 1], EndAt(P, L[0], k))
         /\ \A j \in 1 .. Len(pending) + 1 : j < k => EndAt(P, L[0], j) <= P[k - 1]
  <1>1. PICK K, l : K = Len(pending) /\ l = L[0]  OBVIOUS
  <1>2. /\ u \in Seq(Beat) /\ Suppressed(u) /\ K \in Nat /\ p \in Nat /\ p = P[K]
        /\ l \in Nat /\ p <= l /\ Len(u) \in Nat
    BY <1>1, PartsTypes
  <1>3. l <= Len(u)
    <2>1. 0 \in 0 .. Len(Waiting)  BY PartsTypes
    <2> QED BY <1>1, <2>1, PartsTypes
  <1>4. PendingSizes \in Seq(Nat) /\ Len(PendingSizes) = K /\ Cut(u, P, PendingSizes)
    BY <1>1, ViewTypes DEF Parts, PendingPart
  <1>5. /\ \A i \in 0 .. K : P[i] \in Nat /\ P[i] <= Len(u)
        /\ \A i, j \in 0 .. K : i <= j => P[i] <= P[j]
    BY <1>2, <1>4, CutBounds
  <1>6. \A j \in 1 .. K : EndAt(P, l, j) = P[j] /\ SizeAt(j) = pending[j].size
    BY <1>1 DEF EndAt, SizeAt
  <1>7. k - 1 \in 0 .. K /\ P[k - 1] \in Nat  BY <1>1, <1>2, <1>5
  <1>8. \A j \in 1 .. K + 1 : j < k => EndAt(P, l, j) <= P[k - 1]
    <2> SUFFICES ASSUME NEW j \in 1 .. K + 1, j < k
                 PROVE  EndAt(P, l, j) <= P[k - 1]
      OBVIOUS
    <2>1. j \in 0 .. K /\ j \in 1 .. K /\ j <= k - 1  BY <1>1, <1>2
    <2> QED BY <1>5, <1>6, <1>7, <2>1
  <1>9. CASE k \in 1 .. K
    <2>1. EndAt(P, l, k) = P[k] /\ SizeAt(k) = pending[k].size /\ k \in 0 .. K  BY <1>6, <1>9
    <2>2. pending[k].size \in Nat /\ PendingSizes[k] = pending[k].size  BY <1>1, <1>9, SizeOf
    <2>3. Piece(u, P[k - 1], P[k], pending[k].size)  BY <1>4, <1>9, <2>2 DEF Cut
    <2>4. P[k - 1] < P[k] /\ (pending[k].size # 0 => \A i \in P[k - 1] + 1 .. P[k] : u[i].keep # 0)
      <3>1. PICK f \in Nat, t \in {P[k]}, z \in Nat : f = P[k - 1] /\ t = P[k] /\ z = pending[k].size
        BY <1>7, <2>2
      <3>2. u \in Seq(Beat) /\ Suppressed(u) /\ Piece(u, f, t, z)  BY <1>2, <2>3, <3>1
      <3>3. f < t  BY <3>2, PieceFacts
      <3>4. z # 0 => \A i \in f + 1 .. t : u[i].keep # 0  BY <3>2, PieceFacts
      <3> QED BY <3>1, <3>3, <3>4
    <2>5. P[k] \in Nat /\ P[k] <= Len(u)  BY <1>5, <2>1
    <2>6. P[k - 1] <= P[k]  BY <1>7, <2>4, <2>5
    <2> QED BY <1>1, <1>7, <1>8, <2>1, <2>2, <2>4, <2>5, <2>6 DEF NonNull
  <1>10. CASE k = K + 1
    <2>1. EndAt(P, l, k) = l /\ SizeAt(k) = Written /\ k - 1 = K
      BY <1>1, <1>2, <1>10 DEF EndAt, SizeAt
    <2>2. Written \in Nat  BY ViewTypes
    <2>3. ASSUME Written # 0
          PROVE  NonNull(u, p, l)
      <3>1. Piece(u, p, l, Written)  BY <1>1, <2>3 DEF Parts, CurrentPart
      <3>2. PICK z \in Nat : z = Written  BY <2>2
      <3>3. Piece(u, p, l, z) /\ z # 0  BY <2>3, <3>1, <3>2
      <3>4. \A i \in p + 1 .. l : u[i].keep # 0  BY <1>2, <3>3, PieceFacts
      <3> QED BY <3>4 DEF NonNull
    <2> QED BY <1>1, <1>2, <1>3, <1>7, <1>8, <2>1, <2>2, <2>3
  <1>11. k \in 1 .. K \/ k = K + 1  BY <1>1, <1>2
  <1> QED BY <1>9, <1>10, <1>11

\* The beats g + 1 .. g + n are written, of which the piece has all.
SameBeats(o, u, g, n) == \A i \in 1 .. n : o[i].beat = u[g + i]
WrittenBeats(o, off, n) == {<<off + BEAT * (i - 1), o[i].beat>> : i \in 1 .. n}
Adds(u, o, f, t, g, n, h, off) ==
  /\ f <= g /\ g + n <= t /\ g + n <= h /\ off = BEAT * (g - f)
  /\ NonNull(u, f, t) /\ OnlyNull(u, g + n, h) /\ SameBeats(o, u, g, n)

LEMMA OffsetsAgree ==
  ASSUME NEW f \in Nat, NEW g \in Nat, NEW i \in Nat, f <= g
  PROVE  BEAT * (g - f) + BEAT * (i - 1) = BEAT * ((g + i) - f - 1)
  <1>1. PICK a \in Nat, c \in Int : a = g - f /\ c = i - 1  OBVIOUS
  <1>2. (g + i) - f - 1 = a + c  BY <1>1
  <1>3. BEAT * a + BEAT * c = BEAT * (a + c)  BY WriterAssumption
  <1> QED BY <1>1, <1>2, <1>3

LEMMA StoredAdds ==
  ASSUME NEW u, NEW o, NEW f \in Nat, NEW t \in Nat, NEW g \in Nat, NEW n \in Nat, NEW h \in Nat,
         NEW off, Adds(u, o, f, t, g, n, h, off)
  PROVE  Stored(u, f, t, h) = Stored(u, f, t, g) \cup WrittenBeats(o, off, n)
  <1>1. /\ f <= g /\ g + n <= t /\ g + n <= h /\ off = BEAT * (g - f)
        /\ NonNull(u, f, t) /\ OnlyNull(u, g + n, h) /\ SameBeats(o, u, g, n)
    BY DEF Adds
  <1>2. PICK A, B, C : A = Stored(u, f, t, h) /\ B = Stored(u, f, t, g)
                       /\ C = WrittenBeats(o, BEAT * (g - f), n)
    OBVIOUS
  <1>3. A = {<<BEAT * (j - f - 1), u[j]>> : j \in {k \in f + 1 .. t : k <= h}}
        /\ B = {<<BEAT * (j - f - 1), u[j]>> : j \in {k \in f + 1 .. t : k <= g}}
    BY <1>2 DEF Stored
  <1>4. C = {<<BEAT * (g - f) + BEAT * (i - 1), o[i].beat>> : i \in 1 .. n}
    BY <1>2 DEF WrittenBeats
  <1>5. ASSUME NEW i \in 1 .. n
        PROVE  <<BEAT * (g - f) + BEAT * (i - 1), o[i].beat>> = <<BEAT * ((g + i) - f - 1), u[g + i]>>
    <2>1. BEAT * (g - f) + BEAT * (i - 1) = BEAT * ((g + i) - f - 1)
      <3>1. i \in Nat  OBVIOUS
      <3> QED BY <1>1, <3>1, OffsetsAgree
    <2>2. o[i].beat = u[g + i]  BY <1>1 DEF SameBeats
    <2> QED BY <2>1, <2>2
  <1>6. ASSUME NEW e \in A
        PROVE  e \in B \cup C
    <2>1. PICK j \in f + 1 .. t : j <= h /\ e = <<BEAT * (j - f - 1), u[j]>>  BY <1>3
    <2>2. CASE j <= g  BY <1>3, <2>1, <2>2
    <2>3. CASE ~(j <= g)
      <3>1. u[j].keep # 0  BY <1>1, <2>1 DEF NonNull
      <3>2. ~(j \in g + n + 1 .. h)  BY <1>1, <3>1 DEF OnlyNull
      <3>3. PICK i \in 1 .. n : i = j - g /\ g + i = j  BY <1>1, <2>1, <2>3, <3>2
      <3>4. e = <<BEAT * ((g + i) - f - 1), u[g + i]>>  BY <2>1, <3>3
      <3> QED BY <1>4, <1>5, <3>4
    <2> QED BY <2>2, <2>3
  <1>7. ASSUME NEW e \in B
        PROVE  e \in A
    <2>1. PICK j \in f + 1 .. t : j <= g /\ e = <<BEAT * (j - f - 1), u[j]>>  BY <1>3
    <2>2. j <= h  BY <1>1, <2>1
    <2> QED BY <1>3, <2>1, <2>2
  <1>8. ASSUME NEW e \in C
        PROVE  e \in A
    <2>1. PICK i \in 1 .. n : e = <<BEAT * (g - f) + BEAT * (i - 1), o[i].beat>>  BY <1>4
    <2>2. PICK j \in f + 1 .. t : j = g + i /\ j <= h  BY <1>1
    <2>3. e = <<BEAT * (j - f - 1), u[j]>>  BY <1>5, <2>1, <2>2
    <2> QED BY <1>3, <2>2, <2>3
  <1>9. A = B \cup C  BY <1>6, <1>7, <1>8
  <1> QED BY <1>1, <1>2, <1>9

LEMMA StoredSkips ==
  ASSUME NEW u, NEW f \in Nat, NEW t \in Nat, NEW g \in Nat, NEW n \in Nat, NEW h \in Nat,
         g + n <= f \/ t <= g, g + n <= h, NonNull(u, f, t), OnlyNull(u, g + n, h)
  PROVE  Stored(u, f, t, h) = Stored(u, f, t, g)
  <1>1. ASSUME NEW j \in f + 1 .. t
        PROVE  j <= h <=> j <= g
    <2>1. u[j].keep # 0  BY DEF NonNull
    <2>2. ~(j \in g + n + 1 .. h)  BY <2>1 DEF OnlyNull
    <2> QED BY <2>2
  <1>2. {j \in f + 1 .. t : j <= h} = {j \in f + 1 .. t : j <= g}  BY <1>1
  <1> QED BY <1>2 DEF Stored

LEMMA CompleteMemory ==
  ASSUME TypeOK, LengthHeld, IdsInv, NEW u, NEW P, NEW p, NEW L, NEW X, NEW G,
         Parts(u, P, p, L, X, G), HostComplete
  PROVE  MemoryPart(u, P, L[0], G[2])'
  <1>1. PICK K, l, g, h, r, n : K = Len(pending) /\ l = L[0] /\ g = G[1] /\ h = G[2] /\ r = sq[1]
                                /\ n = NumBeats(r.len)
    OBVIOUS
  <1>2. K \in Nat /\ 1 \in 1 .. Len(sq)  BY <1>1, PartsTypes, CompleteViews
  <1>3. /\ RequestAt(u, P, l, G, 1, Entry(1), n) /\ n \in Nat /\ g \in Nat /\ h \in Nat
        /\ g + n <= h /\ Entry(1) \in 1 .. K + 1
    <2>1. 1 + 1 = 2  OBVIOUS
    <2> QED BY <1>1, <1>2, <2>1, RequestBounds
  <1>4. PICK k \in 1 .. K + 1 : k = Entry(1)  BY <1>3
  <1>5. /\ P[k - 1] <= g /\ g + n <= EndAt(P, l, k) /\ r.off = BEAT * (g - P[k - 1])
        /\ SizeAt(k) # 0 /\ r.id = IdAt(k) /\ OnlyNull(u, g + n, h)
    <2>1. 1 + 1 = 2  OBVIOUS
    <2>2. RequestAt(u, P, l, G, 1, k, n)  BY <1>3, <1>4
    <2>3. P[k - 1] <= g /\ r.off = BEAT * (g - P[k - 1]) /\ OnlyNull(u, g + n, h)
      BY <1>1, <2>1, <2>2 DEF RequestAt, OnlyNull
    <2>4. g + n <= EndAt(P, l, k)  BY <1>1, <2>2 DEF RequestAt, EndAt
    <2>5. SizeAt(k) # 0 /\ r.id = IdAt(k)  BY <1>1, <2>2 DEF RequestAt, SizeAt, IdAt
    <2> QED BY <2>3, <2>4, <2>5
  <1>6. SameBeats(out, u, g, n)  BY <1>1, FirstBlock DEF SameBeats
  <1>7. mem' = [mem EXCEPT ![r.id] = @ \cup WrittenBeats(out, r.off, n)]
    BY <1>1, CompleteViews DEF WrittenBeats
  <1>8. mem \in [BufferIds -> SUBSET (Nat \X Beat)]  BY DEF TypeOK, HostOK
  <1>9. r.id \in BufferIds  BY <1>1, <1>4, <1>5, OwnersKnown
  <1>10. /\ mem'[r.id] = mem[r.id] \cup WrittenBeats(out, r.off, n)
         /\ \A b \in BufferIds : b # r.id => mem'[b] = mem[b]
    BY <1>7, <1>8, <1>9
  <1>11. MemoryPart(u, P, l, g)  BY <1>1 DEF Parts
  <1>12. /\ \A j \in 1 .. K + 1 : SizeAt(j) # 0 => mem[IdAt(j)] = Stored(u, P[j - 1], EndAt(P, l, j), g)
         /\ \A b \in BufferIds : (\A j \in 1 .. K + 1 : SizeAt(j) # 0 => IdAt(j) # b) => mem[b] = {}
    BY <1>1, <1>11, MemoryAt
  <1>13. \A j \in 1 .. K + 1 :
           /\ P[j - 1] \in Nat /\ EndAt(P, l, j) \in Nat
           /\ SizeAt(j) # 0 => NonNull(u, P[j - 1], EndAt(P, l, j))
    BY <1>1, OwnerPieces
  <1>14. ASSUME NEW j \in 1 .. K + 1, SizeAt(j) # 0
         PROVE  mem'[IdAt(j)] = Stored(u, P[j - 1], EndAt(P, l, j), h)
    <2>1. PICK f \in Nat, t \in Nat : f = P[j - 1] /\ t = EndAt(P, l, j)  BY <1>13
    <2>2. NonNull(u, f, t) /\ mem[IdAt(j)] = Stored(u, f, t, g)  BY <1>12, <1>13, <1>14, <2>1
    <2>3. CASE j = k
      <3>1. f <= g /\ g + n <= t /\ r.off = BEAT * (g - f) /\ r.id = IdAt(j)  BY <1>5, <2>1, <2>3
      <3>2. PICK o, off : o = out /\ off = BEAT * (g - f)  OBVIOUS
      <3>3. n \in Nat /\ g \in Nat /\ h \in Nat  BY <1>3
      <3>4. Adds(u, o, f, t, g, n, h, off)  BY <1>3, <1>5, <1>6, <2>2, <3>1, <3>2 DEF Adds
      <3>5. Stored(u, f, t, h) = Stored(u, f, t, g) \cup WrittenBeats(o, off, n)
        BY <3>3, <3>4, StoredAdds
      <3> QED BY <1>10, <2>1, <2>2, <3>1, <3>2, <3>5
    <2>4. CASE j # k
      <3>1. g + n <= f \/ t <= g
        <4>1. CASE j < k
          <5>1. EndAt(P, l, j) <= P[k - 1] /\ P[k - 1] \in Nat  BY <1>1, <4>1, OwnerPieces
          <5> QED BY <1>3, <1>5, <2>1, <5>1
        <4>2. CASE k < j
          <5>1. EndAt(P, l, k) <= P[j - 1] /\ EndAt(P, l, k) \in Nat  BY <1>1, <4>2, OwnerPieces
          <5>2. PICK a \in Nat : a = EndAt(P, l, k)  BY <5>1
          <5> QED BY <1>3, <1>5, <2>1, <5>1, <5>2
        <4> QED BY <2>4, <4>1, <4>2
      <3>2. Stored(u, f, t, h) = Stored(u, f, t, g)  BY <1>3, <1>5, <2>2, <3>1, StoredSkips
      <3>3. IdAt(j) # r.id /\ IdAt(j) \in BufferIds
        BY <1>1, <1>5, <1>14, <2>4, OwnersApart, OwnersKnown
      <3> QED BY <1>10, <2>1, <2>2, <3>2, <3>3
    <2> QED BY <2>3, <2>4
  <1>15. ASSUME NEW b \in BufferIds, \A j \in 1 .. K + 1 : SizeAt(j) # 0 => IdAt(j) # b
         PROVE  mem'[b] = {}
    <2>1. b # r.id  BY <1>5, <1>15
    <2> QED BY <1>10, <1>12, <1>15, <2>1
  <1>16. UNCHANGED <<pending, Written, buffer>>  BY CompleteViews
  <1>17. MemoryPart(u, P, l, h)'
    <2>1. /\ \A j \in 1 .. K : pending[j].size # 0 => mem'[pending[j].id] = Stored(u, P[j - 1], P[j], h)
          /\ Written # 0 => mem'[buffer.id] = Stored(u, P[K], l, h)
      <3>1. \A j \in 1 .. K : /\ j \in 1 .. K + 1 /\ SizeAt(j) = pending[j].size
                              /\ IdAt(j) = pending[j].id /\ EndAt(P, l, j) = P[j]
        BY <1>1, <1>2 DEF SizeAt, IdAt, EndAt
      <3>2. /\ K + 1 \in 1 .. K + 1 /\ (K + 1) - 1 = K /\ SizeAt(K + 1) = Written
            /\ IdAt(K + 1) = buffer.id /\ EndAt(P, l, K + 1) = l
        BY <1>1, <1>2 DEF SizeAt, IdAt, EndAt
      <3> QED BY <1>14, <3>1, <3>2
    <2>2. ASSUME NEW b \in BufferIds, ~Holds(b)
          PROVE  mem'[b] = {}
      <3>1. ASSUME NEW j \in 1 .. K + 1, SizeAt(j) # 0
            PROVE  IdAt(j) # b
        <4>1. j \in 1 .. K \/ ~(j <= K)  BY <1>2
        <4> QED BY <1>1, <2>2, <3>1, <4>1 DEF Holds, SizeAt, IdAt
      <3> QED BY <1>15, <2>2, <3>1
    <2>3. \A b : Holds(b)' <=> Holds(b)  BY <1>16 DEF Holds
    <2> QED BY <1>1, <1>16, <2>1, <2>2, <2>3 DEF MemoryPart
  <1> QED BY <1>1, <1>17

LEMMA CompleteData ==
  ASSUME TypeOK, LengthHeld, IdsInv, DataInv, HostComplete
  PROVE  DataInv'
  <1>1. PICK u, P, p, L, X, G : Parts(u, P, p, L, X, G)  BY DEF DataInv
  <1>2. PICK l, Y, H : l = L[0] /\ Y = FirstGone(X, BlockCount) /\ H = RestBlocks(G, BlockCount)
    OBVIOUS
  <1>3. /\ UNCHANGED <<pending, buffer, undelivered, curr_len, mid_stream, beats_written>>
        /\ UNCHANGED <<Written, Transferring, Ahead, Waiting>>
    BY CompleteViews
  <1>4. /\ InputPart(u) /\ PendingPart(u, P) /\ WaitingPart(u, L) /\ CurrentPart(u, p, l)
        /\ AheadPart(u, p, l) /\ p = P[Len(pending)] /\ u = undelivered
    BY <1>1, <1>2 DEF Parts
  <1>5. /\ InputPart(u)' /\ PendingPart(u, P)' /\ WaitingPart(u, L)' /\ CurrentPart(u, p, l)'
        /\ AheadPart(u, p, l)'
    BY <1>3, <1>4, PartFrames
  <1>6. RequestPart(u, P, l, H)' /\ LastPart(l, H)'  BY <1>1, <1>2, CompleteRequests
  <1>7. DataPart(u, Y, H)'  BY <1>1, <1>2, CompleteShift
  <1>8. BlocksPart(u, L, Y, H)' /\ SentPart(Y)' /\ MarkPart(Y)'  BY <1>1, <1>2, CompleteBlocks
  <1>9. MemoryPart(u, P, l, H[1])'
    <2>1. H[1] = G[2]
      <3>1. BlockCount - 1 \in Nat /\ 1 \in 1 .. BlockCount - 1 /\ 1 + 1 = 2
        <4>1. BlockCount = Len(sq) + Len(Waiting) + 1 /\ Len(Waiting) \in Nat /\ Len(sq) \in Nat \ {0}
          BY <1>1, PartsTypes, CompleteViews
        <4> QED BY <4>1
      <3>2. H[1] = G[1 + 1]  BY <1>1, <1>2, <3>1, CompleteShift
      <3> QED BY <3>1, <3>2
    <2>2. MemoryPart(u, P, l, G[2])'  BY <1>1, <1>2, CompleteMemory
    <2>3. PICK h : h = H[1] /\ h = G[2]  BY <2>1
    <2>4. MemoryPart(u, P, l, h)'  BY <2>2, <2>3
    <2> QED BY <2>3, <2>4
  <1>10. p = P[Len(pending')] /\ u = undelivered'  BY <1>3, <1>4
  <1>11. Parts(u, P, p, L, Y, H)'  BY <1>2, <1>5, <1>6, <1>7, <1>8, <1>9, <1>10 DEF Parts
  <1> QED BY <1>11 DEF DataInv

----
(* A notification is sent: its beats leave the history.                     *)

LEMMA NotifyViews ==
  ASSUME TypeOK, LengthHeld, Notify
  PROVE  /\ Len(pending) \in Nat \ {0} /\ Len(pending') = Len(pending) - 1
         /\ \A k \in 1 .. Len(pending) - 1 : pending'[k] = pending[k + 1]
         /\ pending[1].size \in Nat
         /\ undelivered' = Drop(undelivered, Blocks(pending[1].size))
         /\ hist'.sent = hist.sent + 1
         /\ UNCHANGED <<buffer, curr_len, mid_stream, data_fifo, sq, out, beats_written>>
         /\ UNCHANGED <<Written, Transferring, Ahead, Waiting, Active>>
         /\ PendingSizes' = Tail(PendingSizes) /\ PendingSizes # <<>>
         /\ mem' = IF pending[1].size = 0 THEN mem ELSE [mem EXCEPT ![pending[1].id] = {}]
  <1>1. pending # <<>> /\ pending' = Tail(pending)  BY DEF Notify, NotifyValid
  <1>2. /\ Len(pending) \in Nat \ {0} /\ Len(pending') = Len(pending) - 1 /\ Head(pending) = pending[1]
        /\ \A k \in 1 .. Len(pending) - 1 : pending'[k] = pending[k + 1]
    BY <1>1, PopFacts DEF TypeOK, NotifyOK
  <1>3. pending[1].size \in Nat  BY <1>2, SizeOf
  <1>4. undelivered' = Drop(undelivered, Blocks(pending[1].size))
    <2>1. undelivered' = SubSeq(undelivered, Blocks(Head(pending).size) + 1, Len(undelivered))
      BY DEF Notify, Blocks
    <2> QED BY <1>2, <2>1 DEF Drop
  <1>5. hist'.sent = hist.sent + 1
    <2>1. hist' = [hist EXCEPT !.sent = @ + 1]  BY DEF Notify
    <2> QED BY <2>1 DEF TypeOK, HistOK
  <1>6. /\ UNCHANGED <<buffer, curr_len, mid_stream, data_fifo, sq, out, beats_written>>
        /\ UNCHANGED <<output_state, bytes_written, len_fifo>>
    BY DEF Notify, inputVars, fsmVars
  <1>7. UNCHANGED <<Written, Transferring, Ahead, Waiting, Active>>
    BY <1>6 DEF Written, Transferring, Ahead, Waiting, Active
  <1>8. mem' = IF pending[1].size = 0 THEN mem ELSE [mem EXCEPT ![pending[1].id] = {}]
    BY <1>2 DEF Notify
  <1>9. PendingSizes' = Tail(PendingSizes) /\ PendingSizes # <<>>
    <2>1. PICK s, n : s = PendingSizes /\ n = Len(pending)  OBVIOUS
    <2>2. s \in Seq(Nat) /\ Len(s) = n /\ s = [k \in 1 .. n |-> pending[k].size] /\ n \in Nat \ {0}
      BY <1>2, <2>1, ViewTypes DEF PendingSizes
    <2>3. s # <<>>  BY <2>2
    <2>4. Tail(s) = [k \in 1 .. n - 1 |-> s[k + 1]]  BY <2>2, <2>3
    <2>5. PendingSizes' = [k \in 1 .. n - 1 |-> pending'[k].size]  BY <1>2, <2>1 DEF PendingSizes
    <2>6. \A k \in 1 .. n - 1 : pending'[k].size = s[k + 1]
      <3>1. \A k \in 1 .. n - 1 : k + 1 \in 1 .. n  BY <2>2
      <3> QED BY <1>2, <2>1, <2>2, <3>1
    <2> QED BY <2>1, <2>3, <2>4, <2>5, <2>6
  <1> QED BY <1>1, <1>2, <1>3, <1>4, <1>5, <1>6, <1>7, <1>8, <1>9

\* All that is not notified yet lies behind the first pending notification.
Behind(G, n, d) == \A k \in 1 .. n : d <= G[k]

LEMMA ValidBounds ==
  ASSUME TypeOK, LengthHeld, CompletionInv, NEW u, NEW P, NEW p, NEW L, NEW X, NEW G,
         Parts(u, P, p, L, X, G), NotifyValid
  PROVE  /\ P[1] = Blocks(pending[1].size) /\ P[1] \in Nat /\ P[1] \in 0 .. Len(u) /\ P[1] <= p
         /\ \A k \in 1 .. Len(pending) : P[1] <= P[k]
         /\ \A j \in 1 .. Len(sq) : Entry(j) \in 2 .. Len(pending) + 1
         /\ Behind(G, BlockCount, P[1])
  <1>1. PICK K, S, W : K = Len(pending) /\ S = Len(sq) /\ W = Len(Waiting)  OBVIOUS
  <1>2. /\ K \in Nat \ {0} /\ S \in Nat /\ W \in Nat /\ BlockCount = S + W + 1 /\ u \in Seq(Beat)
        /\ p \in Nat /\ p = P[K] /\ P[0] = 0 /\ p <= L[0] /\ L[0] \in Nat /\ Len(u) \in Nat
    <2>1. pending # <<>> /\ pending \in Seq(PendingNotify)  BY DEF NotifyValid, TypeOK, NotifyOK
    <2>2. Len(pending) # 0  BY <2>1, EmptySeq
    <2> QED BY <1>1, <2>2, PartsTypes
  <1>3. PendingSizes \in Seq(Nat) /\ Len(PendingSizes) = K /\ Cut(u, P, PendingSizes)
    BY <1>1, ViewTypes DEF Parts, PendingPart
  <1>4. /\ \A k \in 0 .. K : P[k] \in Nat /\ P[k] <= Len(u)
        /\ \A j, k \in 0 .. K : j <= k => P[j] <= P[k]
    BY <1>2, <1>3, CutBounds
  <1>5. 1 \in 1 .. K /\ 1 \in 0 .. K /\ K \in 0 .. K /\ \A k \in 1 .. K : k \in 0 .. K /\ 1 <= k
    BY <1>2
  <1>6. P[1] \in Nat /\ P[1] <= Len(u) /\ P[1] <= p /\ \A k \in 1 .. K : P[1] <= P[k]
    BY <1>2, <1>4, <1>5
  <1>7. P[1] = Blocks(pending[1].size)
    <2>1. Piece(u, P[1 - 1], P[1], PendingSizes[1]) /\ PendingSizes[1] = pending[1].size
          /\ pending[1].size \in Nat
      BY <1>1, <1>3, <1>5, SizeOf DEF Cut
    <2>2. P[1] = P[1 - 1] + Blocks(pending[1].size)  BY <2>1 DEF Piece
    <2>3. Blocks(pending[1].size) \in Nat  BY <2>1, BlocksPositive
    <2> QED BY <1>2, <2>2, <2>3
  <1>8. \A j \in 1 .. S : Entry(j) \in 2 .. K + 1
    <2> SUFFICES ASSUME NEW j \in 1 .. S PROVE Entry(j) \in 2 .. K + 1  OBVIOUS
    <2>1. NotifyValid  OBVIOUS
    <2>2. j \in DOMAIN sq  BY <1>1 DEF TypeOK, SqOK
    <2>3. sq[j].entry > hist.sent + 1  BY <2>1, <2>2, CompletionImplies DEF NotifyAfterCompletion
    <2>4. sq[j].entry \in Nat /\ hist.sent \in Nat  BY <2>2, EntryNat, HistNat
    <2>5. Entry(j) \in 1 .. K + 1  BY <1>1, RequestBounds
    <2> QED BY <1>2, <2>3, <2>4, <2>5 DEF Entry
  <1>9. ASSUME NEW j \in 1 .. S
        PROVE  P[1] <= G[j]
    <2>1. PICK k \in 2 .. K + 1 : k = Entry(j)  BY <1>8
    <2>2. RequestAt(u, P, L[0], G, j, k, NumBeats(sq[j].len)) /\ G[j] \in Nat
      BY <1>1, <2>1, RequestBounds
    <2>3. P[k - 1] <= G[j]  BY <2>2 DEF RequestAt
    <2>4. k - 1 \in 0 .. K /\ 1 <= k - 1  BY <1>2
    <2>5. P[1] <= P[k - 1] /\ P[k - 1] \in Nat  BY <1>4, <1>5, <2>4
    <2> QED BY <1>6, <2>2, <2>3, <2>5
  <1>10. ASSUME NEW j \in S + 1 .. BlockCount
         PROVE  P[1] <= G[j]
    <2>1. PICK i \in 0 .. W : i = j - (S + 1) /\ S + 1 + i = j  BY <1>2
    <2>2. G[j] = L[i]  BY <1>1, <2>1 DEF Parts, BlocksPart
    <2>3. L[i] \in Nat /\ L[0] <= L[i]  BY <1>1, PartsTypes
    <2> QED BY <1>2, <1>6, <2>2, <2>3
  <1>11. Behind(G, BlockCount, P[1])
    <2>1. \A j \in 1 .. BlockCount : j \in 1 .. S \/ j \in S + 1 .. BlockCount  BY <1>2
    <2> QED BY <1>9, <1>10, <2>1 DEF Behind
  <1> QED BY <1>1, <1>2, <1>6, <1>7, <1>8, <1>11

LEMMA NotifyBounds ==
  ASSUME TypeOK, LengthHeld, CompletionInv, NEW u, NEW P, NEW p, NEW L, NEW X, NEW G,
         Parts(u, P, p, L, X, G), Notify
  PROVE  /\ P[1] = Blocks(pending[1].size) /\ P[1] \in Nat /\ P[1] \in 0 .. Len(u) /\ P[1] <= p
         /\ \A k \in 1 .. Len(pending) : P[1] <= P[k]
         /\ \A j \in 1 .. Len(sq) : Entry(j) \in 2 .. Len(pending) + 1
         /\ Behind(G, BlockCount, P[1])
  <1>1. NotifyValid  BY DEF Notify
  <1> QED BY <1>1, ValidBounds

LEMMA LessFacts ==
  ASSUME NEW P, NEW n \in Nat, NEW d
  PROVE  \A k \in 0 .. n : Less(P, n, d)[k] = P[k] - d
  BY DEF Less

LEMMA Dropped ==
  ASSUME NEW u \in Seq(Beat), NEW d \in 0 .. Len(u), NEW v, v = Drop(u, d)
  PROVE  /\ Len(u) \in Nat /\ d \in Nat /\ v \in Seq(Beat) /\ Len(v) = Len(u) - d
         /\ \A i \in 1 .. Len(u) - d : v[i] = u[d + i]
  <1>1. Len(u) \in Nat /\ d \in Nat  OBVIOUS
  <1>2. /\ Drop(u, d) \in Seq(Beat) /\ Len(Drop(u, d)) = Len(u) - d
        /\ \A i \in 1 .. Len(u) - d : Drop(u, d)[i] = u[d + i]
    BY DropFacts
  <1> QED BY <1>1, <1>2

LEMMA NotifyInput ==
  ASSUME NEW u \in Seq(Beat), InputPart(u), NEW d \in 0 .. Len(u), mid_stream' = mid_stream
  PROVE  InputPart(Drop(u, d))'
  <1>1. PICK v : v = Drop(u, d)  OBVIOUS
  <1>2. /\ Len(u) \in Nat /\ v \in Seq(Beat) /\ Len(v) = Len(u) - d
        /\ \A i \in 1 .. Len(u) - d : v[i] = u[d + i]
    BY <1>1, Dropped
  <1>3. Suppressed(v)  BY <1>1, SuppressedDrop DEF InputPart
  <1>4. ASSUME v # <<>>
        PROVE  mid_stream <=> ~v[Len(v)].last
    <2>1. Len(v) \in Nat \ {0}  BY <1>2, <1>4
    <2>2. Len(v) \in 1 .. Len(u) - d /\ d + Len(v) = Len(u) /\ u # <<>>  BY <1>2, <2>1
    <2>3. v[Len(v)] = u[Len(u)]  BY <1>2, <2>2
    <2> QED BY <2>2, <2>3 DEF InputPart
  <1>5. InputPart(v)'  BY <1>3, <1>4 DEF InputPart
  <1> QED BY <1>1, <1>5

LEMMA NotifyPending ==
  ASSUME TypeOK, LengthHeld, NEW u \in Seq(Beat), NEW P, PendingPart(u, P), Notify,
         NEW d \in 0 .. Len(u), d = P[1], NEW Q, Q = Less(Rest(P, Len(pending)), Len(pending) - 1, d)
  PROVE  /\ PendingPart(Drop(u, d), Q)'
         /\ \A k \in 0 .. Len(pending) - 1 : Q[k] = P[k + 1] - d
  <1>1. PICK v, K, R, s : v = Drop(u, d) /\ K = Len(pending) /\ R = Rest(P, K) /\ s = PendingSizes
    OBVIOUS
  <1>2. /\ Len(u) \in Nat /\ v \in Seq(Beat) /\ Len(v) = Len(u) - d
        /\ \A i \in 1 .. Len(u) - d : v[i] = u[d + i]
    BY <1>1, Dropped
  <1>3. /\ K \in Nat \ {0} /\ Len(pending') = K - 1 /\ (\A k \in 1 .. K - 1 : pending'[k] = pending[k + 1])
        /\ PendingSizes' = Tail(s) /\ s # <<>>
    BY <1>1, NotifyViews
  <1>4. s \in Seq(Nat) /\ Len(s) = K /\ Cut(u, P, s)  BY <1>1, ViewTypes DEF PendingPart
  <1>5. Tail(s) \in Seq(Nat) /\ Len(Tail(s)) = K - 1  BY <1>3, <1>4, PopFacts
  <1>6. Cut(u, R, Tail(s))  BY <1>1, <1>3, <1>4, CutRest
  <1>7. \A k \in 0 .. K - 1 : R[k] = P[k + 1]  BY <1>1 DEF Rest
  <1>8. \A k \in 0 .. K - 1 : Q[k] = P[k + 1] - d
    <2>1. K - 1 \in Nat  BY <1>3
    <2>2. \A k \in 0 .. K - 1 : Q[k] = R[k] - d  BY <1>1, <2>1, LessFacts
    <2> QED BY <1>7, <2>2
  <1>9. 0 \in 0 .. K - 1 /\ 0 + 1 = 1  BY <1>3
  <1>10. Cut(v, Q, Tail(s))
    <2>1. d <= R[0]  BY <1>7, <1>9
    <2>2. Cut(Drop(u, d), Less(R, Len(Tail(s)), d), Tail(s))  BY <1>5, <1>6, <2>1, CutDropped
    <2> QED BY <1>1, <1>5, <2>2
  <1>11. Q[0] = 0  BY <1>8, <1>9
  <1>12. \A k \in 1 .. K : P[k] \in 1 .. Len(u)  BY <1>4, CutBounds
  <1>13. ASSUME NEW k \in 1 .. K - 1
         PROVE  pending'[k].last <=> v[Q[k]].last
    <2>1. k + 1 \in 1 .. K /\ k \in 0 .. K - 1  BY <1>3
    <2>2. pending[k + 1].last <=> u[P[k + 1]].last  BY <1>1, <2>1 DEF PendingPart
    <2>3. Q[k] = P[k + 1] - d /\ P[k + 1] \in 1 .. Len(u)  BY <1>8, <1>12, <2>1
    <2>4. Q[k] \in 1 .. Len(v)
      <3>1. k \in 1 .. Len(Tail(s))  BY <1>5
      <3> QED BY <1>2, <1>5, <1>10, <3>1, CutBounds
    <2>5. PICK a \in Nat : a = P[k + 1] /\ Q[k] = a - d  BY <2>3
    <2>6. Q[k] \in 1 .. Len(u) - d /\ d + Q[k] = P[k + 1]  BY <1>2, <2>4, <2>5
    <2>7. v[Q[k]] = u[P[k + 1]]  BY <1>2, <2>6
    <2> QED BY <1>3, <2>2, <2>7
  <1>14. PendingPart(v, Q)'  BY <1>3, <1>10, <1>11, <1>13 DEF PendingPart
  <1> QED BY <1>1, <1>8, <1>14

LEMMA NotifyWaiting ==
  ASSUME TypeOK, LengthHeld, NEW u \in Seq(Beat), NEW L, WaitingPart(u, L),
         UNCHANGED <<Waiting, curr_len>>, NEW d \in 0 .. Len(u), d <= L[0],
         NEW M, M = Less(L, Len(Waiting), d)
  PROVE  WaitingPart(Drop(u, d), M)' /\ \A k \in 0 .. Len(Waiting) : M[k] = L[k] - d
  <1>1. PICK v, W, s : v = Drop(u, d) /\ W = Len(Waiting) /\ s = Waiting  OBVIOUS
  <1>2. /\ Len(u) \in Nat /\ d \in Nat /\ v \in Seq(Beat) /\ Len(v) = Len(u) - d
        /\ \A i \in 1 .. Len(u) - d : v[i] = u[d + i]
    BY <1>1, Dropped
  <1>3. s \in Seq(Nat) /\ W \in Nat /\ W = Len(s) /\ Cut(u, L, s)
    BY <1>1, ViewTypes DEF WaitingPart
  <1>4. /\ \A k \in 0 .. W : L[k] \in Nat /\ L[0] <= L[k] /\ L[k] <= Len(u)
        /\ \A k \in 1 .. W : L[k - 1] \in Nat /\ L[k - 1] < L[k] /\ L[k] \in 1 .. Len(u)
    BY <1>3, CutBounds
  <1>5. Cut(v, M, s)  BY <1>1, <1>3, CutDropped
  <1>6. \A k \in 0 .. W : M[k] = L[k] - d  BY <1>1, <1>3, LessFacts
  <1>7. 0 \in 0 .. W /\ W \in 0 .. W  BY <1>3
  <1>8. ASSUME NEW k \in 1 .. W
        PROVE  v[M[k]] = u[L[k]]
    <2>1. k \in 0 .. W /\ k - 1 \in 0 .. W  BY <1>3
    <2>2. PICK a \in Nat, c \in Nat, z \in Nat : a = L[k] /\ c = L[k - 1] /\ z = L[0]
      BY <1>4, <1>7, <2>1
    <2>3. c < a /\ a <= Len(u) /\ z <= c /\ d <= z /\ M[k] = a - d  BY <1>4, <1>6, <2>1, <2>2
    <2>4. a - d \in 1 .. Len(u) - d /\ d + (a - d) = a  BY <1>2, <2>3
    <2> QED BY <1>2, <2>2, <2>3, <2>4
  <1>9. \A k \in 1 .. W : v[M[k]].last \/ s[k] = TRANSFER  BY <1>1, <1>8 DEF WaitingPart
  <1>10. PICK f \in Nat : f = L[W] /\ f <= Len(u) /\ d <= f /\ M[W] = f - d
    <2>1. PICK z \in Nat : z = L[0]  BY <1>4, <1>7
    <2>2. d <= z /\ z <= L[W] /\ L[W] \in Nat /\ L[W] <= Len(u) /\ M[W] = L[W] - d
      BY <1>4, <1>6, <1>7, <2>1
    <2> QED BY <1>2, <2>1, <2>2
  <1>11. Len(v) - M[W] = Len(u) - f  BY <1>2, <1>10
  <1>12. curr_len = BEAT * (Len(v) - M[W])  BY <1>1, <1>10, <1>11 DEF WaitingPart
  <1>13. \A i \in M[W] + 1 .. Len(v) : ~v[i].last
    <2> SUFFICES ASSUME NEW i \in (f - d) + 1 .. Len(u) - d PROVE ~v[i].last  BY <1>2, <1>10
    <2>1. i \in 1 .. Len(u) - d /\ d + i \in f + 1 .. Len(u)  BY <1>2, <1>10
    <2>2. ~u[d + i].last  BY <1>1, <1>10, <2>1 DEF WaitingPart
    <2> QED BY <1>2, <2>1, <2>2
  <1>14. WaitingPart(v, M)'  BY <1>1, <1>5, <1>9, <1>12, <1>13 DEF WaitingPart
  <1> QED BY <1>1, <1>6, <1>14

LEMMA NotifyCurrent ==
  ASSUME TypeOK, LengthHeld, NEW u, NEW P, NEW p, NEW L, NEW X, NEW G, Parts(u, P, p, L, X, G),
         NEW d \in 0 .. Len(u), d <= p, UNCHANGED <<Written, Transferring, Ahead>>
  PROVE  CurrentPart(Drop(u, d), p - d, L[0] - d)' /\ AheadPart(Drop(u, d), p - d, L[0] - d)'
  <1>1. PICK v, l, q, m, w, h : v = Drop(u, d) /\ l = L[0] /\ q = p - d /\ m = l - d /\ w = Written
                                /\ h = Ahead
    OBVIOUS
  <1>2. u \in Seq(Beat) /\ p \in Nat /\ l \in Nat /\ p <= l  BY <1>1, PartsTypes
  <1>3. /\ Len(u) \in Nat /\ d \in Nat /\ Len(v) = Len(u) - d
        /\ \A i \in 1 .. Len(u) - d : v[i] = u[d + i]
    BY <1>1, <1>2, Dropped
  <1>4. w \in Nat /\ h \in Nat /\ NumBeats(w) \in Nat /\ (w # 0 => NumBeats(w) \in Nat \ {0}) /\ NumBeats(h) \in Nat
    BY <1>1, ViewTypes, NumBeatsNat, SomeBeats
  <1>5. CurrentPart(u, p, l) /\ AheadPart(u, p, l)  BY <1>1 DEF Parts
  <1>6. l = p + NumBeats(w) /\ (w # 0 => Piece(u, p, l, w))
        /\ (~Transferring => w = BEAT * (l - p) /\ (w # 0 => ~u[l].last))
    BY <1>1, <1>5 DEF CurrentPart
  <1>7. m = q + NumBeats(w) /\ m - q = l - p  BY <1>1, <1>2, <1>3, <1>4, <1>6
  <1>8. w # 0 => Piece(v, q, m, w)  BY <1>1, <1>2, <1>4, <1>6, PieceDrop
  <1>9. ASSUME w # 0
        PROVE  v[m] = u[l]
    <2>1. l <= Len(u) /\ p < l
      <3>1. l = p + NumBeats(w) /\ NumBeats(w) \in Nat \ {0}  BY <1>4, <1>6, <1>9
      <3>2. l <= Len(u)  BY <1>6, <1>9 DEF Piece
      <3> QED BY <1>2, <3>1, <3>2
    <2>2. m \in 1 .. Len(u) - d /\ d + m = l  BY <1>1, <1>2, <1>3, <2>1
    <2> QED BY <1>3, <2>2
  <1>10. CurrentPart(v, q, m)'  BY <1>1, <1>6, <1>7, <1>8, <1>9 DEF CurrentPart
  <1>11. ASSUME Transferring
         PROVE  /\ Piece(v, m - NumBeats(h), m, h) /\ q <= m - NumBeats(h) /\ w # 0 /\ h # 0
                /\ v[m].last \/ h = TRANSFER
    <2>1. w # 0 /\ h # 0 /\ Piece(u, l - NumBeats(h), l, h) /\ p <= l - NumBeats(h)
          /\ (u[l].last \/ h = TRANSFER)
      BY <1>1, <1>5, <1>11 DEF AheadPart
    <2>2. PICK f \in Nat : f = l - NumBeats(h) /\ p <= f /\ d <= f  BY <1>2, <1>3, <1>4, <2>1
    <2>3. m - NumBeats(h) = f - d /\ q <= f - d
      <3>1. PICK c \in Nat : c = NumBeats(h)  BY <1>4
      <3>2. f = l - c /\ m = l - d /\ q = p - d  BY <1>1, <2>2, <3>1
      <3>3. (l - d) - c = (l - c) - d /\ p - d <= f - d
        <4>1. l \in Nat /\ p \in Nat /\ d \in Nat /\ p <= f  BY <1>2, <1>3, <2>2
        <4> QED BY <4>1
      <3> QED BY <3>1, <3>2, <3>3
    <2>4. Piece(v, f - d, m, h)  BY <1>1, <1>2, <1>4, <2>1, <2>2, PieceDrop
    <2>5. v[m] = u[l]  BY <1>9, <2>1
    <2> QED BY <2>1, <2>3, <2>4, <2>5
  <1>12. AheadPart(v, q, m)'  BY <1>1, <1>11 DEF AheadPart
  <1> QED BY <1>1, <1>10, <1>12

LEMMA BlocksLessFacts ==
  ASSUME NEW G, NEW n \in Nat, NEW d, NEW H, H = BlocksLess(G, n, d)
  PROVE  \A k \in 1 .. n : H[k] = G[k] - d
  BY DEF BlocksLess

\* The cuts behind the first one.
Moved(P, Q, n, d) == \A k \in 0 .. n - 1 : Q[k] = P[k + 1] - d

\* The requests belong to later notifications, one place further to the front.
LEMMA NotifyRequests ==
  ASSUME TypeOK, LengthHeld, CompletionInv, NEW u, NEW P, NEW p, NEW L, NEW X, NEW G,
         Parts(u, P, p, L, X, G), Notify, NEW d \in 0 .. Len(u), d = P[1],
         NEW Q, Moved(P, Q, Len(pending), d),
         NEW H, H = BlocksLess(G, BlockCount, d)
  PROVE  RequestPart(Drop(u, d), Q, L[0] - d, H)' /\ LastPart(L[0] - d, H)'
  <1>1. PICK v, K, S, l, m, n : v = Drop(u, d) /\ K = Len(pending) /\ S = Len(sq) /\ l = L[0]
                                /\ m = l - d /\ n = BlockCount
    OBVIOUS
  <1>2. /\ u \in Seq(Beat) /\ K \in Nat \ {0} /\ S \in Nat /\ l \in Nat /\ n \in Nat /\ n = S + Len(Waiting) + 1
        /\ Len(Waiting) \in Nat /\ p \in Nat /\ p <= l
    BY <1>1, PartsTypes, NotifyViews
  <1>3. /\ Len(u) \in Nat /\ d \in Nat /\ Len(v) = Len(u) - d
        /\ \A i \in 1 .. Len(u) - d : v[i] = u[d + i]
    <2>1. u \in Seq(Beat) /\ v = Drop(u, d)  BY <1>1, <1>2
    <2> QED BY <2>1, Dropped
  <1>4. /\ Len(pending') = K - 1 /\ (\A k \in 1 .. K - 1 : pending'[k] = pending[k + 1])
        /\ UNCHANGED <<sq, buffer, Written, Transferring, Ahead>> /\ hist'.sent = hist.sent + 1
    BY <1>1, NotifyViews
  <1>5. \A k \in 1 .. n : d <= G[k] /\ H[k] = G[k] - d
    <2>1. Behind(G, n, d)  BY <1>1, NotifyBounds
    <2> QED BY <1>1, <1>2, <2>1, BlocksLessFacts DEF Behind
  <1>6. \A j \in 1 .. S : Entry(j)' = Entry(j) - 1
    <2> SUFFICES ASSUME NEW j \in 1 .. S PROVE Entry(j)' = Entry(j) - 1  OBVIOUS
    <2>1. sq[j].entry \in Nat /\ hist.sent \in Nat
      <3>1. j \in DOMAIN sq  BY <1>1 DEF TypeOK, SqOK
      <3> QED BY <3>1, EntryNat, HistNat
    <2>2. sq' = sq /\ hist'.sent = hist.sent + 1  BY <1>4
    <2>3. sq[j].entry - (hist.sent + 1) = (sq[j].entry - hist.sent) - 1  BY <2>1
    <2> QED BY <2>2, <2>3 DEF Entry
  <1>7. ASSUME NEW j \in 1 .. S
        PROVE  RequestAt(v, Q, m, H, j, Entry(j), NumBeats(sq[j].len))'
    <2>1. PICK k, c, r : k = Entry(j) /\ c = NumBeats(sq[j].len) /\ r = sq[j]  OBVIOUS
    <2>2. RequestAt(u, P, l, G, j, k, c) /\ c \in Nat /\ r.len \in Nat  BY <1>1, <2>1, RequestBounds
    <2>3. k \in 2 .. K + 1  BY <1>1, <2>1, NotifyBounds
    <2>4. j \in 1 .. n /\ j + 1 \in 1 .. n  BY <1>2
    <2>5. PICK g \in Nat, h \in Nat : g = G[j] /\ h = G[j + 1]  BY <1>1, RequestBounds
    <2>6. d <= g /\ d <= h /\ H[j] = g - d /\ H[j + 1] = h - d  BY <1>5, <2>4, <2>5
    <2>7. /\ P[k - 1] <= g /\ r.off = BEAT * (g - P[k - 1])
          /\ r.len # 0 /\ Piece(u, g, g + c, r.len)
          /\ g + c <= h /\ \A i \in g + c + 1 .. h : u[i].keep = 0
      BY <2>1, <2>2, <2>5 DEF RequestAt
    <2>8. PICK i \in 1 .. K : i = k - 1 /\ k = i + 1  BY <1>2, <2>3
    <2>9. i - 1 \in 0 .. K - 1 /\ (i - 1) + 1 = i  BY <1>2
    <2>10. PICK a \in Nat : a = P[i] /\ Q[i - 1] = a - d
      <3>1. i \in 0 .. K  OBVIOUS
      <3>2. P[i] \in Nat  BY <1>1, <3>1, PartsTypes
      <3>3. \A q \in 0 .. K - 1 : Q[q] = P[q + 1] - d  BY <1>1 DEF Moved
      <3>4. Q[i - 1] = P[i] - d  BY <2>9, <3>3
      <3> QED BY <3>2, <3>4
    <2>11. Q[i - 1] <= H[j] /\ r.off = BEAT * (H[j] - Q[i - 1])
      <3>1. a <= g /\ r.off = BEAT * (g - a)  BY <2>7, <2>8, <2>10
      <3>2. (g - d) - (a - d) = g - a /\ a - d <= g - d  BY <1>3, <3>1
      <3> QED BY <2>6, <2>10, <3>1, <3>2
    <2>12. H[j] + c = (g + c) - d /\ Piece(v, H[j], H[j] + c, r.len)
      <3>1. (g - d) + c = (g + c) - d /\ g + c \in Nat  BY <1>3, <2>2
      <3>2. Piece(v, g - d, (g + c) - d, r.len)  BY <1>1, <1>2, <2>2, <2>6, <2>7, <3>1, PieceDrop
      <3> QED BY <2>6, <3>1, <3>2
    <2>13. H[j] + c <= H[j + 1]  BY <1>3, <2>2, <2>6, <2>7, <2>12
    <2>14. \A e \in H[j] + c + 1 .. H[j + 1] : v[e].keep = 0
      <3>1. PICK b \in Nat : b = g + c  BY <2>2
      <3>2. h <= Len(u)  BY <1>1, <2>5, RequestBounds
      <3>3. ASSUME NEW e \in (b - d) + 1 .. h - d
            PROVE  v[e].keep = 0
        <4>1. d <= b  BY <2>2, <2>6, <3>1
        <4>2. PICK z \in Nat : z = Len(u) /\ h <= z  BY <1>3, <3>2
        <4>3. e \in 1 .. z - d /\ d + e \in b + 1 .. h  BY <4>1, <4>2
        <4> QED BY <1>3, <2>7, <3>1, <4>2, <4>3
      <3>4. H[j] + c = b - d  BY <2>12, <3>1
      <3> QED BY <2>6, <3>3, <3>4
    <2>15. /\ H[j] + c <= IF i <= K - 1 THEN Q[i] ELSE m
           /\ IF i <= K - 1
                THEN pending'[i].size # 0 /\ r.id = pending'[i].id
                ELSE Written # 0 /\ r.id = buffer.id
      <3>1. CASE i <= K - 1
        <4>1. k <= Len(pending)  BY <1>1, <1>2, <2>8, <3>1
        <4>2. g + c <= P[i + 1] /\ pending[i + 1].size # 0 /\ r.id = pending[i + 1].id
          BY <2>1, <2>2, <2>5, <2>8, <4>1 DEF RequestAt
        <4>3. i \in 1 .. K - 1 /\ i \in 0 .. K - 1 /\ i + 1 \in 0 .. K  BY <1>2, <3>1
        <4>4. Q[i] = P[i + 1] - d /\ pending'[i] = pending[i + 1] /\ P[i + 1] \in Nat
          BY <1>1, <1>4, <4>3, PartsTypes DEF Moved
        <4>5. PICK z \in Nat, b \in Nat : z = P[i + 1] /\ b = g + c  BY <2>2, <4>4
        <4>6. b - d <= z - d  BY <1>3, <4>2, <4>5
        <4>7. H[j] + c <= Q[i]  BY <2>12, <4>4, <4>5, <4>6
        <4> QED BY <3>1, <4>2, <4>4, <4>7
      <3>2. CASE ~(i <= K - 1)
        <4>1. ~(k <= Len(pending))  BY <1>1, <1>2, <2>8, <3>2
        <4>2. g + c <= l /\ Written # 0 /\ r.id = buffer.id  BY <2>1, <2>2, <2>5, <4>1 DEF RequestAt
        <4>3. PICK b \in Nat : b = g + c  BY <2>2
        <4>4. b - d <= l - d  BY <1>2, <1>3, <4>2, <4>3
        <4>5. H[j] + c <= m  BY <1>1, <2>12, <4>3, <4>4
        <4> QED BY <3>2, <4>2, <4>5
      <3> QED BY <3>1, <3>2
    <2>16. RequestAt(v, Q, m, H, j, i, c)'
      <3>1. i \in 1 .. (K - 1) + 1  BY <1>2
      <3>2. sq'[j] = r /\ Len(pending') = K - 1 /\ Written' = Written /\ buffer' = buffer
        BY <1>4, <2>1
      <3> QED BY <2>7, <2>11, <2>12, <2>13, <2>14, <2>15, <3>1, <3>2 DEF RequestAt
    <2>17. Entry(j)' = i /\ NumBeats(sq'[j].len) = c  BY <1>4, <1>6, <2>1, <2>8
    <2> QED BY <2>16, <2>17
  <1>8. RequestPart(v, Q, m, H)'  BY <1>1, <1>4, <1>7 DEF RequestPart
  <1>9. ASSUME Transferring
        PROVE  /\ sq # <<>> /\ sq[S].len = Ahead /\ Entry(S)' = (K - 1) + 1
               /\ H[S] + NumBeats(Ahead) = m
    <2>1. sq # <<>> /\ sq[S].len = Ahead /\ Entry(S) = K + 1 /\ G[S] + NumBeats(Ahead) = l
      BY <1>1, <1>9 DEF Parts, LastPart
    <2>2. S \in 1 .. S /\ S \in 1 .. n
      <3>1. S # 0  BY <1>1, <2>1, EmptySeq DEF TypeOK, SqOK
      <3> QED BY <1>2, <3>1
    <2>3. Entry(S)' = (K - 1) + 1  BY <1>2, <1>6, <2>1, <2>2
    <2>4. PICK g \in Nat, c \in Nat : g = G[S] /\ c = NumBeats(Ahead) /\ H[S] = g - d
      <3>1. G[S] \in Nat  BY <1>1, <2>2, RequestBounds
      <3>2. NumBeats(Ahead) \in Nat  BY ViewTypes, NumBeatsNat
      <3> QED BY <1>5, <2>2, <3>1, <3>2
    <2>5. (g - d) + c = l - d
      <3>1. g + c = l /\ d \in Nat  BY <1>3, <2>1, <2>4
      <3> QED BY <3>1
    <2> QED BY <1>1, <2>1, <2>3, <2>4, <2>5
  <1>10. LastPart(m, H)'
    <2>1. Len(sq') = S /\ Len(pending') = K - 1 /\ sq' = sq /\ Transferring' = Transferring /\ Ahead' = Ahead
      BY <1>1, <1>4
    <2> QED BY <1>9, <2>1 DEF LastPart
  <1> QED BY <1>1, <1>8, <1>10

LEMMA NotifyBlocks ==
  ASSUME TypeOK, LengthHeld, CompletionInv, NEW u, NEW P, NEW p, NEW L, NEW X, NEW G,
         Parts(u, P, p, L, X, G), Notify, NEW d \in 0 .. Len(u), d = P[1],
         NEW M, M = Less(L, Len(Waiting), d), NEW H, H = BlocksLess(G, BlockCount, d)
  PROVE  DataPart(Drop(u, d), X, H)' /\ BlocksPart(Drop(u, d), M, X, H)'
  <1>1. PICK v, n, S, W, end : v = Drop(u, d) /\ n = BlockCount /\ S = Len(sq) /\ W = Len(Waiting)
                               /\ end = Len(out) + Len(data_fifo)
    OBVIOUS
  <1>2. /\ u \in Seq(Beat) /\ n \in Nat \ {0} /\ n = S + W + 1 /\ S \in Nat /\ W \in Nat
    BY <1>1, PartsTypes
  <1>3. Len(u) \in Nat /\ d \in Nat /\ Len(v) = Len(u) - d
    <2>1. u \in Seq(Beat) /\ v = Drop(u, d)  BY <1>1, <1>2
    <2> QED BY <2>1, Dropped
  <1>4. end \in Nat  BY <1>1, ViewTypes
  <1>5. UNCHANGED <<sq, out, data_fifo, Waiting>> /\ BlockCount' = n
    BY <1>1, NotifyViews DEF BlockCount
  <1>6. Offsets(X, n, end) /\ Filled(u, out, data_fifo, X, G, n)  BY <1>1 DEF Parts, DataPart
  <1>7. \A k \in 1 .. n : d <= G[k]
    <2>1. Behind(G, n, d)  BY <1>1, NotifyBounds
    <2> QED BY <2>1 DEF Behind
  <1>8. Filled(v, out, data_fifo, X, H, n)
    <2>1. n \in Nat  BY <1>2
    <2> QED BY <1>1, <1>2, <1>4, <1>6, <1>7, <2>1, FilledDropped
  <1>9. DataPart(v, X, H)'  BY <1>1, <1>5, <1>6, <1>8 DEF DataPart
  <1>10. /\ \A i \in 0 .. W : G[S + 1 + i] = L[i]
         /\ \A j \in 1 .. S : X[j] = X[j - 1] + NumBeats(sq[j].len)
         /\ \A i \in 1 .. W : X[S + i] = X[S + i - 1] + NumBeats(Waiting[i])
         /\ X[n] = X[n - 1] + (Len(u) - L[W])
    BY <1>1 DEF Parts, BlocksPart
  <1>11. \A i \in 0 .. W : M[i] = L[i] - d  BY <1>1, <1>2, LessFacts
  <1>12. \A k \in 1 .. n : H[k] = G[k] - d  BY <1>1, <1>2, BlocksLessFacts
  <1>13. \A i \in 0 .. W : H[S + 1 + i] = M[i]
    <2>1. \A i \in 0 .. W : S + 1 + i \in 1 .. n  BY <1>2
    <2> QED BY <1>10, <1>11, <1>12, <2>1
  <1>14. Len(v) - M[W] = Len(u) - L[W]
    <2>1. W \in 0 .. W  BY <1>2
    <2>2. L[W] \in Nat /\ M[W] = L[W] - d  BY <1>1, <1>11, <2>1, PartsTypes
    <2> QED BY <1>3, <2>2
  <1>15. X[n] = X[n - 1] + (Len(v) - M[W])  BY <1>10, <1>14
  <1>16. BlocksPart(v, M, X, H)'  BY <1>1, <1>5, <1>10, <1>13, <1>15 DEF BlocksPart
  <1> QED BY <1>1, <1>9, <1>16

\* v is u without its first d beats, of which the piece up to t holds none.
Drops(u, v, d, f, t) == d \in 0 .. Len(u) /\ v = Drop(u, d) /\ d <= f /\ t <= Len(u)

LEMMA StoredDropped ==
  ASSUME NEW u \in Seq(Beat), NEW v, NEW d \in Nat, NEW f \in Nat, NEW t \in Nat, NEW g \in Nat,
         Drops(u, v, d, f, t)
  PROVE  Stored(v, f - d, t - d, g - d) = Stored(u, f, t, g)
  <1>0. d \in 0 .. Len(u) /\ v = Drop(u, d) /\ d <= f /\ t <= Len(u)  BY DEF Drops
  <1>1. Len(u) \in Nat /\ d \in Nat /\ \A i \in 1 .. Len(u) - d : v[i] = u[d + i]  BY <1>0, Dropped
  <1>2. PICK A, B : A = Stored(v, f - d, t - d, g - d) /\ B = Stored(u, f, t, g)  OBVIOUS
  <1>3. A = {<<BEAT * (i - (f - d) - 1), v[i]>> : i \in {k \in (f - d) + 1 .. t - d : k <= g - d}}
    BY <1>2 DEF Stored
  <1>4. B = {<<BEAT * (i - f - 1), u[i]>> : i \in {k \in f + 1 .. t : k <= g}}  BY <1>2 DEF Stored
  <1>5. ASSUME NEW i \in (f - d) + 1 .. t - d
        PROVE  <<BEAT * (i - (f - d) - 1), v[i]>> = <<BEAT * ((d + i) - f - 1), u[d + i]>>
    <2>1. i - (f - d) - 1 = (d + i) - f - 1  BY <1>1
    <2>2. i \in 1 .. Len(u) - d  BY <1>0, <1>1
    <2> QED BY <1>1, <2>1, <2>2
  <1>6. ASSUME NEW e \in A
        PROVE  e \in B
    <2>1. PICK i \in (f - d) + 1 .. t - d : i <= g - d /\ e = <<BEAT * (i - (f - d) - 1), v[i]>>
      BY <1>3
    <2>2. PICK j \in f + 1 .. t : j = d + i /\ j <= g  BY <1>1, <2>1
    <2>3. e = <<BEAT * (j - f - 1), u[j]>>  BY <1>5, <2>1, <2>2
    <2> QED BY <1>4, <2>2, <2>3
  <1>7. ASSUME NEW e \in B
        PROVE  e \in A
    <2>1. PICK j \in f + 1 .. t : j <= g /\ e = <<BEAT * (j - f - 1), u[j]>>  BY <1>4
    <2>2. PICK i \in (f - d) + 1 .. t - d : i = j - d /\ i <= g - d /\ d + i = j  BY <1>1, <2>1
    <2>3. e = <<BEAT * (i - (f - d) - 1), v[i]>>  BY <1>5, <2>1, <2>2
    <2> QED BY <1>3, <2>2, <2>3
  <1> QED BY <1>2, <1>6, <1>7

LEMMA NotifyMemory ==
  ASSUME TypeOK, LengthHeld, IdsInv, NEW u, NEW P, NEW p, NEW L, NEW X, NEW G,
         Parts(u, P, p, L, X, G), Notify, NEW d \in 0 .. Len(u), d = P[1],
         NEW Q, Moved(P, Q, Len(pending), d), NEW m, m = L[0] - d, NEW h, h = G[1] - d
  PROVE  MemoryPart(Drop(u, d), Q, m, h)'
  <1>1. PICK v, K, l, g, z, i1 : v = Drop(u, d) /\ K = Len(pending) /\ l = L[0] /\ g = G[1]
                                 /\ z = pending[1].size /\ i1 = pending[1].id
    OBVIOUS
  <1>2. u \in Seq(Beat) /\ K \in Nat \ {0} /\ g \in Nat /\ l \in Nat
    BY <1>1, PartsTypes, NotifyViews, DoneBound
  <1>3. /\ Len(pending') = K - 1 /\ (\A k \in 1 .. K - 1 : pending'[k] = pending[k + 1])
        /\ UNCHANGED <<buffer, Written>>
        /\ mem' = IF z = 0 THEN mem ELSE [mem EXCEPT ![i1] = {}]
    BY <1>1, NotifyViews
  <1>4. mem \in [BufferIds -> SUBSET (Nat \X Beat)]  BY DEF TypeOK, HostOK
  <1>5. /\ \A k \in 1 .. K + 1 : SizeAt(k) # 0 => mem[IdAt(k)] = Stored(u, P[k - 1], EndAt(P, l, k), g)
        /\ \A b \in BufferIds : (\A k \in 1 .. K + 1 : SizeAt(k) # 0 => IdAt(k) # b) => mem[b] = {}
    <2>1. MemoryPart(u, P, l, g)  BY <1>1 DEF Parts
    <2> QED BY <1>1, <2>1, MemoryAt
  <1>6. 1 \in 1 .. K + 1 /\ SizeAt(1) = z /\ IdAt(1) = i1  BY <1>1, <1>2 DEF SizeAt, IdAt
  <1>7. \A b \in BufferIds : mem'[b] = IF z # 0 /\ b = i1 THEN {} ELSE mem[b]  BY <1>3, <1>4
  <1>8. ASSUME NEW k \in 2 .. K + 1, SizeAt(k) # 0
        PROVE  mem'[IdAt(k)] = Stored(v, P[k - 1] - d, EndAt(P, l, k) - d, h)
    <2>1. k \in 1 .. K + 1 /\ k # 1 /\ k - 1 \in 1 .. K  BY <1>2
    <2>2. IdAt(k) \in BufferIds /\ (z # 0 => IdAt(k) # i1)
      BY <1>1, <1>6, <1>8, <2>1, OwnersApart, OwnersKnown
    <2>3. mem'[IdAt(k)] = Stored(u, P[k - 1], EndAt(P, l, k), g)  BY <1>5, <1>7, <1>8, <2>1, <2>2
    <2>4. PICK f \in Nat, t \in Nat : f = P[k - 1] /\ t = EndAt(P, l, k) /\ t <= Len(u)
      BY <1>1, <2>1, OwnerPieces
    <2>5. d <= f
      <3>1. 1 < k  BY <2>1
      <3>2. EndAt(P, l, 1) <= P[k - 1]  BY <1>1, <1>6, <2>1, <3>1, OwnerPieces
      <3>3. EndAt(P, l, 1) = P[1]  BY <1>1, <1>2 DEF EndAt
      <3> QED BY <2>4, <3>2, <3>3
    <2>6. Stored(v, f - d, t - d, g - d) = Stored(u, f, t, g)
      <3>1. Drops(u, v, d, f, t)  BY <1>1, <2>4, <2>5 DEF Drops
      <3>2. u \in Seq(Beat) /\ d \in Nat /\ g \in Nat  BY <1>2
      <3> QED BY <3>1, <3>2, StoredDropped
    <2> QED BY <1>1, <2>3, <2>4, <2>6
  <1>9. ASSUME NEW b \in BufferIds, \A k \in 2 .. K + 1 : SizeAt(k) # 0 => IdAt(k) # b
        PROVE  mem'[b] = {}
    <2>1. CASE z # 0 /\ b = i1  BY <1>7, <2>1
    <2>2. CASE ~(z # 0 /\ b = i1)
      <3>1. \A k \in 1 .. K + 1 : k = 1 \/ k \in 2 .. K + 1  BY <1>2
      <3>2. \A k \in 1 .. K + 1 : SizeAt(k) # 0 => IdAt(k) # b  BY <1>6, <1>9, <2>2, <3>1
      <3> QED BY <1>5, <1>7, <2>2, <3>2
    <2> QED BY <2>1, <2>2
  <1>10. \A k \in 1 .. K - 1 : /\ k + 1 \in 2 .. K + 1 /\ SizeAt(k + 1) = pending'[k].size
                               /\ IdAt(k + 1) = pending'[k].id /\ (k + 1) - 1 = k
                               /\ EndAt(P, l, k + 1) = P[k + 1] /\ Q[k] = P[k + 1] - d
    <2> SUFFICES ASSUME NEW k \in 1 .. K - 1
                 PROVE  /\ k + 1 \in 2 .. K + 1 /\ SizeAt(k + 1) = pending'[k].size
                        /\ IdAt(k + 1) = pending'[k].id /\ (k + 1) - 1 = k
                        /\ EndAt(P, l, k + 1) = P[k + 1] /\ Q[k] = P[k + 1] - d
      OBVIOUS
    <2>1. k + 1 \in 2 .. K + 1 /\ k + 1 <= K /\ (k + 1) - 1 = k /\ k \in 0 .. K - 1  BY <1>2
    <2> QED BY <1>1, <1>3, <2>1 DEF SizeAt, IdAt, EndAt, Moved
  <1>11. /\ K + 1 \in 2 .. K + 1 /\ (K + 1) - 1 = K /\ SizeAt(K + 1) = Written
         /\ IdAt(K + 1) = buffer.id /\ EndAt(P, l, K + 1) = l
    BY <1>1, <1>2 DEF SizeAt, IdAt, EndAt
  <1>12. Q[K - 1] = P[K] - d
    <2>1. K - 1 \in 0 .. K - 1 /\ (K - 1) + 1 = K  BY <1>2
    <2> QED BY <1>1, <2>1 DEF Moved
  <1>13. ASSUME NEW k \in 1 .. K - 1, pending'[k].size # 0
         PROVE  mem'[pending'[k].id] = Stored(v, Q[k - 1], Q[k], h)
    <2>1. mem'[IdAt(k + 1)] = Stored(v, P[(k + 1) - 1] - d, EndAt(P, l, k + 1) - d, h)
      BY <1>8, <1>10, <1>13
    <2>2. Q[k - 1] = P[k] - d
      <3>1. k - 1 \in 0 .. K - 1 /\ (k - 1) + 1 = k  BY <1>2
      <3> QED BY <1>1, <3>1 DEF Moved
    <2> QED BY <1>10, <2>1, <2>2
  <1>14. Written # 0 => mem'[buffer.id] = Stored(v, Q[K - 1], m, h)  BY <1>1, <1>8, <1>11, <1>12
  <1>15. ASSUME NEW b \in BufferIds, ~Holds(b)'
         PROVE  mem'[b] = {}
    <2>1. /\ ~(\E k \in 1 .. K - 1 : pending'[k].size # 0 /\ pending'[k].id = b)
          /\ ~(Written # 0 /\ buffer.id = b)
      BY <1>3, <1>15 DEF Holds
    <2>2. ASSUME NEW k \in 2 .. K + 1, SizeAt(k) # 0
          PROVE  IdAt(k) # b
      <3>1. CASE k = K + 1  BY <1>11, <2>1, <2>2, <3>1
      <3>2. CASE k # K + 1
        <4>1. k - 1 \in 1 .. K - 1 /\ (k - 1) + 1 = k  BY <1>2, <3>2
        <4>2. SizeAt(k) = pending'[k - 1].size /\ IdAt(k) = pending'[k - 1].id  BY <1>10, <4>1
        <4> QED BY <2>1, <2>2, <4>1, <4>2
      <3> QED BY <3>1, <3>2
    <2> QED BY <1>9, <2>2
  <1>16. MemoryPart(v, Q, m, h)'
    <2>1. Len(pending') = K - 1 /\ Written' = Written /\ buffer' = buffer  BY <1>3
    <2> QED BY <1>13, <1>14, <1>15, <2>1 DEF MemoryPart
  <1> QED BY <1>1, <1>16

LEMMA NotifyData ==
  ASSUME TypeOK, LengthHeld, CompletionInv, IdsInv, DataInv, Notify
  PROVE  DataInv'
  <1>1. PICK u, P, p, L, X, G : Parts(u, P, p, L, X, G)  BY DEF DataInv
  <1>2. PICK K, W, n, l, g : K = Len(pending) /\ W = Len(Waiting) /\ n = BlockCount /\ l = L[0] /\ g = G[1]
    OBVIOUS
  <1>3. PICK d \in 0 .. Len(u) : d = P[1]  BY <1>1, NotifyBounds
  <1>4. PICK v, Q, M, H, q, m, h :
          /\ v = Drop(u, d) /\ Q = Less(Rest(P, K), K - 1, d) /\ M = Less(L, W, d)
          /\ H = BlocksLess(G, n, d) /\ q = p - d /\ m = l - d /\ h = g - d
    OBVIOUS
  <1>5. /\ K \in Nat \ {0} /\ W \in Nat /\ n \in Nat \ {0} /\ l \in Nat /\ p \in Nat /\ p <= l
        /\ u \in Seq(Beat) /\ u = undelivered /\ p = P[K]
    BY <1>1, <1>2, PartsTypes, NotifyViews
  <1>6. /\ undelivered' = Drop(u, Blocks(pending[1].size)) /\ d = Blocks(pending[1].size) /\ d <= p
        /\ Len(pending') = K - 1
        /\ UNCHANGED <<curr_len, mid_stream, sq, out, beats_written>>
        /\ UNCHANGED <<Written, Transferring, Ahead, Waiting>>
    BY <1>1, <1>2, <1>3, <1>5, NotifyViews, NotifyBounds
  <1>7. InputPart(v)'  BY <1>1, <1>4, <1>5, <1>6, NotifyInput DEF Parts
  <1>8. PendingPart(v, Q)' /\ (\A k \in 0 .. K - 1 : Q[k] = P[k + 1] - d)
    BY <1>1, <1>2, <1>3, <1>4, <1>5, NotifyPending DEF Parts
  <1>9. WaitingPart(v, M)' /\ (\A k \in 0 .. W : M[k] = L[k] - d)
    <2>1. d <= L[0]  BY <1>2, <1>5, <1>6
    <2>2. WaitingPart(u, L)  BY <1>1 DEF Parts
    <2>3. u \in Seq(Beat) /\ UNCHANGED <<Waiting, curr_len>> /\ M = Less(L, Len(Waiting), d)
      BY <1>2, <1>4, <1>5, <1>6
    <2>4. WaitingPart(Drop(u, d), M)' /\ \A k \in 0 .. Len(Waiting) : M[k] = L[k] - d
      BY <2>1, <2>2, <2>3, NotifyWaiting
    <2> QED BY <1>2, <1>4, <2>4
  <1>10. M[0] = m
    <2>1. 0 \in 0 .. W  BY <1>5
    <2> QED BY <1>2, <1>4, <1>9, <2>1
  <1>11. CurrentPart(v, q, m)' /\ AheadPart(v, q, m)'  BY <1>1, <1>2, <1>4, <1>6, NotifyCurrent
  <1>12. Moved(P, Q, K, d)  BY <1>8 DEF Moved
  <1>13. RequestPart(v, Q, m, H)' /\ LastPart(m, H)'
    BY <1>1, <1>2, <1>3, <1>4, <1>12, NotifyRequests
  <1>14. DataPart(v, X, H)' /\ BlocksPart(v, M, X, H)'  BY <1>1, <1>2, <1>3, <1>4, NotifyBlocks
  <1>15. SentPart(X)' /\ MarkPart(X)'  BY <1>1, <1>6, PartFrames DEF Parts
  <1>16. MemoryPart(v, Q, m, h)'  BY <1>1, <1>2, <1>3, <1>4, <1>12, NotifyMemory
  <1>17. H[1] = h
    <2>1. 1 \in 1 .. n  BY <1>5
    <2> QED BY <1>2, <1>4, <1>5, <2>1, BlocksLessFacts
  <1>18. v = undelivered' /\ q = Q[Len(pending')]
    <2>1. K - 1 \in 0 .. K - 1 /\ (K - 1) + 1 = K  BY <1>5
    <2> QED BY <1>4, <1>5, <1>6, <1>8, <2>1
  <1>19. Parts(v, Q, q, M, X, H)'
    BY <1>7, <1>8, <1>9, <1>10, <1>11, <1>13, <1>14, <1>15, <1>16, <1>17, <1>18 DEF Parts
  <1> QED BY <1>19 DEF DataInv

----
(* Every step.                                                              *)

LEMMA AcceptedBeat ==
  ASSUME TypeOK, AcceptBeat
  PROVE  \E b \in Beat : Accept(b)
  <1>1. PICK k \in 0 .. BEAT, l \in BOOLEAN : Accept([id |-> fed, keep |-> k, last |-> l])
    BY DEF AcceptBeat
  <1>2. [id |-> fed, keep |-> k, last |-> l] \in Beat  BY DEF TypeOK, InputOK, Beat
  <1> QED BY <1>1, <1>2

LEMMA NextData ==
  ASSUME ~FLUSH_MIDSTREAM, TypeOK, LengthHeld, CompletionInv, IdsInv, DataInv, [Next]_vars
  PROVE  DataInv'
  <1>1. CASE AcceptBeat
    <2>1. PICK b \in Beat : Accept(b)  BY <1>1, AcceptedBeat
    <2> QED BY <2>1, AcceptData
  <1>2. CASE \/ Enqueue \/ Flush \/ FlushBuffer \/ FlushDone \/ LeaveReset \/ TakeBuffer
             \/ UNCHANGED vars
    BY <1>2, QuietSteps
  <1>3. CASE Request  BY <1>3, RequestData
  <1>4. CASE EndEmptyStream  BY <1>4, EmptyData
  <1>5. CASE TransferBeat  BY <1>5, TransferData
  <1>6. CASE HostComplete  BY <1>6, CompleteData
  <1>7. CASE Notify  BY <1>7, NotifyData
  <1> QED BY <1>1, <1>2, <1>3, <1>4, <1>5, <1>6, <1>7 DEF Next

----
(* What the invariant says of the head of each queue.                       *)

LEMMA FramedByData ==
  ASSUME TypeOK, LengthHeld, DataInv
  PROVE  TransfersFramed
  <1>1. PICK u, P, p, L, X, G : Parts(u, P, p, L, X, G)  BY DEF DataInv
  <1>2. SUFFICES ASSUME sq # <<>>, NEW n, n = NumBeats(Head(sq).len)
                 PROVE  /\ \A i \in 1 .. n : i <= Len(out) => (out[i].tlast <=> i = n)
                        /\ Len(out) >= n => Head(sq).len = BEAT * (n - 1) + out[n].beat.keep
    BY DEF TransfersFramed
  <1>3. 1 \in 1 .. Len(sq) /\ Head(sq) = sq[1] /\ Len(sq) \in Nat \ {0}
    <2>1. sq \in Seq(TransferRequest)  BY DEF TypeOK, SqOK
    <2>2. Len(sq) \in Nat \ {0} /\ Head(sq) = sq[1]  BY <1>2, <2>1, PopFacts
    <2> QED BY <2>2
  <1>4. PICK r, g, z : r = sq[1] /\ g = G[1] /\ z = Len(out)  OBVIOUS
  <1>5. n = NumBeats(r.len) /\ n \in Nat \ {0} /\ g \in Nat /\ z \in Nat
        /\ RequestAt(u, P, L[0], G, 1, Entry(1), n)
    BY <1>1, <1>2, <1>3, <1>4, RequestBounds, ViewTypes
  <1>6. X[0] = 0 /\ X[1] = n /\ BlockCount \in Nat /\ 1 \in 1 .. BlockCount
    <2>1. BlockCount = Len(sq) + Len(Waiting) + 1 /\ Len(Waiting) \in Nat  BY <1>1, PartsTypes
    <2>2. X[0] = 0  BY <1>1 DEF Parts, DataPart, Offsets
    <2>3. X[1] = X[1 - 1] + NumBeats(sq[1].len)  BY <1>1, <1>3 DEF Parts, BlocksPart
    <2> QED BY <1>3, <1>4, <1>5, <2>1, <2>2, <2>3
  <1>7. ASSUME NEW i \in 1 .. n, i <= z
        PROVE  out[i].tlast <=> i = n
    <2>1. \A k \in 1 .. NumBeats(sq[1].len) :
            X[1 - 1] + k <= Len(out) => (out[X[1 - 1] + k].tlast <=> k = NumBeats(sq[1].len))
      BY <1>1, <1>3 DEF Parts, MarkPart
    <2>2. X[1 - 1] + i = i  BY <1>5, <1>6
    <2> QED BY <1>4, <1>5, <1>7, <2>1, <2>2
  <1>8. ASSUME z >= n
        PROVE  r.len = BEAT * (n - 1) + out[n].beat.keep
    <2>1. r.len = BEAT * ((g + n) - g - 1) + u[g + n].keep  BY <1>4, <1>5 DEF RequestAt, Piece
    <2>2. (g + n) - g - 1 = n - 1  BY <1>5
    <2>3. Data(out, data_fifo, X[1 - 1] + n) = u[g + n]
      <3>1. n \in 1 .. X[1] - X[1 - 1]  BY <1>5, <1>6
      <3> QED BY <1>1, <1>4, <1>6, <3>1 DEF Parts, DataPart, Filled
    <2>4. X[1 - 1] + n = n  BY <1>5, <1>6
    <2>5. Data(out, data_fifo, n) = out[n].beat  BY <1>4, <1>5, <1>8 DEF Data
    <2> QED BY <2>1, <2>2, <2>3, <2>4, <2>5
  <1> QED BY <1>3, <1>4, <1>7, <1>8

LEMMA CompleteByData ==
  ASSUME TypeOK, LengthHeld, CompletionInv, DataInv
  PROVE  NotifiedDataIsComplete
  <1>1. PICK u, P, p, L, X, G : Parts(u, P, p, L, X, G)  BY DEF DataInv
  <1>2. SUFFICES ASSUME NotifyValid, NEW h, h = Head(pending), NEW n, n = Blocks(h.size)
                 PROVE  /\ n <= Len(undelivered)
                        /\ h.size = BEAT * (n - 1) + undelivered[n].keep
                        /\ \A i \in 1 .. n : undelivered[i].last <=> (h.last /\ i = n)
                        /\ h.size # 0 =>
                             mem[h.id] = {<<BEAT * (i - 1), undelivered[i]>> : i \in 1 .. n}
    BY DEF NotifiedDataIsComplete, Blocks
  <1>3. Len(pending) \in Nat \ {0} /\ h = pending[1] /\ 1 \in 1 .. Len(pending)
    <2>1. pending \in Seq(PendingNotify) /\ pending # <<>>
      BY <1>2 DEF NotifyValid, TypeOK, NotifyOK
    <2>2. Len(pending) \in Nat \ {0} /\ h = pending[1]  BY <1>2, <2>1, PopFacts
    <2> QED BY <2>2
  <1>4. PICK g \in Nat : g = G[1]  BY <1>1, DoneBound
  <1>5. /\ n = P[1] /\ n \in Nat /\ n <= Len(u) /\ Behind(G, BlockCount, n)
        /\ h.size \in Nat /\ PendingSizes[1] = h.size
    <2>1. h.size \in Nat /\ PendingSizes[1] = h.size  BY <1>3, SizeOf
    <2>2. /\ P[1] = Blocks(pending[1].size) /\ P[1] \in Nat /\ P[1] \in 0 .. Len(u)
          /\ Behind(G, BlockCount, P[1])
      BY <1>1, <1>2, ValidBounds
    <2>3. n = P[1]  BY <1>2, <1>3, <2>2
    <2>4. n <= Len(u)  BY <1>1, <2>2, <2>3, PartsTypes
    <2> QED BY <2>1, <2>2, <2>3, <2>4
  <1>6. n \in Nat \ {0} /\ n \in 1 .. n
    <2>1. PICK z \in Nat : z = h.size /\ n = Blocks(z)  BY <1>2, <1>5
    <2>2. n \in Nat \ {0}  BY <2>1, BlocksPositive
    <2> QED BY <2>2
  <1>7. /\ u = undelivered /\ P[0] = 0 /\ u \in Seq(Beat) /\ Len(u) \in Nat /\ BlockCount \in Nat \ {0}
    BY <1>1, PartsTypes
  <1>8. Piece(u, 0, n, h.size)
    <2>1. Len(PendingSizes) = Len(pending)  BY ViewTypes
    <2>2. Piece(u, P[1 - 1], P[1], PendingSizes[1])  BY <1>1, <1>3, <2>1 DEF Parts, PendingPart, Cut
    <2> QED BY <1>5, <1>7, <2>2
  <1>9. h.size = BEAT * (n - 1) + u[n].keep
    <2>1. h.size = BEAT * (n - 0 - 1) + u[n].keep  BY <1>8 DEF Piece
    <2>2. n - 0 - 1 = n - 1  BY <1>5
    <2> QED BY <2>1, <2>2
  <1>10. ASSUME NEW i \in 1 .. n
         PROVE  u[i].last <=> (h.last /\ i = n)
    <2>1. h.last <=> u[n].last  BY <1>1, <1>3, <1>5 DEF Parts, PendingPart
    <2>2. CASE i = n  BY <2>1, <2>2
    <2>3. CASE i # n
      <3>1. i \in 0 + 1 .. n - 1  BY <1>5, <2>3
      <3>2. ~u[i].last  BY <1>8, <3>1 DEF Piece
      <3> QED BY <2>3, <3>2
    <2> QED BY <2>2, <2>3
  <1>11. n <= g
    <2>1. 1 \in 1 .. BlockCount  BY <1>7
    <2> QED BY <1>4, <1>5, <2>1 DEF Behind
  <1>12. ASSUME h.size # 0
         PROVE  mem[h.id] = {<<BEAT * (i - 1), u[i]>> : i \in 1 .. n}
    <2>1. mem[h.id] = Stored(u, P[1 - 1], P[1], g)  BY <1>1, <1>3, <1>4, <1>12 DEF Parts, MemoryPart
    <2>2. mem[h.id] = Stored(u, 0, n, g)  BY <1>5, <1>7, <2>1
    <2>3. mem[h.id] = {<<BEAT * (i - 0 - 1), u[i]>> : i \in {j \in 0 + 1 .. n : j <= g}}
      BY <2>2 DEF Stored
    <2>4. {j \in 0 + 1 .. n : j <= g} = 1 .. n  BY <1>5, <1>11
    <2>5. \A i \in 1 .. n : i - 0 - 1 = i - 1  BY <1>5
    <2>6. {<<BEAT * (i - 0 - 1), u[i]>> : i \in 1 .. n} = {<<BEAT * (i - 1), u[i]>> : i \in 1 .. n}
      BY <2>5
    <2> QED BY <2>3, <2>4, <2>6
  <1> QED BY <1>5, <1>7, <1>9, <1>10, <1>12

----
(* The theorems.                                                            *)

LEMMA SafeData ==
  ASSUME ~FLUSH_MIDSTREAM
  PROVE  SafeSpec => [](TypeOK /\ LengthHeld /\ CompletionInv /\ DataInv)
  <1>1. TypeOK /\ LengthHeld /\ CompletionInv /\ IdsInv /\ DataInv /\ [Next]_vars => DataInv'
    BY NextData
  <1>2. TypeOK /\ CompletionInv /\ [Next]_vars => CompletionInv'  BY NextCompletion
  <1>3. TypeOK /\ IdsInv /\ [Next]_vars => IdsInv'  BY NextIds
  <1> QED BY <1>1, <1>2, <1>3, InitData, InitIds, InitCompletion, SafeTypes, PTL DEF SafeSpec

(* The FIFO of the lengths and the FIFO of the data are read independently. *)
(* For every transfer length, depth of the FIFOs and number of requests in  *)
(* flight, each request still gets the beats its length was counted from,   *)
(* and the last of them alone is marked, if the software flushes between    *)
(* streams only.                                                            *)
THEOREM RequestsGetTheirBeats ==
  ASSUME ~FLUSH_MIDSTREAM
  PROVE  SafeSpec => []TransfersFramed
  <1>1. TypeOK /\ LengthHeld /\ DataInv => TransfersFramed  BY FramedByData
  <1> QED BY <1>1, SafeData, PTL

(* The promise of the writer: when a notification can be sent, the buffer   *)
(* holds exactly the next bytes of the output in order, no matter how       *)
(* Coyote delays requests, data and completions, if the software flushes    *)
(* between streams only.                                                    *)
THEOREM NotifiedDataArrived ==
  ASSUME ~FLUSH_MIDSTREAM
  PROVE  SafeSpec => []NotifiedDataIsComplete
  <1>1. TypeOK /\ LengthHeld /\ CompletionInv /\ DataInv => NotifiedDataIsComplete
    BY CompleteByData
  <1> QED BY <1>1, SafeData, PTL

----
(* The buffers of the pending notifications q.                              *)

Buf == [id : Nat, capacity : Nat]

Gives(p, c) == p.size # 0 \/ c
BufferOf(p) == [id |-> p.id, capacity |-> p.capacity]

\* What upTo holds at k in the definition of Held.
UpTo(h, q, c, k) ==
  IF k = 0 THEN <<>>
  ELSE IF Gives(q[k], c) THEN Append(h[k - 1], BufferOf(q[k]))
  ELSE h[k - 1]
IsUpTo(h, q, c) == h = [k \in 0 .. Len(q) |-> UpTo(h, q, c, k)]

LEMMA UpToCases ==
  ASSUME NEW q \in Seq(PendingNotify), NEW c, NEW h, IsUpTo(h, q, c)
  PROVE  /\ Len(q) \in Nat /\ h[0] = <<>>
         /\ \A k \in 1 .. Len(q) : Gives(q[k], c) => h[k] = Append(h[k - 1], BufferOf(q[k]))
         /\ \A k \in 1 .. Len(q) : ~Gives(q[k], c) => h[k] = h[k - 1]
  <1>1. PICK n \in Nat : n = Len(q)  OBVIOUS
  <1>2. \A k \in 0 .. n : h[k] = UpTo(h, q, c, k)  BY <1>1 DEF IsUpTo
  <1>3. h[0] = <<>>
    <2>1. 0 \in 0 .. n  OBVIOUS
    <2> QED BY <1>2, <2>1 DEF UpTo
  <1>4. \A k \in 1 .. n : k \in 0 .. n /\ k # 0  OBVIOUS
  <1>5. ASSUME NEW k \in 1 .. n
        PROVE  h[k] = IF Gives(q[k], c) THEN Append(h[k - 1], BufferOf(q[k])) ELSE h[k - 1]
    BY <1>2, <1>4 DEF UpTo
  <1> QED BY <1>1, <1>3, <1>5

LEMMA BufferOfType ==
  ASSUME NEW p \in PendingNotify
  PROVE  BufferOf(p) \in Buf
  BY DEF PendingNotify, Buf, BufferOf

LEMMA UpToTypes ==
  ASSUME NEW q \in Seq(PendingNotify), NEW c, NEW h, IsUpTo(h, q, c)
  PROVE  \A k \in 0 .. Len(q) : h[k] \in Seq(Buf)
  <1>1. PICK n \in Nat : n = Len(q)  OBVIOUS
  <1> DEFINE S == {k \in Nat : k \in 0 .. n => h[k] \in Seq(Buf)}
  <1>2. 0 \in S
    <2>1. h[0] = <<>>  BY UpToCases
    <2>2. h[0] \in Seq(Buf)  BY <2>1
    <2> QED BY <2>2
  <1>3. ASSUME NEW k \in Nat, k \in S
        PROVE  k + 1 \in S
    <2> SUFFICES ASSUME k + 1 \in 0 .. n PROVE h[k + 1] \in Seq(Buf)  OBVIOUS
    <2>1. k \in 0 .. n /\ k + 1 \in 1 .. n /\ (k + 1) - 1 = k  OBVIOUS
    <2>2. h[k] \in Seq(Buf)  BY <1>3, <2>1
    <2>3. BufferOf(q[k + 1]) \in Buf  BY <1>1, <2>1, BufferOfType
    <2>4. Append(h[k], BufferOf(q[k + 1])) \in Seq(Buf)  BY <2>2, <2>3
    <2>5. h[k + 1] = Append(h[k], BufferOf(q[k + 1])) \/ h[k + 1] = h[k]  BY <1>1, <2>1, UpToCases
    <2> QED BY <2>2, <2>4, <2>5
  <1>4. \A k \in Nat : k \in S
    <2> HIDE DEF S
    <2> QED BY <1>2, <1>3, SetInduction
  <1> QED BY <1>1, <1>4

LEMMA UpToUnique ==
  ASSUME NEW q \in Seq(PendingNotify), NEW c, NEW g, NEW h, IsUpTo(g, q, c), IsUpTo(h, q, c)
  PROVE  g = h
  <1>1. PICK n \in Nat : n = Len(q)  OBVIOUS
  <1> DEFINE S == {k \in Nat : k \in 0 .. n => g[k] = h[k]}
  <1>2. 0 \in S  BY UpToCases
  <1>3. ASSUME NEW k \in Nat, k \in S
        PROVE  k + 1 \in S
    <2> SUFFICES ASSUME k + 1 \in 0 .. n PROVE g[k + 1] = h[k + 1]  OBVIOUS
    <2>1. k \in 0 .. n /\ k + 1 \in 1 .. n /\ (k + 1) - 1 = k  OBVIOUS
    <2>2. g[k] = h[k]  BY <1>3, <2>1
    <2>3. (Gives(q[k + 1], c) => g[k + 1] = Append(g[k], BufferOf(q[k + 1])))
          /\ (~Gives(q[k + 1], c) => g[k + 1] = g[k])
      BY <1>1, <2>1, UpToCases
    <2>4. (Gives(q[k + 1], c) => h[k + 1] = Append(h[k], BufferOf(q[k + 1])))
          /\ (~Gives(q[k + 1], c) => h[k + 1] = h[k])
      BY <1>1, <2>1, UpToCases
    <2> QED BY <2>2, <2>3, <2>4
  <1>4. \A k \in Nat : k \in S
    <2> HIDE DEF S
    <2> QED BY <1>2, <1>3, SetInduction
  <1>5. \A k \in 0 .. n : g[k] = h[k]  BY <1>4
  <1>6. g = [k \in 0 .. n |-> g[k]] /\ h = [k \in 0 .. n |-> h[k]]  BY <1>1 DEF IsUpTo
  <1> QED BY <1>5, <1>6

\* The first of the buffers is that of the first notification, if it gives one.
LEMMA UpToHead ==
  ASSUME NEW q \in Seq(PendingNotify), NEW c, NEW h, IsUpTo(h, q, c), q # <<>>, Gives(q[1], c)
  PROVE  \A k \in 1 .. Len(q) : h[k] # <<>> /\ Head(h[k]) = BufferOf(q[1])
  <1>1. PICK n \in Nat, b \in Buf : n = Len(q) /\ b = BufferOf(q[1])  BY BufferOfType
  <1> DEFINE S == {k \in Nat : k + 1 \in 1 .. n => h[k + 1] # <<>> /\ Head(h[k + 1]) = b}
  <1>2. 0 \in S
    <2> SUFFICES ASSUME 1 \in 1 .. n PROVE h[1] # <<>> /\ Head(h[1]) = b  OBVIOUS
    <2>1. h[1] = Append(h[1 - 1], b) /\ 1 - 1 = 0  BY <1>1, UpToCases
    <2>2. h[0] = <<>>  BY UpToCases
    <2>3. Append(<<>>, b) = <<b>> /\ <<b>> # <<>> /\ Head(<<b>>) = b  OBVIOUS
    <2> QED BY <2>1, <2>2, <2>3
  <1>3. ASSUME NEW k \in Nat, k \in S
        PROVE  k + 1 \in S
    <2> SUFFICES ASSUME k + 1 + 1 \in 1 .. n PROVE h[k + 1 + 1] # <<>> /\ Head(h[k + 1 + 1]) = b
      OBVIOUS
    <2>1. k + 1 \in 1 .. n /\ k + 1 \in 0 .. n /\ (k + 1 + 1) - 1 = k + 1  OBVIOUS
    <2>2. h[k + 1] # <<>> /\ Head(h[k + 1]) = b  BY <1>3, <2>1
    <2>3. h[k + 1] \in Seq(Buf)  BY <1>1, <2>1, UpToTypes
    <2>4. PICK e \in Buf : e = BufferOf(q[k + 1 + 1])  BY <1>1, BufferOfType
    <2>5. h[k + 1 + 1] = Append(h[k + 1], e) \/ h[k + 1 + 1] = h[k + 1]
      BY <1>1, <2>1, <2>4, UpToCases
    <2> QED BY <2>2, <2>3, <2>4, <2>5
  <1>4. \A k \in Nat : k \in S
    <2> HIDE DEF S
    <2> QED BY <1>2, <1>3, SetInduction
  <1>5. ASSUME NEW k \in 1 .. n
        PROVE  h[k] # <<>> /\ Head(h[k]) = b
    <2>1. k - 1 \in Nat /\ (k - 1) + 1 = k  OBVIOUS
    <2>2. k - 1 \in S  BY <1>4, <2>1
    <2> QED BY <2>1, <2>2
  <1> QED BY <1>1, <1>5

PushedTo(g, e, h, q, p, c) ==
  /\ IsUpTo(g, e, c)
  /\ Gives(p, c) => g[Len(e)] = Append(h[Len(q)], BufferOf(p))
  /\ ~Gives(p, c) => g[Len(e)] = h[Len(q)]

\* A notification that is appended gives its buffer last.
LEMMA UpToPush ==
  ASSUME NEW q \in Seq(PendingNotify), NEW p \in PendingNotify, NEW c, NEW h, IsUpTo(h, q, c),
         NEW e, e = Append(q, p)
  PROVE  \E g : PushedTo(g, e, h, q, p, c)
  <1>1. PICK n \in Nat : n = Len(q)  OBVIOUS
  <1>2. Len(e) = n + 1 /\ (\A k \in 1 .. n : e[k] = q[k]) /\ e[n + 1] = p  BY <1>1, PushFacts
  <1>3. PICK g : g = [k \in 0 .. n + 1 |->
                       IF k = n + 1 THEN IF Gives(p, c) THEN Append(h[n], BufferOf(p)) ELSE h[n] ELSE h[k]]
    OBVIOUS
  <1>4. /\ \A k \in 0 .. n : g[k] = h[k]
        /\ Gives(p, c) => g[n + 1] = Append(h[n], BufferOf(p))
        /\ ~Gives(p, c) => g[n + 1] = h[n]
    BY <1>3
  <1>5. ASSUME NEW k \in 0 .. n + 1
        PROVE  g[k] = UpTo(g, e, c, k)
    <2>1. CASE k = 0
      <3>1. 0 \in 0 .. n  OBVIOUS
      <3> QED BY <1>4, <2>1, <3>1, UpToCases DEF UpTo
    <2>2. CASE k \in 1 .. n
      <3>1. k \in 0 .. n /\ k - 1 \in 0 .. n /\ k # 0  BY <2>2
      <3>2. g[k] = h[k] /\ g[k - 1] = h[k - 1] /\ e[k] = q[k]  BY <1>2, <1>4, <2>2, <3>1
      <3>3. (Gives(q[k], c) => h[k] = Append(h[k - 1], BufferOf(q[k])))
            /\ (~Gives(q[k], c) => h[k] = h[k - 1])
        BY <1>1, <2>2, UpToCases
      <3> QED BY <3>1, <3>2, <3>3 DEF UpTo
    <2>3. CASE k = n + 1
      <3>1. n \in 0 .. n /\ k - 1 = n /\ k # 0  BY <2>3
      <3>2. g[k - 1] = h[n] /\ e[k] = p  BY <1>2, <1>4, <2>3, <3>1
      <3> QED BY <1>4, <2>3, <3>1, <3>2 DEF UpTo
    <2> QED BY <2>1, <2>2, <2>3
  <1>6. g = [k \in 0 .. n + 1 |-> UpTo(g, e, c, k)]
    <2>1. g = [k \in 0 .. n + 1 |-> g[k]]  BY <1>3
    <2> QED BY <1>5, <2>1
  <1>7. IsUpTo(g, e, c)  BY <1>2, <1>6 DEF IsUpTo
  <1> QED BY <1>1, <1>2, <1>4, <1>7 DEF PushedTo

PoppedTo(g, e, h, q, c) ==
  /\ IsUpTo(g, e, c)
  /\ Gives(q[1], c) => g[Len(e)] = Tail(h[Len(q)])
  /\ ~Gives(q[1], c) => g[Len(e)] = h[Len(q)]

\* The first notification takes its buffer away.
LEMMA UpToPop ==
  ASSUME NEW q \in Seq(PendingNotify), NEW c, NEW h, IsUpTo(h, q, c), q # <<>>, NEW e, e = Tail(q)
  PROVE  \E g : PoppedTo(g, e, h, q, c)
  <1>1. PICK n \in Nat : n = Len(q)  OBVIOUS
  <1>2. n # 0 /\ Len(e) = n - 1 /\ \A k \in 1 .. n - 1 : e[k] = q[k + 1]  BY <1>1, PopFacts
  <1>3. PICK b \in Buf : b = BufferOf(q[1])  BY <1>1, <1>2, BufferOfType
  <1>4. PICK g : g = [k \in 0 .. n - 1 |-> IF Gives(q[1], c) THEN Tail(h[k + 1]) ELSE h[k + 1]]
    OBVIOUS
  <1>5. /\ \A k \in 0 .. n - 1 : Gives(q[1], c) => g[k] = Tail(h[k + 1])
        /\ \A k \in 0 .. n - 1 : ~Gives(q[1], c) => g[k] = h[k + 1]
    BY <1>4
  <1>6. g[0] = <<>>
    <2>1. 0 \in 0 .. n - 1 /\ 1 \in 1 .. n /\ 0 + 1 = 1 /\ 1 - 1 = 0  BY <1>2
    <2>2. h[0] = <<>> /\ (Gives(q[1], c) => h[1] = Append(h[0], b)) /\ (~Gives(q[1], c) => h[1] = h[0])
      <3>1. (Gives(q[1], c) => h[1] = Append(h[1 - 1], b)) /\ (~Gives(q[1], c) => h[1] = h[1 - 1])
        BY <1>1, <1>3, <2>1, UpToCases
      <3>2. h[0] = <<>>  BY UpToCases
      <3> QED BY <2>1, <3>1, <3>2
    <2>3. Tail(Append(<<>>, b)) = <<>>  OBVIOUS
    <2>4. CASE Gives(q[1], c)
      <3>1. g[0] = Tail(h[0 + 1])  BY <1>5, <2>1, <2>4
      <3> QED BY <2>1, <2>2, <2>3, <2>4, <3>1
    <2>5. CASE ~Gives(q[1], c)
      <3>1. g[0] = h[0 + 1]  BY <1>5, <2>1, <2>5
      <3> QED BY <2>1, <2>2, <2>5, <3>1
    <2> QED BY <2>4, <2>5
  <1>7. ASSUME NEW k \in 1 .. n - 1
        PROVE  g[k] = UpTo(g, e, c, k)
    <2>1. k \in 0 .. n - 1 /\ k - 1 \in 0 .. n - 1 /\ (k - 1) + 1 = k /\ (k + 1) - 1 = k
          /\ k + 1 \in 1 .. n /\ k \in 1 .. n /\ k # 0 /\ k \in 0 .. n
      BY <1>2
    <2>2. e[k] = q[k + 1]  BY <1>2
    <2>3. PICK x \in Buf : x = BufferOf(q[k + 1])  BY <1>1, <2>1, BufferOfType
    <2>4. (Gives(q[k + 1], c) => h[k + 1] = Append(h[k], x)) /\ (~Gives(q[k + 1], c) => h[k + 1] = h[k])
      <3>1. (Gives(q[k + 1], c) => h[k + 1] = Append(h[(k + 1) - 1], x))
            /\ (~Gives(q[k + 1], c) => h[k + 1] = h[(k + 1) - 1])
        BY <1>1, <2>1, <2>3, UpToCases
      <3> QED BY <2>1, <3>1
    <2>5. h[k] \in Seq(Buf)  BY <1>1, <2>1, UpToTypes
    <2>6. CASE Gives(q[1], c)
      <3>1. g[k] = Tail(h[k + 1]) /\ g[k - 1] = Tail(h[k])
        <4>1. g[k - 1] = Tail(h[(k - 1) + 1])  BY <1>5, <2>1, <2>6
        <4>2. g[k] = Tail(h[k + 1])  BY <1>5, <2>1, <2>6
        <4> QED BY <2>1, <4>1, <4>2
      <3>2. h[k] # <<>>  BY <1>1, <1>2, <2>1, <2>6, UpToHead
      <3>3. Tail(Append(h[k], x)) = Append(Tail(h[k]), x)
        <4>1. \A s \in Seq(Buf) : s # <<>> => Tail(Append(s, x)) = Append(Tail(s), x)  OBVIOUS
        <4> QED BY <2>5, <3>2, <4>1
      <3> QED BY <2>1, <2>2, <2>3, <2>4, <3>1, <3>3 DEF UpTo
    <2>7. CASE ~Gives(q[1], c)
      <3>1. g[k] = h[k + 1] /\ g[k - 1] = h[k]
        <4>1. g[k - 1] = h[(k - 1) + 1]  BY <1>5, <2>1, <2>7
        <4>2. g[k] = h[k + 1]  BY <1>5, <2>1, <2>7
        <4> QED BY <2>1, <4>1, <4>2
      <3> QED BY <2>1, <2>2, <2>3, <2>4, <3>1 DEF UpTo
    <2> QED BY <2>6, <2>7
  <1>8. g = [k \in 0 .. n - 1 |-> UpTo(g, e, c, k)]
    <2>1. g = [k \in 0 .. n - 1 |-> g[k]]  BY <1>4
    <2>2. ASSUME NEW k \in 0 .. n - 1
          PROVE  g[k] = UpTo(g, e, c, k)
      <3>1. CASE k = 0  BY <1>6, <3>1 DEF UpTo
      <3>2. CASE k \in 1 .. n - 1  BY <1>7, <3>2
      <3> QED BY <3>1, <3>2
    <2> QED BY <2>1, <2>2
  <1>9. IsUpTo(g, e, c)  BY <1>2, <1>8 DEF IsUpTo
  <1>10. n - 1 \in 0 .. n - 1 /\ (n - 1) + 1 = n  BY <1>2
  <1>11. (Gives(q[1], c) => g[n - 1] = Tail(h[n])) /\ (~Gives(q[1], c) => g[n - 1] = h[n])
    <2>1. (Gives(q[1], c) => g[n - 1] = Tail(h[(n - 1) + 1])) /\ (~Gives(q[1], c) => g[n - 1] = h[(n - 1) + 1])
      BY <1>5, <1>10
    <2> QED BY <1>10, <2>1
  <1> QED BY <1>1, <1>2, <1>9, <1>11 DEF PoppedTo

LEMMA UpToNone ==
  ASSUME NEW c
  PROVE  \E h : IsUpTo(h, <<>>, c)
  <1>1. PICK h : h = [k \in 0 .. 0 |-> <<>>]  OBVIOUS
  <1>2. h = [k \in 0 .. 0 |-> UpTo(h, <<>>, c, k)]  BY <1>1 DEF UpTo
  <1> QED BY <1>2 DEF IsUpTo

----
(* The buffers of the contract: held ones H, the current one C, and the     *)
(* enqueued ones B.                                                         *)

LEMMA JoinEnqueue ==
  ASSUME NEW T, NEW H \in Seq(T), NEW C \in Seq(T), NEW B \in Seq(T), NEW x \in T
  PROVE  H \o C \o Append(B, x) = Append(H \o C \o B, x)
  OBVIOUS

LEMMA JoinTake ==
  ASSUME NEW T, NEW H \in Seq(T), NEW B \in Seq(T), B # <<>>
  PROVE  H \o <<Head(B)>> \o Tail(B) = H \o <<>> \o B
  OBVIOUS

LEMMA JoinPush ==
  ASSUME NEW T, NEW H \in Seq(T), NEW B \in Seq(T), NEW x \in T
  PROVE  Append(H, x) \o <<>> \o B = H \o <<x>> \o B
  OBVIOUS

LEMMA JoinPop ==
  ASSUME NEW T, NEW H \in Seq(T), NEW C \in Seq(T), NEW B \in Seq(T), H # <<>>
  PROVE  /\ H \o C \o B # <<>>
         /\ Head(H \o C \o B) = Head(H)
         /\ Tail(H \o C \o B) = Tail(H) \o C \o B
  OBVIOUS

Removed(E, i) == SubSeq(E, 1, i - 1) \o SubSeq(E, i + 1, Len(E))

LEMMA JoinDrop ==
  ASSUME NEW T, NEW H \in Seq(T), NEW B \in Seq(T), NEW x \in T
  PROVE  /\ H \o <<>> \o B = Removed(H \o <<x>> \o B, Len(H) + 1)
         /\ Len(H) + 1 \in DOMAIN (H \o <<x>> \o B)
  <1>1. PICK E, n : E = H \o <<x>> \o B /\ n = Len(H)  OBVIOUS
  <1>2. n \in Nat /\ Len(B) \in Nat /\ E \in Seq(T) /\ Len(E) = n + 1 + Len(B)
        /\ (\A i \in 1 .. n : E[i] = H[i]) /\ \A i \in 1 .. Len(B) : E[n + 1 + i] = B[i]
    BY <1>1
  <1>3. SubSeq(E, 1, n) = H
    <2>1. SubSeq(E, 1, n) \in Seq(T) /\ Len(SubSeq(E, 1, n)) = n  BY <1>2
    <2>2. \A i \in 1 .. n : SubSeq(E, 1, n)[i] = H[i]  BY <1>2
    <2> QED BY <1>1, <2>1, <2>2
  <1>4. SubSeq(E, n + 1 + 1, Len(E)) = B
    <2>1. PICK m, l, F : m = n + 1 /\ l = Len(E) /\ F = Drop(E, m)  OBVIOUS
    <2>2. m \in Nat /\ l \in Nat /\ l = m + Len(B) /\ Len(B) \in Nat /\ m \in 0 .. Len(E)
      BY <1>2, <2>1
    <2>3. F \in Seq(T) /\ Len(F) = l - m /\ \A i \in 1 .. l - m : F[i] = E[m + i]
      <3>1. E \in Seq(T) /\ m \in 0 .. Len(E)  BY <1>2, <2>2
      <3>2. /\ Drop(E, m) \in Seq(T) /\ Len(Drop(E, m)) = Len(E) - m
            /\ \A i \in 1 .. Len(E) - m : Drop(E, m)[i] = E[m + i]
        BY <3>1, DropFacts
      <3> QED BY <2>1, <3>2
    <2>4. Len(F) = Len(B)  BY <2>2, <2>3
    <2>5. \A i \in 1 .. Len(B) : F[i] = B[i]  BY <1>2, <2>1, <2>2, <2>3
    <2>6. F = B  BY <2>3, <2>4, <2>5
    <2> QED BY <2>1, <2>6 DEF Drop
  <1>5. H \o <<>> \o B = H \o B  OBVIOUS
  <1>6. (n + 1) - 1 = n /\ n + 1 \in 1 .. Len(E)  BY <1>2
  <1>7. Removed(E, n + 1) = H \o B  BY <1>3, <1>4, <1>6 DEF Removed
  <1>8. DOMAIN E = 1 .. Len(E)  BY <1>2
  <1> QED BY <1>1, <1>5, <1>6, <1>7, <1>8

HeldOf(q, c) == (CHOOSE h : IsUpTo(h, q, c))[Len(q)]

LEMMA HeldIs == Held = HeldOf(pending, empty_stream_consumes_buffer)
  BY DEF Held, HoldsBuffer, HeldOf, IsUpTo, UpTo, Gives, BufferOf

LEMMA HeldIsNext == Held' = HeldOf(pending', empty_stream_consumes_buffer')
  BY DEF Held, HoldsBuffer, HeldOf, IsUpTo, UpTo, Gives, BufferOf

LEMMA HeldOfValue ==
  ASSUME NEW q \in Seq(PendingNotify), NEW c, NEW h, IsUpTo(h, q, c)
  PROVE  HeldOf(q, c) = h[Len(q)] /\ HeldOf(q, c) \in Seq(Buf)
  <1>1. PICK g : g = CHOOSE f : IsUpTo(f, q, c)  OBVIOUS
  <1>2. IsUpTo(g, q, c)  BY <1>1
  <1>3. g = h  BY <1>2, UpToUnique
  <1>4. HeldOf(q, c) = h[Len(q)]  BY <1>1, <1>3 DEF HeldOf
  <1>5. Len(q) \in 0 .. Len(q)  OBVIOUS
  <1> QED BY <1>4, <1>5, UpToTypes

LEMMA HeldOfNone ==
  ASSUME NEW c
  PROVE  HeldOf(<<>>, c) = <<>> /\ \E h : IsUpTo(h, <<>>, c)
  <1>1. PICK q : q = <<>>  OBVIOUS
  <1>2. q \in Seq(PendingNotify) /\ Len(q) = 0  BY <1>1
  <1>3. PICK h : IsUpTo(h, q, c)  BY <1>1, UpToNone
  <1>4. HeldOf(q, c) = h[Len(q)]  BY <1>2, <1>3, HeldOfValue
  <1>5. h[0] = <<>>  BY <1>2, <1>3, UpToCases
  <1> QED BY <1>1, <1>2, <1>3, <1>4, <1>5

\* Is there a list of the buffers that the notifications q give up?
HasHeld(q, c) == \E h : IsUpTo(h, q, c)

LEMMA HeldOfType ==
  ASSUME NEW q \in Seq(PendingNotify), NEW c, HasHeld(q, c)
  PROVE  HeldOf(q, c) \in Seq(Buf)
  BY HeldOfValue DEF HasHeld

HeldPushed(e, q, p, c) ==
  /\ HasHeld(e, c)
  /\ Gives(p, c) => HeldOf(e, c) = Append(HeldOf(q, c), BufferOf(p))
  /\ ~Gives(p, c) => HeldOf(e, c) = HeldOf(q, c)

LEMMA HeldOfPush ==
  ASSUME NEW q \in Seq(PendingNotify), NEW p \in PendingNotify, NEW c, HasHeld(q, c),
         NEW e, e = Append(q, p)
  PROVE  HeldPushed(e, q, p, c)
  <1>1. PICK h : IsUpTo(h, q, c)  BY DEF HasHeld
  <1>2. PICK g : PushedTo(g, e, h, q, p, c)  BY <1>1, UpToPush
  <1>3. e \in Seq(PendingNotify)  OBVIOUS
  <1>4. HeldOf(e, c) = g[Len(e)] /\ HeldOf(q, c) = h[Len(q)]
    BY <1>1, <1>2, <1>3, HeldOfValue DEF PushedTo, PoppedTo
  <1> QED BY <1>2, <1>4 DEF HasHeld, PushedTo, HeldPushed

HeldPopped(e, q, c) ==
  /\ HasHeld(e, c)
  /\ Gives(q[1], c) => /\ HeldOf(q, c) # <<>> /\ Head(HeldOf(q, c)) = BufferOf(q[1])
                       /\ HeldOf(e, c) = Tail(HeldOf(q, c))
  /\ ~Gives(q[1], c) => HeldOf(e, c) = HeldOf(q, c)

LEMMA HeldOfPop ==
  ASSUME NEW q \in Seq(PendingNotify), NEW c, HasHeld(q, c), q # <<>>, NEW e, e = Tail(q)
  PROVE  HeldPopped(e, q, c)
  <1>1. PICK h : IsUpTo(h, q, c)  BY DEF HasHeld
  <1>2. PICK g : PoppedTo(g, e, h, q, c)  BY <1>1, UpToPop
  <1>3. e \in Seq(PendingNotify)  OBVIOUS
  <1>4. HeldOf(e, c) = g[Len(e)] /\ HeldOf(q, c) = h[Len(q)]
    BY <1>1, <1>2, <1>3, HeldOfValue DEF PushedTo, PoppedTo
  <1>5. Len(q) \in 1 .. Len(q)  OBVIOUS
  <1>6. Gives(q[1], c) => h[Len(q)] # <<>> /\ Head(h[Len(q)]) = BufferOf(q[1])
    BY <1>1, <1>5, UpToHead
  <1> QED BY <1>2, <1>4, <1>6 DEF HasHeld, PoppedTo, HeldPopped

----
(* Buffers are given up full or at the end of a stream.                     *)

InTransfers(n) == \E a \in Nat : n = TRANSFER * a

LEMMA NoTransfers == InTransfers(0)
  <1>1. 0 = TRANSFER * 0  BY WriterAssumption
  <1> QED BY <1>1 DEF InTransfers

LEMMA OneMoreTransfer ==
  ASSUME NEW n, InTransfers(n)
  PROVE  InTransfers(n + TRANSFER)
  <1>1. PICK a \in Nat : n = TRANSFER * a  BY DEF InTransfers
  <1>2. TRANSFER * a + TRANSFER = TRANSFER * (a + 1)  BY WriterAssumption
  <1>3. a + 1 \in Nat  OBVIOUS
  <1> QED BY <1>1, <1>2, <1>3 DEF InTransfers

\* A buffer that cannot take another transfer and consists of transfers is full.
LEMMA FullTransfers ==
  ASSUME NEW n \in Nat, NEW c \in Nat, InTransfers(n), InTransfers(c), n <= c, c < n + TRANSFER
  PROVE  n = c
  <1>1. PICK T \in Nat \ {0} : T = TRANSFER  BY WriterAssumption
  <1>2. PICK a \in Nat : n = T * a  BY <1>1 DEF InTransfers
  <1>3. PICK b \in Nat : c = T * b  BY <1>1 DEF InTransfers
  <1>4. c < n + T  BY <1>1
  <1>5. ASSUME b < a PROVE FALSE
    <2>1. PICK d \in Nat : a = (b + 1) + d  BY <1>5
    <2>2. T * ((b + 1) + d) = T * b + T + T * d /\ T * d \in Nat  OBVIOUS
    <2>3. PICK x \in Nat, y \in Nat : x = T * d /\ y = T * b  BY <2>2
    <2>4. n = y + T + x /\ c = y /\ n <= c  BY <1>2, <1>3, <2>1, <2>2, <2>3
    <2> QED BY <2>3, <2>4
  <1>6. ASSUME a < b PROVE FALSE
    <2>1. PICK d \in Nat : b = (a + 1) + d  BY <1>6
    <2>2. T * ((a + 1) + d) = T * a + T + T * d /\ T * d \in Nat  OBVIOUS
    <2>3. PICK x \in Nat, y \in Nat : x = T * d /\ y = T * a  BY <2>2
    <2>4. c = y + T + x /\ n = y /\ c < n + T  BY <1>2, <1>3, <1>4, <2>1, <2>2, <2>3
    <2> QED BY <2>3, <2>4
  <1>7. a = b  BY <1>5, <1>6
  <1> QED BY <1>2, <1>3, <1>7

BuffersWhole == \A i \in 1 .. Len(buffers) : InTransfers(buffers[i].capacity)

CurrentWhole ==
  /\ Active => InTransfers(buffer.capacity)
  /\ ~Transferring => InTransfers(Written)
  /\ Transferring => \E w \in Nat : InTransfers(w) /\ Written = w + Ahead

Fits(p) == p.size <= p.capacity /\ (~p.last => p.size = p.capacity)
PendingFits == \A k \in 1 .. Len(pending) : Fits(pending[k])

FillInv == BuffersWhole /\ CurrentWhole /\ PendingFits

LEMMA InitFill == Init => FillInv
  <1> SUFFICES ASSUME Init PROVE FillInv  OBVIOUS
  <1>1. buffers = <<>> /\ pending = <<>> /\ ~Active /\ ~Transferring /\ Written = 0
    BY DEF Init, Active, Transferring, Written
  <1> QED BY <1>1, NoTransfers DEF FillInv, BuffersWhole, CurrentWhole, PendingFits

LEMMA QuietFill ==
  ASSUME FillInv, UNCHANGED <<pending, buffers>>, Active' => buffer' = buffer /\ Active,
         UNCHANGED <<Written, Transferring, Ahead>>
  PROVE  FillInv'
  <1>1. BuffersWhole' /\ PendingFits'  BY DEF FillInv, BuffersWhole, PendingFits
  <1>2. CurrentWhole'  BY DEF FillInv, CurrentWhole
  <1> QED BY <1>1, <1>2 DEF FillInv

LEMMA EnqueueFill ==
  ASSUME TypeOK, FillInv, Enqueue
  PROVE  FillInv'
  <1>1. PICK id \in BufferIds, size \in BufferSizes : EnqueueBuffer(id, size)  BY DEF Enqueue
  <1>2. PICK e : e = [id |-> id, capacity |-> size * TRANSFER]  OBVIOUS
  <1>3. /\ buffers' = Append(buffers, e) /\ e.capacity = size * TRANSFER
        /\ UNCHANGED <<pending, buffer, output_state, len_fifo, bytes_written>>
    BY <1>1, <1>2 DEF EnqueueBuffer, fsmVars
  <1>4. e \in [id : BufferIds, capacity : Nat] /\ InTransfers(e.capacity)
    <2>1. size \in Nat /\ size * TRANSFER \in Nat /\ size * TRANSFER = TRANSFER * size
      BY WriterAssumption
    <2> QED BY <1>2, <1>3, <2>1 DEF InTransfers
  <1>5. /\ Len(buffers) \in Nat /\ Len(buffers') = Len(buffers) + 1
        /\ (\A i \in 1 .. Len(buffers) : buffers'[i] = buffers[i]) /\ buffers'[Len(buffers) + 1] = e
    <2>1. buffers \in Seq([id : BufferIds, capacity : Nat])  BY DEF TypeOK, FsmOK
    <2> QED BY <1>3, <1>4, <2>1, PushFacts
  <1>6. \A i \in 1 .. Len(buffers') : i \in 1 .. Len(buffers) \/ i = Len(buffers) + 1  BY <1>5
  <1>7. BuffersWhole'  BY <1>4, <1>5, <1>6 DEF FillInv, BuffersWhole
  <1>8. UNCHANGED <<Written, Transferring, Ahead, Active>>
    BY <1>3 DEF Written, Transferring, Ahead, Active
  <1>9. CurrentWhole' /\ PendingFits'  BY <1>3, <1>8 DEF FillInv, CurrentWhole, PendingFits
  <1> QED BY <1>7, <1>9 DEF FillInv

LEMMA NextBufferFill ==
  ASSUME TypeOK, FillInv, FlushBuffer \/ TakeBuffer
  PROVE  FillInv'
  <1>1. buffers # <<>> /\ buffers' = Tail(buffers) /\ ~Active /\ ~Transferring /\ UNCHANGED pending
    BY DEF FlushBuffer, TakeBuffer, Active, Transferring
  <1>2. ~Transferring' /\ Written' = 0 /\ (Active' => buffer' = Head(buffers))
    BY DEF FlushBuffer, TakeBuffer, Active, Transferring, Written
  <1>3. /\ Len(buffers) \in Nat \ {0} /\ Len(buffers') = Len(buffers) - 1 /\ Head(buffers) = buffers[1]
        /\ (\A i \in 1 .. Len(buffers) - 1 : buffers'[i] = buffers[i + 1])
    <2>1. buffers \in Seq([id : BufferIds, capacity : Nat])  BY DEF TypeOK, FsmOK
    <2> QED BY <1>1, <2>1, PopFacts
  <1>4. \A i \in 1 .. Len(buffers') : i + 1 \in 1 .. Len(buffers) /\ buffers'[i] = buffers[i + 1]
    BY <1>3
  <1>5. 1 \in 1 .. Len(buffers)  BY <1>3
  <1>6. BuffersWhole' /\ PendingFits'  BY <1>1, <1>4 DEF FillInv, BuffersWhole, PendingFits
  <1>7. InTransfers(Head(buffers).capacity)  BY <1>3, <1>5 DEF FillInv, BuffersWhole
  <1>8. CurrentWhole'  BY <1>2, <1>7, NoTransfers DEF CurrentWhole
  <1> QED BY <1>6, <1>8 DEF FillInv

\* The current buffer is given up.
LEMMA PushFill ==
  ASSUME TypeOK, FillInv, NEW e \in PendingNotify, pending' = Append(pending, e), Fits(e),
         UNCHANGED buffers, CurrentWhole'
  PROVE  FillInv'
  <1>1. /\ Len(pending) \in Nat /\ Len(pending') = Len(pending) + 1
        /\ (\A k \in 1 .. Len(pending) : pending'[k] = pending[k]) /\ pending'[Len(pending) + 1] = e
    BY PushedFacts
  <1>2. \A k \in 1 .. Len(pending') : k \in 1 .. Len(pending) \/ k = Len(pending) + 1  BY <1>1
  <1>3. PendingFits'  BY <1>1, <1>2 DEF FillInv, PendingFits
  <1>4. BuffersWhole'  BY DEF FillInv, BuffersWhole
  <1> QED BY <1>3, <1>4 DEF FillInv

LEMMA RequestFill ==
  ASSUME TypeOK, CompletionInv, FillInv, Request
  PROVE  FillInv'
  <1>1. PICK h : h = Head(Waiting)  OBVIOUS
  <1>2. /\ ~Transferring /\ Transferring' /\ Active /\ Written \in Nat /\ Written' = Written + h /\ Ahead' = h
        /\ UNCHANGED <<pending, buffer>>
    <2>1. Written \in Nat  BY DEF Written, TypeOK, FsmOK
    <2> QED BY <1>1, <2>1, RequestViews
  <1>3. UNCHANGED buffers  BY DEF Request
  <1>4. CurrentWhole'
    <2>1. InTransfers(Written) /\ InTransfers(buffer.capacity)  BY <1>2 DEF FillInv, CurrentWhole
    <2>2. PICK w \in Nat : w = Written  BY <1>2
    <2>3. InTransfers(w) /\ Written' = w + Ahead' /\ InTransfers(buffer'.capacity)
      BY <1>2, <2>1, <2>2
    <2> QED BY <1>2, <2>3 DEF CurrentWhole
  <1>5. BuffersWhole' /\ PendingFits'  BY <1>2, <1>3 DEF FillInv, BuffersWhole, PendingFits
  <1> QED BY <1>4, <1>5 DEF FillInv

LEMMA EmptyFill ==
  ASSUME TypeOK, LengthHeld, CompletionInv, BufferFits, FillInv, EndEmptyStream
  PROVE  FillInv'
  <1>1. /\ PushPending(TRUE) /\ UNCHANGED <<buffer, buffers, bytes_written>>
        /\ output_state = "REQUEST" /\ (output_state' = "REQUEST" \/ output_state' = "WAIT_FOR_BUFFER")
    BY DEF EndEmptyStream, fsmVars
  <1>2. PICK e \in PendingNotify :
          /\ pending' = Append(pending, e)
          /\ e.id = buffer.id /\ e.size = bytes_written /\ (e.last <=> TRUE) /\ e.capacity = buffer.capacity
    BY <1>1, PushFactsPending
  <1>3. bytes_written + TRANSFER <= buffer.capacity  BY <1>1 DEF BufferFits
  <1>4. bytes_written \in Nat /\ buffer.capacity \in Nat /\ TRANSFER \in Nat
    BY WriterAssumption DEF TypeOK, FsmOK
  <1>5. Fits(e)
    <2>1. bytes_written <= buffer.capacity  BY <1>3, <1>4
    <2> QED BY <1>2, <2>1 DEF Fits
  <1>6. /\ ~Transferring /\ ~Transferring' /\ Active
        /\ Written = bytes_written /\ (Written' = Written \/ Written' = 0)
    BY <1>1 DEF Transferring, Active, Written
  <1>7. CurrentWhole'  BY <1>1, <1>6, NoTransfers DEF FillInv, CurrentWhole
  <1> QED BY <1>1, <1>2, <1>5, <1>7, PushFill

\* A transfer that does not end its stream is full.
LEMMA AheadFull ==
  ASSUME TypeOK, LengthHeld, DataInv, TransferBeat, CurrentTransferCompleted, ~Head(data_fifo).last
  PROVE  Ahead = TRANSFER
  <1>1. PICK u, P, p, L, X, G : Parts(u, P, p, L, X, G)  BY DEF DataInv
  <1>2. Transferring /\ data_fifo # <<>> /\ beats_written + 1 = NumBeats(Ahead)  BY TransferViews
  <1>3. Head(data_fifo) = u[L[0]]  BY <1>1, <1>2, LastBeat
  <1>4. AheadPart(u, p, L[0])  BY <1>1 DEF Parts
  <1> QED BY <1>2, <1>3, <1>4 DEF AheadPart

LEMMA TransferFill ==
  ASSUME TypeOK, LengthHeld, BufferFits, DataInv, FillInv, TransferBeat
  PROVE  FillInv'
  <1>1. PICK b : b = Head(data_fifo)  OBVIOUS
  <1>2. /\ output_state = "TRANSFER" /\ Transferring /\ Active /\ Written = bytes_written /\ data_fifo # <<>>
        /\ UNCHANGED <<buffer, buffers, bytes_written>>
    BY DEF TransferBeat, Transferring, Active, Written
  <1>3. PICK w \in Nat : InTransfers(w) /\ Written = w + Ahead  BY <1>2 DEF FillInv, CurrentWhole
  <1>4. Ahead \in Nat /\ Written \in Nat /\ buffer.capacity \in Nat /\ InTransfers(buffer.capacity)
        /\ Written <= buffer.capacity
    <2>1. InTransfers(buffer.capacity)  BY <1>2 DEF FillInv, CurrentWhole
    <2>2. Written <= buffer.capacity  BY <1>2 DEF BufferFits
    <2>3. buffer.capacity \in Nat  BY DEF TypeOK, FsmOK
    <2> QED BY <2>1, <2>2, <2>3, ViewTypes
  <1>5. CASE ~CurrentTransferCompleted
    <2>1. /\ Transferring' /\ Written' = Written /\ Ahead' = Ahead /\ UNCHANGED pending
      BY <1>5, TransferViews
    <2>2. UNCHANGED <<Written, Transferring, Ahead>>  BY <1>2, <2>1
    <2> QED BY <1>2, <2>1, <2>2, QuietFill
  <1>6. ASSUME CurrentTransferCompleted, ~b.last
        PROVE  InTransfers(Written)
    <2>1. Ahead = TRANSFER  BY <1>1, <1>6, AheadFull
    <2> QED BY <1>3, <2>1, OneMoreTransfer
  <1>7. CASE CurrentTransferCompleted /\ ~(b.last \/ BufferFull)
    <2>1. ~Transferring' /\ Written' = Written /\ UNCHANGED pending  BY <1>1, <1>7, TransferViews
    <2>2. InTransfers(Written)  BY <1>6, <1>7
    <2>3. CurrentWhole'  BY <1>2, <1>4, <2>1, <2>2 DEF CurrentWhole
    <2>4. BuffersWhole' /\ PendingFits'  BY <1>2, <2>1 DEF FillInv, BuffersWhole, PendingFits
    <2> QED BY <2>3, <2>4 DEF FillInv
  <1>8. CASE CurrentTransferCompleted /\ (b.last \/ BufferFull)
    <2>1. ~Transferring' /\ Written' = 0 /\ ~Active'
      <3>1. output_state' = "WAIT_FOR_BUFFER"  BY <1>1, <1>8 DEF TransferBeat, EndTransfer
      <3> QED BY <3>1 DEF Transferring, Written, Active
    <2>2. b.last \in BOOLEAN
      <3>1. b \in Beat  BY <1>1, <1>2, PopFacts DEF TypeOK, InputOK
      <3> QED BY <3>1 DEF Beat
    <2>3. PushPending(b.last)  BY <1>1, <1>8 DEF TransferBeat, EndTransfer
    <2>4. PICK e \in PendingNotify :
            /\ pending' = Append(pending, e)
            /\ e.id = buffer.id /\ e.size = bytes_written /\ (e.last <=> b.last) /\ e.capacity = buffer.capacity
      BY <2>2, <2>3, PushFactsPending
    <2>5. ASSUME ~b.last
          PROVE  Written = buffer.capacity
      <3>1. InTransfers(Written)  BY <1>6, <1>8, <2>5
      <3>2. buffer.capacity < Written + TRANSFER  BY <1>2, <1>8, <2>5 DEF BufferFull
      <3> QED BY <1>4, <3>1, <3>2, FullTransfers
    <2>6. Fits(e)  BY <1>2, <1>4, <2>4, <2>5 DEF Fits
    <2>7. CurrentWhole'  BY <2>1, NoTransfers DEF CurrentWhole
    <2> QED BY <1>2, <2>4, <2>6, <2>7, PushFill
  <1> QED BY <1>5, <1>7, <1>8

LEMMA NotifyFill ==
  ASSUME TypeOK, LengthHeld, FillInv, Notify
  PROVE  FillInv'
  <1>1. /\ Len(pending) \in Nat \ {0} /\ Len(pending') = Len(pending) - 1
        /\ \A k \in 1 .. Len(pending) - 1 : pending'[k] = pending[k + 1]
    BY NotifyViews
  <1>2. UNCHANGED buffer /\ UNCHANGED <<Written, Transferring, Ahead, Active>>  BY NotifyViews
  <1>3. UNCHANGED buffers  BY DEF Notify
  <1>4. \A k \in 1 .. Len(pending') : k + 1 \in 1 .. Len(pending) /\ pending'[k] = pending[k + 1]
    BY <1>1
  <1>5. BuffersWhole' /\ PendingFits'  BY <1>3, <1>4 DEF FillInv, BuffersWhole, PendingFits
  <1>6. CurrentWhole'  BY <1>2 DEF FillInv, CurrentWhole
  <1> QED BY <1>5, <1>6 DEF FillInv

LEMMA NextFill ==
  ASSUME TypeOK, LengthHeld, CompletionInv, BufferFits, DataInv, FillInv, [Next]_vars
  PROVE  FillInv'
  <1>1. CASE AcceptBeat
    <2>1. PICK b \in Beat : Accept(b)  BY <1>1, AcceptedBeat
    <2>2. UNCHANGED <<Written, Transferring, Ahead>> /\ UNCHANGED <<pending, buffer>>
      BY <2>1, AcceptViews
    <2>3. UNCHANGED <<buffers, output_state>>  BY <2>1 DEF Accept
    <2>4. Active' => Active  BY <2>3 DEF Active
    <2> QED BY <2>2, <2>3, <2>4, QuietFill
  <1>2. CASE Flush \/ FlushDone \/ LeaveReset
    <2>1. UNCHANGED <<pending, buffers>> /\ ~Active' /\ ~Transferring' /\ Written' = 0
      BY <1>2 DEF Flush, FlushDone, LeaveReset, Active, Transferring, Written
    <2>2. CurrentWhole'  BY <2>1, NoTransfers DEF CurrentWhole
    <2>3. BuffersWhole' /\ PendingFits'  BY <2>1 DEF FillInv, BuffersWhole, PendingFits
    <2> QED BY <2>2, <2>3 DEF FillInv
  <1>3. CASE UNCHANGED vars
    <2>1. UNCHANGED <<pending, buffers, buffer, Written, Transferring, Ahead, Active>>
      BY <1>3 DEF vars, fsmVars, Written, Transferring, Ahead, Active
    <2> QED BY <2>1, QuietFill
  <1>4. CASE HostComplete
    <2>1. UNCHANGED <<pending, buffer>> /\ UNCHANGED <<Written, Transferring, Ahead, Active>>
      BY <1>4, CompleteViews
    <2>2. UNCHANGED buffers  BY <1>4 DEF HostComplete
    <2> QED BY <2>1, <2>2, QuietFill
  <1> QED
    BY <1>1, <1>2, <1>3, <1>4, EnqueueFill, NextBufferFill, RequestFill, EmptyFill, TransferFill,
       NotifyFill DEF Next

----
(* The steps of the contract.                                               *)

HeldInv == HasHeld(pending, empty_stream_consumes_buffer)
ContractStep == [Contract!Next]_(Contract!vars)
Flushing == output_state = "FLUSH_BUFFERS"

LEMMA InitHeld == Init => HeldInv
  BY HeldOfNone DEF Init, HeldInv, HasHeld

LEMMA SameHeld ==
  ASSUME HeldInv, UNCHANGED pending, UNCHANGED empty_stream_consumes_buffer
  PROVE  HeldInv' /\ Held' = Held
  <1>1. HeldInv'  BY DEF HeldInv
  <1>2. Held' = Held  BY HeldIs, HeldIsNext
  <1> QED BY <1>1, <1>2

LEMMA PushHeld ==
  ASSUME TypeOK, HeldInv, NEW p \in PendingNotify, pending' = Append(pending, p),
         UNCHANGED empty_stream_consumes_buffer
  PROVE  /\ HeldInv'
         /\ Gives(p, empty_stream_consumes_buffer) => Held' = Append(Held, BufferOf(p))
         /\ ~Gives(p, empty_stream_consumes_buffer) => Held' = Held
  <1>1. PICK q, c, e : q = pending /\ c = empty_stream_consumes_buffer /\ e = pending'  OBVIOUS
  <1>2. q \in Seq(PendingNotify) /\ HasHeld(q, c) /\ e = Append(q, p)
    BY <1>1 DEF TypeOK, NotifyOK, HeldInv
  <1>3. HeldPushed(e, q, p, c)  BY <1>2, HeldOfPush
  <1>4. HasHeld(e, c)  BY <1>3 DEF HeldPushed
  <1>5. /\ Gives(p, c) => HeldOf(e, c) = Append(HeldOf(q, c), BufferOf(p))
        /\ ~Gives(p, c) => HeldOf(e, c) = HeldOf(q, c)
    BY <1>3 DEF HeldPushed
  <1>6. Held = HeldOf(q, c)  BY <1>1, HeldIs
  <1>7. Held' = HeldOf(e, c)  BY <1>1, HeldIsNext
  <1>8. HeldInv'  BY <1>1, <1>4 DEF HeldInv
  <1> QED BY <1>1, <1>5, <1>6, <1>7, <1>8

LEMMA PopHeld ==
  ASSUME TypeOK, HeldInv, pending # <<>>, pending' = Tail(pending),
         UNCHANGED empty_stream_consumes_buffer, NEW p, p = pending[1]
  PROVE  /\ HeldInv'
         /\ Gives(p, empty_stream_consumes_buffer) =>
              Held # <<>> /\ Head(Held) = BufferOf(p) /\ Held' = Tail(Held)
         /\ ~Gives(p, empty_stream_consumes_buffer) => Held' = Held
  <1>1. PICK q, c, e : q = pending /\ c = empty_stream_consumes_buffer /\ e = pending'  OBVIOUS
  <1>2. q \in Seq(PendingNotify) /\ HasHeld(q, c) /\ e = Tail(q) /\ q # <<>> /\ p = q[1]
    BY <1>1 DEF TypeOK, NotifyOK, HeldInv
  <1>3. HeldPopped(e, q, c)  BY <1>2, HeldOfPop
  <1>4. HasHeld(e, c)  BY <1>3 DEF HeldPopped
  <1>5. /\ Gives(p, c) => /\ HeldOf(q, c) # <<>> /\ Head(HeldOf(q, c)) = BufferOf(p)
                          /\ HeldOf(e, c) = Tail(HeldOf(q, c))
        /\ ~Gives(p, c) => HeldOf(e, c) = HeldOf(q, c)
    BY <1>2, <1>3 DEF HeldPopped
  <1>6. Held = HeldOf(q, c)  BY <1>1, HeldIs
  <1>7. Held' = HeldOf(e, c)  BY <1>1, HeldIsNext
  <1>8. HeldInv'  BY <1>1, <1>4 DEF HeldInv
  <1> QED BY <1>1, <1>5, <1>6, <1>7, <1>8

LEMMA WiderSeq ==
  ASSUME NEW S, NEW T, S \subseteq T, NEW q \in Seq(S)
  PROVE  q \in Seq(T)
  OBVIOUS

LEMMA ContractTypes ==
  ASSUME TypeOK, HeldInv
  PROVE  Held \in Seq(Buf) /\ Current \in Seq(Buf) /\ buffers \in Seq(Buf) /\ buffer \in Buf
  <1>1. Held \in Seq(Buf)
    <2>1. PICK q, c : q = pending /\ c = empty_stream_consumes_buffer  OBVIOUS
    <2>2. q \in Seq(PendingNotify) /\ HasHeld(q, c)  BY <2>1 DEF TypeOK, NotifyOK, HeldInv
    <2>3. HeldOf(q, c) \in Seq(Buf)  BY <2>2, HeldOfType
    <2> QED BY <2>1, <2>3, HeldIs
  <1>2. buffer \in Buf  BY DEF TypeOK, FsmOK, Buf
  <1>3. Current \in Seq(Buf)
    <2>1. <<buffer>> \in Seq(Buf) /\ <<>> \in Seq(Buf)  BY <1>2
    <2> QED BY <2>1 DEF Current
  <1>4. buffers \in Seq(Buf)
    <2>1. [id : BufferIds, capacity : Nat] \subseteq Buf  BY WriterAssumption DEF Buf
    <2>2. buffers \in Seq([id : BufferIds, capacity : Nat])  BY DEF TypeOK, FsmOK
    <2> QED BY <2>1, <2>2, WiderSeq
  <1> QED BY <1>1, <1>2, <1>3, <1>4

LEMMA SameFlushing ==
  ASSUME Flushing' <=> Flushing
  PROVE  (output_state' = "FLUSH_BUFFERS") = (output_state = "FLUSH_BUFFERS")
  BY DEF Flushing

LEMMA Stutter ==
  ASSUME UNCHANGED undelivered, UNCHANGED empty_stream_consumes_buffer, Enqueued' = Enqueued,
         Held' = Held, Flushing' <=> Flushing
  PROVE  ContractStep
  BY SameFlushing DEF ContractStep, Contract!vars

LEMMA InitContract == Init => Contract!Init
  <1> SUFFICES ASSUME Init PROVE Contract!Init  OBVIOUS
  <1>1. /\ pending = <<>> /\ buffers = <<>> /\ undelivered = <<>> /\ output_state = "RESET"
        /\ empty_stream_consumes_buffer \in BOOLEAN
    BY DEF Init
  <1>2. Held = <<>>  BY <1>1, HeldIs, HeldOfNone
  <1>3. Current = <<>>  BY <1>1 DEF Current
  <1>4. <<>> \o <<>> \o <<>> = <<>>  OBVIOUS
  <1>5. Enqueued = <<>>  BY <1>1, <1>2, <1>3, <1>4 DEF Enqueued
  <1>6. Len(Held) = 0 /\ (output_state = "FLUSH_BUFFERS") = FALSE  BY <1>1, <1>2
  <1> QED BY <1>1, <1>5, <1>6 DEF Contract!Init

\* Steps that the contract does not see.
LEMMA UnseenContract ==
  ASSUME HeldInv, UNCHANGED pending, UNCHANGED empty_stream_consumes_buffer, UNCHANGED undelivered,
         UNCHANGED buffers, Current' = Current, Flushing' <=> Flushing
  PROVE  ContractStep /\ HeldInv'
  <1>1. HeldInv' /\ Held' = Held  BY SameHeld
  <1>2. Enqueued' = Enqueued  BY <1>1 DEF Enqueued
  <1> QED BY <1>1, <1>2, Stutter

LEMMA AcceptContract ==
  ASSUME TypeOK, HeldInv, AcceptBeat
  PROVE  ContractStep /\ HeldInv'
  <1>1. PICK k \in 0 .. BEAT, l \in BOOLEAN : Accept([id |-> fed, keep |-> k, last |-> l])
    BY DEF AcceptBeat
  <1>2. PICK b : b = [id |-> fed, keep |-> k, last |-> l]  OBVIOUS
  <1>3. /\ fed < MAX_BEATS /\ undelivered' = Append(undelivered, b)
        /\ UNCHANGED <<pending, output_state, buffer, buffers, empty_stream_consumes_buffer>>
    BY <1>1, <1>2 DEF Accept, fsmVars, configVars
  <1>4. HeldInv' /\ Held' = Held  BY <1>3, SameHeld
  <1>5. Enqueued' = Enqueued  BY <1>3, <1>4 DEF Enqueued, Current
  <1>6. b \in Contract!Beat
    <2>1. fed \in 0 .. MAX_BEATS  BY <1>3, WriterAssumption DEF TypeOK, InputOK
    <2> QED BY <1>2, <2>1 DEF Contract!Beat
  <1>7. Contract!Input  BY <1>3, <1>4, <1>5, <1>6 DEF Contract!Input
  <1> QED BY <1>4, <1>7 DEF ContractStep, Contract!Next

LEMMA EnqueueContract ==
  ASSUME TypeOK, HeldInv, Enqueue
  PROVE  ContractStep /\ HeldInv'
  <1>1. PICK id \in BufferIds, size \in BufferSizes : EnqueueBuffer(id, size)  BY DEF Enqueue
  <1>2. PICK x : x = [id |-> id, capacity |-> size * TRANSFER]  OBVIOUS
  <1>3. /\ buffers' = Append(buffers, x)
        /\ UNCHANGED <<pending, output_state, buffer, undelivered, empty_stream_consumes_buffer>>
    BY <1>1, <1>2 DEF EnqueueBuffer, fsmVars, configVars
  <1>4. x \in Buf
    <2>1. size * TRANSFER \in Nat /\ id \in Nat  BY WriterAssumption
    <2> QED BY <1>2, <2>1 DEF Buf
  <1>5. HeldInv' /\ Held' = Held  BY <1>3, SameHeld
  <1>6. PICK H, C, B : H = Held /\ C = Current /\ B = buffers  OBVIOUS
  <1>7. H \o C \o Append(B, x) = Append(H \o C \o B, x)  BY <1>4, <1>6, ContractTypes, JoinEnqueue
  <1>8. Enqueued' = Append(Enqueued, x)
    <2>1. Current' = C  BY <1>3, <1>6 DEF Current
    <2> QED BY <1>3, <1>5, <1>6, <1>7, <2>1 DEF Enqueued
  <1>9. Contract!Enqueue  BY <1>2, <1>3, <1>5, <1>8 DEF Contract!Enqueue
  <1> QED BY <1>5, <1>9 DEF ContractStep, Contract!Next

\* The first buffer goes that follows all held ones.
LEMMA DropContract ==
  ASSUME NEW H \in Seq(Buf), NEW x \in Buf, NEW B \in Seq(Buf), Held = H,
         Enqueued = H \o <<x>> \o B, Enqueued' = H \o <<>> \o B
  PROVE  Contract!DropNext
  <1>1. PICK E, n, i : E = H \o <<x>> \o B /\ n = Len(H) /\ i = n + 1  OBVIOUS
  <1>2. i \in DOMAIN E /\ H \o <<>> \o B = Removed(E, i)  BY <1>1, JoinDrop
  <1>3. E \in Seq(Buf) /\ n \in Nat  BY <1>1
  <1>4. n < Len(E) /\ i - 1 = n /\ i + 1 = n + 2  BY <1>1, <1>2, <1>3
  <1>5. Removed(E, i) = SubSeq(E, 1, n) \o SubSeq(E, n + 2, Len(E))  BY <1>4 DEF Removed
  <1>6. Enqueued = E /\ Len(Held) = n  BY <1>1
  <1>7. Enqueued' = SubSeq(E, 1, n) \o SubSeq(E, n + 2, Len(E))  BY <1>2, <1>5
  <1> QED BY <1>4, <1>6, <1>7 DEF Contract!DropNext

LEMMA FlushContract ==
  ASSUME ~FLUSH_MIDSTREAM, TypeOK, HeldInv, Flush
  PROVE  ContractStep /\ HeldInv'
  <1>1. /\ output_state # "TRANSFER" /\ output_state' = "FLUSH_BUFFERS"
        /\ UNCHANGED <<pending, buffers, undelivered, empty_stream_consumes_buffer>>
    BY DEF Flush, Idle, configVars
  <1>2. HeldInv' /\ Held' = Held  BY <1>1, SameHeld
  <1>3. Current' = <<>>  BY <1>1 DEF Current
  <1>4. CASE output_state = "REQUEST"
    <2>1. Current = <<buffer>>  BY <1>4 DEF Current
    <2>2. PICK H, B, x : H = Held /\ B = buffers /\ x = buffer  OBVIOUS
    <2>3. H \in Seq(Buf) /\ B \in Seq(Buf) /\ x \in Buf  BY <2>2, ContractTypes
    <2>4. Enqueued = H \o <<x>> \o B  BY <2>1, <2>2 DEF Enqueued
    <2>5. Enqueued' = H \o <<>> \o B  BY <1>1, <1>2, <1>3, <2>2 DEF Enqueued
    <2>6. Contract!DropNext  BY <2>2, <2>3, <2>4, <2>5, DropContract
    <2>7. Contract!Flush  BY <1>1, <1>2, <2>6 DEF Contract!Flush
    <2> QED BY <1>2, <2>7 DEF ContractStep, Contract!Next
  <1>5. CASE output_state # "REQUEST"
    <2>1. Current = <<>>  BY <1>1, <1>5 DEF Current
    <2>2. Enqueued' = Enqueued  BY <1>1, <1>2, <1>3, <2>1 DEF Enqueued
    <2>3. Contract!Flush  BY <1>1, <1>2, <2>2 DEF Contract!Flush
    <2> QED BY <1>2, <2>3 DEF ContractStep, Contract!Next
  <1> QED BY <1>4, <1>5

LEMMA FlushBufferContract ==
  ASSUME TypeOK, HeldInv, FlushBuffer
  PROVE  ContractStep /\ HeldInv'
  <1>1. /\ buffers # <<>> /\ buffers' = Tail(buffers) /\ Current = <<>> /\ Current' = <<>>
        /\ output_state = "FLUSH_BUFFERS"
        /\ UNCHANGED <<pending, undelivered, empty_stream_consumes_buffer, output_state>>
    BY DEF FlushBuffer, configVars, Current
  <1>2. HeldInv' /\ Held' = Held  BY <1>1, SameHeld
  <1>3. PICK H, B : H = Held /\ B = buffers  OBVIOUS
  <1>4. H \in Seq(Buf) /\ B \in Seq(Buf) /\ B # <<>>  BY <1>1, <1>3, ContractTypes
  <1>5. PICK x, R : x = Head(B) /\ R = Tail(B)  OBVIOUS
  <1>6. x \in Buf /\ R \in Seq(Buf)  BY <1>4, <1>5
  <1>7. H \o <<x>> \o R = H \o <<>> \o B  BY <1>4, <1>5, JoinTake
  <1>8. Enqueued = H \o <<x>> \o R  BY <1>1, <1>3, <1>7 DEF Enqueued
  <1>9. Enqueued' = H \o <<>> \o R  BY <1>1, <1>2, <1>3, <1>5 DEF Enqueued
  <1>10. Contract!DropNext  BY <1>3, <1>4, <1>6, <1>8, <1>9, DropContract
  <1>11. Contract!Drop  BY <1>1, <1>2, <1>10 DEF Contract!Drop
  <1> QED BY <1>2, <1>11 DEF ContractStep, Contract!Next

LEMMA FlushDoneContract ==
  ASSUME TypeOK, HeldInv, FlushDone
  PROVE  ContractStep /\ HeldInv'
  <1>1. /\ buffers = <<>> /\ buffers' = <<>> /\ Current = <<>> /\ Current' = <<>>
        /\ output_state = "FLUSH_BUFFERS" /\ output_state' # "FLUSH_BUFFERS"
        /\ UNCHANGED <<pending, undelivered, empty_stream_consumes_buffer>>
    BY DEF FlushDone, configVars, Current
  <1>2. HeldInv' /\ Held' = Held  BY <1>1, SameHeld
  <1>3. PICK H : H = Held  OBVIOUS
  <1>4. H \in Seq(Buf)  BY <1>3, ContractTypes
  <1>5. H \o <<>> \o <<>> = H  BY <1>4
  <1>6. Enqueued = H  BY <1>1, <1>3, <1>5 DEF Enqueued
  <1>7. Enqueued' = H  BY <1>1, <1>2, <1>3, <1>5 DEF Enqueued
  <1>8. Contract!FlushEnd  BY <1>1, <1>2, <1>3, <1>6, <1>7 DEF Contract!FlushEnd
  <1> QED BY <1>2, <1>8 DEF ContractStep, Contract!Next

LEMMA TakeContract ==
  ASSUME TypeOK, HeldInv, TakeBuffer
  PROVE  ContractStep /\ HeldInv'
  <1>1. /\ buffers # <<>> /\ buffers' = Tail(buffers) /\ Current = <<>> /\ Current' = <<Head(buffers)>>
        /\ ~Flushing /\ ~Flushing'
        /\ UNCHANGED <<pending, undelivered, empty_stream_consumes_buffer>>
    BY DEF TakeBuffer, configVars, Current, Flushing
  <1>2. HeldInv' /\ Held' = Held  BY <1>1, SameHeld
  <1>3. PICK H, B : H = Held /\ B = buffers  OBVIOUS
  <1>4. H \o <<Head(B)>> \o Tail(B) = H \o <<>> \o B  BY <1>1, <1>3, ContractTypes, JoinTake
  <1>5. Enqueued' = Enqueued  BY <1>1, <1>2, <1>3, <1>4 DEF Enqueued
  <1> QED BY <1>1, <1>2, <1>5, Stutter

LEMMA LongerJoin ==
  ASSUME NEW H \in Seq(Buf), NEW x \in Buf, NEW B \in Seq(Buf)
  PROVE  Len(Append(H, x)) = Len(H) + 1 /\ Len(H) < Len(H \o <<x>> \o B)
  <1>1. Len(H \o <<x>> \o B) = Len(H) + 1 + Len(B)  OBVIOUS
  <1>2. Len(H) \in Nat /\ Len(B) \in Nat  OBVIOUS
  <1> QED BY <1>1, <1>2

\* The current buffer joins the held ones.
LEMMA GiveUpContract ==
  ASSUME TypeOK, HeldInv, NEW p \in PendingNotify, pending' = Append(pending, p),
         p.id = buffer.id, p.capacity = buffer.capacity,
         Gives(p, empty_stream_consumes_buffer), Current = <<buffer>>, Current' = <<>>,
         ~Flushing, ~Flushing',
         UNCHANGED buffers, UNCHANGED undelivered, UNCHANGED empty_stream_consumes_buffer
  PROVE  ContractStep /\ HeldInv'
  <1>1. HeldInv' /\ Held' = Append(Held, BufferOf(p))  BY PushHeld
  <1>2. BufferOf(p) = buffer
    <2>1. buffer = [id |-> buffer.id, capacity |-> buffer.capacity]  BY DEF TypeOK, FsmOK
    <2> QED BY <2>1 DEF BufferOf
  <1>3. PICK H, B, x : H = Held /\ B = buffers /\ x = buffer  OBVIOUS
  <1>4. Append(H, x) \o <<>> \o B = H \o <<x>> \o B  BY <1>3, ContractTypes, JoinPush
  <1>5. Enqueued' = Enqueued  BY <1>1, <1>2, <1>3, <1>4 DEF Enqueued
  <1>6. H \in Seq(Buf) /\ B \in Seq(Buf) /\ x \in Buf  BY <1>3, ContractTypes
  <1>7. Len(Append(H, x)) = Len(H) + 1 /\ Len(H) < Len(H \o <<x>> \o B)  BY <1>6, LongerJoin
  <1>8. Enqueued = H \o <<x>> \o B  BY <1>3 DEF Enqueued
  <1>9. Len(Held') = Len(Held) + 1 /\ Len(Held) < Len(Enqueued)  BY <1>1, <1>2, <1>3, <1>7, <1>8
  <1>10. Contract!Fill  BY <1>5, <1>9 DEF Contract!Fill, Flushing
  <1> QED BY <1>1, <1>10 DEF ContractStep, Contract!Next

LEMMA EmptyContract ==
  ASSUME TypeOK, HeldInv, EndEmptyStream
  PROVE  ContractStep /\ HeldInv'
  <1>1. /\ output_state = "REQUEST" /\ PushPending(TRUE)
        /\ output_state' = IF GivesUpBuffer THEN "WAIT_FOR_BUFFER" ELSE "REQUEST"
        /\ ~Flushing /\ ~Flushing'
        /\ UNCHANGED <<buffer, buffers, undelivered, empty_stream_consumes_buffer>>
    BY DEF EndEmptyStream, fsmVars, configVars, Flushing
  <1>2. PICK p \in PendingNotify :
          /\ pending' = Append(pending, p) /\ p.id = buffer.id /\ p.size = bytes_written
          /\ p.capacity = buffer.capacity
    BY <1>1, PushFactsPending
  <1>3. Gives(p, empty_stream_consumes_buffer) <=> GivesUpBuffer  BY <1>2 DEF Gives, GivesUpBuffer
  <1>4. Current = <<buffer>>  BY <1>1 DEF Current
  <1>5. CASE GivesUpBuffer
    <2>1. Current' = <<>>  BY <1>1, <1>5 DEF Current
    <2> QED BY <1>1, <1>2, <1>3, <1>4, <1>5, <2>1, GiveUpContract
  <1>6. CASE ~GivesUpBuffer
    <2>1. Current' = Current  BY <1>1, <1>4, <1>6 DEF Current
    <2>2. HeldInv' /\ Held' = Held  BY <1>1, <1>2, <1>3, <1>6, PushHeld
    <2>3. Enqueued' = Enqueued  BY <1>1, <2>1, <2>2 DEF Enqueued
    <2> QED BY <1>1, <2>2, <2>3, Stutter
  <1> QED BY <1>5, <1>6

LEMMA TransferContract ==
  ASSUME TypeOK, LengthHeld, DataInv, HeldInv, TransferBeat
  PROVE  ContractStep /\ HeldInv'
  <1>1. PICK b : b = Head(data_fifo)  OBVIOUS
  <1>2. /\ output_state = "TRANSFER" /\ Transferring /\ Active /\ Written = bytes_written /\ data_fifo # <<>>
        /\ UNCHANGED <<buffer, buffers, undelivered, empty_stream_consumes_buffer>>
    BY DEF TransferBeat, Transferring, Active, Written, configVars
  <1>3. Current = <<buffer>>  BY <1>2 DEF Current
  <1>4. CASE ~(CurrentTransferCompleted /\ (b.last \/ BufferFull))
    <2>1. (output_state' = "TRANSFER" \/ output_state' = "REQUEST") /\ UNCHANGED pending
      BY <1>1, <1>2, <1>4 DEF TransferBeat, EndTransfer
    <2>2. Current' = Current  BY <1>2, <1>3, <2>1 DEF Current
    <2> QED BY <1>2, <2>1, <2>2, UnseenContract DEF Flushing
  <1>5. CASE CurrentTransferCompleted /\ (b.last \/ BufferFull)
    <2>1. output_state' = "WAIT_FOR_BUFFER" /\ PushPending(b.last)
      BY <1>1, <1>5 DEF TransferBeat, EndTransfer
    <2>2. b.last \in BOOLEAN
      <3>1. b \in Beat  BY <1>1, <1>2, PopFacts DEF TypeOK, InputOK
      <3> QED BY <3>1 DEF Beat
    <2>3. PICK p \in PendingNotify :
            /\ pending' = Append(pending, p) /\ p.id = buffer.id /\ p.size = bytes_written
            /\ p.capacity = buffer.capacity
      BY <2>1, <2>2, PushFactsPending
    <2>4. Written # 0
      <3>1. PICK u, P, q, L, X, G : Parts(u, P, q, L, X, G)  BY DEF DataInv
      <3>2. AheadPart(u, q, L[0])  BY <3>1 DEF Parts
      <3> QED BY <1>2, <3>2 DEF AheadPart
    <2>5. Gives(p, empty_stream_consumes_buffer)  BY <1>2, <2>3, <2>4 DEF Gives
    <2>6. Current' = <<>> /\ ~Flushing /\ ~Flushing'  BY <1>2, <2>1 DEF Current, Flushing
    <2> QED BY <1>2, <1>3, <2>3, <2>5, <2>6, GiveUpContract
  <1> QED BY <1>4, <1>5

NotifiedPiece(u, n, p) ==
  /\ Suppressed(u) /\ u \in Seq(Beat)
  /\ Piece(u, 0, n, p.size)
  /\ p.last <=> u[n].last

LEMMA FirstPiece ==
  ASSUME TypeOK, LengthHeld, CompletionInv, DataInv, Notify
  PROVE  NotifiedPiece(undelivered, Blocks(pending[1].size), pending[1])
  <1>1. PICK u, P, p, L, X, G : Parts(u, P, p, L, X, G)  BY DEF DataInv
  <1>2. PICK n : n = Blocks(pending[1].size)  OBVIOUS
  <1>3. P[1] = n  BY <1>1, <1>2, NotifyBounds
  <1>4. u = undelivered /\ P[0] = 0 /\ u \in Seq(Beat) /\ Suppressed(u)  BY <1>1, PartsTypes
  <1>5. 1 \in 1 .. Len(pending)
    <2>1. Len(pending) \in Nat \ {0}  BY NotifyViews
    <2> QED BY <2>1
  <1>6. Piece(u, 0, n, pending[1].size)
    <2>1. Len(PendingSizes) = Len(pending)  BY ViewTypes
    <2>2. Piece(u, P[1 - 1], P[1], PendingSizes[1])  BY <1>1, <1>5, <2>1 DEF Parts, PendingPart, Cut
    <2>3. PendingSizes[1] = pending[1].size  BY <1>5, SizeOf
    <2> QED BY <1>3, <1>4, <2>2, <2>3
  <1>7. pending[1].last <=> u[n].last  BY <1>1, <1>3, <1>5 DEF Parts, PendingPart
  <1> QED BY <1>2, <1>4, <1>6, <1>7 DEF NotifiedPiece

LEMMA NotifyContract ==
  ASSUME TypeOK, LengthHeld, CompletionInv, DataInv, FillInv, HeldInv, Notify
  PROVE  ContractStep /\ HeldInv'
  <1>1. PICK u, p, c, z, H, C, B :
          /\ u = undelivered /\ p = pending[1] /\ c = empty_stream_consumes_buffer /\ z = p.size
          /\ H = Held /\ C = Current /\ B = buffers
    OBVIOUS
  <1>2. PICK n : n = Blocks(z)  OBVIOUS
  <1>3. z \in Nat /\ undelivered' = SubSeq(u, n + 1, Len(u)) /\ 1 \in 1 .. Len(pending)
    <2>1. Len(pending) \in Nat \ {0} /\ pending[1].size \in Nat  BY NotifyViews
    <2>2. undelivered' = Drop(undelivered, Blocks(pending[1].size))  BY NotifyViews
    <2> QED BY <1>1, <1>2, <2>1, <2>2 DEF Drop
  <1>4. /\ pending # <<>> /\ pending' = Tail(pending)
        /\ UNCHANGED <<output_state, buffer, buffers, empty_stream_consumes_buffer>>
    BY DEF Notify, NotifyValid, fsmVars, configVars
  <1>5. Current' = C  BY <1>1, <1>4 DEF Current
  <1>6. /\ HeldInv'
        /\ Gives(p, c) => H # <<>> /\ Head(H) = BufferOf(p) /\ Held' = Tail(H)
        /\ ~Gives(p, c) => Held' = H
    BY <1>1, <1>4, PopHeld
  <1>7. H \in Seq(Buf) /\ C \in Seq(Buf) /\ B \in Seq(Buf)  BY <1>1, ContractTypes
  <1>7a. H # <<>> => Len(H) > 0 /\ Len(Tail(H)) = Len(H) - 1  BY <1>7
  <1>7b. ASSUME Gives(p, c)
         PROVE  Len(Held) > 0 /\ Len(Held') = Len(Held) - 1
    BY <1>1, <1>6, <1>7a, <1>7b
  <1>8. PICK E : E = H \o C \o B  OBVIOUS
  <1>9. Enqueued = E  BY <1>1, <1>8 DEF Enqueued
  <1>10. /\ Gives(p, c) => E # <<>> /\ Head(E) = BufferOf(p) /\ Enqueued' = Tail(E)
         /\ ~Gives(p, c) => Enqueued' = E
    <2>1. Enqueued' = Held' \o C \o B  BY <1>1, <1>4, <1>5 DEF Enqueued
    <2>2. ASSUME H # <<>>
          PROVE  E # <<>> /\ Head(E) = Head(H) /\ Tail(E) = Tail(H) \o C \o B
      <3>1. /\ H \o C \o B # <<>> /\ Head(H \o C \o B) = Head(H)
            /\ Tail(H \o C \o B) = Tail(H) \o C \o B
        BY <1>7, <2>2, JoinPop
      <3> QED BY <1>8, <3>1
    <2> QED BY <1>6, <1>8, <2>1, <2>2
  <1>11. NotifiedPiece(u, n, p)  BY <1>1, <1>2, FirstPiece
  <1>12. u \in Seq(Beat) /\ Suppressed(u) /\ Piece(u, 0, n, z) /\ (p.last <=> u[n].last) /\ 0 \in Nat
    BY <1>1, <1>11 DEF NotifiedPiece
  <1>13. n \in Nat /\ n \in 1 .. Len(u)  BY <1>3, <1>12, PieceFacts
  <1>14. CASE z = 0
    <2>1. n = 1 /\ u[1].keep = 0 /\ u[1].last
      <3>1. n = 0 + 1 /\ u[n].keep = 0 /\ u[n].last  BY <1>3, <1>12, <1>14, PieceFacts
      <3> QED BY <3>1
    <2>2. u # <<>> /\ Head(u) = u[1] /\ Tail(u) = SubSeq(u, 2, Len(u))  BY <1>12, <1>13
    <2>3. undelivered' = Tail(u)  BY <1>3, <2>1, <2>2
    <2>4. Gives(p, c) <=> c  BY <1>1, <1>14 DEF Gives
    <2>5. ASSUME c
          PROVE  Contract!HandOver
      BY <1>9, <1>10, <1>7b, <2>4, <2>5 DEF Contract!HandOver
    <2>6. ASSUME ~c
          PROVE  Enqueued' = Enqueued /\ Len(Held') = Len(Held)
      BY <1>1, <1>6, <1>9, <1>10, <2>4, <2>6
    <2>7. Contract!NotifyEmpty  BY <1>1, <1>4, <2>1, <2>2, <2>3, <2>5, <2>6 DEF Contract!NotifyEmpty
    <2> QED BY <1>6, <2>7 DEF ContractStep, Contract!Next
  <1>15. CASE z # 0
    <2>1. Gives(p, c)  BY <1>1, <1>15 DEF Gives
    <2>2. u[n].keep # 0
      <3>1. \A i \in 0 + 1 .. n : u[i].keep # 0  BY <1>3, <1>12, <1>15, PieceFacts
      <3>2. n \in 0 + 1 .. n  BY <1>13
      <3> QED BY <3>1, <3>2
    <2>3. \A i \in 1 .. n - 1 : u[i].keep = BEAT /\ ~u[i].last
      <3>1. \A i \in 0 + 1 .. n - 1 : u[i].keep = BEAT  BY <1>3, <1>12, PieceFacts
      <3>2. \A i \in 0 + 1 .. n - 1 : ~u[i].last  BY <1>12 DEF Piece
      <3> QED BY <3>1, <3>2
    <2>4. Contract!Bytes(n) = z
      <3>1. z = BEAT * (n - 0 - 1) + u[n].keep  BY <1>12 DEF Piece
      <3>2. n - 0 - 1 = n - 1  BY <1>13
      <3> QED BY <1>1, <3>1, <3>2 DEF Contract!Bytes
    <2>5. Head(E).capacity = p.capacity  BY <1>10, <2>1 DEF BufferOf
    <2>6. z <= p.capacity /\ (~p.last => z = p.capacity)
      BY <1>1, <1>3 DEF FillInv, PendingFits, Fits
    <2>7. Contract!Bytes(n) <= Head(Enqueued).capacity /\ (u[n].last \/ Contract!Bytes(n) = Head(Enqueued).capacity)
      BY <1>9, <1>12, <2>4, <2>5, <2>6
    <2>8. Contract!HandOver  BY <1>9, <1>10, <1>7b, <2>1 DEF Contract!HandOver
    <2>9. Contract!NotifyBuffer(n)
      BY <1>1, <1>3, <1>4, <2>2, <2>3, <2>7, <2>8 DEF Contract!NotifyBuffer
    <2> QED BY <1>1, <1>6, <1>13, <2>9 DEF ContractStep, Contract!Next
  <1> QED BY <1>14, <1>15

LEMMA NextContract ==
  ASSUME ~FLUSH_MIDSTREAM, TypeOK, LengthHeld, CompletionInv, DataInv, FillInv, HeldInv, [Next]_vars
  PROVE  ContractStep /\ HeldInv'
  <1>1. CASE LeaveReset
    <2>1. /\ UNCHANGED <<pending, buffers, undelivered, empty_stream_consumes_buffer>>
          /\ Current' = Current /\ (Flushing' <=> Flushing)
      BY <1>1 DEF LeaveReset, configVars, Current, Flushing
    <2> QED BY <2>1, UnseenContract
  <1>2. CASE Request
    <2>1. /\ UNCHANGED <<pending, buffers, undelivered, empty_stream_consumes_buffer>>
          /\ Current' = Current /\ (Flushing' <=> Flushing)
      BY <1>2 DEF Request, configVars, Current, Flushing
    <2> QED BY <2>1, UnseenContract
  <1>3. CASE HostComplete
    <2>1. /\ UNCHANGED <<pending, buffers, undelivered, empty_stream_consumes_buffer>>
          /\ Current' = Current /\ (Flushing' <=> Flushing)
      BY <1>3 DEF HostComplete, fsmVars, configVars, Current, Flushing
    <2> QED BY <2>1, UnseenContract
  <1>4. CASE UNCHANGED vars
    <2>1. /\ UNCHANGED <<pending, buffers, undelivered, empty_stream_consumes_buffer>>
          /\ Current' = Current /\ (Flushing' <=> Flushing)
      BY <1>4 DEF vars, fsmVars, configVars, Current, Flushing
    <2> QED BY <2>1, UnseenContract
  <1> QED
    BY <1>1, <1>2, <1>3, <1>4, AcceptContract, EnqueueContract, FlushContract, FlushBufferContract,
       FlushDoneContract, TakeContract, EmptyContract, TransferContract, NotifyContract DEF Next

LEMMA InitFits == Init => LengthsFit /\ BufferFits
  <1>1. PICK q \in Nat : TRANSFER = BEAT * q  BY TransferInBeats
  <1>2. q >= 1  BY <1>1, WriterAssumption
  <1>3. BEAT * (q - 1) >= 0  BY <1>2, WriterAssumption
  <1>4. BEAT <= TRANSFER  BY <1>1, <1>2, <1>3, WriterAssumption
  <1>5. BEAT * 0 = 0  BY WriterAssumption
  <1> QED BY <1>4, <1>5, WriterAssumption DEF Init, LengthsFit, BufferFits

LEMMA SafeFill ==
  ASSUME ~FLUSH_MIDSTREAM
  PROVE  SafeSpec => [](TypeOK /\ LengthHeld /\ CompletionInv /\ DataInv /\ FillInv)
  <1>1. TypeOK /\ LengthHeld /\ CompletionInv /\ BufferFits /\ DataInv /\ FillInv /\ [Next]_vars => FillInv'
    BY NextFill
  <1> QED
    BY <1>1, InitFill, InitFits, NextLengthsFit, NextBufferFits, SafeTypes, SafeData, PTL DEF SafeSpec

(* The writer implements the contract the software is written against: it   *)
(* uses the buffers in the order they were enqueued and loses none: a       *)
(* buffer leaves it with a notification, or before it is used, in a flush.  *)
(* Every notification hands over one buffer with the next bytes of a single *)
(* stream, full or at the end of the stream, or none for an empty stream    *)
(* that keeps its buffer.  The software flushes between streams only.       *)
THEOREM WriterImplementsContract ==
  ASSUME ~FLUSH_MIDSTREAM
  PROVE  SafeSpec => ImplementsContract
  <1>1. TypeOK /\ LengthHeld /\ CompletionInv /\ DataInv /\ FillInv /\ HeldInv /\ [Next]_vars
          => HeldInv' /\ [Contract!Next]_(Contract!vars)
    BY NextContract DEF ContractStep
  <1> QED
    BY <1>1, InitContract, InitHeld, SafeFill, PTL DEF SafeSpec, ImplementsContract, Contract!Spec

=============================================================================
