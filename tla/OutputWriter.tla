---------------------------- MODULE OutputWriter ----------------------------
(***************************************************************************)
(* The OutputWriter of hardware/src/hdl/memory: every port has its          *)
(* StreamWriter, the ports of a stream share it through a                   *)
(* StreamWriterArbiter, and the streams share one channel of requests, one  *)
(* of completions and one of interrupts.                                    *)
(*                                                                         *)
(* A StreamWriter is reduced to what the sharing sees of it (StreamWriter    *)
(* models the rest): it requests a transfer, sends its beats, requests the   *)
(* next, and notifies a buffer when the completions of all its transfers     *)
(* arrived.  The shell is the environment.  It takes requests, takes the     *)
(* data of each stream in the order of its requests, and completes them in   *)
(* that order.  It cannot tell the ports of a stream apart; the model's      *)
(* elements carry their port and transfer so that the properties can.        *)
(***************************************************************************)
EXTENDS Integers, SequencesExt, MetaIntfArbiter

CONSTANTS
  NUM_STREAMS,
  PORTS_PER_STREAM,  \* the number of ports of each stream
  DATA_ORDER_DEPTH,  \* 8 in the source
  CQ_ORDER_DEPTH,    \* 64 in the source
  SKID_DEPTH,        \* elements the skid buffers of a channel hold
  SQ_DEPTH,          \* requests of a stream the shell takes before it completes one
  Workloads,         \* transfers of every port: their beats and whether one ends a buffer
  MAX_FOREIGN        \* bound: completions of writes that are not the OutputWriter's

streams == 0 .. NUM_STREAMS - 1

first_port[s \in Nat] == IF s = 0 THEN 0 ELSE first_port[s - 1] + PORTS_PER_STREAM[s - 1]

NUM_PORTS == first_port[NUM_STREAMS]
ports == 0 .. NUM_PORTS - 1

\* The stream of a port, and the port's place among its writers.
Stream(p) == CHOOSE s \in streams : first_port[s] <= p /\ p < first_port[s + 1]
Writer(p) == p - first_port[Stream(p)]
shared(s) == PORTS_PER_STREAM[s] > 1

ASSUME OutputWriterAssumption ==
  /\ NUM_STREAMS \in Nat \ {0}
  /\ PORTS_PER_STREAM \in [streams -> Nat \ {0}]
  /\ DATA_ORDER_DEPTH \in Nat \ {0, 1} /\ CQ_ORDER_DEPTH \in Nat \ {0, 1}
  /\ SKID_DEPTH \in Nat \ {0} /\ SQ_DEPTH \in Nat \ {0}
  /\ Workloads \subseteq [ports -> Seq([beats : Nat \ {0}, end : BOOLEAN])]
  /\ MAX_FOREIGN \in Nat

VARIABLES
  workload,
  requested,   \* per port: transfers requested
  sent,        \* per port: transfers whose beats were all sent
  beats_sent,  \* per port: beats sent of the transfer after these
  completed,   \* per port: completions that arrived
  notified,    \* per port: buffers notified
  writer_arb,  \* per stream: the arbiter of its writers' requests
  data_order, cq_order, \* per stream: the order FIFOs
  sq_skid,     \* per stream: requests on their way to the arbiter of the streams
  sq_arb,      \* that arbiter
  data_skid,   \* per stream: beats on their way to the shell
  sq,          \* per stream: requests the shell took and has not all data of
  beats_taken, \* per stream: beats the shell took for the oldest of them
  acks,        \* per stream: writes done, not completed
  cq_wr,       \* the completion the shell offers
  cq_strm,     \* per stream: output register of the completion demultiplexer
  notify_skid, \* per port: notifications on their way to their arbiter
  notify_arb,  \* that arbiter
  waited,      \* per port: notifications of others sent while one of it waited
  interrupts,  \* per port: interrupts the host received
  foreign      \* completions of other writes

writerVars == <<requested, sent, beats_sent, completed, notified>>
requestVars == <<writer_arb, data_order, cq_order, sq_skid, sq_arb>>
shellVars == <<data_skid, sq, beats_taken, acks>>
completionVars == <<cq_wr, cq_strm, foreign>>
notifyVars == <<notify_skid, notify_arb, waited, interrupts>>
vars == <<workload, writerVars, requestVars, shellVars, completionVars, notifyVars>>

Init ==
  /\ workload \in Workloads
  /\ requested = [p \in ports |-> 0] /\ sent = [p \in ports |-> 0]
  /\ beats_sent = [p \in ports |-> 0]
  /\ completed = [p \in ports |-> 0] /\ notified = [p \in ports |-> 0]
  /\ writer_arb = [s \in streams |-> IdleArbiter(PORTS_PER_STREAM[s])]
  /\ data_order = [s \in streams |-> <<>>] /\ cq_order = [s \in streams |-> <<>>]
  /\ sq_skid = [s \in streams |-> <<>>]
  /\ sq_arb = IdleArbiter(NUM_STREAMS)
  /\ data_skid = [s \in streams |-> <<>>]
  /\ sq = [s \in streams |-> <<>>] /\ beats_taken = [s \in streams |-> 0]
  /\ acks = [s \in streams |-> <<>>]
  /\ cq_wr = <<>> /\ cq_strm = [s \in streams |-> <<>>] /\ foreign = 0
  /\ notify_skid = [p \in ports |-> <<>>]
  /\ notify_arb = IdleArbiter(NUM_PORTS)
  /\ waited = [p \in ports |-> 0] /\ interrupts = [p \in ports |-> 0]

----------------------------------------------------------------------------
(* Requests.                                                                *)

Room(skid) == Len(skid) < SKID_DEPTH

Transfer(p, n) == [port |-> p, transfer |-> n]

\* A StreamWriter requests the next transfer, all beats of which it buffered.
Request(p) ==
  LET s == Stream(p)
      request == Transfer(p, requested[p] + 1)
  IN /\ requested[p] = sent[p] /\ requested[p] < Len(workload[p])
     /\ IF shared(s)
          THEN /\ CanAccept(writer_arb[s], Writer(p))
               /\ writer_arb' = [writer_arb EXCEPT ![s] = Accept(@, Writer(p), request)]
               /\ UNCHANGED sq_skid
          ELSE /\ Room(sq_skid[s])
               /\ sq_skid' = [sq_skid EXCEPT ![s] = Append(@, request)]
               /\ UNCHANGED writer_arb
     /\ requested' = [requested EXCEPT ![p] = @ + 1]
  /\ UNCHANGED <<workload, sent, beats_sent, completed, notified, data_order, cq_order,
                 sq_arb, shellVars, completionVars, notifyVars>>

SelectWriter(s) ==
  /\ CanLoad(writer_arb[s])
  /\ writer_arb' = [writer_arb EXCEPT ![s] = Load(@, PORTS_PER_STREAM[s])]
  /\ UNCHANGED <<workload, writerVars, data_order, cq_order, sq_skid, sq_arb, shellVars,
                 completionVars, notifyVars>>

\* A FIFO that is full drops what is pushed.
Push(fifo, depth, writer) == IF Len(fifo) < depth THEN Append(fifo, writer) ELSE fifo

\* A plausible slip: the order of the completions is not waited for.
WaitsForDataOrder(s) == Len(data_order[s]) < DATA_ORDER_DEPTH
OrderFifosReady(s) ==
  Len(data_order[s]) < DATA_ORDER_DEPTH /\ Len(cq_order[s]) < CQ_ORDER_DEPTH

\* request_fire: the request leaves, and its writer enters both order FIFOs.
FireRequest(s) ==
  /\ CanTake(writer_arb[s])
  /\ OrderFifosReady(s)
  /\ Room(sq_skid[s])
  /\ LET request == Head(writer_arb[s].out)
         requester == Writer(request.port)
     IN /\ sq_skid' = [sq_skid EXCEPT ![s] = Append(@, request)]
        /\ data_order' = [data_order EXCEPT ![s] = Push(@, DATA_ORDER_DEPTH, requester)]
        /\ cq_order' = [cq_order EXCEPT ![s] = Push(@, CQ_ORDER_DEPTH, requester)]
  /\ writer_arb' = [writer_arb EXCEPT ![s] = Take(@)]
  /\ UNCHANGED <<workload, writerVars, sq_arb, shellVars, completionVars, notifyVars>>

OfferRequest(s) ==
  /\ sq_skid[s] # <<>>
  /\ CanAccept(sq_arb, s)
  /\ sq_arb' = Accept(sq_arb, s, Head(sq_skid[s]))
  /\ sq_skid' = [sq_skid EXCEPT ![s] = Tail(@)]
  /\ UNCHANGED <<workload, writerVars, writer_arb, data_order, cq_order, shellVars,
                 completionVars, notifyVars>>

SelectStream ==
  /\ CanLoad(sq_arb)
  /\ sq_arb' = Load(sq_arb, NUM_STREAMS)
  /\ UNCHANGED <<workload, writerVars, writer_arb, data_order, cq_order, sq_skid,
                 shellVars, completionVars, notifyVars>>

\* The shell takes a request.
TakeRequest ==
  /\ CanTake(sq_arb)
  /\ LET request == Head(sq_arb.out)
         s == Stream(request.port)
     IN /\ Len(sq[s]) < SQ_DEPTH
        /\ sq' = [sq EXCEPT ![s] = Append(@, request)]
  /\ sq_arb' = Take(sq_arb)
  /\ UNCHANGED <<workload, writerVars, writer_arb, data_order, cq_order, sq_skid,
                 data_skid, beats_taken, acks, completionVars, notifyVars>>

----------------------------------------------------------------------------
(* Data.                                                                    *)

LastBeat(p) == beats_sent[p] + 1 = workload[p][sent[p] + 1].beats

\* The data of a writer is forwarded up to its tlast; a plausible slip forwards
\* one beat.
PopsEachBeat(p) == shared(Stream(p))
data_pop(p) == shared(Stream(p)) /\ LastBeat(p)

SendBeat(p) ==
  LET s == Stream(p)
  IN /\ sent[p] < requested[p]
     /\ shared(s) => data_order[s] # <<>> /\ Head(data_order[s]) = Writer(p)
     /\ Room(data_skid[s])
     /\ data_skid' = [data_skid EXCEPT ![s] = Append(@, Transfer(p, sent[p] + 1))]
     /\ data_order' = IF data_pop(p) THEN [data_order EXCEPT ![s] = Tail(@)] ELSE data_order
     /\ IF LastBeat(p)
          THEN /\ sent' = [sent EXCEPT ![p] = @ + 1]
               /\ beats_sent' = [beats_sent EXCEPT ![p] = 0]
          ELSE /\ beats_sent' = [beats_sent EXCEPT ![p] = @ + 1]
               /\ UNCHANGED sent
  /\ UNCHANGED <<workload, requested, completed, notified, writer_arb, cq_order, sq_skid,
                 sq_arb, sq, beats_taken, acks, completionVars, notifyVars>>

\* The shell takes a beat for the oldest request of its stream, and counts.
TakeBeat(s) ==
  /\ data_skid[s] # <<>> /\ sq[s] # <<>>
  /\ LET request == Head(sq[s])
         last == beats_taken[s] + 1 = workload[request.port][request.transfer].beats
     IN /\ beats_taken' = [beats_taken EXCEPT ![s] = IF last THEN 0 ELSE @ + 1]
        /\ IF last
             THEN /\ sq' = [sq EXCEPT ![s] = Tail(@)]
                  /\ acks' = [acks EXCEPT ![s] = Append(@, request)]
             ELSE UNCHANGED <<sq, acks>>
  /\ data_skid' = [data_skid EXCEPT ![s] = Tail(@)]
  /\ UNCHANGED <<workload, writerVars, requestVars, completionVars, notifyVars>>

----------------------------------------------------------------------------
(* Completions.                                                             *)

Complete(s) ==
  /\ acks[s] # <<>>
  /\ cq_wr = <<>>
  /\ cq_wr' = <<[dest |-> s, own |-> TRUE, of |-> Head(acks[s])]>>
  /\ acks' = [acks EXCEPT ![s] = Tail(@)]
  /\ UNCHANGED <<workload, writerVars, requestVars, data_skid, sq, beats_taken, cq_strm,
                 foreign, notifyVars>>

\* The completion of a write to the card memory with the same dest.
CompleteForeign(s) ==
  /\ foreign < MAX_FOREIGN
  /\ cq_wr = <<>>
  /\ cq_wr' = <<[dest |-> s, own |-> FALSE, of |-> Transfer(0, 0)]>>
  /\ foreign' = foreign + 1
  /\ UNCHANGED <<workload, writerVars, requestVars, shellVars, cq_strm, notifyVars>>

Demultiplex ==
  /\ cq_wr # <<>>
  /\ cq_strm[cq_wr[1].dest] = <<>>
  /\ cq_strm' = [cq_strm EXCEPT ![cq_wr[1].dest] = cq_wr]
  /\ cq_wr' = <<>>
  /\ UNCHANGED <<workload, writerVars, requestVars, shellVars, foreign, notifyVars>>

\* A plausible slip: completions of other writes are counted, too.
CountsAll(ack) == TRUE
is_completion(ack) == ack.own

\* The port that gets the completion of a stream.
Completed(s) == first_port[s] + IF shared(s) THEN Head(cq_order[s]) ELSE 0

RouteCompletion(s) ==
  /\ cq_strm[s] # <<>>
  /\ IF is_completion(cq_strm[s][1])
       THEN /\ shared(s) => cq_order[s] # <<>>
            /\ completed' = [completed EXCEPT ![Completed(s)] = @ + 1]
            /\ cq_order' = IF shared(s) THEN [cq_order EXCEPT ![s] = Tail(@)] ELSE cq_order
       ELSE UNCHANGED <<completed, cq_order>>
  /\ cq_strm' = [cq_strm EXCEPT ![s] = <<>>]
  /\ UNCHANGED <<workload, requested, sent, beats_sent, notified, writer_arb, data_order,
                 sq_skid, sq_arb, shellVars, cq_wr, foreign, notifyVars>>

----------------------------------------------------------------------------
(* Notifications.                                                           *)

\* The last transfers of the port's buffers.
Buffers(p) == SelectSeq([n \in 1 .. Len(workload[p]) |-> n], LAMBDA n : workload[p][n].end)

Notify(p) ==
  /\ notified[p] < Len(Buffers(p))
  /\ Buffers(p)[notified[p] + 1] <= sent[p]
  /\ Buffers(p)[notified[p] + 1] <= completed[p]
  /\ Room(notify_skid[p])
  /\ notify_skid' = [notify_skid EXCEPT ![p] = Append(@, p)]
  /\ notified' = [notified EXCEPT ![p] = @ + 1]
  /\ UNCHANGED <<workload, requested, sent, beats_sent, completed, requestVars, shellVars,
                 completionVars, notify_arb, waited, interrupts>>

OfferNotification(p) ==
  /\ notify_skid[p] # <<>>
  /\ CanAccept(notify_arb, p)
  /\ notify_arb' = Accept(notify_arb, p, Head(notify_skid[p]))
  /\ notify_skid' = [notify_skid EXCEPT ![p] = Tail(@)]
  /\ UNCHANGED <<workload, writerVars, requestVars, shellVars, completionVars, waited,
                 interrupts>>

SelectNotification ==
  /\ CanLoad(notify_arb)
  /\ notify_arb' = Load(notify_arb, NUM_PORTS)
  /\ waited' = [p \in ports |-> IF notify_arb'.buf[p] = <<>> THEN 0 ELSE waited[p] + 1]
  /\ UNCHANGED <<workload, writerVars, requestVars, shellVars, completionVars,
                 notify_skid, interrupts>>

\* The host takes the interrupt.
Interrupt ==
  /\ CanTake(notify_arb)
  /\ interrupts' = [interrupts EXCEPT ![Head(notify_arb.out)] = @ + 1]
  /\ notify_arb' = Take(notify_arb)
  /\ UNCHANGED <<workload, writerVars, requestVars, shellVars, completionVars,
                 notify_skid, waited>>

----------------------------------------------------------------------------
Next ==
  \/ \E p \in ports :
       \/ Request(p) \/ SendBeat(p) \/ Notify(p) \/ OfferNotification(p)
  \/ \E s \in streams :
       \/ SelectWriter(s) \/ FireRequest(s) \/ OfferRequest(s) \/ TakeBeat(s)
       \/ Complete(s) \/ CompleteForeign(s) \/ RouteCompletion(s)
  \/ SelectStream
  \/ TakeRequest
  \/ Demultiplex
  \/ SelectNotification
  \/ Interrupt

(* The circuit never stops.  The shell takes requests and data and completes *)
(* every write, also while it completes writes of others; the host takes     *)
(* every interrupt.                                                          *)
Fairness ==
  /\ \A p \in ports :
       WF_vars(Request(p)) /\ WF_vars(SendBeat(p)) /\ WF_vars(Notify(p))
         /\ WF_vars(OfferNotification(p))
  /\ \A s \in streams :
       /\ WF_vars(SelectWriter(s)) /\ WF_vars(FireRequest(s)) /\ WF_vars(OfferRequest(s))
       /\ WF_vars(TakeBeat(s)) /\ SF_vars(Complete(s)) /\ WF_vars(RouteCompletion(s))
  /\ WF_vars(SelectStream) /\ WF_vars(TakeRequest) /\ WF_vars(Demultiplex)
  /\ WF_vars(SelectNotification) /\ WF_vars(Interrupt)

SafeSpec == Init /\ [][Next]_vars
Spec == SafeSpec /\ Fairness

----------------------------------------------------------------------------
(* Type invariant, with the depths of the FIFOs.                             *)
ArbiterOK(a, n) ==
  /\ DOMAIN a.buf = 0 .. n - 1 /\ a.rr \in 0 .. n - 1
  /\ Len(a.out) <= 1 /\ \A i \in DOMAIN a.buf : Len(a.buf[i]) <= 1

TypeOK ==
  /\ requested \in [ports -> Nat] /\ sent \in [ports -> Nat]
  /\ beats_sent \in [ports -> Nat]
  /\ completed \in [ports -> Nat] /\ notified \in [ports -> Nat]
  /\ \A p \in ports : sent[p] <= requested[p] /\ completed[p] <= sent[p]
  /\ \A s \in streams : ArbiterOK(writer_arb[s], PORTS_PER_STREAM[s])
  /\ \A s \in streams : Len(data_order[s]) <= DATA_ORDER_DEPTH
  /\ \A s \in streams : Len(cq_order[s]) <= CQ_ORDER_DEPTH
  /\ ArbiterOK(sq_arb, NUM_STREAMS) /\ ArbiterOK(notify_arb, NUM_PORTS)
  /\ \A s \in streams : Len(sq_skid[s]) <= SKID_DEPTH /\ Len(data_skid[s]) <= SKID_DEPTH
  /\ \A p \in ports : Len(notify_skid[p]) <= SKID_DEPTH
  /\ beats_taken \in [streams -> Nat]
  /\ Len(cq_wr) <= 1 /\ \A s \in streams : Len(cq_strm[s]) <= 1
  /\ interrupts \in [ports -> Nat] /\ waited \in [ports -> Nat]

(* The data on its way to the shell is that of the requests on their way, in *)
(* their order and complete: the shell, which pairs them by their order,     *)
(* writes every beat to the memory of its own port.                          *)
Of(slot, s) == IF slot # <<>> /\ Stream(slot[1].port) = s THEN slot ELSE <<>>
RequestsUnderWay(s) == sq[s] \o (Of(sq_arb.out, s) \o (sq_arb.buf[s] \o sq_skid[s]))

ExpectedBeats(s) ==
  FlattenSeq([i \in DOMAIN RequestsUnderWay(s) |->
                LET r == RequestsUnderWay(s)[i]
                    taken == IF i = 1 THEN beats_taken[s] ELSE 0
                IN [b \in 1 .. workload[r.port][r.transfer].beats - taken |-> r]])

DataFollowsRequests == \A s \in streams : IsPrefix(data_skid[s], ExpectedBeats(s))

(* A completion reaches the writer whose transfer it is for, in order, and   *)
(* never without an outstanding request: stream_writer_arbiter.sv:151.       *)
CompletionsRouted ==
  \A s \in streams :
    cq_strm[s] # <<>> /\ cq_strm[s][1].own =>
      /\ shared(s) => cq_order[s] # <<>>
      /\ LET p == Completed(s)
         IN cq_strm[s][1].of = Transfer(p, completed[p] + 1)

(* A notification waits for at most one of every other port: the comment at  *)
(* meta_intf_arbiter.sv:12.                                                  *)
BoundedWait == \A p \in ports : waited[p] <= NUM_PORTS - 1

(* Every buffer is notified: no order of the ports' transfers blocks them,   *)
(* the claim of stream_writer_arbiter.sv:13.                                 *)
AllNotified == <>(\A p \in ports : interrupts[p] = Len(Buffers(p)))

=============================================================================
