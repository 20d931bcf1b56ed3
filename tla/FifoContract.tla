---------------------------- MODULE FifoContract ----------------------------
(***************************************************************************)
(* What the hardware relies on when it uses a MehdiFIFO: a queue of at     *)
(* most DEPTH elements that takes what is offered unless it is full, and   *)
(* gives out its head, though not always at once. All FIFOs of a design    *)
(* share its clock.                                                        *)
(***************************************************************************)
EXTENDS Naturals, Sequences

CONSTANTS DEPTH, FifoIds

VARIABLES
  queue,                 \* each variable is a function of the FIFOs
  i_valid, i_data,       \* what is offered in this cycle
  o_ready,               \* whether the user takes what is given out
  i_ready,               \* whether the FIFO takes what is offered
  o_valid, o_data        \* what is given out

vars == <<queue, i_valid, i_data, o_ready, i_ready, o_valid, o_data>>

Pushed(q) == IF i_valid[q] /\ i_ready[q] THEN <<i_data[q]>> ELSE <<>>
Left(q) == IF o_valid[q] /\ o_ready[q] THEN Tail(queue[q]) ELSE queue[q]

Outputs(q) ==
  /\ i_ready[q] <=> Len(queue[q]) < DEPTH
  /\ o_valid[q] => queue[q] # <<>> /\ o_data[q] = Head(queue[q])

Init == \A q \in FifoIds : queue[q] = <<>> /\ Outputs(q)

Clock == \A q \in FifoIds : queue'[q] = Left(q) \o Pushed(q) /\ Outputs(q)'

Spec == Init /\ [][Clock]_vars
=============================================================================
