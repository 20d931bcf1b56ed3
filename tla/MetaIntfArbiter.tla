--------------------------- MODULE MetaIntfArbiter ---------------------------
(***************************************************************************)
(* The round-robin arbiter of hardware/src/hdl/util/meta_intf_arbiter.sv    *)
(* for n inputs 0 .. n - 1, as operators on its registers, a record of      *)
(*   buf  the input buffers, each empty or with one element,                *)
(*   out  the output register, empty or with one element, and               *)
(*   rr   input_stream_rr_next, the input that is next in turn.             *)
(* An input is accepted into its buffer, selected and loaded into the       *)
(* output, and taken from there.                                            *)
(***************************************************************************)
LOCAL INSTANCE Integers
LOCAL INSTANCE Sequences

IdleArbiter(n) == [buf |-> [i \in 0 .. n - 1 |-> <<>>], out |-> <<>>, rr |-> 0]

CanAccept(a, i) == a.buf[i] = <<>>
Accept(a, i, d) == [a EXCEPT !.buf[i] = <<d>>]

buf_valid(a) == {i \in DOMAIN a.buf : a.buf[i] # <<>>}

\* The input in turn, or the highest one with data; a slip always takes that.
AlwaysHighest(a) == CHOOSE i \in buf_valid(a) : \A j \in buf_valid(a) : j <= i
input_stream_select(a) ==
  IF a.rr \in buf_valid(a) THEN a.rr ELSE AlwaysHighest(a)

CanLoad(a) == a.out = <<>> /\ buf_valid(a) # {}
Load(a, n) ==
  [buf |-> [a.buf EXCEPT ![input_stream_select(a)] = <<>>],
   out |-> a.buf[input_stream_select(a)],
   rr  |-> IF a.rr = n - 1 THEN 0 ELSE a.rr + 1]

CanTake(a) == a.out # <<>>
Take(a) == [a EXCEPT !.out = <<>>]

=============================================================================
