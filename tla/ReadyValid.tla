------------------------------ MODULE ReadyValid ------------------------------
(***************************************************************************)
(* The registers between ready-valid interfaces: each slot is empty or     *)
(* holds one element, as a sequence. A clock edge is a function.           *)
(***************************************************************************)
EXTENDS Sequences

\* ReadyValidShiftRegister of depth 1
RegisterReady(reg, out_ready) == out_ready \/ reg = <<>>
ClockedRegister(reg, in, out_ready) == IF RegisterReady(reg, out_ready) THEN in ELSE reg

\* SkidBuffer: the skid slot takes what arrives while the head is stuck.
NoSkid == [head |-> <<>>, skid |-> <<>>]
SkidReady(s) == s.skid = <<>>
ClockedSkid(s, in, out_ready) ==
  [head |-> IF s.head # <<>> /\ ~out_ready THEN s.head
            ELSE IF s.skid # <<>> THEN s.skid ELSE in,
   skid |-> IF s.skid # <<>> THEN (IF out_ready THEN <<>> ELSE s.skid)
            ELSE IF s.head # <<>> /\ ~out_ready THEN in ELSE <<>>]
=============================================================================
