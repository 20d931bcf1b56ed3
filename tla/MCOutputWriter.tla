--------------------------- MODULE MCOutputWriter ---------------------------
(***************************************************************************)
(* Model checking of OutputWriter: two ports share stream 0, the third has  *)
(* stream 1 for itself.                                                     *)
(***************************************************************************)
EXTENDS OutputWriter

TwoPortsAndOne == 0 :> 2 @@ 1 :> 1

Long(end) == [beats |-> 2, end |-> end]
Short(end) == [beats |-> 1, end |-> end]

\* Ports with buffers of one and of several transfers.
Jobs ==
  { 0 :> <<Long(FALSE), Short(TRUE)>> @@ 1 :> <<Long(TRUE)>>
      @@ 2 :> <<Short(TRUE)>>,
    0 :> <<Short(TRUE)>> @@ 1 :> <<>>
      @@ 2 :> <<Short(TRUE), Short(TRUE), Short(TRUE), Short(TRUE)>> }

=============================================================================
