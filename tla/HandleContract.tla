--------------------------- MODULE HandleContract ---------------------------
(***************************************************************************)
(* What the callers of an OutputHandle may rely on, as output_handle.hpp   *)
(* documents it: a blocking call returns as soon as there is output or     *)
(* none will come.  There is no mutex, no condition variable and no wakeup *)
(* here; a call that can return does so eventually.                        *)
(***************************************************************************)
EXTENDS Integers

CONSTANTS Streams, Callers

VARIABLES
  available,   \* per stream, how many outputs can be returned
  finished,    \* streams that get no more output
  pending      \* per caller, the set of streams whose output it waits for

vars == <<available, finished, pending>>

Init ==
  /\ available = [s \in Streams |-> 0]
  /\ finished = {}
  /\ pending = [c \in Callers |-> {}]

Produce(s) ==
  /\ s \notin finished
  /\ available' = [available EXCEPT ![s] = @ + 1]
  /\ UNCHANGED <<finished, pending>>

End(s) ==
  /\ finished' = finished \cup {s}
  /\ UNCHANGED <<available, pending>>

Ask(c) ==
  /\ pending[c] = {}
  /\ \E S \in (SUBSET Streams) \ {{}} : pending' = [pending EXCEPT ![c] = S]
  /\ UNCHANGED <<available, finished>>

CanAnswer(c) ==
  /\ pending[c] # {}
  /\ (\E s \in pending[c] : available[s] > 0) \/ pending[c] \subseteq finished

\* Output is at most looked at, or taken.
Answer(c) ==
  /\ CanAnswer(c)
  /\ \/ UNCHANGED available
     \/ \E s \in pending[c] :
          available[s] > 0 /\ available' = [available EXCEPT ![s] = @ - 1]
  /\ pending' = [pending EXCEPT ![c] = {}]
  /\ UNCHANGED finished

Next ==
  \/ \E s \in Streams : Produce(s) \/ End(s)
  \/ \E c \in Callers : Ask(c) \/ Answer(c)

SafeSpec == Init /\ [][Next]_vars
Spec == SafeSpec /\ \A c \in Callers : WF_vars(Answer(c))

=============================================================================
