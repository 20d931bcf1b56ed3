---------------------------- MODULE OutputHandle ----------------------------
(***************************************************************************)
(* One OutputHandle of software/libstf/output_handle.cpp and the threads   *)
(* that call it: the interrupt thread pushes buffers and marks streams     *)
(* done, callers of the three blocking functions wait on the condition     *)
(* variable until there is output or none will come.                       *)
(*                                                                         *)
(* A critical section of output_buffers_mutex is one action.  A caller     *)
(* that has to wait goes to sleep; notify_all wakes every sleeper, which   *)
(* then checks its predicate again (the loop inside condition_variable).   *)
(***************************************************************************)
EXTENDS Integers, Sequences, FiniteSets

CONSTANTS
  Streams,       \* the active streams of the handle
  Callers,       \* threads that call the handle
  MAX_OUTPUT     \* bound: buffers the FPGA fills per stream

ASSUME HandleAssumption == MAX_OUTPUT \in Nat /\ IsFiniteSet(Streams) /\ IsFiniteSet(Callers)

VARIABLES
  output_buffers,    \* per stream, the buffers not yet taken (their numbers)
  finished_streams,
  pushed,            \* per stream, number of buffers pushed so far
  call,              \* per caller, the function it is in
  asleep,            \* callers waiting on output_buffers_cv
  taken,             \* history: per stream, the buffers returned, in order
  answer             \* history: what the last call of each caller returned

vars == <<output_buffers, finished_streams, pushed, call, asleep, taken, answer>>

\* A caller that is in no call.
Idle == [fn |-> "none"]
Calls == [fn : {"stream_has_more", "get_next"}, stream : Streams] \cup [fn : {"any_has_more"}]
Answers == {"none", "buffer", "nullptr", "true", "false"}

Init ==
  /\ output_buffers = [s \in Streams |-> <<>>]
  /\ finished_streams = {}
  /\ pushed = [s \in Streams |-> 0]
  /\ call = [c \in Callers |-> Idle]
  /\ asleep = {}
  /\ taken = [s \in Streams |-> <<>>]
  /\ answer = [c \in Callers |-> "none"]

----------------------------------------------------------------------------
(* The interrupt thread.                                                    *)

\* notify_all; a plausible slip wakes one sleeper only.
NotifyOne == IF asleep = {} THEN {} ELSE asleep \ {CHOOSE c \in asleep : TRUE}
NotifyAll == {}

push_buffer(s) ==
  /\ s \notin finished_streams
  /\ pushed[s] < MAX_OUTPUT
  /\ pushed' = [pushed EXCEPT ![s] = @ + 1]
  /\ output_buffers' = [output_buffers EXCEPT ![s] = Append(@, pushed[s] + 1)]
  /\ asleep' = NotifyAll
  /\ UNCHANGED <<finished_streams, call, taken, answer>>

mark_done(s) ==
  /\ s \notin finished_streams
  /\ finished_streams' = finished_streams \cup {s}
  /\ asleep' = NotifyAll
  /\ UNCHANGED <<output_buffers, pushed, call, taken, answer>>

----------------------------------------------------------------------------
(* The callers: stream_has_more_output, any_stream_has_more_output and      *)
(* get_next_stream_output.                                                  *)

any_stream_output_available == \E s \in Streams : output_buffers[s] # <<>>
\* A plausible slip: one stream that is done ends the wait for all of them.
OneStreamInFlight == finished_streams = {}
any_memory_in_flight == Streams \ finished_streams # {}

\* The predicate of the wait of a call.
Ready(k) ==
  IF k.fn = "any_has_more"
    THEN any_stream_output_available \/ ~any_memory_in_flight
    ELSE output_buffers[k.stream] # <<>> \/ k.stream \in finished_streams

\* What the call then finds: a caller that was faster may have taken it.
HasOutput(k) ==
  IF k.fn = "any_has_more" THEN any_stream_output_available ELSE output_buffers[k.stream] # <<>>

Enter(c, k) ==
  /\ call[c] = Idle
  /\ call' = [call EXCEPT ![c] = k]
  /\ UNCHANGED <<output_buffers, finished_streams, pushed, asleep, taken, answer>>

Sleep(c) ==
  /\ call[c] # Idle
  /\ c \notin asleep
  /\ ~Ready(call[c])
  /\ asleep' = asleep \cup {c}
  /\ UNCHANGED <<output_buffers, finished_streams, pushed, call, taken, answer>>

\* transferred_mem_front_to_shared_ptr leaves the rest; a plausible slip does
\* not pop.
KeepsFront(queue) == queue
Rest(queue) == Tail(queue)

\* What a call returns that hands out no buffer.  A plausible slip takes the
\* front of the queue without looking again after the wait.
FrontRegardless(k) ==
  IF k.fn = "get_next" THEN "undefined" ELSE IF HasOutput(k) THEN "true" ELSE "false"
Outcome(k) ==
  IF k.fn = "get_next" THEN "nullptr" ELSE IF HasOutput(k) THEN "true" ELSE "false"

Return(c) ==
  /\ call[c] # Idle
  /\ c \notin asleep
  /\ Ready(call[c])
  /\ LET k == call[c]
     IN IF k.fn = "get_next" /\ HasOutput(k)
          THEN /\ taken' = [taken EXCEPT ![k.stream] = Append(@, Head(output_buffers[k.stream]))]
               /\ output_buffers' = [output_buffers EXCEPT ![k.stream] = Rest(@)]
               /\ answer' = [answer EXCEPT ![c] = "buffer"]
          ELSE /\ answer' = [answer EXCEPT ![c] = Outcome(k)]
               /\ UNCHANGED <<taken, output_buffers>>
  /\ call' = [call EXCEPT ![c] = Idle]
  /\ UNCHANGED <<finished_streams, pushed, asleep>>

----------------------------------------------------------------------------
Push == \E s \in Streams : push_buffer(s)
Done == \E s \in Streams : mark_done(s)
EnterCall == \E c \in Callers, k \in Calls : Enter(c, k)
FallAsleep == \E c \in Callers : Sleep(c)
ReturnFromCall == \E c \in Callers : Return(c)

Next == Push \/ Done \/ EnterCall \/ FallAsleep \/ ReturnFromCall

(* Awake threads run, and the interrupt thread marks every stream done in    *)
(* the end, as OutputBufferManager!HandlesEnd shows.                         *)
Fairness ==
  /\ \A s \in Streams : WF_vars(mark_done(s))
  /\ \A c \in Callers : WF_vars(Return(c))

SafeSpec == Init /\ [][Next]_vars
Spec == SafeSpec /\ Fairness

----------------------------------------------------------------------------
(* Type invariant.  No call returns anything but a buffer, a nullptr or a   *)
(* truth value: front() is never taken of an empty queue (lines 120, 130).   *)
TypeOK ==
  /\ output_buffers \in [Streams -> Seq(Nat)]
  /\ finished_streams \subseteq Streams
  /\ pushed \in [Streams -> Nat]
  /\ call \in [Callers -> Calls \cup {Idle}]
  /\ asleep \subseteq Callers
  /\ taken \in [Streams -> Seq(Nat)]
  /\ answer \in [Callers -> Answers]

(* No wakeup is lost: nobody sleeps while the predicate it waits for holds, *)
(* also when several callers wait for the same output (the comment at       *)
(* output_handle.cpp:76).                                                   *)
NoLostWakeup == \A c \in asleep : call[c] # Idle /\ ~Ready(call[c])

(* Every buffer is returned to exactly one caller, in the order in which     *)
(* the FPGA filled them.                                                     *)
TakenOnce ==
  \A s \in Streams : taken[s] \o output_buffers[s] = [i \in 1 .. pushed[s] |-> i]

(* A nullptr or false means the end: all output of the stream, or of every  *)
(* stream, was taken and none will come.                                    *)
Ended(k) ==
  \A s \in IF k.fn = "any_has_more" THEN Streams ELSE {k.stream} :
    s \in finished_streams /\ Len(taken[s]) = pushed[s]

EndIsFinal ==
  [][\A c \in Callers :
       call[c] # Idle /\ call'[c] = Idle /\ answer'[c] \in {"nullptr", "false"}
         => Ended(call[c])]_vars

(* Waiting on the condition variable is as good as asking again and again.  *)
Awaited(k) ==
  IF k = Idle THEN {} ELSE IF k.fn = "any_has_more" THEN Streams ELSE {k.stream}

Contract == INSTANCE HandleContract
  WITH available <- [s \in Streams |-> Len(output_buffers[s])],
       finished <- finished_streams,
       pending <- [c \in Callers |-> Awaited(call[c])]

ImplementsContract == Contract!Spec

(* Every call returns.                                                      *)
CallsReturn == \A c \in Callers : call[c] # Idle ~> call[c] = Idle

=============================================================================
