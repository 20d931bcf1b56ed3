------------------------- MODULE OutputHandleProofs -------------------------
(***************************************************************************)
(* Proofs about OutputHandle for any number of streams, callers and        *)
(* buffers.                                                                *)
(***************************************************************************)
EXTENDS OutputHandle, SequenceTheorems, TLAPS

----
LEMMA CallCases ==
  ASSUME NEW k \in Calls
  PROVE  /\ k # Idle
         /\ k.fn = "any_has_more" \/ (k.fn \in {"stream_has_more", "get_next"} /\ k.stream \in Streams)
  BY DEF Calls, Idle

LEMMA CallType ==
  ASSUME TypeOK, NEW c \in Callers, call[c] # Idle
  PROVE  call[c] \in Calls
  BY DEF TypeOK

LEMMA Pop ==
  ASSUME NEW q \in Seq(Nat), q # <<>>
  PROVE  /\ Head(q) \in Nat /\ Tail(q) \in Seq(Nat)
         /\ Len(q) \in Nat \ {0} /\ Len(Tail(q)) = Len(q) - 1
         /\ \A t \in Seq(Nat) : Append(t, Head(q)) \o Tail(q) = t \o q
  <1>1. Head(q) \in Nat /\ Tail(q) \in Seq(Nat) /\ Len(q) \in Nat \ {0}
        /\ Len(Tail(q)) = Len(q) - 1
    OBVIOUS
  <1>2. ASSUME NEW t \in Seq(Nat)
        PROVE  Append(t, Head(q)) \o Tail(q) = t \o q
    <2>1. q = <<Head(q)>> \o Tail(q)  BY <1>1, HeadTailProperties
    <2>2. Append(t, Head(q)) = t \o <<Head(q)>>  BY <1>1, AppendIsConcat
    <2> QED BY <1>1, <2>1, <2>2, ConcatAssociative, SMT
  <1> QED BY <1>1, <1>2

(* Types.                                                                   *)

LEMMA InitTypeOK == Init => TypeOK
  BY DEF Init, TypeOK, Answers

LEMMA NextTypeOK ==
  ASSUME TypeOK, [Next]_vars
  PROVE  TypeOK'
  <1>1. CASE Push
    <2>1. PICK s \in Streams : push_buffer(s)  BY <1>1 DEF Push
    <2>2. Append(output_buffers[s], pushed[s] + 1) \in Seq(Nat)  BY DEF TypeOK
    <2> QED BY <2>1, <2>2 DEF push_buffer, NotifyAll, TypeOK
  <1>2. CASE Done  BY <1>2 DEF Done, mark_done, NotifyAll, TypeOK
  <1>3. CASE EnterCall  BY <1>3 DEF EnterCall, Enter, TypeOK
  <1>4. CASE FallAsleep  BY <1>4 DEF FallAsleep, Sleep, TypeOK
  <1>5. CASE ReturnFromCall
    <2>1. PICK c \in Callers : Return(c)  BY <1>5 DEF ReturnFromCall
    <2>2. call[c] \in Calls  BY <2>1, CallType DEF Return
    <2>3. call' \in [Callers -> Calls \cup {Idle}]  BY <2>1 DEF Return, TypeOK
    <2>4. answer' \in [Callers -> Answers]  BY <2>1 DEF Return, Outcome, TypeOK, Answers
    <2>5. taken' \in [Streams -> Seq(Nat)] /\ output_buffers' \in [Streams -> Seq(Nat)]
      <3>1. CASE call[c].fn = "get_next" /\ HasOutput(call[c])
        <4> DEFINE s == call[c].stream
        <4>1. s \in Streams /\ output_buffers[s] # <<>>  BY <3>1, <2>2, CallCases DEF HasOutput
        <4>2. /\ taken[s] \in Seq(Nat)
              /\ Head(output_buffers[s]) \in Nat /\ Tail(output_buffers[s]) \in Seq(Nat)
          BY <4>1, Pop DEF TypeOK
        <4>3. Append(taken[s], Head(output_buffers[s])) \in Seq(Nat)  BY <4>2
        <4>4. /\ taken' = [taken EXCEPT ![s] = Append(@, Head(output_buffers[s]))]
              /\ output_buffers' = [output_buffers EXCEPT ![s] = Tail(@)]
          BY <2>1, <3>1 DEF Return, Rest
        <4> QED BY <4>2, <4>3, <4>4 DEF TypeOK
      <3>2. CASE ~(call[c].fn = "get_next" /\ HasOutput(call[c]))  BY <2>1, <3>2 DEF Return, TypeOK
      <3> QED BY <3>1, <3>2
    <2> QED BY <2>1, <2>3, <2>4, <2>5 DEF Return, TypeOK
  <1>6. CASE UNCHANGED vars  BY <1>6 DEF vars, TypeOK
  <1> QED BY <1>1, <1>2, <1>3, <1>4, <1>5, <1>6 DEF Next

(* Every behaviour of a handle stays within its types.                      *)
THEOREM HandleTypes == SafeSpec => []TypeOK
  BY InitTypeOK, NextTypeOK, PTL DEF SafeSpec

----
LEMMA NextNoLostWakeup ==
  ASSUME TypeOK, NoLostWakeup, [Next]_vars
  PROVE  NoLostWakeup'
  <1>1. CASE Push \/ Done  BY <1>1 DEF Push, Done, push_buffer, mark_done, NotifyAll, NoLostWakeup
  <1>2. CASE EnterCall
    <2>1. PICK c \in Callers, k \in Calls : Enter(c, k)  BY <1>2 DEF EnterCall
    <2>2. c \notin asleep  BY <2>1 DEF Enter, NoLostWakeup
    <2>3. \A d \in asleep : call'[d] = call[d]  BY <2>1, <2>2 DEF Enter, TypeOK
    <2> QED
      BY <2>1, <2>3 DEF Enter, NoLostWakeup, Ready, any_stream_output_available,
                        any_memory_in_flight
  <1>3. CASE FallAsleep
    BY <1>3 DEF FallAsleep, Sleep, NoLostWakeup, Ready, any_stream_output_available,
                any_memory_in_flight
  <1>4. CASE ReturnFromCall
    <2>1. PICK c \in Callers : Return(c)  BY <1>4 DEF ReturnFromCall
    <2>2. /\ c \notin asleep /\ asleep' = asleep
          /\ finished_streams' = finished_streams
          /\ \A d \in asleep : call'[d] = call[d]
      BY <2>1 DEF Return, TypeOK
    <2>3. ASSUME NEW s \in Streams, output_buffers[s] = <<>>
          PROVE  output_buffers'[s] = <<>>
      BY <2>1, <2>3, CallType, CallCases DEF Return, HasOutput, TypeOK
    <2>4. ASSUME NEW d \in asleep
          PROVE  ~Ready(call[d])'
      <3>1. ~Ready(call[d]) /\ call[d] \in Calls  BY CallType DEF NoLostWakeup, TypeOK
      <3>2. CASE call[d].fn = "any_has_more"
        BY <2>2, <2>3, <3>1, <3>2 DEF Ready, any_stream_output_available, any_memory_in_flight
      <3>3. CASE call[d].fn # "any_has_more"
        <4>1. call[d].stream \in Streams /\ output_buffers[call[d].stream] = <<>>
              /\ call[d].stream \notin finished_streams
          BY <3>1, <3>3, CallCases DEF Ready
        <4> QED BY <4>1, <2>2, <2>3, <3>3 DEF Ready
      <3> QED BY <3>2, <3>3
    <2> QED BY <2>2, <2>4 DEF NoLostWakeup
  <1>5. CASE UNCHANGED vars
    BY <1>5 DEF vars, NoLostWakeup, Ready, any_stream_output_available, any_memory_in_flight
  <1> QED BY <1>1, <1>2, <1>3, <1>4, <1>5 DEF Next

(* No caller sleeps while what it waits for is there, for any number of     *)
(* callers on any streams.                                                  *)
THEOREM NoWakeupLost == SafeSpec => []NoLostWakeup
  <1>1. Init => NoLostWakeup  BY DEF Init, NoLostWakeup
  <1> QED BY <1>1, NextNoLostWakeup, HandleTypes, PTL DEF SafeSpec

----
LEMMA Count ==
  ASSUME NEW n \in Nat
  PROVE  Append([i \in 1 .. n |-> i], n + 1) = [i \in 1 .. n + 1 |-> i]
  <1> DEFINE q == [i \in 1 .. n |-> i]
  <1> DEFINE r == [i \in 1 .. n + 1 |-> i]
  <1>1. q \in Seq(Nat) /\ Len(q) = n /\ r \in Seq(Nat) /\ Len(r) = n + 1  OBVIOUS
  <1>2. Append(q, n + 1) \in Seq(Nat) /\ Len(Append(q, n + 1)) = n + 1  BY <1>1, AppendProperties
  <1>3. \A i \in 1 .. n + 1 : Append(q, n + 1)[i] = r[i]  BY <1>1, AppendProperties
  <1> HIDE DEF q, r
  <1>4. Append(q, n + 1) = r  BY <1>1, <1>2, <1>3, SeqEqual
  <1> QED BY <1>4 DEF q, r

(* Only a call that hands out a buffer changes what was taken.              *)
LEMMA ReturnEffect ==
  ASSUME TypeOK, NEW c \in Callers, Return(c)
  PROVE  /\ call[c] \in Calls
         /\ \/ /\ answer'[c] = "buffer"
               /\ \E s \in Streams :
                    /\ s = call[c].stream
                    /\ call[c].fn = "get_next"
                    /\ output_buffers[s] # <<>>
                    /\ taken' = [taken EXCEPT ![s] = Append(@, Head(output_buffers[s]))]
                    /\ output_buffers' = [output_buffers EXCEPT ![s] = Tail(@)]
            \/ /\ answer'[c] = Outcome(call[c])
               /\ call[c].fn = "get_next" => ~HasOutput(call[c])
               /\ UNCHANGED <<taken, output_buffers>>
  <1>1. call[c] \in Calls  BY CallType DEF Return
  <1>2. CASE call[c].fn = "get_next" /\ HasOutput(call[c])
    <2>1. call[c].stream \in Streams /\ output_buffers[call[c].stream] # <<>>
      BY <1>1, <1>2, CallCases DEF HasOutput
    <2>2. answer'[c] = "buffer"  BY <1>2 DEF Return, TypeOK
    <2>3. /\ taken' = [taken EXCEPT ![call[c].stream] =
                         Append(@, Head(output_buffers[call[c].stream]))]
          /\ output_buffers' = [output_buffers EXCEPT ![call[c].stream] = Tail(@)]
      BY <1>2 DEF Return, Rest
    <2> QED BY <1>1, <1>2, <2>1, <2>2, <2>3
  <1>3. CASE ~(call[c].fn = "get_next" /\ HasOutput(call[c]))
    <2>1. answer' = [answer EXCEPT ![c] = Outcome(call[c])] /\ UNCHANGED <<taken, output_buffers>>
      BY <1>3 DEF Return
    <2>2. answer'[c] = Outcome(call[c])  BY <2>1 DEF TypeOK
    <2> QED BY <1>1, <1>3, <2>1, <2>2
  <1> QED BY <1>2, <1>3

LEMMA NextTakenOnce ==
  ASSUME TypeOK, TakenOnce, [Next]_vars
  PROVE  TakenOnce'
  <1>1. CASE Push
    <2>1. PICK s \in Streams : push_buffer(s)  BY <1>1 DEF Push
    <2>2. /\ taken' = taken
          /\ pushed' = [pushed EXCEPT ![s] = pushed[s] + 1]
          /\ output_buffers' = [output_buffers EXCEPT ![s] = Append(output_buffers[s], pushed[s] + 1)]
      BY <2>1 DEF push_buffer
    <2>3. /\ taken[s] \in Seq(Nat) /\ output_buffers[s] \in Seq(Nat)
          /\ pushed[s] \in Nat
      BY DEF TypeOK
    <2>4. taken[s] \o Append(output_buffers[s], pushed[s] + 1)
            = Append(taken[s] \o output_buffers[s], pushed[s] + 1)
      <3>1. pushed[s] + 1 \in Nat  BY <2>3
      <3>2. \A q, r \in Seq(Nat), n \in Nat : q \o Append(r, n) = Append(q \o r, n)
        <4> TAKE q, r \in Seq(Nat), n \in Nat
        <4>1. Append(r, n) = r \o <<n>> /\ Append(q \o r, n) = (q \o r) \o <<n>>
          BY AppendIsConcat, ConcatProperties
        <4>2. <<n>> \in Seq(Nat)  OBVIOUS
        <4> QED BY <4>1, <4>2, ConcatAssociative
      <3> QED BY <2>3, <3>1, <3>2
    <2>5. taken[s] \o output_buffers[s] = [i \in 1 .. pushed[s] |-> i]  BY DEF TakenOnce
    <2>6. taken[s] \o Append(output_buffers[s], pushed[s] + 1) = [i \in 1 .. pushed[s] + 1 |-> i]
      BY <2>3, <2>4, <2>5, Count
    <2>7. /\ taken'[s] = taken[s] /\ pushed'[s] = pushed[s] + 1
          /\ output_buffers'[s] = Append(output_buffers[s], pushed[s] + 1)
          /\ \A t \in Streams \ {s} : taken'[t] = taken[t] /\ pushed'[t] = pushed[t]
                                      /\ output_buffers'[t] = output_buffers[t]
      BY <2>2 DEF TypeOK
    <2>8. ASSUME NEW t \in Streams
          PROVE  taken'[t] \o output_buffers'[t] = [i \in 1 .. pushed'[t] |-> i]
      <3>1. CASE t = s  BY <3>1, <2>6, <2>7
      <3>2. CASE t # s  BY <3>2, <2>7 DEF TakenOnce
      <3> QED BY <3>1, <3>2
    <2> QED BY <2>8 DEF TakenOnce
  <1>2. CASE Done \/ EnterCall \/ FallAsleep \/ UNCHANGED vars
    <2>1. UNCHANGED <<taken, output_buffers, pushed>>
      BY <1>2 DEF Done, EnterCall, FallAsleep, mark_done, Enter, Sleep, vars
    <2> QED BY <2>1 DEF TakenOnce
  <1>3. CASE ReturnFromCall
    <2>1. PICK c \in Callers : Return(c)  BY <1>3 DEF ReturnFromCall
    <2>2. pushed' = pushed  BY <2>1 DEF Return
    <2>3. CASE UNCHANGED <<taken, output_buffers>>  BY <2>2, <2>3 DEF TakenOnce
    <2>4. CASE ~UNCHANGED <<taken, output_buffers>>
      <3>1. PICK s \in Streams :
              /\ output_buffers[s] # <<>>
              /\ taken' = [taken EXCEPT ![s] = Append(@, Head(output_buffers[s]))]
              /\ output_buffers' = [output_buffers EXCEPT ![s] = Tail(@)]
        BY <2>1, <2>4, ReturnEffect
      <3>2. taken[s] \in Seq(Nat) /\ output_buffers[s] \in Seq(Nat)  BY DEF TypeOK
      <3>3. Append(taken[s], Head(output_buffers[s])) \o Tail(output_buffers[s])
              = taken[s] \o output_buffers[s]
        BY <3>1, <3>2, Pop
      <3>4. /\ taken'[s] = Append(taken[s], Head(output_buffers[s]))
            /\ output_buffers'[s] = Tail(output_buffers[s])
            /\ \A t \in Streams \ {s} : taken'[t] = taken[t]
                                        /\ output_buffers'[t] = output_buffers[t]
        BY <3>1 DEF TypeOK
      <3>5. ASSUME NEW t \in Streams
            PROVE  taken'[t] \o output_buffers'[t] = taken[t] \o output_buffers[t]
        BY <3>3, <3>4
      <3> QED BY <2>2, <3>5 DEF TakenOnce
    <2> QED BY <2>3, <2>4
  <1> QED BY <1>1, <1>2, <1>3 DEF Next

(* However many callers race for the output of however many streams, every  *)
(* buffer goes to one of them, in the order of the FPGA.                    *)
THEOREM OutputTakenOnce == SafeSpec => []TakenOnce
  <1>1. Init => TakenOnce
    <2> SUFFICES ASSUME Init, NEW s \in Streams
                 PROVE  taken[s] \o output_buffers[s] = [i \in 1 .. pushed[s] |-> i]
      BY DEF TakenOnce
    <2>1. taken[s] = <<>> /\ output_buffers[s] = <<>> /\ pushed[s] = 0  BY DEF Init
    <2>2. <<>> \o <<>> = [i \in 1 .. 0 |-> i]  OBVIOUS
    <2> QED BY <2>1, <2>2
  <1> QED BY <1>1, NextTakenOnce, HandleTypes, PTL DEF SafeSpec

----
(* Without output left, everything pushed was taken.                        *)
LEMMA AllTaken ==
  ASSUME TypeOK, TakenOnce, NEW s \in Streams, output_buffers[s] = <<>>
  PROVE  Len(taken[s]) = pushed[s]
  <1>1. taken[s] \in Seq(Nat) /\ pushed[s] \in Nat  BY DEF TypeOK
  <1>2. taken[s] \o <<>> = [i \in 1 .. pushed[s] |-> i]  BY DEF TakenOnce
  <1>3. taken[s] \o <<>> = taken[s]  BY <1>1, ConcatEmptySeq
  <1>4. Len([i \in 1 .. pushed[s] |-> i]) = pushed[s]  BY <1>1
  <1> QED BY <1>2, <1>3, <1>4

LEMMA StepEndIsFinal ==
  ASSUME TypeOK, TakenOnce, [Next]_vars, NEW c \in Callers,
         call[c] # Idle, call'[c] = Idle, answer'[c] \in {"nullptr", "false"}
  PROVE  Ended(call[c])
  <1>1. Return(c)
    <2>1. CASE ReturnFromCall
      <3>1. PICK d \in Callers : Return(d)  BY <2>1 DEF ReturnFromCall
      <3>2. call'[c] = IF c = d THEN Idle ELSE call[c]  BY <3>1 DEF Return, TypeOK
      <3> QED BY <3>1, <3>2
    <2>2. CASE EnterCall
      <3>1. PICK d \in Callers, k \in Calls : Enter(d, k)  BY <2>2 DEF EnterCall
      <3>2. call'[c] = IF c = d THEN k ELSE call[c]  BY <3>1 DEF Enter, TypeOK
      <3> QED BY <3>1, <3>2 DEF Enter
    <2>3. CASE Push \/ Done \/ FallAsleep \/ UNCHANGED vars
      BY <2>3 DEF Push, Done, FallAsleep, push_buffer, mark_done, Sleep, vars
    <2> QED BY <2>1, <2>2, <2>3 DEF Next
  <1>2. call[c] \in Calls  BY CallType
  <1>3. answer'[c] = Outcome(call[c]) /\ (call[c].fn = "get_next" => ~HasOutput(call[c]))
    BY <1>1, ReturnEffect
  <1>4. ~HasOutput(call[c]) /\ Ready(call[c])  BY <1>1, <1>3 DEF Outcome, Return
  <1>5. CASE call[c].fn = "any_has_more"
    <2>1. \A s \in Streams : output_buffers[s] = <<>> /\ s \in finished_streams
      BY <1>4, <1>5 DEF HasOutput, Ready, any_stream_output_available, any_memory_in_flight
    <2> QED BY <1>5, <2>1, AllTaken DEF Ended
  <1>6. CASE call[c].fn # "any_has_more"
    <2>1. /\ call[c].stream \in Streams
          /\ output_buffers[call[c].stream] = <<>>
          /\ call[c].stream \in finished_streams
      BY <1>2, <1>4, <1>6, CallCases DEF HasOutput, Ready
    <2> QED BY <1>6, <2>1, AllTaken DEF Ended
  <1> QED BY <1>5, <1>6

(* A caller that is told there is no more output has not missed any: its    *)
(* streams are done and everything they produced was taken.                 *)
THEOREM NoOutputMeansEnd == SafeSpec => EndIsFinal
  <1>1. TypeOK /\ TakenOnce /\ [Next]_vars
          => [\A c \in Callers :
                call[c] # Idle /\ call'[c] = Idle /\ answer'[c] \in {"nullptr", "false"}
                  => Ended(call[c])]_vars
    BY StepEndIsFinal
  <1> QED BY <1>1, HandleTypes, OutputTakenOnce, PTL DEF SafeSpec, EndIsFinal

----
(* Refinement.                                                              *)

LEMMA HandleImplementsInit == Init => Contract!Init
  <1> SUFFICES ASSUME Init PROVE Contract!Init  OBVIOUS
  <1>1. [s \in Streams |-> Len(output_buffers[s])] = [s \in Streams |-> 0]  BY DEF Init
  <1>2. [c \in Callers |-> Awaited(call[c])] = [c \in Callers |-> {}]  BY DEF Init, Awaited
  <1>3. finished_streams = {}  BY DEF Init
  <1> QED BY <1>1, <1>2, <1>3 DEF Contract!Init

LEMMA HandleImplementsNext ==
  ASSUME TypeOK, [Next]_vars
  PROVE  [Contract!Next]_Contract!vars
  <1> DEFINE available == [s \in Streams |-> Len(output_buffers[s])]
             waits == [c \in Callers |-> Awaited(call[c])]
  <1>0. output_buffers \in [Streams -> Seq(Nat)] /\ output_buffers' \in [Streams -> Seq(Nat)]
    BY NextTypeOK DEF TypeOK
  <1>1. CASE Push
    <2>1. PICK s \in Streams : push_buffer(s)  BY <1>1 DEF Push
    <2>2. output_buffers' = [output_buffers EXCEPT ![s] = Append(@, pushed[s] + 1)]
      BY <2>1 DEF push_buffer
    <2>3. Len(Append(output_buffers[s], pushed[s] + 1)) = Len(output_buffers[s]) + 1  BY <1>0
    <2>4. available' = [available EXCEPT ![s] = @ + 1]  BY <1>0, <2>2, <2>3
    <2>5. s \notin finished_streams /\ finished_streams' = finished_streams /\ waits' = waits
      BY <2>1 DEF push_buffer
    <2> HIDE DEF available, waits
    <2>6. Contract!Produce(s)  BY <2>4, <2>5 DEF Contract!Produce, available, waits
    <2> QED BY <2>6 DEF Contract!Next
  <1>2. CASE Done
    <2>1. PICK s \in Streams : mark_done(s)  BY <1>2 DEF Done
    <2>2. Contract!End(s)  BY <2>1 DEF mark_done, Contract!End
    <2> QED BY <2>2 DEF Contract!Next
  <1>3. CASE EnterCall
    <2>1. PICK c \in Callers, k \in Calls : Enter(c, k)  BY <1>3 DEF EnterCall
    <2>2. available' = available /\ finished_streams' = finished_streams  BY <2>1 DEF Enter
    <2>3. call' = [call EXCEPT ![c] = k] /\ call[c] = Idle  BY <2>1 DEF Enter
    <2>4. waits' = [waits EXCEPT ![c] = Awaited(k)] /\ waits[c] = {}  BY <2>3 DEF Awaited, TypeOK
    <2>5. Awaited(k) \in SUBSET Streams  BY CallCases DEF Awaited
    <2> HIDE DEF available, waits
    <2>6. CASE Awaited(k) # {}
      <3>1. Contract!Ask(c)  BY <2>2, <2>4, <2>5, <2>6 DEF Contract!Ask, available, waits
      <3> QED BY <3>1 DEF Contract!Next
    <2>7. CASE Awaited(k) = {}
      <3>1. waits' = waits  BY <2>4, <2>7 DEF waits
      <3> QED BY <2>2, <3>1 DEF Contract!vars, available, waits
    <2> QED BY <2>6, <2>7
  <1>4. CASE FallAsleep \/ UNCHANGED vars  BY <1>4 DEF FallAsleep, Sleep, vars, Contract!vars
  <1>5. CASE ReturnFromCall
    <2>1. PICK c \in Callers : Return(c)  BY <1>5 DEF ReturnFromCall
    <2> DEFINE k == call[c]
    <2>2. k \in Calls /\ Ready(k) /\ finished_streams' = finished_streams
      BY <2>1, ReturnEffect DEF Return
    <2>3. call' = [call EXCEPT ![c] = Idle]  BY <2>1 DEF Return
    <2>4. waits' = [waits EXCEPT ![c] = {}] /\ waits[c] = Awaited(k)  BY <2>3 DEF Awaited, TypeOK
    <2>5. /\ Awaited(k) \subseteq Streams
          /\ k.fn # "any_has_more" => Awaited(k) = {k.stream} /\ k.stream \in Streams
          /\ k.fn = "any_has_more" => Awaited(k) = Streams
      BY <2>2, CallCases DEF Awaited
    <2>6. /\ \A s \in Streams : output_buffers[s] # <<>> => available[s] > 0
          /\ (\E s \in Awaited(k) : output_buffers[s] # <<>>) \/ Awaited(k) \subseteq finished_streams
      <3>1. \A s \in Streams : output_buffers[s] # <<>> => available[s] > 0  BY <1>0
      <3> QED BY <2>2, <2>5, <3>1 DEF Ready, any_stream_output_available, any_memory_in_flight
    <2>7. \/ available' = available
          \/ \E s \in Awaited(k) : /\ available[s] > 0
                                   /\ available' = [available EXCEPT ![s] = @ - 1]
      <3>1. CASE UNCHANGED output_buffers  BY <3>1
      <3>2. CASE ~UNCHANGED output_buffers
        <4>1. PICK s \in Streams :
                /\ s = k.stream /\ k.fn = "get_next"
                /\ output_buffers[s] # <<>>
                /\ output_buffers' = [output_buffers EXCEPT ![s] = Tail(@)]
          BY <2>1, <3>2, ReturnEffect
        <4>2. s \in Awaited(k) /\ available[s] > 0  BY <2>5, <2>6, <4>1
        <4>3. Len(Tail(output_buffers[s])) = Len(output_buffers[s]) - 1  BY <1>0, <4>1, Pop
        <4>4. available' = [available EXCEPT ![s] = @ - 1]  BY <1>0, <4>1, <4>3
        <4> QED BY <4>2, <4>4
      <3> QED BY <3>1, <3>2
    <2> HIDE DEF available, waits, k
    <2>8. CASE Awaited(k) # {}
      <3>1. (\E s \in waits[c] : available[s] > 0) \/ waits[c] \subseteq finished_streams
        BY <2>4, <2>5, <2>6
      <3>2. Contract!CanAnswer(c)  BY <2>4, <2>8, <3>1 DEF Contract!CanAnswer, available, waits
      <3>3. available' = available
              \/ \E s \in waits[c] : available[s] > 0 /\ available' = [available EXCEPT ![s] = @ - 1]
        BY <2>4, <2>7
      <3>4. Contract!Answer(c)  BY <2>2, <2>4, <3>2, <3>3 DEF Contract!Answer, available, waits
      <3> QED BY <3>4 DEF Contract!Next
    <2>9. CASE Awaited(k) = {}
      <3>1. waits' = waits /\ available' = available  BY <2>4, <2>7, <2>9 DEF waits
      <3> QED BY <2>2, <3>1 DEF Contract!vars, available, waits
    <2> QED BY <2>8, <2>9
  <1> QED BY <1>1, <1>2, <1>3, <1>4, <1>5 DEF Next

(* Every step of the handle is a step of its contract or changes nothing     *)
(* the callers can see; the fairness of the contract is left to TLC.         *)
THEOREM HandleImplementsContract == SafeSpec => Contract!SafeSpec
  BY HandleImplementsInit, HandleImplementsNext, HandleTypes, PTL
     DEF SafeSpec, Contract!SafeSpec

=============================================================================
