-------------------------- MODULE OutputWriterProofs --------------------------
(***************************************************************************)
(* Properties of the sharing, for any number of streams and ports.          *)
(*                                                                         *)
(* The round-robin arbiter starves nobody, so no port's notification waits   *)
(* for more than one of every other port.  The argument counts how far the   *)
(* turn is from an input that has data: whatever input is selected, the turn *)
(* moves on by one, and when it is on an input with data, that is selected.  *)
(*                                                                         *)
(* Every completion reaches the writer whose transfer it is for.  All that a *)
(* stream has under way, from the completion at the demultiplexer back to    *)
(* the request that just left its writer, is one sequence, the Chain.  Its   *)
(* parts hand elements on without changing it; requests enter at its end     *)
(* and completions leave at its front, with the order FIFO beside it.        *)
(*                                                                         *)
(* Every beat is for the oldest request that still lacks data.  The requests *)
(* under way are parted in two: those at the front whose data is all sent to *)
(* the shell, and those that the data order FIFO names, one by one.          *)
(* Only the writer of the oldest of the latter may have begun to send, so    *)
(* no beat of another writer gets in between.                                *)
(***************************************************************************)
EXTENDS OutputWriter, NumberInduction, SequenceTheorems

\* How many selections the turn is away from input p.
Distance(rr, p, n) == IF p >= rr THEN p - rr ELSE p - rr + n

LEMMA DistanceBound ==
  ASSUME NEW n \in Nat \ {0}, NEW rr \in 0 .. n - 1, NEW p \in 0 .. n - 1
  PROVE  Distance(rr, p, n) \in 0 .. n - 1
  BY DEF Distance

----
(* The ports of the streams.                                                *)

\* The first n + 1 ports of the streams.
IsStart(n, g) == g = [s \in 0 .. n |-> IF s = 0 THEN 0 ELSE g[s - 1] + PORTS_PER_STREAM[s - 1]]

LEMMA StartExists == \A n \in Nat : \E g : IsStart(n, g)
  <1> DEFINE S == {n \in Nat : \E g : IsStart(n, g)}
  <1>1. 0 \in S
    <2> DEFINE g == [s \in 0 .. 0 |-> 0]
    <2>1. g = [s \in 0 .. 0 |-> IF s = 0 THEN 0 ELSE g[s - 1] + PORTS_PER_STREAM[s - 1]]  OBVIOUS
    <2>2. IsStart(0, g)  BY <2>1 DEF IsStart
    <2> QED BY <2>2
  <1>2. ASSUME NEW n \in Nat, n \in S
        PROVE  n + 1 \in S
    <2>1. PICK g : IsStart(n, g)  BY <1>2
    <2> DEFINE h == [s \in 0 .. n + 1 |-> IF s = n + 1 THEN g[n] + PORTS_PER_STREAM[n] ELSE g[s]]
    <2>2. g = [s \in 0 .. n |-> IF s = 0 THEN 0 ELSE g[s - 1] + PORTS_PER_STREAM[s - 1]]
      BY <2>1 DEF IsStart
    <2>3. ASSUME NEW s \in 0 .. n + 1
          PROVE  h[s] = IF s = 0 THEN 0 ELSE h[s - 1] + PORTS_PER_STREAM[s - 1]
      <3>1. CASE s = n + 1
        <4>1. h[s] = g[n] + PORTS_PER_STREAM[n] /\ s - 1 = n /\ s # 0 /\ s - 1 \in 0 .. n + 1
          BY <3>1
        <4>2. h[s - 1] = g[n]  BY <4>1
        <4> QED BY <4>1, <4>2
      <3>2. CASE s # n + 1
        <4>1. s \in 0 .. n /\ h[s] = g[s]  BY <3>2
        <4>2. s # 0 => s - 1 \in 0 .. n /\ s - 1 # n + 1 /\ s - 1 \in 0 .. n + 1  BY <4>1
        <4>3. s # 0 => h[s - 1] = g[s - 1]  BY <4>2
        <4>4. g[s] = IF s = 0 THEN 0 ELSE g[s - 1] + PORTS_PER_STREAM[s - 1]  BY <2>2, <4>1
        <4> QED BY <4>1, <4>3, <4>4
      <3> QED BY <3>1, <3>2
    <2>4. h = [s \in 0 .. n + 1 |-> h[s]]  OBVIOUS
    <2> HIDE DEF h
    <2>5. IsStart(n + 1, h)  BY <2>3, <2>4 DEF IsStart
    <2> QED BY <2>5
  <1> HIDE DEF S
  <1>3. \A n \in Nat : n \in S  BY <1>1, <1>2, SetInduction
  <1> QED BY <1>3 DEF S

LEMMA StartUnique ==
  ASSUME NEW n \in Nat, NEW m \in Nat, NEW g, NEW h, IsStart(n, g), IsStart(m, h)
  PROVE  \A s \in Nat : s <= n /\ s <= m => g[s] = h[s]
  <1> DEFINE S == {s \in Nat : s <= n /\ s <= m => g[s] = h[s]}
  <1>1. g = [s \in 0 .. n |-> IF s = 0 THEN 0 ELSE g[s - 1] + PORTS_PER_STREAM[s - 1]]
    BY DEF IsStart
  <1>2. h = [s \in 0 .. m |-> IF s = 0 THEN 0 ELSE h[s - 1] + PORTS_PER_STREAM[s - 1]]
    BY DEF IsStart
  <1>3. 0 \in S
    <2>1. 0 \in 0 .. n /\ 0 \in 0 .. m  OBVIOUS
    <2>2. g[0] = 0 /\ h[0] = 0  BY <1>1, <1>2, <2>1
    <2> QED BY <2>2
  <1>4. ASSUME NEW s \in Nat, s \in S
        PROVE  s + 1 \in S
    <2> SUFFICES ASSUME s + 1 <= n, s + 1 <= m PROVE g[s + 1] = h[s + 1]  OBVIOUS
    <2>1. s + 1 \in 0 .. n /\ s + 1 \in 0 .. m /\ s + 1 # 0 /\ (s + 1) - 1 = s  OBVIOUS
    <2>2. g[s + 1] = g[s] + PORTS_PER_STREAM[s]  BY <1>1, <2>1
    <2>3. h[s + 1] = h[s] + PORTS_PER_STREAM[s]  BY <1>2, <2>1
    <2>4. g[s] = h[s]  BY <1>4
    <2> QED BY <2>2, <2>3, <2>4
  <1> HIDE DEF S
  <1>5. \A s \in Nat : s \in S  BY <1>3, <1>4, SetInduction
  <1> QED BY <1>5 DEF S

LEMMA FirstPort ==
  /\ first_port[0] = 0
  /\ \A s \in Nat : first_port[s + 1] = first_port[s] + PORTS_PER_STREAM[s]
  <1> DEFINE G(n) == CHOOSE g : IsStart(n, g)
             f == [n \in Nat |-> G(n)[n]]
  <1>1. \A n \in Nat : IsStart(n, G(n))  BY StartExists
  <1> HIDE DEF G
  <1>2. ASSUME NEW n \in Nat
        PROVE  f[n] = IF n = 0 THEN 0 ELSE f[n - 1] + PORTS_PER_STREAM[n - 1]
    <2>1. IsStart(n, G(n)) /\ n \in 0 .. n  BY <1>1
    <2>2. G(n)[n] = IF n = 0 THEN 0 ELSE G(n)[n - 1] + PORTS_PER_STREAM[n - 1]  BY <2>1 DEF IsStart
    <2>3. n # 0 => n - 1 \in Nat /\ n - 1 <= n /\ n - 1 <= n - 1  OBVIOUS
    <2>4. n # 0 => G(n)[n - 1] = G(n - 1)[n - 1]
      <3> SUFFICES ASSUME n # 0 PROVE G(n)[n - 1] = G(n - 1)[n - 1]  OBVIOUS
      <3> DEFINE k == n - 1
      <3>1. k \in Nat /\ k <= n /\ k <= k  BY <2>3
      <3> HIDE DEF k
      <3>2. IsStart(n, G(n)) /\ IsStart(k, G(k))  BY <1>1, <3>1
      <3>3. G(n)[k] = G(k)[k]  BY <3>1, <3>2, StartUnique
      <3> QED BY <3>3 DEF k
    <2>5. f[n] = G(n)[n] /\ (n # 0 => f[n - 1] = G(n - 1)[n - 1])  BY <2>3
    <2> QED BY <2>2, <2>4, <2>5
  <1>3. f = [n \in Nat |-> f[n]]  OBVIOUS
  <1> HIDE DEF f
  <1>4. f = [n \in Nat |-> IF n = 0 THEN 0 ELSE f[n - 1] + PORTS_PER_STREAM[n - 1]]  BY <1>2, <1>3
  <1>5. first_port = [s \in Nat |-> IF s = 0 THEN 0 ELSE first_port[s - 1] + PORTS_PER_STREAM[s - 1]]
    BY <1>4 DEF first_port
  <1>6. ASSUME NEW s \in Nat
        PROVE  first_port[s + 1] = first_port[s] + PORTS_PER_STREAM[s]
    <2>1. s + 1 \in Nat /\ s + 1 # 0 /\ (s + 1) - 1 = s  OBVIOUS
    <2> QED BY <1>5, <2>1
  <1>7. first_port[0] = 0  BY <1>5
  <1> QED BY <1>6, <1>7

LEMMA StartType == \A s \in Nat : s <= NUM_STREAMS => first_port[s] \in Nat
  <1> DEFINE S == {s \in Nat : s <= NUM_STREAMS => first_port[s] \in Nat}
  <1>1. 0 \in S  BY FirstPort
  <1>2. ASSUME NEW s \in Nat, s \in S
        PROVE  s + 1 \in S
    <2> SUFFICES ASSUME s + 1 <= NUM_STREAMS PROVE first_port[s + 1] \in Nat  OBVIOUS
    <2>1. s \in streams  BY OutputWriterAssumption DEF streams
    <2>2. PORTS_PER_STREAM[s] \in Nat \ {0}  BY <2>1, OutputWriterAssumption
    <2>3. first_port[s] \in Nat  BY <1>2, OutputWriterAssumption
    <2> QED BY <2>2, <2>3, FirstPort
  <1> HIDE DEF S
  <1>3. \A s \in Nat : s \in S  BY <1>1, <1>2, SetInduction
  <1> QED BY <1>3 DEF S

\* The ports below the first port of a stream belong to the streams below it.
LEMMA PortsCovered ==
  \A s \in Nat : s <= NUM_STREAMS =>
    \A p \in 0 .. first_port[s] - 1 :
      \E u \in streams : first_port[u] <= p /\ p < first_port[u + 1]
  <1> DEFINE Covered(s) == \A p \in 0 .. first_port[s] - 1 :
               \E u \in streams : first_port[u] <= p /\ p < first_port[u + 1]
             S == {s \in Nat : s <= NUM_STREAMS => Covered(s)}
  <1>1. 0 \in S  BY FirstPort
  <1>2. ASSUME NEW s \in Nat, s \in S
        PROVE  s + 1 \in S
    <2> SUFFICES ASSUME s + 1 <= NUM_STREAMS, NEW p \in 0 .. first_port[s + 1] - 1
                 PROVE  \E u \in streams : first_port[u] <= p /\ p < first_port[u + 1]
      OBVIOUS
    <2>1. s \in streams /\ s <= NUM_STREAMS  BY OutputWriterAssumption DEF streams
    <2>2. first_port[s] \in Nat /\ first_port[s + 1] \in Nat  BY <2>1, StartType
    <2>3. CASE p < first_port[s]
      <3>1. p \in 0 .. first_port[s] - 1  BY <2>2, <2>3
      <3>2. Covered(s)  BY <1>2, <2>1
      <3> QED BY <3>1, <3>2
    <2>4. CASE first_port[s] <= p  BY <2>1, <2>2, <2>4
    <2> QED BY <2>2, <2>3, <2>4
  <1> HIDE DEF S
  <1>3. \A s \in Nat : s \in S  BY <1>1, <1>2, SetInduction
  <1> QED BY <1>3 DEF S

\* The place of a port among the writers of its stream.
LEMMA PortFacts ==
  ASSUME NEW p \in ports
  PROVE  /\ Stream(p) \in streams
         /\ Writer(p) \in 0 .. PORTS_PER_STREAM[Stream(p)] - 1
         /\ first_port[Stream(p)] \in Nat /\ p = first_port[Stream(p)] + Writer(p)
  <1>1. NUM_STREAMS \in Nat /\ NUM_STREAMS <= NUM_STREAMS  BY OutputWriterAssumption
  <1>2. p \in 0 .. first_port[NUM_STREAMS] - 1  BY DEF ports, NUM_PORTS
  <1>3. \E u \in streams : first_port[u] <= p /\ p < first_port[u + 1]  BY <1>1, <1>2, PortsCovered
  <1> DEFINE s == Stream(p)
  <1>4. s \in streams /\ first_port[s] <= p /\ p < first_port[s + 1]  BY <1>3 DEF Stream
  <1>5. PORTS_PER_STREAM[s] \in Nat \ {0} /\ s \in Nat /\ s <= NUM_STREAMS
    BY <1>1, <1>4, OutputWriterAssumption DEF streams
  <1>6. first_port[s] \in Nat /\ first_port[s + 1] = first_port[s] + PORTS_PER_STREAM[s]
    BY <1>5, StartType, FirstPort
  <1>7. Writer(p) = p - first_port[s] /\ p \in Int  BY <1>1, StartType DEF Writer, ports, NUM_PORTS
  <1> HIDE DEF s
  <1>8. p - first_port[s] \in 0 .. PORTS_PER_STREAM[s] - 1 /\ p = first_port[s] + (p - first_port[s])
    BY <1>4, <1>5, <1>6, <1>7
  <1> QED BY <1>4, <1>6, <1>7, <1>8 DEF s

LEMMA SomePorts == NUM_PORTS \in Nat \ {0}
  <1>1. NUM_STREAMS \in Nat \ {0} /\ NUM_STREAMS - 1 \in streams /\ NUM_STREAMS - 1 \in Nat
    BY OutputWriterAssumption DEF streams
  <1>2. first_port[NUM_STREAMS - 1] \in Nat  BY <1>1, StartType
  <1>3. PORTS_PER_STREAM[NUM_STREAMS - 1] \in Nat \ {0}  BY <1>1, OutputWriterAssumption
  <1>4. first_port[(NUM_STREAMS - 1) + 1] = first_port[NUM_STREAMS - 1] + PORTS_PER_STREAM[NUM_STREAMS - 1]
    BY <1>1, FirstPort
  <1>5. (NUM_STREAMS - 1) + 1 = NUM_STREAMS  BY <1>1
  <1> QED BY <1>2, <1>3, <1>4, <1>5 DEF NUM_PORTS

----
(* The turns of the notifications.                                          *)

(* An input that keeps its data in a selection is one step closer to its turn. *)
LEMMA LoadApproaches ==
  ASSUME NEW n \in Nat \ {0}, NEW a, a.rr \in 0 .. n - 1, DOMAIN a.buf = 0 .. n - 1,
         NEW p \in 0 .. n - 1, a.buf[p] # <<>>, p # input_stream_select(a)
  PROVE  Distance(Load(a, n).rr, p, n) = Distance(a.rr, p, n) - 1
  <1>1. p \in buf_valid(a)  BY DEF buf_valid
  <1>2. p # a.rr  BY <1>1 DEF input_stream_select
  <1>3. Load(a, n).rr = IF a.rr = n - 1 THEN 0 ELSE a.rr + 1  BY DEF Load
  <1> DEFINE rr == a.rr
             next == Load(a, n).rr
  <1>4. rr \in 0 .. n - 1 /\ p # rr /\ next = IF rr = n - 1 THEN 0 ELSE rr + 1  BY <1>2, <1>3
  <1> HIDE DEF rr, next
  <1>5. Distance(next, p, n) = Distance(rr, p, n) - 1  BY <1>4 DEF Distance
  <1> QED BY <1>5 DEF rr, next

----
(* Types of the notifications' way to the host.                             *)

Slot == {<<>>} \cup {<<p>> : p \in ports}
NotifyOK ==
  /\ notify_skid \in [ports -> Seq(ports)]
  /\ notify_arb \in [buf : [ports -> Slot], out : Slot, rr : ports]
  /\ waited \in [ports -> Nat]

(* An input without data has not waited; one that has data, has waited no longer than *)
(* the turn is away.                                                         *)
Turns ==
  \A p \in ports :
    IF notify_arb.buf[p] = <<>> THEN waited[p] = 0
    ELSE waited[p] + Distance(notify_arb.rr, p, NUM_PORTS) <= NUM_PORTS - 1

TurnInv == NotifyOK /\ Turns

LEMMA InitTurns == Init => TurnInv
  <1> SUFFICES ASSUME Init PROVE TurnInv  OBVIOUS
  <1>1. notify_arb = [buf |-> [i \in ports |-> <<>>], out |-> <<>>, rr |-> 0]
    BY DEF Init, IdleArbiter, ports
  <1>2. 0 \in ports  BY SomePorts DEF ports
  <1>3. notify_arb \in [buf : [ports -> Slot], out : Slot, rr : ports]  BY <1>1, <1>2 DEF Slot
  <1>4. waited = [p \in ports |-> 0] /\ notify_skid = [p \in ports |-> <<>>]  BY DEF Init
  <1>5. Turns  BY <1>1, <1>4 DEF Turns
  <1> QED BY <1>3, <1>4, <1>5 DEF TurnInv, NotifyOK

LEMMA OfferTurns ==
  ASSUME TurnInv, NEW p \in ports, OfferNotification(p)
  PROVE  TurnInv'
  <1>1. /\ notify_skid[p] \in Seq(ports) /\ notify_skid[p] # <<>>
        /\ notify_skid' = [notify_skid EXCEPT ![p] = Tail(@)]
    BY DEF TurnInv, NotifyOK, OfferNotification
  <1>2. Head(notify_skid[p]) \in ports /\ Tail(notify_skid[p]) \in Seq(ports)  BY <1>1
  <1>3. /\ notify_arb.buf[p] = <<>> /\ waited' = waited
        /\ notify_arb' = [notify_arb EXCEPT !.buf[p] = <<Head(notify_skid[p])>>]
    BY DEF OfferNotification, CanAccept, Accept
  <1>4. /\ notify_arb' \in [buf : [ports -> Slot], out : Slot, rr : ports]
        /\ notify_arb'.rr = notify_arb.rr
        /\ \A q \in ports \ {p} : notify_arb'.buf[q] = notify_arb.buf[q]
    BY <1>2, <1>3 DEF TurnInv, NotifyOK, Slot
  <1>5. NotifyOK'  BY <1>1, <1>2, <1>3, <1>4 DEF TurnInv, NotifyOK
  <1>6. ASSUME NEW q \in ports
        PROVE  (IF notify_arb.buf[q] = <<>> THEN waited[q] = 0
                ELSE waited[q] + Distance(notify_arb.rr, q, NUM_PORTS) <= NUM_PORTS - 1)'
    <2>1. CASE q # p  BY <2>1, <1>3, <1>4 DEF TurnInv, Turns
    <2>2. CASE q = p
      <3>1. waited'[p] = 0  BY <1>3 DEF TurnInv, Turns
      <3>2. notify_arb.rr \in 0 .. NUM_PORTS - 1 /\ p \in 0 .. NUM_PORTS - 1
        BY DEF TurnInv, NotifyOK, ports
      <3>3. Distance(notify_arb.rr, p, NUM_PORTS) \in 0 .. NUM_PORTS - 1
        BY <3>2, SomePorts, DistanceBound
      <3> QED BY <2>2, <3>1, <3>3, <1>4, SomePorts
    <2> QED BY <2>1, <2>2
  <1> QED BY <1>5, <1>6 DEF TurnInv, Turns

LEMMA SelectTurns ==
  ASSUME TurnInv, SelectNotification
  PROVE  TurnInv'
  <1> DEFINE a == notify_arb
             sel == input_stream_select(a)
  <1>1. /\ notify_arb' = Load(a, NUM_PORTS)
        /\ notify_skid' = notify_skid
        /\ waited' = [p \in ports |-> IF notify_arb'.buf[p] = <<>> THEN 0 ELSE waited[p] + 1]
    BY DEF SelectNotification
  <1>2. a.buf \in [ports -> Slot] /\ a.rr \in ports /\ DOMAIN a.buf = ports
    BY DEF TurnInv, NotifyOK
  <1>3. sel \in ports
    <2>1. buf_valid(a) # {} /\ buf_valid(a) \subseteq 0 .. NUM_PORTS - 1
      BY <1>2 DEF SelectNotification, CanLoad, buf_valid, ports
    <2>2. \E i \in buf_valid(a) : \A j \in buf_valid(a) : j <= i  BY <2>1, SomePorts, HighestExists
    <2>3. AlwaysHighest(a) \in buf_valid(a)  BY <2>2 DEF AlwaysHighest
    <2> QED BY <1>2, <2>1, <2>3 DEF input_stream_select, ports
  <1>4. notify_arb'.buf = [a.buf EXCEPT ![sel] = <<>>]  BY <1>1 DEF Load
  <1>5. notify_arb'.rr \in ports
    <2>1. notify_arb'.rr = IF a.rr = NUM_PORTS - 1 THEN 0 ELSE a.rr + 1  BY <1>1 DEF Load
    <2> QED BY <2>1, <1>2, SomePorts DEF ports
  <1>6. NotifyOK'
    <2>1. notify_arb'.buf \in [ports -> Slot]  BY <1>2, <1>4 DEF Slot
    <2>2. notify_arb'.out \in Slot  BY <1>1, <1>2, <1>3 DEF Load
    <2>3. notify_arb' = [buf |-> notify_arb'.buf, out |-> notify_arb'.out, rr |-> notify_arb'.rr]
      BY <1>1 DEF Load
    <2>4. notify_arb' \in [buf : [ports -> Slot], out : Slot, rr : ports]  BY <2>1, <2>2, <2>3, <1>5
    <2>5. waited' \in [ports -> Nat]  BY <1>1 DEF TurnInv, NotifyOK
    <2> QED BY <2>4, <2>5, <1>1 DEF TurnInv, NotifyOK
  <1>7. ASSUME NEW p \in ports, notify_arb'.buf[p] # <<>>
        PROVE  waited'[p] + Distance(notify_arb'.rr, p, NUM_PORTS) <= NUM_PORTS - 1
    <2>1. p # sel /\ a.buf[p] # <<>>  BY <1>2, <1>4, <1>7
    <2>2. waited[p] \in Nat /\ waited[p] + Distance(a.rr, p, NUM_PORTS) <= NUM_PORTS - 1
      BY <2>1 DEF TurnInv, Turns, NotifyOK
    <2>3. waited'[p] = waited[p] + 1  BY <1>1, <1>7
    <2>4. /\ NUM_PORTS \in Nat \ {0} /\ a.rr \in 0 .. NUM_PORTS - 1
          /\ DOMAIN a.buf = 0 .. NUM_PORTS - 1 /\ p \in 0 .. NUM_PORTS - 1
      BY <1>2, SomePorts DEF ports
    <2>5. Distance(notify_arb'.rr, p, NUM_PORTS) = Distance(a.rr, p, NUM_PORTS) - 1
      BY <2>1, <2>4, <1>1, LoadApproaches
    <2>6. Distance(a.rr, p, NUM_PORTS) \in 0 .. NUM_PORTS - 1  BY <2>4, DistanceBound
    <2> QED BY <2>2, <2>3, <2>5, <2>6, SomePorts
  <1>8. ASSUME NEW p \in ports, notify_arb'.buf[p] = <<>>
        PROVE  waited'[p] = 0
    BY <1>1, <1>8
  <1> QED BY <1>6, <1>7, <1>8 DEF TurnInv, Turns

LEMMA NextTurns ==
  ASSUME TurnInv, [Next]_vars
  PROVE  TurnInv'
  <1>1. ASSUME UNCHANGED notifyVars PROVE TurnInv'  BY <1>1 DEF notifyVars, TurnInv, NotifyOK, Turns
  <1>2. ASSUME NEW p \in ports, Request(p) \/ SendBeat(p) PROVE TurnInv'
    BY <1>1, <1>2 DEF Request, SendBeat
  <1>3. ASSUME NEW p \in ports, Notify(p) PROVE TurnInv'
    <2>1. /\ notify_skid' = [notify_skid EXCEPT ![p] = Append(@, p)]
          /\ UNCHANGED <<notify_arb, waited>>
      BY <1>3 DEF Notify
    <2>2. notify_skid' \in [ports -> Seq(ports)]  BY <2>1 DEF TurnInv, NotifyOK
    <2> QED BY <2>1, <2>2 DEF TurnInv, NotifyOK, Turns
  <1>4. ASSUME NEW p \in ports, OfferNotification(p) PROVE TurnInv'  BY <1>4, OfferTurns
  <1>5. ASSUME NEW s \in streams,
               SelectWriter(s) \/ FireRequest(s) \/ OfferRequest(s) \/ TakeBeat(s)
        PROVE TurnInv'
    BY <1>1, <1>5 DEF SelectWriter, FireRequest, OfferRequest, TakeBeat
  <1>6. ASSUME NEW s \in streams, Complete(s) \/ CompleteForeign(s) \/ RouteCompletion(s)
        PROVE TurnInv'
    BY <1>1, <1>6 DEF Complete, CompleteForeign, RouteCompletion
  <1>7. ASSUME SelectStream \/ TakeRequest \/ Demultiplex PROVE TurnInv'
    BY <1>1, <1>7 DEF SelectStream, TakeRequest, Demultiplex
  <1>8. ASSUME SelectNotification PROVE TurnInv'  BY <1>8, SelectTurns
  <1>9. ASSUME Interrupt PROVE TurnInv'
    <2>1. /\ notify_arb' = [notify_arb EXCEPT !.out = <<>>]
          /\ UNCHANGED <<notify_skid, waited>>
      BY <1>9 DEF Interrupt, Take
    <2>2. /\ notify_arb' \in [buf : [ports -> Slot], out : Slot, rr : ports]
          /\ notify_arb'.buf = notify_arb.buf /\ notify_arb'.rr = notify_arb.rr
      BY <2>1 DEF TurnInv, NotifyOK, Slot
    <2> QED BY <2>1, <2>2 DEF TurnInv, NotifyOK, Turns
  <1>10. CASE UNCHANGED vars  BY <1>1, <1>10 DEF vars, notifyVars
  <1> QED BY <1>2, <1>3, <1>4, <1>5, <1>6, <1>7, <1>8, <1>9, <1>10 DEF Next

----
(* While a notification of a port waits in the arbiter, at most one of every *)
(* other port is sent before it: meta_intf_arbiter.sv:12, with any number of *)
(* ports and streams.                                                       *)
THEOREM NobodyStarves == SafeSpec => []BoundedWait
  <1>1. TurnInv => BoundedWait
    <2> SUFFICES ASSUME TurnInv, NEW p \in ports PROVE waited[p] <= NUM_PORTS - 1
      BY DEF BoundedWait
    <2>1. CASE notify_arb.buf[p] = <<>>  BY <2>1, SomePorts DEF TurnInv, Turns
    <2>2. CASE notify_arb.buf[p] # <<>>
      <3>1. notify_arb.rr \in 0 .. NUM_PORTS - 1 /\ p \in 0 .. NUM_PORTS - 1
        BY DEF TurnInv, NotifyOK, ports
      <3>2. Distance(notify_arb.rr, p, NUM_PORTS) \in 0 .. NUM_PORTS - 1
        BY <3>1, SomePorts, DistanceBound
      <3>3. waited[p] \in Nat /\ waited[p] + Distance(notify_arb.rr, p, NUM_PORTS) <= NUM_PORTS - 1
        BY <2>2 DEF TurnInv, Turns, NotifyOK
      <3> QED BY <3>2, <3>3, SomePorts
    <2> QED BY <2>1, <2>2
  <1> QED BY <1>1, InitTurns, NextTurns, PTL DEF SafeSpec

----
(* Sequences that hand an element on.                                       *)

LEMMA HandOn ==
  ASSUME NEW R, NEW a \in Seq(R), NEW b \in Seq(R), NEW r \in Seq(R), b # <<>>
  PROVE  /\ Head(b) \in R /\ Tail(b) \in Seq(R)
         /\ Append(a, Head(b)) \o (Tail(b) \o r) = a \o (b \o r)
         /\ <<Head(b)>> \o (Tail(b) \o r) = b \o r
  <1>1. Head(b) \in R /\ Tail(b) \in Seq(R)  BY HeadTailProperties
  <1> DEFINE h == Head(b)
             t == Tail(b)
  <1>2. b = <<h>> \o t  OBVIOUS
  <1>3. h \in R /\ t \in Seq(R)  BY <1>1
  <1> HIDE DEF h, t
  <1>4. <<h>> \in Seq(R) /\ t \o r \in Seq(R)  BY <1>3, ConcatProperties
  <1>5. b \o r = <<h>> \o (t \o r)  BY <1>2, <1>3, <1>4, ConcatAssociative
  <1>6. Append(a, h) = a \o <<h>>  BY <1>3, AppendIsConcat
  <1>7. (a \o <<h>>) \o (t \o r) = a \o (<<h>> \o (t \o r))  BY <1>4, ConcatAssociative
  <1> QED BY <1>1, <1>5, <1>6, <1>7 DEF h, t

LEMMA PassOn ==
  ASSUME NEW R, NEW a \in Seq(R), NEW b \in Seq(R), b # <<>>
  PROVE  /\ Head(b) \in R /\ Tail(b) \in Seq(R) /\ Append(a, Head(b)) \in Seq(R)
         /\ Append(a, Head(b)) \o Tail(b) = a \o b
  <1>1. PICK r : r = <<>>  OBVIOUS
  <1>2. r \in Seq(R)  BY <1>1
  <1>3. /\ Head(b) \in R /\ Tail(b) \in Seq(R)
        /\ Append(a, Head(b)) \o (Tail(b) \o r) = a \o (b \o r)
    BY <1>2, HandOn
  <1>4. Tail(b) \o r = Tail(b) /\ b \o r = b  BY <1>1, <1>3
  <1> QED BY <1>3, <1>4

LEMMA PassFirst ==
  ASSUME NEW R, NEW a \in Seq(R), NEW b \in Seq(R), a # <<>>
  PROVE  Head(a) \in R /\ Tail(a) \in Seq(R) /\ <<Head(a)>> \o (Tail(a) \o b) = a \o b
  <1>1. PICK r : r = <<>>  OBVIOUS
  <1>2. r \in Seq(R)  BY <1>1
  <1> QED BY <1>2, HandOn

LEMMA AppendLast ==
  ASSUME NEW R, NEW a \in Seq(R), NEW b \in Seq(R), NEW x \in R
  PROVE  a \o b \in Seq(R) /\ a \o Append(b, x) = Append(a \o b, x)
  <1>1. a \o b \in Seq(R) /\ <<x>> \in Seq(R)  BY ConcatProperties
  <1>2. Append(b, x) = b \o <<x>> /\ Append(a \o b, x) = (a \o b) \o <<x>>  BY <1>1, AppendIsConcat
  <1>3. (a \o b) \o <<x>> = a \o (b \o <<x>>)  BY <1>1, ConcatAssociative
  <1> QED BY <1>1, <1>2, <1>3

LEMMA FirstOf ==
  ASSUME NEW R, NEW r \in Seq(R), NEW x \in R
  PROVE  /\ <<x>> \o r \in Seq(R) /\ <<x>> \o r # <<>>
         /\ Head(<<x>> \o r) = x /\ Tail(<<x>> \o r) = r /\ <<>> \o r = r
  <1>1. <<x>> \in Seq(R) /\ Len(<<x>>) = 1  OBVIOUS
  <1> DEFINE c == <<x>> \o r
  <1>2. /\ c \in Seq(R) /\ Len(c) = 1 + Len(r) /\ Len(r) \in Nat
        /\ \A i \in 1 .. Len(r) + 1 : c[i] = IF i <= 1 THEN <<x>>[i] ELSE r[i - 1]
    BY <1>1, ConcatProperties
  <1> HIDE DEF c
  <1>3. c # <<>> /\ Head(c) = x  BY <1>2
  <1>4. Tail(c) \in Seq(R) /\ Len(Tail(c)) = Len(r) /\ \A i \in 1 .. Len(Tail(c)) : Tail(c)[i] = c[i + 1]
    BY <1>2, <1>3, HeadTailProperties
  <1>5. \A i \in 1 .. Len(Tail(c)) : Tail(c)[i] = r[i]  BY <1>2, <1>4
  <1>6. Tail(c) = r  BY <1>4, <1>5, SeqEqual
  <1>7. <<>> \o r = r  BY ConcatEmptySeq
  <1> QED BY <1>2, <1>3, <1>6, <1>7 DEF c

----
(* Types of the way of the requests and the completions.                    *)

Requests == [port : ports, transfer : Nat]
RequestsOf(s) == {r \in Requests : Stream(r.port) = s}
Slots(R) == {<<>>} \cup {<<r>> : r \in R}
Arbiters(n, R) == [buf : [0 .. n - 1 -> Slots(R)], out : Slots(R), rr : 0 .. n - 1]
Acks == [dest : streams, own : BOOLEAN, of : [port : Nat, transfer : Nat]]
AckOK(a) == a.own => a.of \in RequestsOf(a.dest)

CountTypes ==
  requested \in [ports -> Nat] /\ sent \in [ports -> Nat] /\ completed \in [ports -> Nat]

ArbiterTypes ==
  /\ writer_arb = [s \in streams |-> writer_arb[s]]
  /\ \A s \in streams : writer_arb[s] \in Arbiters(PORTS_PER_STREAM[s], RequestsOf(s))

OrderTypes == data_order \in [streams -> Seq(Nat)] /\ cq_order \in [streams -> Seq(Nat)]

Queues(f) == f \in [streams -> Seq(Requests)] /\ \A s \in streams : f[s] \in Seq(RequestsOf(s))
QueueTypes ==
  /\ Queues(sq_skid) /\ Queues(sq) /\ Queues(acks)
  /\ sq_arb \in Arbiters(NUM_STREAMS, Requests)
  /\ \A s \in streams : sq_arb.buf[s] \in Slots(RequestsOf(s))

AckTypes ==
  /\ cq_wr \in Slots(Acks) /\ cq_strm \in [streams -> Slots(Acks)]
  /\ cq_wr # <<>> => AckOK(cq_wr[1])
  /\ \A s \in streams : cq_strm[s] # <<>> => AckOK(cq_strm[s][1]) /\ cq_strm[s][1].dest = s

FlowTypes == CountTypes /\ ArbiterTypes /\ OrderTypes /\ QueueTypes /\ AckTypes

----
(* The requests of a stream that are on their way, the oldest first: being   *)
(* completed, written, taken by the shell, on the way to it.                 *)
Own(slot, s) == IF slot # <<>> /\ slot[1].own /\ slot[1].dest = s THEN <<slot[1].of>> ELSE <<>>
Chain(s) == Own(cq_strm[s], s) \o (Own(cq_wr, s) \o (acks[s] \o RequestsUnderWay(s)))

\* The last request of the port is in the arbiter of the writers.
InArb(p) ==
  LET a == writer_arb[Stream(p)]
  IN a.buf[Writer(p)] # <<>> \/ (a.out # <<>> /\ a.out[1].port = p)
Fired == [p \in ports |-> IF InArb(p) THEN requested[p] - 1 ELSE requested[p]]

\* c are the transfers of the stream's ports from done to fired, those of a port in order.
Successive(s, c, done, fired) ==
  /\ \A i \in 1 .. Len(c) : done[c[i].port] < c[i].transfer /\ c[i].transfer <= fired[c[i].port]
  /\ \A i, j \in 1 .. Len(c) : i < j /\ c[i].port = c[j].port => c[i].transfer < c[j].transfer
  /\ \A p \in ports : Stream(p) = s => done[p] <= fired[p]
  /\ \A p \in ports : Stream(p) = s =>
       \A n \in Nat : done[p] < n /\ n <= fired[p] => \E i \in 1 .. Len(c) : c[i] = Transfer(p, n)

\* o names the writers of c.
Ordered(o, c) == Len(o) = Len(c) /\ \A i \in 1 .. Len(c) : o[i] = Writer(c[i].port)

ChainInv ==
  \A s \in streams : /\ Successive(s, Chain(s), completed, Fired)
                     /\ shared(s) => Ordered(cq_order[s], Chain(s))

\* One more of port p.
Raised(f, p) == [f EXCEPT ![p] = @ + 1]

LEMMA AppendSuccessive ==
  ASSUME NEW s \in streams, NEW c \in Seq(RequestsOf(s)), NEW done \in [ports -> Nat],
         NEW fired \in [ports -> Nat], NEW p \in ports, Stream(p) = s,
         NEW after, after = Raised(fired, p),
         Successive(s, c, done, fired)
  PROVE  /\ Transfer(p, after[p]) \in RequestsOf(s)
         /\ Successive(s, Append(c, Transfer(p, after[p])), done, after)
  <1> DEFINE x == Transfer(p, fired[p] + 1)
             d == Append(c, x)
  <1>0. after[p] = fired[p] + 1 /\ after \in [ports -> Nat] /\ \A q \in ports : fired[q] <= after[q]
    BY DEF Raised
  <1>1. x \in RequestsOf(s) /\ x.port = p /\ x.transfer = fired[p] + 1
    BY DEF Transfer, RequestsOf, Requests
  <1>2. /\ d \in Seq(RequestsOf(s)) /\ Len(d) = Len(c) + 1 /\ d[Len(c) + 1] = x
        /\ Len(c) \in Nat /\ \A i \in 1 .. Len(c) : d[i] = c[i]
    BY <1>1, AppendProperties
  <1>3. \A i \in 1 .. Len(c) : c[i].port \in ports /\ c[i].transfer \in Nat
    <2>1. ASSUME NEW i \in 1 .. Len(c) PROVE c[i] \in RequestsOf(s)  BY ElementOfSeq
    <2> QED BY <2>1 DEF RequestsOf, Requests
  <1>c. \A q \in ports : q # p => after[q] = fired[q]  BY DEF Raised
  <1>w. Transfer(p, after[p]) = x  BY <1>0
  <1>a. done[p] <= fired[p]  BY DEF Successive
  <1> HIDE DEF x, d
  <1>4. ASSUME NEW i \in 1 .. Len(d)
        PROVE  done[d[i].port] < d[i].transfer /\ d[i].transfer <= after[d[i].port]
    <2>1. CASE i = Len(c) + 1
      <3>1. d[i].port = p /\ d[i].transfer = fired[p] + 1  BY <2>1, <1>1, <1>2
      <3> QED BY <3>1, <1>0, <1>a
    <2>2. CASE i \in 1 .. Len(c)
      <3>1. done[c[i].port] < c[i].transfer /\ c[i].transfer <= fired[c[i].port]
        BY <2>2 DEF Successive
      <3>2. fired[c[i].port] \in Nat /\ after[c[i].port] \in Nat /\ fired[c[i].port] <= after[c[i].port]
        BY <2>2, <1>3, <1>0
      <3> QED BY <3>1, <3>2, <2>2, <1>2, <1>3
    <2> QED BY <2>1, <2>2, <1>2
  <1>5. ASSUME NEW i \in 1 .. Len(d), NEW j \in 1 .. Len(d), i < j, d[i].port = d[j].port
        PROVE  d[i].transfer < d[j].transfer
    <2>1. i \in 1 .. Len(c) /\ d[i] = c[i]  BY <1>2, <1>5
    <2>2. CASE j = Len(c) + 1
      <3>1. d[j].port = p /\ d[j].transfer = fired[p] + 1  BY <2>2, <1>1, <1>2
      <3>2. c[i].transfer <= fired[c[i].port]  BY <2>1 DEF Successive
      <3> QED BY <3>1, <3>2, <2>1, <1>3, <1>5
    <2>3. CASE j \in 1 .. Len(c)  BY <2>1, <2>3, <1>2, <1>5 DEF Successive
    <2> QED BY <2>2, <2>3, <1>2
  <1>6. ASSUME NEW q \in ports, Stream(q) = s, NEW n \in Nat, done[q] < n, n <= after[q]
        PROVE  \E i \in 1 .. Len(d) : d[i] = Transfer(q, n)
    <2>1. CASE n <= fired[q]
      <3>1. PICK i \in 1 .. Len(c) : c[i] = Transfer(q, n)  BY <2>1, <1>6 DEF Successive
      <3> QED BY <3>1, <1>2
    <2>2. CASE ~ (n <= fired[q])
      <3>1. q = p /\ n = fired[p] + 1  BY <2>2, <1>6, <1>0, <1>c
      <3>2. d[Len(c) + 1] = Transfer(q, n)  BY <3>1, <1>2 DEF x
      <3>3. PICK k : k = Len(c) + 1  OBVIOUS
      <3>4. k \in 1 .. Len(d)  BY <3>3, <1>2
      <3> QED BY <3>2, <3>3, <3>4
    <2> QED BY <2>1, <2>2
  <1>b. ASSUME NEW q \in ports, Stream(q) = s PROVE done[q] <= after[q]
    <2>1. done[q] <= fired[q]  BY <1>b DEF Successive
    <2> QED BY <2>1, <1>0
  <1>7. Successive(s, d, done, after)  BY <1>4, <1>5, <1>6, <1>b DEF Successive
  <1> QED BY <1>1, <1>7, <1>w DEF d

LEMMA TailSuccessive ==
  ASSUME NEW s \in streams, NEW c \in Seq(RequestsOf(s)), c # <<>>, NEW done \in [ports -> Nat],
         NEW fired \in [ports -> Nat], Successive(s, c, done, fired),
         NEW after, after = [done EXCEPT ![Head(c).port] = @ + 1]
  PROVE  /\ Head(c) = Transfer(Head(c).port, done[Head(c).port] + 1)
         /\ Successive(s, Tail(c), after, fired)
  <1> DEFINE p == Head(c).port
             d == Tail(c)
  <1>1. /\ Head(c) \in RequestsOf(s) /\ d \in Seq(RequestsOf(s)) /\ Len(d) = Len(c) - 1
        /\ Head(c) = c[1] /\ \A i \in 1 .. Len(d) : d[i] = c[i + 1]
        /\ Len(c) \in Nat \ {0}
    BY HeadTailProperties, EmptySeq
  <1>2. \A i \in 1 .. Len(c) : c[i].port \in ports /\ c[i].transfer \in Nat
    <2>1. ASSUME NEW i \in 1 .. Len(c) PROVE c[i] \in RequestsOf(s)  BY ElementOfSeq
    <2> QED BY <2>1 DEF RequestsOf, Requests
  <1>3. p \in ports /\ Stream(p) = s /\ c[1].port = p  BY <1>1 DEF RequestsOf, Requests
  <1>0. after = [done EXCEPT ![p] = @ + 1]  OBVIOUS
  <1> HIDE DEF d, p
  <1>4. after[p] = done[p] + 1 /\ after \in [ports -> Nat] /\ \A q \in ports : q # p => after[q] = done[q]
    BY <1>0, <1>3
  <1>5. c[1] = Transfer(p, done[p] + 1)
    <2>1. done[p] < c[1].transfer /\ c[1].transfer <= fired[p]  BY <1>1, <1>3 DEF Successive
    <2>2. done[p] < done[p] + 1 /\ done[p] + 1 <= fired[p] /\ done[p] + 1 \in Nat
      BY <2>1, <1>1, <1>2, <1>3
    <2>3. PICK i \in 1 .. Len(c) : c[i] = Transfer(p, done[p] + 1)  BY <2>2, <1>3 DEF Successive
    <2>4. c[i].port = p /\ c[i].transfer = done[p] + 1  BY <2>3 DEF Transfer
    <2>5. ASSUME i # 1 PROVE c[1].transfer < c[i].transfer
      <3>1. 1 \in 1 .. Len(c) /\ 1 < i /\ c[1].port = c[i].port  BY <2>4, <2>5, <1>1, <1>3
      <3> QED BY <3>1 DEF Successive
    <2>6. i = 1  BY <2>1, <2>4, <2>5, <1>1, <1>2, <1>3
    <2> QED BY <2>3, <2>6
  <1>6. ASSUME NEW i \in 1 .. Len(d)
        PROVE  after[d[i].port] < d[i].transfer /\ d[i].transfer <= fired[d[i].port]
    <2>1. d[i] = c[i + 1] /\ i + 1 \in 1 .. Len(c) /\ 1 \in 1 .. Len(c) /\ 1 < i + 1  BY <1>1
    <2>2. done[d[i].port] < d[i].transfer /\ d[i].transfer <= fired[d[i].port]
      BY <2>1 DEF Successive
    <2>3. CASE d[i].port = p
      <3>1. c[1].transfer < d[i].transfer  BY <2>1, <2>3, <1>3 DEF Successive
      <3>2. c[1].transfer = done[p] + 1  BY <1>5 DEF Transfer
      <3> QED BY <3>1, <3>2, <2>2, <2>3, <1>4
    <2>4. CASE d[i].port # p  BY <2>1, <2>2, <2>4, <1>2, <1>4
    <2> QED BY <2>3, <2>4
  <1>7. ASSUME NEW i \in 1 .. Len(d), NEW j \in 1 .. Len(d), i < j, d[i].port = d[j].port
        PROVE  d[i].transfer < d[j].transfer
     <2>1. /\ d[i] = c[i + 1] /\ d[j] = c[j + 1]
           /\ i + 1 \in 1 .. Len(c) /\ j + 1 \in 1 .. Len(c) /\ i + 1 < j + 1
      BY <1>1, <1>7
    <2>2. c[i + 1].port = c[j + 1].port => c[i + 1].transfer < c[j + 1].transfer
      BY <2>1 DEF Successive
    <2> QED BY <2>1, <2>2, <1>7
  <1>8. ASSUME NEW q \in ports, Stream(q) = s, NEW n \in Nat, after[q] < n, n <= fired[q]
        PROVE  \E i \in 1 .. Len(d) : d[i] = Transfer(q, n)
    <2>1. done[q] <= after[q] /\ done[q] \in Nat /\ after[q] \in Nat  BY <1>4
    <2>2. PICK i \in 1 .. Len(c) : c[i] = Transfer(q, n)  BY <2>1, <1>8 DEF Successive
    <2>3. i # 1
      <3> SUFFICES ASSUME i = 1 PROVE FALSE  OBVIOUS
      <3>1. q = p /\ n = done[p] + 1  BY <2>2, <1>5 DEF Transfer
      <3> QED BY <3>1, <1>4, <1>8
    <2>4. i - 1 \in 1 .. Len(d) /\ d[i - 1] = c[(i - 1) + 1] /\ (i - 1) + 1 = i  BY <2>3, <1>1
    <2> QED BY <2>2, <2>4
  <1>a. ASSUME NEW q \in ports, Stream(q) = s PROVE after[q] <= fired[q]
    <2>1. CASE q = p
      <3>1. c[1].transfer <= fired[p]  BY <1>1, <1>3 DEF Successive
      <3> QED BY <2>1, <3>1, <1>4, <1>5 DEF Transfer
    <2>2. CASE q # p  BY <2>2, <1>4, <1>a DEF Successive
    <2> QED BY <2>1, <2>2
  <1>9. Successive(s, d, after, fired)  BY <1>6, <1>7, <1>8, <1>a DEF Successive
  <1> QED BY <1>1, <1>5, <1>9 DEF d, p

\* The counts of the stream's ports are the same.
Agree(s, done, fired, done2, fired2) ==
  \A p \in ports : Stream(p) = s => done2[p] = done[p] /\ fired2[p] = fired[p]

LEMMA SameSuccessive ==
  ASSUME NEW s \in streams, NEW c \in Seq(RequestsOf(s)), NEW done, NEW fired,
         NEW done2, NEW fired2, Successive(s, c, done, fired),
         Agree(s, done, fired, done2, fired2)
  PROVE  Successive(s, c, done2, fired2)
  <1>1. ASSUME NEW i \in 1 .. Len(c)
        PROVE  done2[c[i].port] = done[c[i].port] /\ fired2[c[i].port] = fired[c[i].port]
    <2>1. c[i] \in RequestsOf(s)  BY ElementOfSeq
    <2> QED BY <2>1 DEF RequestsOf, Requests, Agree
  <1> QED BY <1>1 DEF Successive, Agree

LEMMA AppendOrdered ==
  ASSUME NEW R, NEW o \in Seq(Nat), NEW c \in Seq(R), NEW x \in R, Writer(x.port) \in Nat, Ordered(o, c)
  PROVE  Ordered(Append(o, Writer(x.port)), Append(c, x))
  <1> DEFINE w == Writer(x.port)
             d == Append(c, x)
             u == Append(o, w)
  <1>1. Len(d) = Len(c) + 1 /\ Len(c) \in Nat /\ d[Len(c) + 1] = x /\ \A i \in 1 .. Len(c) : d[i] = c[i]
    BY AppendProperties
  <1>2. Len(u) = Len(o) + 1 /\ u[Len(o) + 1] = w /\ \A i \in 1 .. Len(o) : u[i] = o[i]
    BY AppendProperties
  <1>3. Len(o) = Len(c) /\ \A i \in 1 .. Len(c) : o[i] = Writer(c[i].port)  BY DEF Ordered
  <1> HIDE DEF d, u
  <1>4. ASSUME NEW i \in 1 .. Len(d) PROVE u[i] = Writer(d[i].port)
    <2>1. CASE i = Len(c) + 1  BY <2>1, <1>1, <1>2, <1>3
    <2>2. CASE i \in 1 .. Len(c)  BY <2>2, <1>1, <1>2, <1>3
    <2> QED BY <2>1, <2>2, <1>1
  <1>5. Ordered(u, d)  BY <1>1, <1>2, <1>3, <1>4 DEF Ordered
  <1> QED BY <1>5 DEF u, d

LEMMA TailOrdered ==
  ASSUME NEW R, NEW o \in Seq(Nat), NEW c \in Seq(R), c # <<>>, Ordered(o, c)
  PROVE  o # <<>> /\ Head(o) = Writer(Head(c).port) /\ Ordered(Tail(o), Tail(c))
  <1> DEFINE d == Tail(c)
             u == Tail(o)
  <1>1. Len(c) \in Nat \ {0} /\ Len(o) = Len(c) /\ \A i \in 1 .. Len(c) : o[i] = Writer(c[i].port)
    BY EmptySeq DEF Ordered
  <1>2. o # <<>> /\ Head(o) = o[1] /\ Head(c) = c[1]  BY <1>1
  <1>3. Len(d) = Len(c) - 1 /\ \A i \in 1 .. Len(d) : d[i] = c[i + 1]  BY HeadTailProperties
  <1>4. Len(u) = Len(o) - 1 /\ \A i \in 1 .. Len(u) : u[i] = o[i + 1]  BY <1>2, HeadTailProperties
  <1> HIDE DEF d, u
  <1>5. \A i \in 1 .. Len(d) : u[i] = Writer(d[i].port)  BY <1>1, <1>3, <1>4
  <1>6. Ordered(u, d)  BY <1>1, <1>3, <1>4, <1>5 DEF Ordered
  <1>7. Head(o) = Writer(Head(c).port)  BY <1>1, <1>2
  <1> QED BY <1>2, <1>6, <1>7 DEF u, d

\* Every request of a stream's arbiter names its writer and is the last of its port.
Held(s) ==
  \A w \in 0 .. PORTS_PER_STREAM[s] - 1 :
    LET slot == writer_arb[s].buf[w]
    IN slot # <<>> => /\ shared(s) /\ Writer(slot[1].port) = w
                      /\ slot[1].transfer = requested[slot[1].port]
Offered(s) ==
  LET slot == writer_arb[s].out
  IN slot # <<>> => /\ shared(s) /\ writer_arb[s].buf[Writer(slot[1].port)] = <<>>
                    /\ slot[1].transfer = requested[slot[1].port]

\* A port has at most one transfer requested whose beats were not all sent.
AtMostOne(p) ==
  sent[p] <= requested[p] /\ requested[p] <= sent[p] + 1 /\ (InArb(p) => sent[p] < requested[p])

\* The order FIFO of the data names a port at most once, while it has beats to send.
Awaited(p) ==
  LET o == data_order[Stream(p)]
  IN \A i \in 1 .. Len(o) : o[i] = Writer(p) =>
       /\ shared(Stream(p)) /\ sent[p] < requested[p] /\ ~InArb(p)
       /\ \A j \in 1 .. Len(o) : o[j] = Writer(p) => j = i

RequestInv ==
  /\ \A s \in streams : Held(s) /\ Offered(s)
  /\ \A p \in ports : AtMostOne(p) /\ Awaited(p)

FlowInv == FlowTypes /\ RequestInv /\ ChainInv

----
LEMMA SamePort ==
  ASSUME NEW p \in ports, NEW q \in ports, Stream(p) = Stream(q), Writer(p) = Writer(q)
  PROVE  p = q
  <1>1. p = first_port[Stream(p)] + Writer(p) /\ q = first_port[Stream(q)] + Writer(q)  BY PortFacts
  <1> QED BY <1>1

LEMMA QueueUpdate ==
  ASSUME NEW f, Queues(f), NEW s \in streams, NEW x, x \in Seq(RequestsOf(s))
  PROVE  /\ Queues([f EXCEPT ![s] = x]) /\ [f EXCEPT ![s] = x][s] = x
         /\ \A u \in streams : u # s => [f EXCEPT ![s] = x][u] = f[u]
  <1> DEFINE g == [f EXCEPT ![s] = x]
  <1>1. RequestsOf(s) \subseteq Requests  BY DEF RequestsOf
  <1>2. x \in Seq(Requests)  BY <1>1, SeqMonotonic
  <1>3. f \in [streams -> Seq(Requests)] /\ \A u \in streams : f[u] \in Seq(RequestsOf(u))
    BY DEF Queues
  <1>4. g \in [streams -> Seq(Requests)] /\ g[s] = x /\ \A u \in streams : u # s => g[u] = f[u]
    BY <1>2, <1>3
  <1> HIDE DEF g
  <1>5. ASSUME NEW u \in streams PROVE g[u] \in Seq(RequestsOf(u))  BY <1>3, <1>4
  <1>6. Queues(g)  BY <1>4, <1>5 DEF Queues
  <1> QED BY <1>4, <1>6 DEF g

LEMMA LoadFacts ==
  ASSUME NEW n \in Nat \ {0}, NEW R, NEW a \in Arbiters(n, R), CanLoad(a),
         NEW i, i = input_stream_select(a), NEW b, b = Load(a, n)
  PROVE  /\ i \in 0 .. n - 1 /\ a.buf[i] # <<>> /\ a.out = <<>>
         /\ b \in Arbiters(n, R) /\ b.out = a.buf[i] /\ b.buf[i] = <<>>
         /\ \A j \in 0 .. n - 1 : j # i => b.buf[j] = a.buf[j]
  <1>1. /\ a.buf \in [0 .. n - 1 -> Slots(R)] /\ a.out \in Slots(R) /\ a.rr \in 0 .. n - 1
        /\ DOMAIN a.buf = 0 .. n - 1
    BY DEF Arbiters
  <1>2. a.out = <<>> /\ buf_valid(a) # {} /\ buf_valid(a) \subseteq 0 .. n - 1
    BY <1>1 DEF CanLoad, buf_valid
  <1>3. i \in buf_valid(a)
    <2>1. \E k \in buf_valid(a) : \A j \in buf_valid(a) : j <= k  BY <1>2, HighestExists
    <2>2. AlwaysHighest(a) \in buf_valid(a)  BY <2>1 DEF AlwaysHighest
    <2> QED BY <2>2 DEF input_stream_select
  <1>4. i \in 0 .. n - 1 /\ a.buf[i] # <<>>  BY <1>2, <1>3 DEF buf_valid
  <1>5. /\ b = [buf |-> [a.buf EXCEPT ![i] = <<>>], out |-> a.buf[i],
                rr |-> IF a.rr = n - 1 THEN 0 ELSE a.rr + 1]
    BY DEF Load
  <1> DEFINE f == [a.buf EXCEPT ![i] = <<>>]
             rr == IF a.rr = n - 1 THEN 0 ELSE a.rr + 1
  <1>6. f \in [0 .. n - 1 -> Slots(R)] /\ f[i] = <<>> /\ \A j \in 0 .. n - 1 : j # i => f[j] = a.buf[j]
    BY <1>1, <1>4 DEF Slots
  <1>7. rr \in 0 .. n - 1  BY <1>1
  <1>8. a.buf[i] \in Slots(R)  BY <1>1, <1>4
  <1> HIDE DEF f, rr
  <1>9. b.buf = f /\ b.out = a.buf[i] /\ b = [buf |-> f, out |-> a.buf[i], rr |-> rr]
    BY <1>5 DEF f, rr
  <1>10. b \in Arbiters(n, R)  BY <1>6, <1>7, <1>8, <1>9 DEF Arbiters
  <1> QED BY <1>2, <1>4, <1>6, <1>9, <1>10

LEMMA AcceptFacts ==
  ASSUME NEW n \in Nat \ {0}, NEW R, NEW a \in Arbiters(n, R), NEW i \in 0 .. n - 1, NEW x \in R,
         NEW b, b = Accept(a, i, x)
  PROVE  /\ b \in Arbiters(n, R) /\ b.out = a.out /\ b.buf[i] = <<x>>
         /\ \A j \in 0 .. n - 1 : j # i => b.buf[j] = a.buf[j]
  BY DEF Accept, Arbiters, Slots

LEMMA TakeFacts ==
  ASSUME NEW n \in Nat \ {0}, NEW R, NEW a \in Arbiters(n, R), NEW b, b = Take(a)
  PROVE  b \in Arbiters(n, R) /\ b.out = <<>> /\ b.buf = a.buf
  BY DEF Take, Arbiters, Slots

\* The parts of a stream's chain, as sequences of its requests.
LEMMA ChainTypes ==
  ASSUME QueueTypes, AckTypes, NEW s \in streams
  PROVE  /\ Own(cq_strm[s], s) \in Seq(RequestsOf(s)) /\ Own(cq_wr, s) \in Seq(RequestsOf(s))
         /\ acks[s] \in Seq(RequestsOf(s)) /\ sq[s] \in Seq(RequestsOf(s))
         /\ Of(sq_arb.out, s) \in Seq(RequestsOf(s)) /\ sq_arb.buf[s] \in Seq(RequestsOf(s))
         /\ sq_skid[s] \in Seq(RequestsOf(s))
  <1> DEFINE R == RequestsOf(s)
  <1>0. <<>> \in Seq(R) /\ \A r \in R : <<r>> \in Seq(R)  OBVIOUS
  <1>1. ASSUME NEW slot, slot # <<>> => AckOK(slot[1])
        PROVE  Own(slot, s) \in Seq(R)
    <2> HIDE DEF R
    <2>1. CASE slot # <<>> /\ slot[1].own /\ slot[1].dest = s
      <3>1. slot[1].of \in R  BY <2>1, <1>1 DEF AckOK, R
      <3>2. Own(slot, s) = <<slot[1].of>>  BY <2>1 DEF Own
      <3> QED BY <3>1, <3>2, <1>0
    <2>2. CASE ~ (slot # <<>> /\ slot[1].own /\ slot[1].dest = s)
      <3>1. Own(slot, s) = <<>>  BY <2>2 DEF Own
      <3> QED BY <3>1, <1>0
    <2> QED BY <2>1, <2>2
  <1>2. cq_wr # <<>> => AckOK(cq_wr[1])  BY DEF AckTypes
  <1>3. cq_strm[s] # <<>> => AckOK(cq_strm[s][1])  BY DEF AckTypes
  <1>4. Own(cq_strm[s], s) \in Seq(R) /\ Own(cq_wr, s) \in Seq(R)  BY <1>1, <1>2, <1>3
  <1>5. Of(sq_arb.out, s) \in Seq(R)
    <2>1. sq_arb.out \in Slots(Requests)  BY DEF QueueTypes, Arbiters
    <2>2. CASE sq_arb.out = <<>>  BY <2>2, <1>0 DEF Of
    <2>3. CASE sq_arb.out # <<>>
      <3>1. PICK r \in Requests : sq_arb.out = <<r>>  BY <2>1, <2>3 DEF Slots
      <3>2. sq_arb.out[1] = r  BY <3>1
      <3>3. CASE Stream(r.port) = s
        <4>1. r \in R  BY <3>3 DEF RequestsOf
        <4>2. Of(sq_arb.out, s) = <<r>>  BY <3>1, <3>2, <3>3, <2>3 DEF Of
        <4> HIDE DEF R
        <4> QED BY <4>1, <4>2, <1>0
      <3>4. CASE Stream(r.port) # s
        <4>1. Of(sq_arb.out, s) = <<>>  BY <3>2, <3>4 DEF Of
        <4> QED BY <4>1, <1>0
      <3> QED BY <3>3, <3>4
    <2> QED BY <2>2, <2>3
  <1>6. sq_arb.buf[s] \in Seq(R)
    <2>1. sq_arb.buf[s] \in Slots(R)  BY DEF QueueTypes
    <2> HIDE DEF R
    <2>2. sq_arb.buf[s] = <<>> \/ \E r \in R : sq_arb.buf[s] = <<r>>  BY <2>1 DEF Slots
    <2> QED BY <2>2, <1>0
  <1> QED BY <1>4, <1>5, <1>6 DEF QueueTypes, Queues

(* What a step does to the requests that left their writers: nothing but move *)
(* them, or the last one that port p requested leaves.                       *)
MovesRequests ==
  Fired' = Fired /\ \A s \in streams : RequestsUnderWay(s)' = RequestsUnderWay(s)
AddsRequest(p) ==
  /\ Fired' = [Fired EXCEPT ![p] = @ + 1] /\ Fired'[p] = requested'[p]
  /\ sq_skid'[Stream(p)] = Append(sq_skid[Stream(p)], Transfer(p, Fired'[p]))
  /\ \A s \in streams : s # Stream(p) => sq_skid'[s] = sq_skid[s]
  /\ UNCHANGED <<sq_arb, sq>>

FiresRequest(s, p) ==
  /\ Stream(p) = s /\ shared(s) /\ AddsRequest(p)
  /\ data_order'[s] = Append(data_order[s], Writer(p))
  /\ \A u \in streams : u # s => data_order'[u] = data_order[u]

LEMMA KeepFired ==
  ASSUME UNCHANGED <<requested, writer_arb>>
  PROVE  Fired' = Fired
  BY DEF Fired, InArb

LEMMA KeepChain ==
  ASSUME ChainInv, UNCHANGED <<completed, cq_order, requested, writer_arb>>,
         \A s \in streams : Chain(s)' = Chain(s)
  PROVE  ChainInv'
  <1>1. Fired' = Fired /\ completed' = completed /\ cq_order' = cq_order  BY DEF Fired, InArb
  <1>2. ASSUME NEW s \in streams
        PROVE  (/\ Successive(s, Chain(s), completed, Fired)
                /\ shared(s) => Ordered(cq_order[s], Chain(s)))'
    BY <1>1 DEF ChainInv, Successive, Ordered
  <1> QED BY <1>2 DEF ChainInv

LEMMA KeepRequests ==
  ASSUME RequestInv, UNCHANGED <<requested, sent, writer_arb, data_order>>
  PROVE  RequestInv'
  BY DEF RequestInv, Held, Offered, AtMostOne, Awaited, InArb

LEMMA StreamCount == NUM_STREAMS \in Nat \ {0} /\ streams = 0 .. NUM_STREAMS - 1
  BY OutputWriterAssumption DEF streams

LEMMA OfferRequestFlow ==
  ASSUME FlowInv, NEW s \in streams, OfferRequest(s)
  PROVE  FlowInv' /\ MovesRequests
  <1>0. CountTypes /\ ArbiterTypes /\ OrderTypes /\ QueueTypes /\ AckTypes /\ RequestInv /\ ChainInv
    BY DEF FlowInv, FlowTypes
  <1> DEFINE R == RequestsOf(s)
             q == sq_skid[s]
             h == Head(q)
             t == Tail(q)
  <1>1. /\ q # <<>> /\ sq_arb.buf[s] = <<>>
        /\ sq_arb' = Accept(sq_arb, s, h) /\ sq_skid' = [sq_skid EXCEPT ![s] = t]
        /\ UNCHANGED <<requested, sent, completed, writer_arb, data_order, cq_order,
                       sq, acks, cq_wr, cq_strm>>
    BY DEF OfferRequest, CanAccept, writerVars, shellVars, completionVars
  <1>2. q \in Seq(R) /\ Queues(sq_skid)  BY <1>0 DEF QueueTypes, Queues
  <1>3. h \in R /\ t \in Seq(R) /\ \A r \in Seq(R) : <<h>> \o (t \o r) = q \o r
    <2>1. <<>> \in Seq(R)  OBVIOUS
    <2> HIDE DEF R, q
    <2>2. q \in Seq(R) /\ q # <<>>  BY <1>1, <1>2
    <2>3. ASSUME NEW r \in Seq(R)
          PROVE  h \in R /\ t \in Seq(R) /\ <<h>> \o (t \o r) = q \o r
      BY <2>1, <2>2, HandOn
    <2> QED BY <2>1, <2>3
  <1>4. Queues(sq_skid') /\ sq_skid'[s] = t /\ \A u \in streams : u # s => sq_skid'[u] = sq_skid[u]
    <2>1. sq_skid' = [sq_skid EXCEPT ![s] = t] /\ Queues(sq_skid) /\ t \in Seq(RequestsOf(s))
      BY <1>1, <1>2, <1>3
    <2> HIDE DEF t
    <2>2. Queues([sq_skid EXCEPT ![s] = t])  BY <2>1, QueueUpdate
    <2>3. Queues(sq_skid')  BY <2>1, <2>2
    <2> QED BY <2>1, <2>3 DEF Queues
  <1>5. h \in Requests  BY <1>3 DEF RequestsOf
  <1>6. /\ sq_arb' \in Arbiters(NUM_STREAMS, Requests) /\ sq_arb'.out = sq_arb.out /\ sq_arb'.buf[s] = <<h>>
        /\ \A u \in streams : u # s => sq_arb'.buf[u] = sq_arb.buf[u]
    <2> HIDE DEF h
    <2>1. sq_arb \in Arbiters(NUM_STREAMS, Requests)  BY <1>0 DEF QueueTypes
    <2> QED BY <2>1, <1>1, <1>5, StreamCount, AcceptFacts
  <1> HIDE DEF R, q, h, t
  <1>7. QueueTypes'
    <2>1. ASSUME NEW u \in streams PROVE sq_arb'.buf[u] \in Slots(RequestsOf(u))
      BY <1>0, <1>3, <1>6 DEF QueueTypes, Slots, R
    <2> QED BY <2>1, <1>0, <1>1, <1>4, <1>6 DEF QueueTypes
  <1>8. CountTypes' /\ ArbiterTypes' /\ OrderTypes' /\ AckTypes'
    BY <1>0, <1>1 DEF CountTypes, ArbiterTypes, OrderTypes, AckTypes
  <1>9. ASSUME NEW u \in streams PROVE RequestsUnderWay(u)' = RequestsUnderWay(u)
    <2>1. CASE u # s  BY <2>1, <1>1, <1>4, <1>6 DEF RequestsUnderWay
    <2>2. CASE u = s
      <3>1. sq_arb'.buf[s] \o sq_skid'[s] = sq_arb.buf[s] \o sq_skid[s]
        <4>1. <<h>> \o t = q
          <5>1. <<>> \in Seq(R)  OBVIOUS
          <5>2. <<h>> \o (t \o <<>>) = q \o <<>>  BY <1>3, <5>1
          <5>3. t \o <<>> = t /\ q \o <<>> = q  BY <1>2, <1>3, ConcatEmptySeq
          <5> QED BY <5>2, <5>3
        <4>2. <<>> \o q = q  BY <1>2, ConcatEmptySeq
        <4> QED BY <4>1, <4>2, <1>1, <1>4, <1>6 DEF q
      <3>2. RequestsUnderWay(s)' = RequestsUnderWay(s)  BY <3>1, <1>1, <1>6 DEF RequestsUnderWay
      <3> QED BY <2>2, <3>2
    <2> QED BY <2>1, <2>2
  <1>10. ChainInv'
    <2>1. \A u \in streams : Chain(u)' = Chain(u)  BY <1>1, <1>9 DEF Chain
    <2> QED BY <2>1, <1>0, <1>1, KeepChain
  <1>11. RequestInv'  BY <1>0, <1>1, KeepRequests
  <1>12. MovesRequests  BY <1>1, <1>9, KeepFired DEF MovesRequests
  <1> QED BY <1>7, <1>8, <1>10, <1>11, <1>12 DEF FlowInv, FlowTypes

LEMMA SelectStreamFlow ==
  ASSUME FlowInv, SelectStream
  PROVE  FlowInv' /\ MovesRequests
  <1>0. CountTypes /\ ArbiterTypes /\ OrderTypes /\ QueueTypes /\ AckTypes /\ RequestInv /\ ChainInv
    BY DEF FlowInv, FlowTypes
  <1>1. /\ CanLoad(sq_arb) /\ sq_arb' = Load(sq_arb, NUM_STREAMS)
        /\ UNCHANGED <<requested, sent, completed, writer_arb, data_order, cq_order,
                       sq_skid, sq, acks, cq_wr, cq_strm>>
    BY DEF SelectStream, writerVars, shellVars, completionVars
  <1>2. sq_arb \in Arbiters(NUM_STREAMS, Requests)  BY <1>0 DEF QueueTypes
  <1>3. PICK s \in streams :
        /\ sq_arb.buf[s] # <<>> /\ sq_arb.out = <<>>
        /\ sq_arb' \in Arbiters(NUM_STREAMS, Requests) /\ sq_arb'.out = sq_arb.buf[s]
        /\ sq_arb'.buf[s] = <<>>
        /\ \A u \in streams : u # s => sq_arb'.buf[u] = sq_arb.buf[u]
    BY <1>1, <1>2, StreamCount, LoadFacts
  <1>4. QueueTypes'
    <2>1. ASSUME NEW u \in streams PROVE sq_arb'.buf[u] \in Slots(RequestsOf(u))
      BY <1>0, <1>3 DEF QueueTypes, Slots
    <2> QED BY <2>1, <1>0, <1>1, <1>3 DEF QueueTypes
  <1>5. CountTypes' /\ ArbiterTypes' /\ OrderTypes' /\ AckTypes'
    BY <1>0, <1>1 DEF CountTypes, ArbiterTypes, OrderTypes, AckTypes
  <1>6. PICK x \in RequestsOf(s) : sq_arb.buf[s] = <<x>>  BY <1>0, <1>3 DEF QueueTypes, Slots
  <1>7. Stream(x.port) = s /\ sq_arb'.out = <<x>> /\ sq_arb'.out[1] = x
    BY <1>3, <1>6 DEF RequestsOf
  <1>8. ASSUME NEW u \in streams PROVE RequestsUnderWay(u)' = RequestsUnderWay(u)
    <2>1. Of(sq_arb.out, u) = <<>>  BY <1>3 DEF Of
    <2>2. CASE u # s
      <3>1. Of(sq_arb'.out, u) = <<>>  BY <2>2, <1>7 DEF Of
      <3> QED BY <2>1, <2>2, <3>1, <1>1, <1>3 DEF RequestsUnderWay
    <2>3. CASE u = s
      <3>1. Of(sq_arb'.out, s) = <<x>>  BY <1>7 DEF Of
      <3>2. sq_skid[s] \in Seq(RequestsOf(s)) /\ <<x>> \in Seq(RequestsOf(s))
        <4>1. sq_skid[s] \in Seq(RequestsOf(s))  BY <1>0 DEF QueueTypes, Queues
        <4>2. <<x>> \in Seq(RequestsOf(s))  BY <1>6
        <4> QED BY <4>1, <4>2
      <3>3. <<>> \o sq_skid[s] = sq_skid[s] /\ <<>> \o (<<x>> \o sq_skid[s]) = <<x>> \o sq_skid[s]
        BY <3>2, ConcatEmptySeq, ConcatProperties
      <3>4. Of(sq_arb'.out, s) \o (sq_arb'.buf[s] \o sq_skid'[s])
              = Of(sq_arb.out, s) \o (sq_arb.buf[s] \o sq_skid[s])
        BY <3>1, <3>3, <2>1, <2>3, <1>1, <1>3, <1>6
      <3>5. RequestsUnderWay(s)' = RequestsUnderWay(s)  BY <3>4, <1>1 DEF RequestsUnderWay
      <3> QED BY <2>3, <3>5
    <2> QED BY <2>2, <2>3
  <1>9. ChainInv'
    <2>1. \A u \in streams : Chain(u)' = Chain(u)  BY <1>1, <1>8 DEF Chain
    <2> QED BY <2>1, <1>0, <1>1, KeepChain
  <1>10. RequestInv'  BY <1>0, <1>1, KeepRequests
  <1>11. MovesRequests  BY <1>1, <1>8, KeepFired DEF MovesRequests
  <1> QED BY <1>4, <1>5, <1>9, <1>10, <1>11 DEF FlowInv, FlowTypes

LEMMA TakeRequestFlow ==
  ASSUME FlowInv, TakeRequest
  PROVE  FlowInv' /\ MovesRequests
  <1>0. CountTypes /\ ArbiterTypes /\ OrderTypes /\ QueueTypes /\ AckTypes /\ RequestInv /\ ChainInv
    BY DEF FlowInv, FlowTypes
  <1>p. PICK x, s : x = Head(sq_arb.out) /\ s = Stream(x.port)  OBVIOUS
  <1>1. /\ sq_arb.out # <<>> /\ sq_arb' = Take(sq_arb)
        /\ sq' = [sq EXCEPT ![s] = Append(sq[s], x)]
        /\ UNCHANGED <<requested, sent, completed, writer_arb, data_order, cq_order,
                       sq_skid, acks, cq_wr, cq_strm>>
    BY <1>p DEF TakeRequest, CanTake, writerVars, completionVars
  <1>2. sq_arb \in Arbiters(NUM_STREAMS, Requests)  BY <1>0 DEF QueueTypes
  <1>3. x \in Requests /\ sq_arb.out = <<x>> /\ sq_arb.out[1] = x
    BY <1>p, <1>1, <1>2 DEF Arbiters, Slots
  <1>4. sq_arb' \in Arbiters(NUM_STREAMS, Requests) /\ sq_arb'.out = <<>> /\ sq_arb'.buf = sq_arb.buf
    BY <1>1, <1>2, StreamCount, TakeFacts
  <1>5. x.port \in ports  BY <1>3 DEF Requests
  <1>6. s \in streams /\ x \in RequestsOf(s)  BY <1>p, <1>3, <1>5, PortFacts DEF RequestsOf
  <1>7. sq[s] \in Seq(RequestsOf(s)) /\ Append(sq[s], x) \in Seq(RequestsOf(s)) /\ Queues(sq)
    BY <1>0, <1>6 DEF QueueTypes, Queues
  <1>8. Queues(sq') /\ sq'[s] = Append(sq[s], x) /\ \A u \in streams : u # s => sq'[u] = sq[u]
    <2> DEFINE y == Append(sq[s], x)
    <2>1. y \in Seq(RequestsOf(s)) /\ sq' = [sq EXCEPT ![s] = y]  BY <1>1, <1>7
    <2> HIDE DEF y
    <2>2. Queues([sq EXCEPT ![s] = y])  BY <2>1, <1>6, <1>7, QueueUpdate
    <2>3. Queues(sq')  BY <2>1, <2>2
    <2>4. sq'[s] = y /\ \A u \in streams : u # s => sq'[u] = sq[u]  BY <2>1, <1>6, <1>7 DEF Queues
    <2> QED BY <2>3, <2>4 DEF y
  <1>9. QueueTypes'  BY <1>0, <1>1, <1>4, <1>8 DEF QueueTypes
  <1>10. CountTypes' /\ ArbiterTypes' /\ OrderTypes' /\ AckTypes'
    BY <1>0, <1>1 DEF CountTypes, ArbiterTypes, OrderTypes, AckTypes
  <1>11. ASSUME NEW u \in streams PROVE RequestsUnderWay(u)' = RequestsUnderWay(u)
    <2>1. Of(sq_arb'.out, u) = <<>>  BY <1>4 DEF Of
    <2>2. CASE u # s
      <3>1. Of(sq_arb.out, u) = <<>>  BY <2>2, <1>p, <1>3 DEF Of
      <3> QED BY <2>1, <2>2, <3>1, <1>1, <1>4, <1>8 DEF RequestsUnderWay
    <2>3. CASE u = s
      <3>1. Of(sq_arb.out, s) = <<x>>  BY <1>p, <1>1, <1>3 DEF Of
      <3> DEFINE r == sq_arb.buf[s] \o sq_skid[s]
      <3>2. r \in Seq(RequestsOf(s))  BY <1>0, <1>6, ChainTypes, ConcatProperties
      <3> HIDE DEF r
      <3>3. Append(sq[s], x) \o (<<>> \o r) = sq[s] \o (<<x>> \o r)
        <4>1. <<x>> \in Seq(RequestsOf(s)) /\ <<x>> # <<>> /\ Head(<<x>>) = x /\ Tail(<<x>>) = <<>>
          BY <1>6
        <4> DEFINE b == <<x>>
        <4>2. b \in Seq(RequestsOf(s)) /\ b # <<>> /\ Head(b) = x /\ Tail(b) = <<>>  BY <4>1
        <4> HIDE DEF b
        <4>3. Append(sq[s], Head(b)) \o (Tail(b) \o r) = sq[s] \o (b \o r)
          <5> DEFINE a == sq[s]
                     R == RequestsOf(s)
          <5>1. a \in Seq(R) /\ b \in Seq(R) /\ r \in Seq(R) /\ b # <<>>  BY <4>2, <3>2, <1>7
          <5> HIDE DEF a, R
          <5>2. Append(a, Head(b)) \o (Tail(b) \o r) = a \o (b \o r)  BY <5>1, HandOn
          <5> QED BY <5>2 DEF a
        <4>4. Append(sq[s], x) \o (<<>> \o r) = sq[s] \o (b \o r)  BY <4>2, <4>3
        <4> QED BY <4>4 DEF b
      <3>4. RequestsUnderWay(s)' = RequestsUnderWay(s)
        <4>1. sq'[s] \o (Of(sq_arb'.out, s) \o (sq_arb'.buf[s] \o sq_skid'[s]))
                = sq[s] \o (Of(sq_arb.out, s) \o (sq_arb.buf[s] \o sq_skid[s]))
          BY <3>1, <3>3, <2>1, <2>3, <1>1, <1>4, <1>8 DEF r
        <4> QED BY <4>1 DEF RequestsUnderWay
      <3> QED BY <2>3, <3>4
    <2> QED BY <2>2, <2>3
  <1>12. ChainInv'
    <2>1. \A u \in streams : Chain(u)' = Chain(u)  BY <1>1, <1>11 DEF Chain
    <2> QED BY <2>1, <1>0, <1>1, KeepChain
  <1>13. RequestInv'  BY <1>0, <1>1, KeepRequests
  <1>14. MovesRequests  BY <1>1, <1>11, KeepFired DEF MovesRequests
  <1> QED BY <1>9, <1>10, <1>12, <1>13, <1>14 DEF FlowInv, FlowTypes

LEMMA UnchangedFlow ==
  ASSUME FlowInv, UNCHANGED <<requested, sent, completed, requestVars, sq, acks, cq_wr, cq_strm>>
  PROVE  FlowInv'
  <1>0. CountTypes /\ ArbiterTypes /\ OrderTypes /\ QueueTypes /\ AckTypes /\ RequestInv /\ ChainInv
    BY DEF FlowInv, FlowTypes
  <1>1. UNCHANGED <<requested, sent, completed, writer_arb, data_order, cq_order, sq_skid, sq_arb,
                    sq, acks, cq_wr, cq_strm>>
    BY DEF requestVars
  <1>2. CountTypes' /\ ArbiterTypes' /\ OrderTypes' /\ AckTypes'
    BY <1>0, <1>1 DEF CountTypes, ArbiterTypes, OrderTypes, AckTypes
  <1>3. QueueTypes'  BY <1>0, <1>1 DEF QueueTypes
  <1>4. \A s \in streams : Chain(s)' = Chain(s)  BY <1>1 DEF Chain, RequestsUnderWay
  <1>5. ChainInv'  BY <1>0, <1>1, <1>4, KeepChain
  <1>6. RequestInv'  BY <1>0, <1>1, KeepRequests
  <1> QED BY <1>2, <1>3, <1>5, <1>6 DEF FlowInv, FlowTypes

LEMMA TakeBeatFlow ==
  ASSUME FlowInv, NEW s \in streams, TakeBeat(s)
  PROVE  FlowInv'
  <1>0. CountTypes /\ ArbiterTypes /\ OrderTypes /\ QueueTypes /\ AckTypes /\ RequestInv /\ ChainInv
    BY DEF FlowInv, FlowTypes
  <1>1. UNCHANGED <<requested, sent, completed, writer_arb, data_order, cq_order, sq_skid, sq_arb,
                    cq_wr, cq_strm>>
    BY DEF TakeBeat, writerVars, requestVars, completionVars
  <1>2. CASE UNCHANGED <<sq, acks>>  BY <1>1, <1>2, UnchangedFlow DEF requestVars
  <1>3. CASE /\ sq' = [sq EXCEPT ![s] = Tail(sq[s])]
             /\ acks' = [acks EXCEPT ![s] = Append(acks[s], Head(sq[s]))]
    <2>1. sq[s] # <<>>  BY DEF TakeBeat
    <2>2. PICK R, a, b, r : /\ R = RequestsOf(s) /\ a = acks[s] /\ b = sq[s]
                            /\ r = Of(sq_arb.out, s) \o (sq_arb.buf[s] \o sq_skid[s])
      OBVIOUS
    <2>3. a \in Seq(R) /\ b \in Seq(R) /\ b # <<>>  BY <2>1, <2>2, <1>0 DEF QueueTypes, Queues
    <2>4. r \in Seq(R)
      <3>1. /\ Of(sq_arb.out, s) \in Seq(R) /\ sq_arb.buf[s] \in Seq(R) /\ sq_skid[s] \in Seq(R)
        BY <2>2, <1>0, ChainTypes
      <3>2. sq_arb.buf[s] \o sq_skid[s] \in Seq(R)  BY <3>1, ConcatProperties
      <3> QED BY <3>1, <3>2, <2>2, ConcatProperties
    <2>5. /\ Head(b) \in R /\ Tail(b) \in Seq(R)
          /\ Append(a, Head(b)) \o (Tail(b) \o r) = a \o (b \o r)
      BY <2>3, <2>4, HandOn
    <2>6. Append(a, Head(b)) \in Seq(R)  BY <2>3, <2>5, AppendProperties
    <2>7. Queues(sq) /\ Queues(acks)  BY <1>0 DEF QueueTypes
    <2>8. Queues(sq') /\ sq'[s] = Tail(b) /\ \A u \in streams : u # s => sq'[u] = sq[u]
      <3>1. PICK x : x = Tail(b)  OBVIOUS
      <3>2. sq' = [sq EXCEPT ![s] = x] /\ x \in Seq(RequestsOf(s))  BY <3>1, <2>2, <2>5, <1>3
      <3>3. Queues([sq EXCEPT ![s] = x])  BY <3>2, <2>7, QueueUpdate
      <3>4. Queues(sq')  BY <3>2, <3>3
      <3>5. sq'[s] = x /\ \A u \in streams : u # s => sq'[u] = sq[u]  BY <3>2, <2>7 DEF Queues
      <3> QED BY <3>1, <3>4, <3>5
    <2>9. Queues(acks') /\ acks'[s] = Append(a, Head(b)) /\ \A u \in streams : u # s => acks'[u] = acks[u]
      <3>1. PICK x : x = Append(a, Head(b))  OBVIOUS
      <3>2. acks' = [acks EXCEPT ![s] = x] /\ x \in Seq(RequestsOf(s))  BY <3>1, <2>2, <2>6, <1>3
      <3>3. Queues([acks EXCEPT ![s] = x])  BY <3>2, <2>7, QueueUpdate
      <3>4. Queues(acks')  BY <3>2, <3>3
      <3>5. acks'[s] = x /\ \A u \in streams : u # s => acks'[u] = acks[u]  BY <3>2, <2>7 DEF Queues
      <3> QED BY <3>1, <3>4, <3>5
    <2>10. QueueTypes'  BY <2>8, <2>9, <1>0, <1>1 DEF QueueTypes
    <2>11. CountTypes' /\ ArbiterTypes' /\ OrderTypes' /\ AckTypes'
      BY <1>0, <1>1 DEF CountTypes, ArbiterTypes, OrderTypes, AckTypes
    <2>12. ASSUME NEW u \in streams PROVE Chain(u)' = Chain(u)
      <3>1. CASE u # s  BY <3>1, <2>8, <2>9, <1>1 DEF Chain, RequestsUnderWay
      <3>2. CASE u = s
        <4>1. acks'[s] \o (sq'[s] \o (Of(sq_arb'.out, s) \o (sq_arb'.buf[s] \o sq_skid'[s])))
                = acks[s] \o (sq[s] \o (Of(sq_arb.out, s) \o (sq_arb.buf[s] \o sq_skid[s])))
          BY <2>2, <2>5, <2>8, <2>9, <1>1
        <4> QED BY <3>2, <4>1, <1>1 DEF Chain, RequestsUnderWay
      <3> QED BY <3>1, <3>2
    <2>13. ChainInv'  BY <2>12, <1>0, <1>1, KeepChain
    <2>14. RequestInv'  BY <1>0, <1>1, KeepRequests
    <2> QED BY <2>10, <2>11, <2>13, <2>14 DEF FlowInv, FlowTypes
  <1> QED BY <1>2, <1>3 DEF TakeBeat

LEMMA CompleteFlow ==
  ASSUME FlowInv, NEW s \in streams, Complete(s)
  PROVE  FlowInv'
  <1>0. CountTypes /\ ArbiterTypes /\ OrderTypes /\ QueueTypes /\ AckTypes /\ RequestInv /\ ChainInv
    BY DEF FlowInv, FlowTypes
  <1>1. /\ acks[s] # <<>> /\ cq_wr = <<>>
        /\ cq_wr' = <<[dest |-> s, own |-> TRUE, of |-> Head(acks[s])]>>
        /\ acks' = [acks EXCEPT ![s] = Tail(acks[s])]
        /\ UNCHANGED <<requested, sent, completed, writer_arb, data_order, cq_order, sq_skid, sq_arb,
                       sq, cq_strm>>
    BY DEF Complete, writerVars, requestVars
  <1>2. PICK R, b, r : /\ R = RequestsOf(s) /\ b = acks[s]
                       /\ r = sq[s] \o (Of(sq_arb.out, s) \o (sq_arb.buf[s] \o sq_skid[s]))
    OBVIOUS
  <1>3. b \in Seq(R) /\ b # <<>>  BY <1>0, <1>1, <1>2 DEF QueueTypes, Queues
  <1>4. r \in Seq(R)
    <2>1. /\ Of(sq_arb.out, s) \in Seq(R) /\ sq_arb.buf[s] \in Seq(R) /\ sq_skid[s] \in Seq(R)
          /\ sq[s] \in Seq(R)
      BY <1>2, <1>0, ChainTypes
    <2>2. sq_arb.buf[s] \o sq_skid[s] \in Seq(R)  BY <2>1, ConcatProperties
    <2>3. Of(sq_arb.out, s) \o (sq_arb.buf[s] \o sq_skid[s]) \in Seq(R)
      BY <2>1, <2>2, ConcatProperties
    <2> QED BY <2>1, <2>3, <1>2, ConcatProperties
  <1>5. Head(b) \in R /\ Tail(b) \in Seq(R) /\ <<Head(b)>> \o (Tail(b) \o r) = b \o r
    BY <1>3, <1>4, HandOn
  <1>6. Queues(acks') /\ acks'[s] = Tail(b) /\ \A u \in streams : u # s => acks'[u] = acks[u]
    <2>1. PICK x : x = Tail(b)  OBVIOUS
    <2>2. acks' = [acks EXCEPT ![s] = x] /\ x \in Seq(RequestsOf(s)) /\ Queues(acks)
      BY <2>1, <1>0, <1>1, <1>2, <1>5 DEF QueueTypes
    <2>3. Queues([acks EXCEPT ![s] = x])  BY <2>2, QueueUpdate
    <2>4. Queues(acks')  BY <2>2, <2>3
    <2>5. acks'[s] = x /\ \A u \in streams : u # s => acks'[u] = acks[u]  BY <2>2 DEF Queues
    <2> QED BY <2>1, <2>4, <2>5
  <1>7. QueueTypes'  BY <1>0, <1>1, <1>6 DEF QueueTypes
  <1>8. CountTypes' /\ ArbiterTypes' /\ OrderTypes'
    BY <1>0, <1>1 DEF CountTypes, ArbiterTypes, OrderTypes
  <1>9. PICK ack : ack = [dest |-> s, own |-> TRUE, of |-> Head(b)]  OBVIOUS
  <1>10. /\ cq_wr' = <<ack>> /\ cq_wr' # <<>> /\ cq_wr'[1] = ack
         /\ ack.own = TRUE /\ ack.dest = s /\ ack.of = Head(b)
    BY <1>1, <1>2, <1>9
  <1>11. AckTypes'
    <2>1. Head(b) \in [port : Nat, transfer : Nat]
      <3>1. ports \subseteq Nat  BY DEF ports
      <3> QED BY <3>1, <1>2, <1>5 DEF RequestsOf, Requests
    <2>2. ack \in Acks  BY <2>1, <1>9 DEF Acks
    <2>3. cq_wr' \in Slots(Acks)  BY <2>2, <1>10 DEF Slots
    <2>4. AckOK(ack)  BY <1>2, <1>5, <1>10 DEF AckOK
    <2> QED BY <2>3, <2>4, <1>0, <1>1, <1>10 DEF AckTypes
  <1>12. ASSUME NEW u \in streams PROVE Chain(u)' = Chain(u)
    <2>1. Own(cq_wr, u) = <<>>  BY <1>1 DEF Own
    <2>2. CASE u # s
      <3>1. Own(cq_wr', u) = <<>>  BY <2>2, <1>10 DEF Own
      <3> QED BY <2>1, <2>2, <3>1, <1>1, <1>6 DEF Chain, RequestsUnderWay
    <2>3. CASE u = s
      <3>1. Own(cq_wr', s) = <<Head(b)>>  BY <1>10 DEF Own
      <3>2. <<>> \o (b \o r) = b \o r  BY <1>3, <1>4, ConcatProperties, ConcatEmptySeq
      <3>3. Own(cq_wr', s) \o (acks'[s] \o r) = Own(cq_wr, s) \o (acks[s] \o r)
        BY <2>1, <2>3, <3>1, <3>2, <1>2, <1>5, <1>6
      <3> QED BY <2>3, <3>3, <1>1, <1>2 DEF Chain, RequestsUnderWay
    <2> QED BY <2>2, <2>3
  <1>13. ChainInv'  BY <1>0, <1>1, <1>12, KeepChain
  <1>14. RequestInv'  BY <1>0, <1>1, KeepRequests
  <1> QED BY <1>7, <1>8, <1>11, <1>13, <1>14 DEF FlowInv, FlowTypes

LEMMA CompleteForeignFlow ==
  ASSUME FlowInv, NEW s \in streams, CompleteForeign(s)
  PROVE  FlowInv'
  <1>0. CountTypes /\ ArbiterTypes /\ OrderTypes /\ QueueTypes /\ AckTypes /\ RequestInv /\ ChainInv
    BY DEF FlowInv, FlowTypes
  <1>1. /\ cq_wr = <<>> /\ cq_wr' = <<[dest |-> s, own |-> FALSE, of |-> Transfer(0, 0)]>>
        /\ UNCHANGED <<requested, sent, completed, writer_arb, data_order, cq_order, sq_skid, sq_arb,
                       sq, acks, cq_strm>>
    BY DEF CompleteForeign, writerVars, requestVars, shellVars
  <1>2. PICK ack : ack = [dest |-> s, own |-> FALSE, of |-> Transfer(0, 0)]  OBVIOUS
  <1>3. cq_wr' = <<ack>> /\ cq_wr' # <<>> /\ cq_wr'[1] = ack /\ ack.own = FALSE /\ ack \in Acks
    BY <1>1, <1>2 DEF Transfer, Acks
  <1>4. AckTypes'  BY <1>0, <1>1, <1>3 DEF AckTypes, AckOK, Slots
  <1>5. CountTypes' /\ ArbiterTypes' /\ OrderTypes'
    BY <1>0, <1>1 DEF CountTypes, ArbiterTypes, OrderTypes
  <1>6. QueueTypes'  BY <1>0, <1>1 DEF QueueTypes
  <1>7. ASSUME NEW u \in streams PROVE Chain(u)' = Chain(u)
    <2>1. Own(cq_wr, u) = <<>> /\ Own(cq_wr', u) = <<>>  BY <1>1, <1>3 DEF Own
    <2> QED BY <2>1, <1>1 DEF Chain, RequestsUnderWay
  <1>8. ChainInv'  BY <1>0, <1>1, <1>7, KeepChain
  <1>9. RequestInv'  BY <1>0, <1>1, KeepRequests
  <1> QED BY <1>4, <1>5, <1>6, <1>8, <1>9 DEF FlowInv, FlowTypes

LEMMA DemultiplexFlow ==
  ASSUME FlowInv, Demultiplex
  PROVE  FlowInv'
  <1>0. CountTypes /\ ArbiterTypes /\ OrderTypes /\ QueueTypes /\ AckTypes /\ RequestInv /\ ChainInv
    BY DEF FlowInv, FlowTypes
  <1>1. cq_wr # <<>> /\ cq_wr \in Slots(Acks)  BY <1>0 DEF AckTypes, Demultiplex
  <1>2. PICK ack \in Acks : cq_wr = <<ack>>  BY <1>1 DEF Slots
  <1>3. PICK s \in streams : s = ack.dest  BY DEF Acks
  <1>4. /\ cq_wr[1] = ack
        /\ cq_strm[s] = <<>> /\ cq_wr' = <<>> /\ cq_strm' = [cq_strm EXCEPT ![s] = cq_wr]
        /\ UNCHANGED <<requested, sent, completed, writer_arb, data_order, cq_order, sq_skid, sq_arb,
                       sq, acks>>
    BY <1>2, <1>3 DEF Demultiplex, writerVars, requestVars, shellVars
  <1>5. /\ cq_strm' \in [streams -> Slots(Acks)] /\ cq_strm'[s] = cq_wr
        /\ \A u \in streams : u # s => cq_strm'[u] = cq_strm[u]
    BY <1>0, <1>1, <1>4 DEF AckTypes
  <1>6. AckTypes'
    <2>1. AckOK(ack)  BY <1>0, <1>1, <1>4 DEF AckTypes
    <2>2. ASSUME NEW u \in streams, cq_strm'[u] # <<>>
          PROVE  AckOK(cq_strm'[u][1]) /\ cq_strm'[u][1].dest = u
      <3>1. CASE u = s  BY <3>1, <2>1, <1>3, <1>4, <1>5
      <3>2. CASE u # s  BY <3>2, <2>2, <1>0, <1>5 DEF AckTypes
      <3> QED BY <3>1, <3>2
    <2>3. cq_wr' \in Slots(Acks) /\ ~ (cq_wr' # <<>>)  BY <1>4 DEF Slots
    <2> QED BY <2>2, <2>3, <1>5 DEF AckTypes
  <1>7. CountTypes' /\ ArbiterTypes' /\ OrderTypes'
    BY <1>0, <1>4 DEF CountTypes, ArbiterTypes, OrderTypes
  <1>8. QueueTypes'  BY <1>0, <1>4 DEF QueueTypes
  <1>9. ASSUME NEW u \in streams PROVE Chain(u)' = Chain(u)
    <2>1. Own(cq_wr', u) = <<>>  BY <1>4 DEF Own
    <2>2. CASE u # s
      <3>1. Own(cq_wr, u) = <<>>  BY <2>2, <1>3, <1>4 DEF Own
      <3> QED BY <2>1, <2>2, <3>1, <1>4, <1>5 DEF Chain, RequestsUnderWay
    <2>3. CASE u = s
      <3>1. PICK R, x, r : /\ R = RequestsOf(s) /\ x = Own(cq_wr, s)
                           /\ r = acks[s] \o (sq[s] \o (Of(sq_arb.out, s) \o (sq_arb.buf[s] \o sq_skid[s])))
        OBVIOUS
      <3>2. x \in Seq(R) /\ r \in Seq(R)
        <4>1. /\ Of(sq_arb.out, s) \in Seq(R) /\ sq_arb.buf[s] \in Seq(R) /\ sq_skid[s] \in Seq(R)
              /\ sq[s] \in Seq(R) /\ acks[s] \in Seq(R) /\ x \in Seq(R)
          BY <3>1, <1>0, ChainTypes
        <4>2. sq_arb.buf[s] \o sq_skid[s] \in Seq(R)  BY <4>1, ConcatProperties
        <4>3. Of(sq_arb.out, s) \o (sq_arb.buf[s] \o sq_skid[s]) \in Seq(R)
          BY <4>1, <4>2, ConcatProperties
        <4>4. sq[s] \o (Of(sq_arb.out, s) \o (sq_arb.buf[s] \o sq_skid[s])) \in Seq(R)
          BY <4>1, <4>3, ConcatProperties
        <4> QED BY <4>1, <4>4, <3>1, ConcatProperties
      <3>3. x \o r \in Seq(R) /\ <<>> \o r = r  BY <3>2, ConcatProperties, ConcatEmptySeq
      <3>4. <<>> \o (x \o r) = x \o (<<>> \o r)  BY <3>3, ConcatEmptySeq
      <3>5. Own(cq_strm[s], s) = <<>> /\ Own(cq_strm'[s], s) = x  BY <3>1, <1>4, <1>5 DEF Own
      <3>6. Own(cq_strm'[s], s) \o (Own(cq_wr', s) \o r) = Own(cq_strm[s], s) \o (Own(cq_wr, s) \o r)
        BY <2>1, <2>3, <3>1, <3>4, <3>5
      <3> QED BY <2>3, <3>1, <3>6, <1>4 DEF Chain, RequestsUnderWay
    <2> QED BY <2>2, <2>3
  <1>10. ChainInv'  BY <1>0, <1>4, <1>9, KeepChain
  <1>11. RequestInv'  BY <1>0, <1>4, KeepRequests
  <1> QED BY <1>6, <1>7, <1>8, <1>10, <1>11 DEF FlowInv, FlowTypes

LEMMA ArbiterSlots ==
  ASSUME ArbiterTypes, NEW s \in streams, NEW slot,
         \/ slot = writer_arb[s].out
         \/ \E w \in 0 .. PORTS_PER_STREAM[s] - 1 : slot = writer_arb[s].buf[w],
         slot # <<>>
  PROVE  /\ slot = <<slot[1]>> /\ slot[1] \in RequestsOf(s)
         /\ slot[1].port \in ports /\ Stream(slot[1].port) = s /\ slot[1].transfer \in Nat
  <1>1. writer_arb[s] \in Arbiters(PORTS_PER_STREAM[s], RequestsOf(s))  BY DEF ArbiterTypes
  <1>2. slot \in Slots(RequestsOf(s))  BY <1>1 DEF Arbiters
  <1>3. PICK r \in RequestsOf(s) : slot = <<r>>  BY <1>2 DEF Slots
  <1> QED BY <1>3 DEF RequestsOf, Requests

LEMMA FiredType ==
  ASSUME CountTypes, RequestInv
  PROVE  Fired \in [ports -> Nat]
  <1>1. ASSUME NEW p \in ports
        PROVE  (IF InArb(p) THEN requested[p] - 1 ELSE requested[p]) \in Nat
    <2>1. requested[p] \in Nat /\ sent[p] \in Nat  BY DEF CountTypes
    <2>2. CASE InArb(p)
      <3>1. sent[p] < requested[p]  BY <2>2 DEF RequestInv, AtMostOne
      <3> QED BY <2>1, <2>2, <3>1
    <2> QED BY <2>1, <2>2
  <1> QED BY <1>1 DEF Fired

\* An unshared stream's arbiter stays empty.
LEMMA UnsharedIdle ==
  ASSUME RequestInv, NEW p \in ports, ~ shared(Stream(p))
  PROVE  ~ InArb(p)
  <1>1. Held(Stream(p)) /\ Offered(Stream(p)) /\ Writer(p) \in 0 .. PORTS_PER_STREAM[Stream(p)] - 1
    BY PortFacts DEF RequestInv
  <1> QED BY <1>1 DEF Held, Offered, InArb

LEMMA ChainAppend ==
  ASSUME QueueTypes, AckTypes, NEW s \in streams, NEW x \in RequestsOf(s),
         sq_skid'[s] = Append(sq_skid[s], x), UNCHANGED <<sq_arb, sq, acks, cq_wr, cq_strm>>
  PROVE  Chain(s) \in Seq(RequestsOf(s)) /\ Chain(s)' = Append(Chain(s), x)
  <1>1. PICK R, a, b, c, d, e, f, g :
          /\ R = RequestsOf(s) /\ a = Own(cq_strm[s], s) /\ b = Own(cq_wr, s) /\ c = acks[s]
          /\ d = sq[s] /\ e = Of(sq_arb.out, s) /\ f = sq_arb.buf[s] /\ g = sq_skid[s]
    OBVIOUS
  <1>2. /\ a \in Seq(R) /\ b \in Seq(R) /\ c \in Seq(R) /\ d \in Seq(R) /\ e \in Seq(R)
        /\ f \in Seq(R) /\ g \in Seq(R) /\ x \in R
    BY <1>1, ChainTypes
  <1>L. ASSUME NEW y \in Seq(R), NEW z \in Seq(R)
        PROVE  y \o z \in Seq(R) /\ y \o Append(z, x) = Append(y \o z, x)
    <2>1. x \in R  BY <1>2
    <2> QED BY <2>1, AppendLast
  <1>3. f \o g \in Seq(R) /\ f \o Append(g, x) = Append(f \o g, x)  BY <1>2, <1>L
  <1>4. PICK g2 \in Seq(R) : g2 = f \o g  BY <1>3
  <1>5. e \o g2 \in Seq(R) /\ e \o Append(g2, x) = Append(e \o g2, x)  BY <1>2, <1>L
  <1>6. PICK g3 \in Seq(R) : g3 = e \o g2  BY <1>5
  <1>7. d \o g3 \in Seq(R) /\ d \o Append(g3, x) = Append(d \o g3, x)  BY <1>2, <1>L
  <1>8. PICK g4 \in Seq(R) : g4 = d \o g3  BY <1>7
  <1>9. c \o g4 \in Seq(R) /\ c \o Append(g4, x) = Append(c \o g4, x)  BY <1>2, <1>L
  <1>10. PICK g5 \in Seq(R) : g5 = c \o g4  BY <1>9
  <1>11. b \o g5 \in Seq(R) /\ b \o Append(g5, x) = Append(b \o g5, x)  BY <1>2, <1>L
  <1>12. PICK g6 \in Seq(R) : g6 = b \o g5  BY <1>11
  <1>13. a \o g6 \in Seq(R) /\ a \o Append(g6, x) = Append(a \o g6, x)  BY <1>2, <1>L
  <1>14. Chain(s) = a \o (b \o (c \o (d \o (e \o (f \o g)))))  BY <1>1 DEF Chain, RequestsUnderWay
  <1>15. Chain(s)' = a \o (b \o (c \o (d \o (e \o (f \o Append(g, x))))))
    BY <1>1 DEF Chain, RequestsUnderWay
  <1>16. Chain(s) = a \o g6  BY <1>14, <1>4, <1>6, <1>8, <1>10, <1>12
  <1>17. Chain(s)' = a \o Append(g6, x)
    BY <1>15, <1>3, <1>4, <1>5, <1>6, <1>7, <1>8, <1>9, <1>10, <1>11, <1>12
  <1> QED BY <1>1, <1>13, <1>16, <1>17

LEMMA ChainType ==
  ASSUME QueueTypes, AckTypes, NEW s \in streams
  PROVE  Chain(s) \in Seq(RequestsOf(s))
  <1>1. PICK R, a, b, c, d, e, f, g :
          /\ R = RequestsOf(s) /\ a = Own(cq_strm[s], s) /\ b = Own(cq_wr, s) /\ c = acks[s]
          /\ d = sq[s] /\ e = Of(sq_arb.out, s) /\ f = sq_arb.buf[s] /\ g = sq_skid[s]
    OBVIOUS
  <1>2. /\ a \in Seq(R) /\ b \in Seq(R) /\ c \in Seq(R) /\ d \in Seq(R) /\ e \in Seq(R)
        /\ f \in Seq(R) /\ g \in Seq(R)
    BY <1>1, ChainTypes
  <1>3. f \o g \in Seq(R)  BY <1>2, ConcatProperties
  <1>4. e \o (f \o g) \in Seq(R)  BY <1>2, <1>3, ConcatProperties
  <1>5. d \o (e \o (f \o g)) \in Seq(R)  BY <1>2, <1>4, ConcatProperties
  <1>6. c \o (d \o (e \o (f \o g))) \in Seq(R)  BY <1>2, <1>5, ConcatProperties
  <1>7. b \o (c \o (d \o (e \o (f \o g)))) \in Seq(R)  BY <1>2, <1>6, ConcatProperties
  <1>8. a \o (b \o (c \o (d \o (e \o (f \o g))))) \in Seq(R)  BY <1>2, <1>7, ConcatProperties
  <1> QED BY <1>1, <1>8 DEF Chain, RequestsUnderWay

\* A request of the port leaves for the shell.
LEMMA FireChain ==
  ASSUME FlowInv, NEW p \in ports, NEW s \in streams, s = Stream(p),
         NEW fired, fired = Fired', fired = [Fired EXCEPT ![p] = @ + 1],
         sq_skid'[s] = Append(sq_skid[s], Transfer(p, fired[p])),
         \A u \in streams : u # s => sq_skid'[u] = sq_skid[u] /\ cq_order'[u] = cq_order[u],
         shared(s) => cq_order'[s] = Append(cq_order[s], Writer(p)),
         UNCHANGED <<completed, sq_arb, sq, acks, cq_wr, cq_strm>>
  PROVE  ChainInv'
  <1>0. CountTypes /\ OrderTypes /\ QueueTypes /\ AckTypes /\ RequestInv /\ ChainInv
    BY DEF FlowInv, FlowTypes
  <1>1. Fired \in [ports -> Nat] /\ completed \in [ports -> Nat]  BY <1>0, FiredType DEF CountTypes
  <1>2. PICK x, c, fired0 : x = Transfer(p, fired[p]) /\ c = Chain(s) /\ fired0 = Fired  OBVIOUS
   <1>3. /\ c \in Seq(RequestsOf(s)) /\ Successive(s, c, completed, fired0)
         /\ (shared(s) => Ordered(cq_order[s], c))
    BY <1>0, <1>2, ChainType DEF ChainInv
  <1>4. x \in RequestsOf(s) /\ Successive(s, Append(c, x), completed, fired)
    <2>1. fired = Raised(fired0, p)  BY <1>2 DEF Raised
    <2> QED BY <2>1, <1>1, <1>2, <1>3, AppendSuccessive
  <1>5. Chain(s)' = Append(c, x)  BY <1>0, <1>2, <1>4, ChainAppend
  <1>6. shared(s) => Ordered(cq_order'[s], Append(c, x))
    <2> SUFFICES ASSUME shared(s) PROVE Ordered(cq_order'[s], Append(c, x))  OBVIOUS
    <2>1. x.port = p /\ Writer(p) \in Nat
      <3>1. Writer(p) \in 0 .. PORTS_PER_STREAM[Stream(p)] - 1 /\ PORTS_PER_STREAM[Stream(p)] \in Nat
        BY PortFacts, OutputWriterAssumption
      <3> QED BY <3>1, <1>2 DEF Transfer
    <2>2. PICK o : o = cq_order[s]  OBVIOUS
    <2>3. o \in Seq(Nat) /\ Ordered(o, c)  BY <2>2, <1>0, <1>3 DEF OrderTypes
    <2>4. PICK R : R = RequestsOf(s)  OBVIOUS
    <2>5. c \in Seq(R) /\ x \in R  BY <2>4, <1>3, <1>4
    <2>6. Ordered(Append(o, Writer(x.port)), Append(c, x))  BY <2>1, <2>3, <2>5, AppendOrdered
    <2> QED BY <2>1, <2>2, <2>6
  <1>7. ASSUME NEW u \in streams
        PROVE  (/\ Successive(u, Chain(u), completed, Fired)
                /\ shared(u) => Ordered(cq_order[u], Chain(u)))'
    <2>1. CASE u = s
      <3>1. Successive(s, Chain(s)', completed', Fired')  BY <1>4, <1>5
      <3>2. shared(s) => Ordered(cq_order'[s], Chain(s)')  BY <1>5, <1>6
      <3> QED BY <2>1, <3>1, <3>2
    <2>2. CASE u # s
      <3>1. Chain(u)' = Chain(u)  BY <2>2 DEF Chain, RequestsUnderWay
      <3>2. PICK d : d = Chain(u)  OBVIOUS
      <3>3. d \in Seq(RequestsOf(u)) /\ Successive(u, d, completed, fired0)
        BY <3>2, <1>0, <1>2, ChainType DEF ChainInv
      <3>4. \A q \in ports : Stream(q) = u => fired[q] = fired0[q]  BY <2>2, <1>1, <1>2
      <3>a. PICK done, done1 : done = completed /\ done1 = completed  OBVIOUS
      <3>b. /\ u \in streams /\ d \in Seq(RequestsOf(u)) /\ Successive(u, d, done1, fired0)
            /\ Agree(u, done1, fired0, done, fired)
        BY <3>a, <3>3, <3>4 DEF Agree
      <3>c. Successive(u, d, done, fired)  BY <3>b, SameSuccessive
      <3>5. Successive(u, d, completed, fired)  BY <3>a, <3>c
      <3>6. Successive(u, Chain(u)', completed', Fired')  BY <3>1, <3>2, <3>5
      <3>7. shared(u) => Ordered(cq_order'[u], Chain(u)')  BY <2>2, <3>1, <1>0 DEF ChainInv
      <3> QED BY <3>6, <3>7
    <2> QED BY <2>1, <2>2
  <1> QED BY <1>7 DEF ChainInv

LEMMA RequestFlow ==
  ASSUME FlowInv, NEW p \in ports, Request(p)
  PROVE  FlowInv' /\ (IF shared(Stream(p)) THEN MovesRequests ELSE AddsRequest(p))
  <1>0. CountTypes /\ ArbiterTypes /\ OrderTypes /\ QueueTypes /\ AckTypes /\ RequestInv /\ ChainInv
    BY DEF FlowInv, FlowTypes
  <1>p. PICK s \in streams : s = Stream(p)  BY PortFacts
  <1>1. /\ requested[p] = sent[p] /\ requested' = [requested EXCEPT ![p] = requested[p] + 1]
        /\ UNCHANGED <<sent, completed, data_order, cq_order, sq_arb, sq, acks, cq_wr, cq_strm>>
    BY DEF Request, shellVars, completionVars
  <1>2. /\ requested[p] \in Nat /\ requested'[p] = requested[p] + 1 /\ requested' \in [ports -> Nat]
        /\ \A q \in ports : q # p => requested'[q] = requested[q]
    BY <1>0, <1>1 DEF CountTypes
  <1>3. CountTypes' /\ OrderTypes' /\ AckTypes'
    BY <1>0, <1>1, <1>2 DEF CountTypes, OrderTypes, AckTypes
  <1>4. ~ InArb(p)
    <2>1. InArb(p) => sent[p] < requested[p]  BY <1>0 DEF RequestInv, AtMostOne
    <2> QED BY <2>1, <1>1, <1>2
  <1>5. ASSUME NEW i \in 1 .. Len(data_order[s]) PROVE data_order[s][i] # Writer(p)
    <2>1. Awaited(p)  BY <1>0 DEF RequestInv
    <2>2. data_order[s][i] = Writer(p) => sent[p] < requested[p]  BY <2>1, <1>p DEF Awaited
    <2> QED BY <2>2, <1>1, <1>2
  \* What the last request of another port is, does not change.
  <1>6. ASSUME NEW q \in ports, q # p, InArb(q)' <=> InArb(q)
        PROVE  (AtMostOne(q) /\ Awaited(q))'
    <2>1. AtMostOne(q)'  BY <1>0, <1>1, <1>2, <1>6 DEF RequestInv, AtMostOne
    <2>2. Awaited(q)  BY <1>0 DEF RequestInv
    <2>3. Awaited(q)'  BY <2>2, <1>1, <1>2, <1>6 DEF Awaited
    <2> QED BY <2>1, <2>3
  <1>7. (AtMostOne(p) /\ Awaited(p))'
    <2>1. sent[p] \in Nat  BY <1>0 DEF CountTypes
    <2>2. AtMostOne(p)'  BY <2>1, <1>1, <1>2 DEF AtMostOne
    <2>3. Awaited(p)'  BY <1>1, <1>5, <1>p DEF Awaited
    <2> QED BY <2>2, <2>3
  <1>8. ASSUME ~ shared(s)
        PROVE  FlowInv' /\ AddsRequest(p)
    <2>1. PICK x : x = Transfer(p, requested[p] + 1)  OBVIOUS
    <2>2. sq_skid' = [sq_skid EXCEPT ![s] = Append(sq_skid[s], x)] /\ writer_arb' = writer_arb
      BY <2>1, <1>8, <1>p DEF Request
    <2>3. x \in RequestsOf(s)  BY <2>1, <1>2, <1>p DEF RequestsOf, Requests, Transfer
    <2>4. Queues(sq_skid) /\ sq_skid[s] \in Seq(RequestsOf(s))  BY <1>0 DEF QueueTypes, Queues
    <2>5. Queues(sq_skid') /\ sq_skid'[s] = Append(sq_skid[s], x)
          /\ \A u \in streams : u # s => sq_skid'[u] = sq_skid[u]
      <3>1. PICK y : y = Append(sq_skid[s], x)  OBVIOUS
      <3>2. y \in Seq(RequestsOf(s))  BY <3>1, <2>3, <2>4, AppendProperties
      <3>3. Queues([sq_skid EXCEPT ![s] = y])  BY <3>2, <2>4, QueueUpdate
      <3>4. Queues(sq_skid')  BY <3>1, <3>3, <2>2
      <3>5. sq_skid'[s] = y /\ \A u \in streams : u # s => sq_skid'[u] = sq_skid[u]
        BY <3>1, <2>2, <2>4 DEF Queues
      <3> QED BY <3>1, <3>4, <3>5
    <2>6. \A q \in ports : InArb(q)' <=> InArb(q)  BY <2>2 DEF InArb
    <2>7. ArbiterTypes' /\ QueueTypes'  BY <2>2, <2>5, <1>0, <1>1 DEF ArbiterTypes, QueueTypes
    <2>8. RequestInv'
      <3>1. ASSUME NEW u \in streams PROVE (Held(u) /\ Offered(u))'
        <4>1. Held(u) /\ Offered(u)  BY <1>0 DEF RequestInv
        <4>2. ASSUME NEW slot, slot # <<>>, shared(u),
                     \/ slot = writer_arb[u].out
                     \/ \E w \in 0 .. PORTS_PER_STREAM[u] - 1 : slot = writer_arb[u].buf[w]
              PROVE  requested'[slot[1].port] = requested[slot[1].port]
          <5>1. slot[1].port \in ports /\ Stream(slot[1].port) = u  BY <4>2, <1>0, ArbiterSlots
          <5>2. slot[1].port # p  BY <5>1, <4>2, <1>8, <1>p
          <5> QED BY <5>1, <5>2, <1>2
        <4>3. Held(u)'  BY <4>1, <4>2, <2>2 DEF Held
        <4>4. Offered(u)'  BY <4>1, <4>2, <2>2 DEF Offered
        <4> QED BY <4>3, <4>4
      <3> QED BY <3>1, <2>6, <1>6, <1>7 DEF RequestInv
    <2>9. Fired' = [Fired EXCEPT ![p] = @ + 1]
      <3>1. ASSUME NEW q \in ports
            PROVE  Fired'[q] = [Fired EXCEPT ![p] = @ + 1][q]
        <4>1. Fired'[q] = IF InArb(q) THEN requested'[q] - 1 ELSE requested'[q]  BY <2>6 DEF Fired
        <4>2. Fired[q] = IF InArb(q) THEN requested[q] - 1 ELSE requested[q]  BY DEF Fired
        <4>3. CASE q # p
          <5>1. Fired'[q] = Fired[q]  BY <4>1, <4>2, <4>3, <1>2
          <5> QED BY <5>1, <4>3 DEF Fired
        <4>4. CASE q = p
          <5>1. Fired'[q] = Fired[q] + 1  BY <4>1, <4>2, <4>4, <1>2, <1>4
          <5> QED BY <5>1, <4>4 DEF Fired
        <4> QED BY <4>3, <4>4
      <3> QED BY <3>1 DEF Fired
    <2>10. ChainInv'
      <3>1. PICK fired : fired = Fired'  OBVIOUS
      <3>2. fired[p] = requested[p] + 1  BY <3>1, <2>6, <1>2, <1>4 DEF Fired
      <3>3. fired = [Fired EXCEPT ![p] = @ + 1]  BY <3>1, <2>9
      <3>4. /\ sq_skid'[s] = Append(sq_skid[s], Transfer(p, fired[p]))
            /\ \A u \in streams : u # s => sq_skid'[u] = sq_skid[u] /\ cq_order'[u] = cq_order[u]
            /\ shared(s) => cq_order'[s] = Append(cq_order[s], Writer(p))
        BY <3>2, <2>1, <2>5, <1>1, <1>8
      <3> QED BY <3>1, <3>3, <3>4, <1>p, <1>1, FireChain
    <2>11. AddsRequest(p)
      <3>1. Fired'[p] = requested'[p]  BY <2>6, <1>2, <1>4 DEF Fired
      <3> QED BY <3>1, <2>1, <2>5, <2>9, <1>1, <1>2, <1>p DEF AddsRequest
    <2> QED BY <2>7, <2>8, <2>10, <2>11, <1>3 DEF FlowInv, FlowTypes
  <1>9. ASSUME shared(s)
        PROVE  FlowInv' /\ MovesRequests
    <2>1. PICK x, w, a, b : /\ x = Transfer(p, requested[p] + 1) /\ w = Writer(p)
                            /\ a = writer_arb[s] /\ b = Accept(a, w, x)
      OBVIOUS
    <2>2. /\ a.buf[w] = <<>> /\ writer_arb' = [writer_arb EXCEPT ![s] = b] /\ sq_skid' = sq_skid
      BY <2>1, <1>9, <1>p DEF Request, CanAccept
    <2>3. x \in RequestsOf(s) /\ x.port = p /\ x.transfer = requested'[p]
      BY <2>1, <1>2, <1>p DEF RequestsOf, Requests, Transfer
    <2>4. w \in 0 .. PORTS_PER_STREAM[s] - 1 /\ PORTS_PER_STREAM[s] \in Nat \ {0}
      BY <2>1, <1>p, PortFacts, OutputWriterAssumption
    <2>5. a \in Arbiters(PORTS_PER_STREAM[s], RequestsOf(s))  BY <2>1, <1>0 DEF ArbiterTypes
    <2>6. /\ b \in Arbiters(PORTS_PER_STREAM[s], RequestsOf(s)) /\ b.out = a.out /\ b.buf[w] = <<x>>
          /\ \A j \in 0 .. PORTS_PER_STREAM[s] - 1 : j # w => b.buf[j] = a.buf[j]
      <3>1. PICK n, R : n = PORTS_PER_STREAM[s] /\ R = RequestsOf(s)  OBVIOUS
      <3>2. n \in Nat \ {0} /\ a \in Arbiters(n, R) /\ w \in 0 .. n - 1 /\ x \in R /\ b = Accept(a, w, x)
        BY <3>1, <2>1, <2>3, <2>4, <2>5
      <3>3. /\ b \in Arbiters(n, R) /\ b.out = a.out /\ b.buf[w] = <<x>>
            /\ \A j \in 0 .. n - 1 : j # w => b.buf[j] = a.buf[j]
        BY <3>2, AcceptFacts
      <3> QED BY <3>1, <3>3
    <2>7. writer_arb'[s] = b /\ \A u \in streams : u # s => writer_arb'[u] = writer_arb[u]
      BY <2>2, <1>0 DEF ArbiterTypes
    <2>8. ArbiterTypes'
      <3>1. writer_arb' = [u \in streams |-> writer_arb'[u]]  BY <2>2, <1>0 DEF ArbiterTypes
      <3>2. ASSUME NEW u \in streams PROVE writer_arb'[u] \in Arbiters(PORTS_PER_STREAM[u], RequestsOf(u))
        BY <2>6, <2>7, <1>0 DEF ArbiterTypes
      <3> QED BY <3>1, <3>2 DEF ArbiterTypes
    <2>9. ASSUME NEW q \in ports, q # p
          PROVE  InArb(q)' <=> InArb(q)
      <3>1. CASE Stream(q) = s
        <4>1. Writer(q) # w /\ Writer(q) \in 0 .. PORTS_PER_STREAM[s] - 1
          BY <3>1, <2>1, <2>9, <1>p, SamePort, PortFacts
        <4>2. b.buf[Writer(q)] = a.buf[Writer(q)]  BY <4>1, <2>6
        <4> QED BY <3>1, <4>2, <2>1, <2>6, <2>7 DEF InArb
      <3>2. CASE Stream(q) # s  BY <3>2, <2>7, PortFacts DEF InArb
      <3> QED BY <3>1, <3>2
    <2>10. InArb(p)'  BY <2>1, <2>6, <2>7, <1>p DEF InArb
    <2>11. RequestInv'
      <3>1. ASSUME NEW u \in streams PROVE (Held(u) /\ Offered(u))'
        <4>1. Held(u) /\ Offered(u)  BY <1>0 DEF RequestInv
        <4>2. CASE u # s
          <5>1. ASSUME NEW slot, slot # <<>>,
                       \/ slot = writer_arb[u].out
                       \/ \E v \in 0 .. PORTS_PER_STREAM[u] - 1 : slot = writer_arb[u].buf[v]
                PROVE  requested'[slot[1].port] = requested[slot[1].port]
            <6>1. slot[1].port \in ports /\ Stream(slot[1].port) = u  BY <5>1, <1>0, ArbiterSlots
            <6> QED BY <6>1, <4>2, <1>2, <1>p
          <5>2. Held(u)'  BY <4>1, <4>2, <5>1, <2>7 DEF Held
          <5>3. Offered(u)'  BY <4>1, <4>2, <5>1, <2>7 DEF Offered
          <5> QED BY <5>2, <5>3
        <4>3. CASE u = s
          <5>1. ASSUME NEW v \in 0 .. PORTS_PER_STREAM[s] - 1, b.buf[v] # <<>>
                PROVE  /\ Writer(b.buf[v][1].port) = v
                       /\ b.buf[v][1].transfer = requested'[b.buf[v][1].port]
            <6>1. CASE v = w
              <7>1. b.buf[v][1] = x  BY <6>1, <2>6
              <7> QED BY <7>1, <6>1, <2>1, <2>3
            <6>2. CASE v # w
              <7>1. b.buf[v] = a.buf[v] /\ a.buf[v] # <<>>  BY <5>1, <6>2, <2>6
              <7>2. /\ Writer(a.buf[v][1].port) = v
                    /\ a.buf[v][1].transfer = requested[a.buf[v][1].port]
                BY <7>1, <4>1, <4>3, <2>1 DEF Held
              <7>3. a.buf[v][1].port \in ports  BY <7>1, <2>1, <1>0, ArbiterSlots
              <7>4. a.buf[v][1].port # p  BY <7>2, <6>2, <2>1
              <7> QED BY <7>1, <7>2, <7>3, <7>4, <1>2
            <6> QED BY <6>1, <6>2
          <5>2. Held(s)'  BY <5>1, <2>7, <1>9 DEF Held
          <5>3. ASSUME b.out # <<>>
                PROVE  /\ b.buf[Writer(b.out[1].port)] = <<>>
                       /\ b.out[1].transfer = requested'[b.out[1].port]
            <6>1. b.out = a.out /\ a.out # <<>>  BY <5>3, <2>6
            <6>2. a.out[1].port \in ports /\ Stream(a.out[1].port) = s
              BY <6>1, <2>1, <1>0, ArbiterSlots
            <6>3. a.out[1].port # p  BY <6>1, <1>4, <1>p, <2>1 DEF InArb
            <6>4. /\ a.buf[Writer(a.out[1].port)] = <<>>
                  /\ a.out[1].transfer = requested[a.out[1].port]
              BY <6>1, <4>1, <4>3, <2>1 DEF Offered
            <6>5. Writer(a.out[1].port) # w /\ Writer(a.out[1].port) \in 0 .. PORTS_PER_STREAM[s] - 1
              BY <6>2, <6>3, <2>1, <1>p, SamePort, PortFacts
            <6> QED BY <6>1, <6>2, <6>3, <6>4, <6>5, <2>6, <1>2
          <5>4. Offered(s)'  BY <5>3, <2>7, <1>9 DEF Offered
          <5> QED BY <4>3, <5>2, <5>4
        <4> QED BY <4>2, <4>3
      <3>2. ASSUME NEW q \in ports PROVE (AtMostOne(q) /\ Awaited(q))'  BY <2>9, <1>6, <1>7
      <3> QED BY <3>1, <3>2 DEF RequestInv
    <2>12. Fired' = Fired
      <3>1. ASSUME NEW q \in ports
            PROVE  (IF InArb(q) THEN requested[q] - 1 ELSE requested[q])'
                     = IF InArb(q) THEN requested[q] - 1 ELSE requested[q]
        <4>1. CASE q # p  BY <4>1, <2>9, <1>2
        <4>2. CASE q = p  BY <4>2, <2>10, <1>2, <1>4
        <4> QED BY <4>1, <4>2
      <3> QED BY <3>1 DEF Fired
    <2>13. ASSUME NEW u \in streams PROVE Chain(u)' = Chain(u)
      BY <2>2, <1>1 DEF Chain, RequestsUnderWay
    <2>14. ChainInv'  BY <2>12, <2>13, <1>0, <1>1 DEF ChainInv, Successive, Ordered
    <2>15. QueueTypes'  BY <2>2, <1>0, <1>1 DEF QueueTypes
    <2>16. MovesRequests  BY <2>2, <2>12, <1>1 DEF MovesRequests, RequestsUnderWay
    <2> QED BY <2>8, <2>11, <2>14, <2>15, <2>16, <1>3 DEF FlowInv, FlowTypes
  <1> QED BY <1>8, <1>9, <1>p

LEMMA SelectWriterFlow ==
  ASSUME FlowInv, NEW s \in streams, SelectWriter(s)
  PROVE  FlowInv' /\ MovesRequests
  <1>0. CountTypes /\ ArbiterTypes /\ OrderTypes /\ QueueTypes /\ AckTypes /\ RequestInv /\ ChainInv
    BY DEF FlowInv, FlowTypes
  <1>1. PICK n, R, a, b, i : /\ n = PORTS_PER_STREAM[s] /\ R = RequestsOf(s) /\ a = writer_arb[s]
                             /\ b = Load(a, n) /\ i = input_stream_select(a)
    OBVIOUS
  <1>2. /\ CanLoad(a) /\ writer_arb' = [writer_arb EXCEPT ![s] = b]
        /\ UNCHANGED <<requested, sent, completed, data_order, cq_order, sq_skid, sq_arb,
                       sq, acks, cq_wr, cq_strm>>
    BY <1>1 DEF SelectWriter, writerVars, shellVars, completionVars
  <1>3. n \in Nat \ {0} /\ a \in Arbiters(n, R)
    BY <1>0, <1>1, OutputWriterAssumption DEF ArbiterTypes
  <1>4. /\ i \in 0 .. n - 1 /\ a.buf[i] # <<>> /\ a.out = <<>>
        /\ b \in Arbiters(n, R) /\ b.out = a.buf[i] /\ b.buf[i] = <<>>
        /\ \A j \in 0 .. n - 1 : j # i => b.buf[j] = a.buf[j]
    BY <1>1, <1>2, <1>3, LoadFacts
  <1>5. PICK x : x = a.buf[i][1]  OBVIOUS
  <1>6. a.buf[i] = <<x>> /\ x.port \in ports /\ Stream(x.port) = s
    BY <1>0, <1>1, <1>4, <1>5, ArbiterSlots
  <1>7. Held(s) /\ \A u \in streams : Held(u) /\ Offered(u)  BY <1>0 DEF RequestInv
  <1>8. shared(s) /\ Writer(x.port) = i /\ x.transfer = requested[x.port]
    BY <1>1, <1>4, <1>5, <1>7 DEF Held
  <1>9. writer_arb'[s] = b /\ \A u \in streams : u # s => writer_arb'[u] = writer_arb[u]
    BY <1>2, <1>0 DEF ArbiterTypes
  <1>10. ArbiterTypes'
    <2>1. writer_arb' = [u \in streams |-> writer_arb'[u]]  BY <1>2, <1>0 DEF ArbiterTypes
    <2>2. ASSUME NEW u \in streams PROVE writer_arb'[u] \in Arbiters(PORTS_PER_STREAM[u], RequestsOf(u))
      BY <1>1, <1>4, <1>9, <1>0 DEF ArbiterTypes
    <2> QED BY <2>1, <2>2 DEF ArbiterTypes
  <1>11. ASSUME NEW q \in ports PROVE InArb(q)' <=> InArb(q)
    <2>1. CASE Stream(q) # s  BY <2>1, <1>9, PortFacts DEF InArb
    <2>2. CASE Stream(q) = s
      <3>1. Writer(q) \in 0 .. n - 1  BY <2>2, <1>1, PortFacts
      <3>2. InArb(q) <=> a.buf[Writer(q)] # <<>>  BY <2>2, <1>1, <1>4 DEF InArb
      <3>3. b.out # <<>> /\ b.out[1] = x  BY <1>4, <1>6
      <3>4. InArb(q)' <=> b.buf[Writer(q)] # <<>> \/ x.port = q  BY <2>2, <3>3, <1>9 DEF InArb
      <3>5. CASE Writer(q) = i
        <4>1. x.port = q  BY <2>2, <3>5, <1>6, <1>8, SamePort
        <4> QED BY <3>2, <3>4, <3>5, <4>1, <1>4
      <3>6. CASE Writer(q) # i
        <4>1. x.port # q  BY <3>6, <1>8
        <4> QED BY <3>1, <3>2, <3>4, <3>6, <4>1, <1>4
      <3> QED BY <3>5, <3>6
    <2> QED BY <2>1, <2>2
  <1>12. RequestInv'
    <2>1. ASSUME NEW u \in streams PROVE (Held(u) /\ Offered(u))'
      <3>1. CASE u # s  BY <3>1, <1>2, <1>7, <1>9 DEF Held, Offered
      <3>2. CASE u = s
        <4>1. Held(s)'
          <5>1. ASSUME NEW j \in 0 .. n - 1, b.buf[j] # <<>>
                 PROVE  /\ shared(s) /\ Writer(b.buf[j][1].port) = j
                        /\ b.buf[j][1].transfer = requested[b.buf[j][1].port]
            <6>1. j # i /\ b.buf[j] = a.buf[j]  BY <5>1, <1>4
            <6> QED BY <5>1, <6>1, <1>1, <1>7 DEF Held
          <5> QED BY <5>1, <1>1, <1>2, <1>9 DEF Held
        <4>2. b.out[1] = x /\ b.buf[Writer(x.port)] = <<>>  BY <1>4, <1>6, <1>8
        <4>3. Offered(s)'  BY <4>2, <1>2, <1>8, <1>9 DEF Offered
        <4> QED BY <3>2, <4>1, <4>3
      <3> QED BY <3>1, <3>2
    <2>2. ASSUME NEW p \in ports PROVE (AtMostOne(p) /\ Awaited(p))'
      BY <1>0, <1>2, <1>11 DEF RequestInv, AtMostOne, Awaited
    <2> QED BY <2>1, <2>2 DEF RequestInv
  <1>13. Fired' = Fired  BY <1>2, <1>11 DEF Fired
  <1>14. ASSUME NEW u \in streams PROVE Chain(u)' = Chain(u)  BY <1>2 DEF Chain, RequestsUnderWay
  <1>15. ChainInv'  BY <1>13, <1>14, <1>0, <1>2 DEF ChainInv, Successive, Ordered
  <1>16. CountTypes' /\ OrderTypes' /\ AckTypes'  BY <1>0, <1>2 DEF CountTypes, OrderTypes, AckTypes
  <1>17. QueueTypes'  BY <1>0, <1>2 DEF QueueTypes
  <1>18. MovesRequests  BY <1>2, <1>13 DEF MovesRequests, RequestsUnderWay
  <1> QED BY <1>10, <1>12, <1>15, <1>16, <1>17, <1>18 DEF FlowInv, FlowTypes

LEMMA FireRequestFlow ==
  ASSUME FlowInv, NEW s \in streams, FireRequest(s)
  PROVE  FlowInv' /\ \E p \in ports : FiresRequest(s, p)
  <1>0. CountTypes /\ ArbiterTypes /\ OrderTypes /\ QueueTypes /\ AckTypes /\ RequestInv /\ ChainInv
    BY DEF FlowInv, FlowTypes
   <1>1. PICK a, b, x, p, w :
            /\ a = writer_arb[s] /\ b = Take(a) /\ x = a.out[1] /\ p = x.port /\ w = Writer(p)
    OBVIOUS
  <1>2. a.out # <<>> /\ OrderFifosReady(s)  BY <1>1 DEF FireRequest, CanTake
  <1>3. /\ a.out = <<x>> /\ x \in RequestsOf(s) /\ p \in ports /\ Stream(p) = s /\ x.transfer \in Nat
    BY <1>0, <1>1, <1>2, ArbiterSlots
  <1>4. Head(a.out) = x  BY <1>3
  <1>5. /\ sq_skid' = [sq_skid EXCEPT ![s] = Append(sq_skid[s], x)]
        /\ data_order' = [data_order EXCEPT ![s] = Push(data_order[s], DATA_ORDER_DEPTH, w)]
        /\ cq_order' = [cq_order EXCEPT ![s] = Push(cq_order[s], CQ_ORDER_DEPTH, w)]
        /\ writer_arb' = [writer_arb EXCEPT ![s] = b]
        /\ UNCHANGED <<requested, sent, completed, sq_arb, sq, acks, cq_wr, cq_strm>>
    BY <1>1, <1>4 DEF FireRequest, writerVars, shellVars, completionVars
  <1>6. /\ data_order' = [data_order EXCEPT ![s] = Append(data_order[s], w)]
        /\ cq_order' = [cq_order EXCEPT ![s] = Append(cq_order[s], w)]
    BY <1>2, <1>5 DEF OrderFifosReady, Push
  <1>7. w \in 0 .. PORTS_PER_STREAM[s] - 1 /\ w \in Nat /\ PORTS_PER_STREAM[s] \in Nat \ {0}
    <2>1. w \in 0 .. PORTS_PER_STREAM[s] - 1 /\ PORTS_PER_STREAM[s] \in Nat \ {0}
      BY <1>1, <1>3, PortFacts, OutputWriterAssumption
    <2> QED BY <2>1
  <1>8. /\ shared(s) /\ a.buf[w] = <<>> /\ x.transfer = requested[p]
    BY <1>0, <1>1, <1>2 DEF RequestInv, Offered
  <1>9. a \in Arbiters(PORTS_PER_STREAM[s], RequestsOf(s))  BY <1>0, <1>1 DEF ArbiterTypes
  <1>10. b \in Arbiters(PORTS_PER_STREAM[s], RequestsOf(s)) /\ b.out = <<>> /\ b.buf = a.buf
    <2>1. PICK n, R : n = PORTS_PER_STREAM[s] /\ R = RequestsOf(s)  OBVIOUS
    <2>2. b \in Arbiters(n, R) /\ b.out = <<>> /\ b.buf = a.buf
      BY <2>1, <1>1, <1>7, <1>9, TakeFacts
    <2> QED BY <2>1, <2>2
  <1>11. writer_arb'[s] = b /\ \A u \in streams : u # s => writer_arb'[u] = writer_arb[u]
    BY <1>5, <1>0 DEF ArbiterTypes
  <1>12. ArbiterTypes'
    <2>1. writer_arb' = [u \in streams |-> writer_arb'[u]]  BY <1>5, <1>0 DEF ArbiterTypes
    <2>2. ASSUME NEW u \in streams PROVE writer_arb'[u] \in Arbiters(PORTS_PER_STREAM[u], RequestsOf(u))
      BY <1>10, <1>11, <1>0 DEF ArbiterTypes
    <2> QED BY <2>1, <2>2 DEF ArbiterTypes
  <1>13. Queues(sq_skid') /\ sq_skid'[s] = Append(sq_skid[s], x)
         /\ \A u \in streams : u # s => sq_skid'[u] = sq_skid[u]
    <2>1. PICK y : y = Append(sq_skid[s], x)  OBVIOUS
    <2>2. Queues(sq_skid) /\ sq_skid[s] \in Seq(RequestsOf(s))  BY <1>0 DEF QueueTypes, Queues
    <2>3. y \in Seq(RequestsOf(s))  BY <2>1, <2>2, <1>3, AppendProperties
    <2>4. Queues([sq_skid EXCEPT ![s] = y])  BY <2>2, <2>3, QueueUpdate
    <2>5. Queues(sq_skid')  BY <2>1, <2>4, <1>5
    <2>6. sq_skid'[s] = y /\ \A u \in streams : u # s => sq_skid'[u] = sq_skid[u]
      BY <2>1, <2>2, <1>5 DEF Queues
    <2> QED BY <2>1, <2>5, <2>6
  <1>14. QueueTypes'  BY <1>0, <1>5, <1>13 DEF QueueTypes
  <1>15. PICK o, o2 : o = data_order[s] /\ o2 = Append(o, w)  OBVIOUS
  <1>16. /\ o \in Seq(Nat) /\ o2 \in Seq(Nat) /\ Len(o2) = Len(o) + 1 /\ Len(o) \in Nat
         /\ o2[Len(o) + 1] = w /\ \A i \in 1 .. Len(o) : o2[i] = o[i]
    <2>1. o \in Seq(Nat)  BY <1>0, <1>15 DEF OrderTypes
    <2> QED BY <2>1, <1>7, <1>15, AppendProperties
  <1>17. data_order'[s] = o2 /\ \A u \in streams : u # s => data_order'[u] = data_order[u]
    BY <1>0, <1>6, <1>15 DEF OrderTypes
  <1>18. /\ cq_order'[s] = Append(cq_order[s], w)
         /\ \A u \in streams : u # s => cq_order'[u] = cq_order[u]
    BY <1>0, <1>6 DEF OrderTypes
  <1>19. CountTypes' /\ OrderTypes' /\ AckTypes'
    <2>1. CountTypes' /\ AckTypes'  BY <1>0, <1>5 DEF CountTypes, AckTypes
    <2>2. cq_order[s] \in Seq(Nat)  BY <1>0 DEF OrderTypes
    <2>3. Append(cq_order[s], w) \in Seq(Nat)  BY <2>2, <1>7, AppendProperties
    <2>4. data_order' \in [streams -> Seq(Nat)]  BY <1>0, <1>6, <1>15, <1>16 DEF OrderTypes
    <2>5. cq_order' \in [streams -> Seq(Nat)]  BY <2>3, <1>0, <1>6 DEF OrderTypes
    <2> QED BY <2>1, <2>4, <2>5 DEF OrderTypes
  <1>20. InArb(p) /\ ~ InArb(p)'
    <2>1. InArb(p)  BY <1>1, <1>2, <1>3 DEF InArb
    <2>2. ~ InArb(p)'  BY <1>1, <1>3, <1>8, <1>10, <1>11 DEF InArb
    <2> QED BY <2>1, <2>2
  <1>21. ASSUME NEW q \in ports, q # p PROVE InArb(q)' <=> InArb(q)
    <2>1. CASE Stream(q) # s  BY <2>1, <1>11, PortFacts DEF InArb
    <2>2. CASE Stream(q) = s  BY <2>2, <1>1, <1>10, <1>11, <1>21 DEF InArb
    <2> QED BY <2>1, <2>2
  <1>22. /\ sent[p] < requested[p] /\ requested[p] \in Nat
         /\ \A i \in 1 .. Len(o) : o[i] # w
    <2>1. AtMostOne(p) /\ Awaited(p)  BY <1>0, <1>3 DEF RequestInv
    <2>2. sent[p] < requested[p]  BY <2>1, <1>20 DEF AtMostOne
    <2>3. \A i \in 1 .. Len(o) : o[i] # w  BY <2>1, <1>1, <1>3, <1>15, <1>20 DEF Awaited
    <2> QED BY <2>2, <2>3, <1>0, <1>3 DEF CountTypes
  <1>23. RequestInv'
    <2>1. ASSUME NEW u \in streams PROVE (Held(u) /\ Offered(u))'
      <3>0. Held(u) /\ Offered(u)  BY <1>0 DEF RequestInv
      <3>1. CASE u # s  BY <3>0, <3>1, <1>5, <1>11 DEF Held, Offered
      <3>2. CASE u = s
        <4>1. Held(s)'  BY <3>0, <3>2, <1>1, <1>5, <1>10, <1>11 DEF Held
        <4>2. Offered(s)'  BY <1>10, <1>11 DEF Offered
        <4> QED BY <3>2, <4>1, <4>2
      <3> QED BY <3>1, <3>2
    <2>2. ASSUME NEW q \in ports PROVE AtMostOne(q)'
      <3>0. AtMostOne(q)  BY <1>0 DEF RequestInv
      <3>1. CASE q = p  BY <3>0, <3>1, <1>5, <1>20 DEF AtMostOne
      <3>2. CASE q # p  BY <3>0, <3>2, <1>5, <1>21 DEF AtMostOne
      <3> QED BY <3>1, <3>2
    <2>3. ASSUME NEW q \in ports PROVE Awaited(q)'
      <3>0. Awaited(q) /\ Stream(q) \in streams  BY <1>0, PortFacts DEF RequestInv
      <3>1. CASE Stream(q) # s
        <4>1. data_order'[Stream(q)] = data_order[Stream(q)] /\ q # p  BY <3>0, <3>1, <1>3, <1>17
        <4> QED BY <3>0, <4>1, <1>5, <1>21 DEF Awaited
      <3>2. CASE q = p
        <4>1. ASSUME NEW i \in 1 .. Len(o2), o2[i] = w PROVE i = Len(o) + 1  BY <4>1, <1>16, <1>22
        <4>2. data_order'[Stream(q)] = o2 /\ Writer(q) = w /\ shared(Stream(q))
          BY <3>2, <1>1, <1>3, <1>8, <1>17
        <4>3. sent'[q] < requested'[q] /\ ~ InArb(q)'  BY <3>2, <1>5, <1>20, <1>22
        <4> QED BY <4>1, <4>2, <4>3 DEF Awaited
      <3>3. CASE Stream(q) = s /\ q # p
        <4>1. Writer(q) # w  BY <3>3, <1>1, <1>3, SamePort
        <4>2. ASSUME NEW i \in 1 .. Len(o2), o2[i] = Writer(q)
              PROVE  i \in 1 .. Len(o) /\ o[i] = Writer(q)
          BY <4>1, <4>2, <1>16
        <4>3. ASSUME NEW i \in 1 .. Len(o2), o2[i] = Writer(q)
              PROVE  /\ shared(s) /\ sent[q] < requested[q] /\ ~ InArb(q)
                     /\ \A j \in 1 .. Len(o2) : o2[j] = Writer(q) => j = i
          <5>1. i \in 1 .. Len(o) /\ o[i] = Writer(q)  BY <4>2, <4>3
          <5>2. /\ shared(s) /\ sent[q] < requested[q] /\ ~ InArb(q)
                /\ \A j \in 1 .. Len(o) : o[j] = Writer(q) => j = i
            BY <5>1, <3>0, <3>3, <1>15 DEF Awaited
          <5> QED BY <5>2, <4>2
        <4>4. InArb(q)' <=> InArb(q)  BY <3>3, <1>21
        <4> QED BY <3>3, <4>3, <4>4, <1>5, <1>17 DEF Awaited
      <3> QED BY <3>1, <3>2, <3>3
    <2> QED BY <2>1, <2>2, <2>3 DEF RequestInv
  <1>24. PICK fired : fired = Fired'  OBVIOUS
  <1>25. fired = [Fired EXCEPT ![p] = @ + 1] /\ fired[p] = requested[p]
    <2>0. \A q \in ports : fired[q] = IF InArb(q)' THEN requested[q] - 1 ELSE requested[q]
      BY <1>24, <1>5 DEF Fired
    <2>1. fired[p] = requested[p] /\ Fired[p] = requested[p] - 1  BY <2>0, <1>3, <1>20 DEF Fired
    <2>2. \A q \in ports : q # p => fired[q] = Fired[q]  BY <2>0, <1>21 DEF Fired
    <2>3. Fired[p] + 1 = requested[p]  BY <2>1, <1>22
    <2>4. fired = [q \in ports |-> fired[q]] /\ Fired = [q \in ports |-> Fired[q]]
      BY <1>24 DEF Fired
    <2>5. \A q \in ports : fired[q] = [Fired EXCEPT ![p] = @ + 1][q]
      <3>1. PICK g : g = Fired  OBVIOUS
      <3>2. ASSUME NEW q \in ports PROVE fired[q] = [g EXCEPT ![p] = @ + 1][q]
        BY <3>1, <2>1, <2>2, <2>3, <2>4
      <3> QED BY <3>1, <3>2
    <2>6. [Fired EXCEPT ![p] = @ + 1] = [q \in ports |-> [Fired EXCEPT ![p] = @ + 1][q]]
      BY DEF Fired
    <2> QED BY <2>1, <2>4, <2>5, <2>6
  <1>26. x = Transfer(p, fired[p])  BY <1>1, <1>3, <1>8, <1>25 DEF Transfer, RequestsOf, Requests
  <1>27. ChainInv'
    <2>1. /\ sq_skid'[s] = Append(sq_skid[s], Transfer(p, fired[p]))
          /\ \A u \in streams : u # s => sq_skid'[u] = sq_skid[u] /\ cq_order'[u] = cq_order[u]
          /\ shared(s) => cq_order'[s] = Append(cq_order[s], Writer(p))
      BY <1>1, <1>13, <1>18, <1>26
    <2>2. p \in ports /\ s = Stream(p) /\ fired = Fired' /\ fired = [Fired EXCEPT ![p] = @ + 1]
      BY <1>3, <1>24, <1>25
    <2>3. UNCHANGED <<completed, sq_arb, sq, acks, cq_wr, cq_strm>>  BY <1>5
    <2> QED BY <2>1, <2>2, <2>3, FireChain
  <1>28. FiresRequest(s, p)
    <2>1. AddsRequest(p)  BY <1>3, <1>5, <1>13, <1>24, <1>25, <1>26 DEF AddsRequest
    <2> QED BY <2>1, <1>1, <1>3, <1>8, <1>15, <1>17 DEF FiresRequest
  <1> QED BY <1>3, <1>12, <1>14, <1>19, <1>23, <1>27, <1>28 DEF FlowInv, FlowTypes

LEMMA SendBeatFlow ==
  ASSUME FlowInv, NEW p \in ports, SendBeat(p)
  PROVE  FlowInv'
  <1>0. CountTypes /\ ArbiterTypes /\ OrderTypes /\ QueueTypes /\ AckTypes /\ RequestInv /\ ChainInv
    BY DEF FlowInv, FlowTypes
  <1>1. UNCHANGED <<requested, completed, writer_arb, cq_order, sq_skid, sq_arb, sq, acks, cq_wr, cq_strm>>
    BY DEF SendBeat, completionVars
  <1>2. CASE ~ LastBeat(p)
    <2>1. UNCHANGED <<sent, data_order>>  BY <1>2 DEF SendBeat, data_pop
    <2> QED BY <2>1, <1>1, UnchangedFlow DEF requestVars
  <1>3. CASE LastBeat(p)
    <2>1. PICK s \in streams : s = Stream(p)  BY PortFacts
    <2>2. PICK o : o = data_order[s]  OBVIOUS
    <2>3. o \in Seq(Nat)  BY <2>2, <1>0 DEF OrderTypes
    <2>4. /\ sent[p] < requested[p] /\ sent' = [sent EXCEPT ![p] = sent[p] + 1]
          /\ shared(s) => o # <<>> /\ Head(o) = Writer(p)
          /\ data_order' = IF shared(s) THEN [data_order EXCEPT ![s] = Tail(o)] ELSE data_order
      BY <2>1, <2>2, <1>3 DEF SendBeat, data_pop
    <2>5. /\ sent[p] \in Nat /\ requested[p] \in Nat /\ sent'[p] = sent[p] + 1
          /\ sent' \in [ports -> Nat] /\ \A q \in ports : q # p => sent'[q] = sent[q]
      BY <2>4, <1>0 DEF CountTypes
    <2>6. CountTypes' /\ AckTypes'  BY <2>5, <1>0, <1>1 DEF CountTypes, AckTypes
    <2>7. OrderTypes'
      <3>1. CASE shared(s)
        <4>1. Tail(o) \in Seq(Nat)  BY <3>1, <2>3, <2>4, HeadTailProperties
        <4> QED BY <3>1, <4>1, <2>4, <1>0, <1>1 DEF OrderTypes
      <3>2. CASE ~ shared(s)  BY <3>2, <2>4, <1>0, <1>1 DEF OrderTypes
      <3> QED BY <3>1, <3>2
    <2>8. ArbiterTypes' /\ QueueTypes'  BY <1>0, <1>1 DEF ArbiterTypes, QueueTypes
    <2>9. \A q \in ports : InArb(q)' <=> InArb(q)  BY <1>1 DEF InArb
    <2>10. \A q \in ports : AtMostOne(q) /\ Awaited(q)  BY <1>0 DEF RequestInv
    <2>11. /\ ~ InArb(p) /\ (shared(s) => \A i \in 1 .. Len(o) : o[i] = Writer(p) => i = 1)
      <3>1. CASE shared(s)
        <4>1. 1 \in 1 .. Len(o) /\ o[1] = Writer(p)  BY <3>1, <2>3, <2>4
        <4> QED BY <4>1, <2>1, <2>2, <2>10 DEF Awaited
      <3>2. CASE ~ shared(s)  BY <3>2, <2>1, <1>0, UnsharedIdle
      <3> QED BY <3>1, <3>2
    <2>12. ASSUME NEW q \in ports PROVE AtMostOne(q)'
      <3>0. AtMostOne(q)  BY <2>10
      <3>1. CASE q = p  BY <3>0, <3>1, <2>4, <2>5, <2>9, <2>11, <1>1 DEF AtMostOne
      <3>2. CASE q # p  BY <3>0, <3>2, <2>5, <2>9, <1>1 DEF AtMostOne
      <3> QED BY <3>1, <3>2
    <2>13. ASSUME NEW q \in ports PROVE Awaited(q)'
      <3>0. Awaited(q) /\ Stream(q) \in streams  BY <2>10, PortFacts
      <3>1. CASE shared(s) /\ Stream(q) = s
        <4>0. PICK t : t = Tail(o)  OBVIOUS
        <4>1. Len(t) = Len(o) - 1 /\ \A i \in 1 .. Len(t) : t[i] = o[i + 1]
          BY <4>0, <3>1, <2>3, <2>4, HeadTailProperties
        <4>2. data_order'[s] = t  BY <4>0, <3>1, <2>4, <1>0 DEF OrderTypes
        <4>3. Len(o) \in Nat  BY <2>3
        <4>4. ASSUME NEW i \in 1 .. Len(t), t[i] = Writer(q)
              PROVE  /\ sent'[q] < requested[q] /\ ~ InArb(q)
                     /\ \A j \in 1 .. Len(t) : t[j] = Writer(q) => j = i
          <5>1. i + 1 \in 1 .. Len(o) /\ o[i + 1] = Writer(q) /\ i + 1 # 1  BY <4>1, <4>3, <4>4
          <5>2. q # p  BY <5>1, <3>1, <2>11
          <5>3. /\ sent[q] < requested[q] /\ ~ InArb(q)
                /\ \A j \in 1 .. Len(o) : o[j] = Writer(q) => j = i + 1
            BY <5>1, <3>0, <3>1, <2>2 DEF Awaited
          <5>4. ASSUME NEW j \in 1 .. Len(t), t[j] = Writer(q) PROVE j = i
            <6>1. j + 1 \in 1 .. Len(o) /\ o[j + 1] = Writer(q)  BY <5>4, <4>1, <4>3
            <6>2. j + 1 = i + 1  BY <6>1, <5>3
            <6> QED BY <6>2
          <5> QED BY <5>2, <5>3, <5>4, <2>5
        <4> QED BY <3>1, <4>2, <4>4, <2>9, <1>1 DEF Awaited
      <3>2. CASE ~ (shared(s) /\ Stream(q) = s)
        <4>1. data_order'[Stream(q)] = data_order[Stream(q)]
          BY <3>0, <3>2, <2>4, <1>0 DEF OrderTypes
        <4>2. CASE q = p
          <5>1. ~ shared(Stream(q))  BY <4>2, <3>2, <2>1
          <5> QED BY <5>1, <4>1, <3>0 DEF Awaited
        <4>3. CASE q # p  BY <4>3, <4>1, <3>0, <2>5, <2>9, <1>1 DEF Awaited
        <4> QED BY <4>2, <4>3
      <3> QED BY <3>1, <3>2
    <2>14. \A u \in streams : (Held(u) /\ Offered(u))'  BY <1>0, <1>1 DEF RequestInv, Held, Offered
    <2>15. RequestInv'  BY <2>12, <2>13, <2>14 DEF RequestInv
    <2>16. \A u \in streams : Chain(u)' = Chain(u)  BY <1>1 DEF Chain, RequestsUnderWay
    <2>17. ChainInv'  BY <2>16, <1>0, <1>1, KeepChain
    <2> QED BY <2>6, <2>7, <2>8, <2>15, <2>17 DEF FlowInv, FlowTypes
  <1> QED BY <1>2, <1>3

\* The completion at the demultiplexer's output is for the oldest request of the stream,
\* and goes to the port of it.
LEMMA OldestCompleted ==
  ASSUME FlowInv, NEW s \in streams, cq_strm[s] # <<>>, cq_strm[s][1].own,
         NEW x, x = cq_strm[s][1].of,
         NEW c, c = Chain(s)
  PROVE  /\ c \in Seq(RequestsOf(s)) /\ c # <<>> /\ Head(c) = x
         /\ \A v : v = Own(<<>>, s) \o (Own(cq_wr, s) \o (acks[s] \o (sq[s]
                         \o (Of(sq_arb.out, s) \o (sq_arb.buf[s] \o sq_skid[s])))))
               => Tail(c) = v
         /\ x.port \in ports /\ Stream(x.port) = s
         /\ x = Transfer(x.port, completed[x.port] + 1)
         /\ shared(s) => cq_order[s] # <<>>
         /\ Completed(s) = x.port
  <1>0. CountTypes /\ OrderTypes /\ QueueTypes /\ AckTypes /\ RequestInv /\ ChainInv
    BY DEF FlowInv, FlowTypes
  <1>1. Own(cq_strm[s], s) = <<x>> /\ x \in RequestsOf(s)
    <2>1. AckOK(cq_strm[s][1]) /\ cq_strm[s][1].dest = s  BY <1>0 DEF AckTypes
    <2> QED BY <2>1 DEF Own, AckOK
  <1>2. PICK R, r : /\ R = RequestsOf(s)
                    /\ r = Own(cq_wr, s) \o (acks[s] \o (sq[s]
                         \o (Of(sq_arb.out, s) \o (sq_arb.buf[s] \o sq_skid[s]))))
    OBVIOUS
  <1>3. r \in Seq(R)
    <2>1. PICK b, e, d, f, g, k :
            /\ b = Own(cq_wr, s) /\ k = acks[s]
            /\ d = sq[s] /\ e = Of(sq_arb.out, s) /\ f = sq_arb.buf[s] /\ g = sq_skid[s]
      OBVIOUS
    <2>2. /\ b \in Seq(R) /\ k \in Seq(R) /\ d \in Seq(R) /\ e \in Seq(R)
          /\ f \in Seq(R) /\ g \in Seq(R)
      BY <2>1, <1>0, <1>2, ChainTypes
    <2>3. f \o g \in Seq(R)  BY <2>2, ConcatProperties
    <2>4. e \o (f \o g) \in Seq(R)  BY <2>2, <2>3, ConcatProperties
    <2>5. d \o (e \o (f \o g)) \in Seq(R)  BY <2>2, <2>4, ConcatProperties
    <2>6. k \o (d \o (e \o (f \o g))) \in Seq(R)  BY <2>2, <2>5, ConcatProperties
    <2>7. b \o (k \o (d \o (e \o (f \o g)))) \in Seq(R)  BY <2>2, <2>6, ConcatProperties
    <2> QED BY <2>1, <2>7, <1>2
  <1>4. c = <<x>> \o r  BY <1>1, <1>2 DEF Chain, RequestsUnderWay
  <1>5. c \in Seq(R) /\ c # <<>> /\ Head(c) = x /\ Tail(c) = r /\ <<>> \o r = r
    <2>1. x \in R /\ r \in Seq(R)  BY <1>1, <1>2, <1>3
    <2>2. /\ <<x>> \o r \in Seq(R) /\ <<x>> \o r # <<>>
          /\ Head(<<x>> \o r) = x /\ Tail(<<x>> \o r) = r /\ <<>> \o r = r
      BY <2>1, FirstOf
    <2> QED BY <2>2, <1>4
  <1>6. Successive(s, c, completed, Fired) /\ (shared(s) => Ordered(cq_order[s], c))
    BY <1>0 DEF ChainInv
  <1>7. x.port \in ports /\ Stream(x.port) = s  BY <1>1 DEF RequestsOf, Requests
  <1>8. x = Transfer(x.port, completed[x.port] + 1)
    <2>1. PICK done, fired, after : /\ done = completed /\ fired = Fired
                                    /\ after = [completed EXCEPT ![x.port] = @ + 1]
      OBVIOUS
    <2>2. done \in [ports -> Nat] /\ fired \in [ports -> Nat]
      BY <2>1, <1>0, FiredType DEF CountTypes
    <2>3. c \in Seq(RequestsOf(s)) /\ c # <<>> /\ after = [done EXCEPT ![Head(c).port] = @ + 1]
          /\ Successive(s, c, done, fired)
      BY <2>1, <1>2, <1>5, <1>6
    <2>4. Head(c) = Transfer(Head(c).port, done[Head(c).port] + 1)  BY <2>2, <2>3, TailSuccessive
    <2> QED BY <2>1, <2>4, <1>5
  <1>9. shared(s) => cq_order[s] # <<>> /\ Head(cq_order[s]) = Writer(x.port)
    <2> SUFFICES ASSUME shared(s) PROVE cq_order[s] # <<>> /\ Head(cq_order[s]) = Writer(x.port)
      OBVIOUS
    <2>1. PICK o : o = cq_order[s]  OBVIOUS
    <2>2. o \in Seq(Nat) /\ Ordered(o, c)  BY <2>1, <1>0, <1>6 DEF OrderTypes
    <2>3. o # <<>> /\ Head(o) = Writer(Head(c).port)  BY <2>2, <1>5, TailOrdered
    <2> QED BY <2>1, <2>3, <1>5
  <1>10. Completed(s) = x.port
    <2>1. /\ Writer(x.port) \in 0 .. PORTS_PER_STREAM[s] - 1 /\ first_port[s] \in Nat
          /\ x.port = first_port[s] + Writer(x.port) /\ PORTS_PER_STREAM[s] \in Nat \ {0}
      BY <1>7, PortFacts, OutputWriterAssumption
    <2>2. CASE shared(s)  BY <2>1, <2>2, <1>9 DEF Completed
    <2>3. CASE ~ shared(s)
      <3>1. Writer(x.port) = 0  BY <2>1, <2>3 DEF shared
      <3> QED BY <2>1, <2>3, <3>1 DEF Completed
    <2> QED BY <2>2, <2>3
  <1>11. Own(<<>>, s) = <<>>  BY DEF Own
  <1> QED BY <1>2, <1>5, <1>7, <1>8, <1>9, <1>10, <1>11

LEMMA RouteCompletionFlow ==
  ASSUME FlowInv, NEW s \in streams, RouteCompletion(s)
  PROVE  FlowInv'
  <1>0. CountTypes /\ ArbiterTypes /\ OrderTypes /\ QueueTypes /\ AckTypes /\ RequestInv /\ ChainInv
    BY DEF FlowInv, FlowTypes
  <1>1. /\ cq_strm[s] # <<>> /\ cq_strm' = [cq_strm EXCEPT ![s] = <<>>]
        /\ UNCHANGED <<requested, sent, writer_arb, data_order, sq_skid, sq_arb, sq, acks, cq_wr>>
    BY DEF RouteCompletion, shellVars
  <1>2. cq_strm'[s] = <<>> /\ \A u \in streams : u # s => cq_strm'[u] = cq_strm[u]
    BY <1>0, <1>1 DEF AckTypes
  <1>3. AckTypes'  BY <1>0, <1>1, <1>2 DEF AckTypes, Slots
  <1>4. ArbiterTypes' /\ QueueTypes' /\ RequestInv'
    BY <1>0, <1>1, KeepRequests DEF ArbiterTypes, QueueTypes
  <1>5. ASSUME NEW u \in streams, u # s PROVE Chain(u)' = Chain(u)
    BY <1>1, <1>2, <1>5 DEF Chain, RequestsUnderWay
  <1>6. ASSUME ~ cq_strm[s][1].own
        PROVE  FlowInv'
    <2>1. UNCHANGED <<completed, cq_order>>  BY <1>6 DEF RouteCompletion, is_completion
    <2>2. Own(cq_strm[s], s) = <<>> /\ Own(cq_strm'[s], s) = <<>>  BY <1>2, <1>6 DEF Own
    <2>3. Chain(s)' = Chain(s)  BY <2>2, <1>1 DEF Chain, RequestsUnderWay
    <2>4. ChainInv'  BY <2>1, <2>3, <1>0, <1>1, <1>5, KeepChain
    <2>5. CountTypes' /\ OrderTypes'  BY <2>1, <1>0, <1>1 DEF CountTypes, OrderTypes
    <2> QED BY <2>4, <2>5, <1>3, <1>4 DEF FlowInv, FlowTypes
  <1>7. ASSUME cq_strm[s][1].own
        PROVE  FlowInv'
    <2>1. PICK x, c, p : x = cq_strm[s][1].of /\ c = Chain(s) /\ p = x.port  OBVIOUS
    <2>2. /\ c \in Seq(RequestsOf(s)) /\ c # <<>> /\ Head(c) = x
          /\ \A v : v = Own(<<>>, s) \o (Own(cq_wr, s) \o (acks[s] \o (sq[s]
                         \o (Of(sq_arb.out, s) \o (sq_arb.buf[s] \o sq_skid[s])))))
               => Tail(c) = v
          /\ p \in ports /\ Stream(p) = s /\ x = Transfer(p, completed[p] + 1)
          /\ shared(s) => cq_order[s] # <<>>
          /\ Completed(s) = p
      BY <2>1, <1>1, <1>7, OldestCompleted
    <2>3. /\ completed' = [completed EXCEPT ![p] = completed[p] + 1]
          /\ cq_order' = IF shared(s) THEN [cq_order EXCEPT ![s] = Tail(cq_order[s])] ELSE cq_order
      BY <2>2, <1>7 DEF RouteCompletion, is_completion
    <2>4. Chain(s)' = Tail(c)
      <3>1. Chain(s)' = Own(<<>>, s) \o (Own(cq_wr, s) \o (acks[s] \o (sq[s]
                         \o (Of(sq_arb.out, s) \o (sq_arb.buf[s] \o sq_skid[s])))))
        BY <1>1, <1>2 DEF Chain, RequestsUnderWay
      <3> QED BY <3>1, <2>2
    <2>5. /\ completed' \in [ports -> Nat] /\ completed'[p] = completed[p] + 1
          /\ \A q \in ports : q # p => completed'[q] = completed[q]
      BY <2>2, <2>3, <1>0 DEF CountTypes
    <2>6. CountTypes'  BY <2>5, <1>0, <1>1 DEF CountTypes
    <2>7. OrderTypes' /\ (shared(s) => cq_order'[s] = Tail(cq_order[s]))
          /\ \A u \in streams : u # s => cq_order'[u] = cq_order[u]
      <3>1. shared(s) => Tail(cq_order[s]) \in Seq(Nat)
        <4>1. cq_order[s] \in Seq(Nat)  BY <1>0 DEF OrderTypes
        <4> QED BY <4>1, <2>2, HeadTailProperties
      <3> QED BY <3>1, <2>3, <1>0, <1>1 DEF OrderTypes
    <2>8. PICK done, fired, after : done = completed /\ fired = Fired /\ after = completed'  OBVIOUS
    <2>9. Fired' = fired  BY <2>8, <1>1 DEF Fired, InArb
    <2>10. done \in [ports -> Nat] /\ fired \in [ports -> Nat]
           /\ after = [done EXCEPT ![Head(c).port] = @ + 1]
      <3>1. done \in [ports -> Nat] /\ fired \in [ports -> Nat]
        BY <2>8, <1>0, FiredType DEF CountTypes
      <3>2. Head(c).port = p  BY <2>1, <2>2
      <3> QED BY <3>1, <3>2, <2>3, <2>8
    <2>11. ASSUME NEW u \in streams
           PROVE  (/\ Successive(u, Chain(u), completed, Fired)
                   /\ shared(u) => Ordered(cq_order[u], Chain(u)))'
      <3>0. Successive(u, Chain(u), done, fired) /\ (shared(u) => Ordered(cq_order[u], Chain(u)))
        BY <2>8, <1>0 DEF ChainInv
      <3>1. CASE u = s
        <4>1. Successive(s, c, done, fired)  BY <3>0, <3>1, <2>1
        <4>2. Successive(s, Tail(c), after, fired)  BY <4>1, <2>2, <2>10, TailSuccessive
        <4>3. shared(s) => Ordered(cq_order'[s], Tail(c))
          <5> SUFFICES ASSUME shared(s) PROVE Ordered(cq_order'[s], Tail(c))  OBVIOUS
          <5>1. PICK o : o = cq_order[s]  OBVIOUS
          <5>2. o \in Seq(Nat) /\ Ordered(o, c)  BY <5>1, <3>0, <3>1, <2>1, <1>0 DEF OrderTypes
          <5>3. Ordered(Tail(o), Tail(c))  BY <5>2, <2>2, TailOrdered
          <5> QED BY <5>1, <5>3, <2>7
        <4>4. Successive(s, Chain(s)', completed', Fired')  BY <4>2, <2>4, <2>8, <2>9
        <4>5. shared(s) => Ordered(cq_order'[s], Chain(s)')  BY <4>3, <2>4
        <4> QED BY <3>1, <4>4, <4>5
      <3>2. CASE u # s
        <4>1. Chain(u)' = Chain(u)  BY <3>2, <1>5
        <4>2. PICK d, done1, fired1 : d = Chain(u) /\ done1 = done /\ fired1 = fired  OBVIOUS
        <4>3. d \in Seq(RequestsOf(u)) /\ Successive(u, d, done1, fired1)
          BY <4>2, <3>0, <1>0, ChainType
        <4>4. Agree(u, done1, fired1, after, fired)  BY <4>2, <3>2, <2>2, <2>5, <2>8 DEF Agree
        <4>5. Successive(u, d, after, fired)  BY <4>3, <4>4, SameSuccessive
        <4>6. Successive(u, Chain(u)', completed', Fired')  BY <4>1, <4>2, <4>5, <2>8, <2>9
        <4>7. shared(u) => Ordered(cq_order'[u], Chain(u)')  BY <4>1, <3>0, <3>2, <2>7
        <4> QED BY <4>6, <4>7
      <3> QED BY <3>1, <3>2
    <2>12. ChainInv'  BY <2>11 DEF ChainInv
    <2> QED BY <2>6, <2>7, <2>12, <1>3, <1>4 DEF FlowInv, FlowTypes
  <1> QED BY <1>6, <1>7

LEMMA InitFlow == Init => FlowInv
  <1> SUFFICES ASSUME Init PROVE FlowInv  OBVIOUS
  <1>1. CountTypes  BY DEF Init, CountTypes
   <1>2. \A s \in streams :
            writer_arb[s] = [buf |-> [i \in 0 .. PORTS_PER_STREAM[s] - 1 |-> <<>>],
                             out |-> <<>>, rr |-> 0]
    BY DEF Init, IdleArbiter
  <1>i. ASSUME NEW s \in streams
        PROVE  /\ writer_arb[s].out = <<>> /\ writer_arb[s].rr = 0
               /\ writer_arb[s].buf = [i \in 0 .. PORTS_PER_STREAM[s] - 1 |-> <<>>]
               /\ \A w \in 0 .. PORTS_PER_STREAM[s] - 1 : writer_arb[s].buf[w] = <<>>
    <2>1. writer_arb[s] = [buf |-> [i \in 0 .. PORTS_PER_STREAM[s] - 1 |-> <<>>], out |-> <<>>, rr |-> 0]
      BY <1>2
    <2> QED BY <2>1
  <1>3. ArbiterTypes
    <2>1. writer_arb = [s \in streams |-> writer_arb[s]]  BY DEF Init
    <2>2. ASSUME NEW s \in streams PROVE writer_arb[s] \in Arbiters(PORTS_PER_STREAM[s], RequestsOf(s))
      <3>1. 0 \in 0 .. PORTS_PER_STREAM[s] - 1  BY OutputWriterAssumption
      <3>2. [i \in 0 .. PORTS_PER_STREAM[s] - 1 |-> <<>>]
              \in [0 .. PORTS_PER_STREAM[s] - 1 -> Slots(RequestsOf(s))]
        BY DEF Slots
      <3>3. <<>> \in Slots(RequestsOf(s))  BY DEF Slots
      <3>4. writer_arb[s] = [buf |-> [i \in 0 .. PORTS_PER_STREAM[s] - 1 |-> <<>>], out |-> <<>>, rr |-> 0]
        BY <1>2
      <3> QED BY <3>1, <3>2, <3>3, <3>4 DEF Arbiters
    <2> QED BY <2>1, <2>2 DEF ArbiterTypes
  <1>4. OrderTypes  BY DEF Init, OrderTypes
  <1>5. sq_arb = [buf |-> [i \in streams |-> <<>>], out |-> <<>>, rr |-> 0]
    BY StreamCount DEF Init, IdleArbiter
  <1>6. QueueTypes
    <2>1. Queues(sq_skid) /\ Queues(sq) /\ Queues(acks)  BY DEF Init, Queues
    <2>2. sq_arb \in Arbiters(NUM_STREAMS, Requests) /\ \A s \in streams : sq_arb.buf[s] = <<>>
      BY <1>5, StreamCount DEF Arbiters, Slots
    <2> QED BY <2>1, <2>2 DEF QueueTypes, Slots
  <1>7. AckTypes  BY DEF Init, AckTypes, Slots
  <1>8. \A p \in ports : ~ InArb(p)
    <2>1. ASSUME NEW p \in ports PROVE ~ InArb(p)
      <3>1. Stream(p) \in streams /\ Writer(p) \in 0 .. PORTS_PER_STREAM[Stream(p)] - 1
        BY PortFacts
      <3> QED BY <3>1, <1>i DEF InArb
    <2> QED BY <2>1
  <1>9. RequestInv
    <2>1. ASSUME NEW s \in streams PROVE Held(s) /\ Offered(s)  BY <1>i DEF Held, Offered
    <2>2. ASSUME NEW p \in ports PROVE AtMostOne(p) /\ Awaited(p)
      <3>1. Stream(p) \in streams  BY PortFacts
      <3>2. data_order[Stream(p)] = <<>>  BY <3>1 DEF Init
      <3> QED BY <3>2, <1>8 DEF Init, AtMostOne, Awaited
    <2> QED BY <2>1, <2>2 DEF RequestInv
  <1>10. ChainInv
    <2>1. ASSUME NEW s \in streams PROVE Chain(s) = <<>> /\ cq_order[s] = <<>>
      <3>1. /\ Own(cq_strm[s], s) = <<>> /\ Own(cq_wr, s) = <<>> /\ acks[s] = <<>> /\ sq[s] = <<>>
            /\ Of(sq_arb.out, s) = <<>> /\ sq_arb.buf[s] = <<>> /\ sq_skid[s] = <<>> /\ cq_order[s] = <<>>
        BY <1>5 DEF Init, Own, Of
      <3>2. <<>> \o <<>> = <<>>  BY ConcatEmptySeq
      <3> QED BY <3>1, <3>2 DEF Chain, RequestsUnderWay
    <2>2. \A p \in ports : completed[p] = 0 /\ Fired[p] = 0  BY <1>8 DEF Init, Fired
    <2>3. ASSUME NEW s \in streams, NEW c, c = <<>>
          PROVE  Successive(s, c, completed, Fired) /\ Ordered(c, c)
      <3>1. Len(c) = 0  BY <2>3
      <3> QED BY <3>1, <2>2 DEF Successive, Ordered
    <2> QED BY <2>1, <2>3 DEF ChainInv
  <1> QED BY <1>1, <1>3, <1>4, <1>6, <1>7, <1>9, <1>10 DEF FlowInv, FlowTypes

LEMMA NextFlow ==
  ASSUME FlowInv, [Next]_vars
  PROVE  FlowInv'
  <1>1. ASSUME NEW p \in ports, Request(p) PROVE FlowInv'  BY <1>1, RequestFlow
  <1>2. ASSUME NEW p \in ports, SendBeat(p) PROVE FlowInv'  BY <1>2, SendBeatFlow
  <1>3. ASSUME NEW p \in ports, Notify(p) \/ OfferNotification(p) PROVE FlowInv'
    BY <1>3, UnchangedFlow DEF Notify, OfferNotification, writerVars, shellVars, completionVars
  <1>4. ASSUME NEW s \in streams, SelectWriter(s) PROVE FlowInv'  BY <1>4, SelectWriterFlow
  <1>5. ASSUME NEW s \in streams, FireRequest(s) PROVE FlowInv'  BY <1>5, FireRequestFlow
  <1>6. ASSUME NEW s \in streams, OfferRequest(s) PROVE FlowInv'  BY <1>6, OfferRequestFlow
  <1>7. ASSUME NEW s \in streams, TakeBeat(s) PROVE FlowInv'  BY <1>7, TakeBeatFlow
  <1>8. ASSUME NEW s \in streams, Complete(s) PROVE FlowInv'  BY <1>8, CompleteFlow
  <1>9. ASSUME NEW s \in streams, CompleteForeign(s) PROVE FlowInv'  BY <1>9, CompleteForeignFlow
  <1>10. ASSUME NEW s \in streams, RouteCompletion(s) PROVE FlowInv'  BY <1>10, RouteCompletionFlow
  <1>11. ASSUME SelectStream PROVE FlowInv'  BY <1>11, SelectStreamFlow
  <1>12. ASSUME TakeRequest PROVE FlowInv'  BY <1>12, TakeRequestFlow
  <1>13. ASSUME Demultiplex PROVE FlowInv'  BY <1>13, DemultiplexFlow
  <1>14. ASSUME SelectNotification \/ Interrupt PROVE FlowInv'
    BY <1>14, UnchangedFlow DEF SelectNotification, Interrupt, writerVars, shellVars, completionVars
  <1>15. CASE UNCHANGED vars
    BY <1>15, UnchangedFlow DEF vars, writerVars, shellVars, completionVars
  <1> QED
    BY <1>1, <1>2, <1>3, <1>4, <1>5, <1>6, <1>7, <1>8, <1>9, <1>10, <1>11, <1>12, <1>13,
       <1>14, <1>15 DEF Next

----
(* A completion reaches the writer whose transfer it is for, in order, and   *)
(* never without an outstanding request: stream_writer_arbiter.sv:151, with  *)
(* any number of streams and ports, any depths and any workload.             *)
THEOREM CompletionsReachWriters == SafeSpec => []CompletionsRouted
  <1>1. FlowInv => CompletionsRouted
    <2> SUFFICES ASSUME FlowInv, NEW s \in streams, cq_strm[s] # <<>>, cq_strm[s][1].own
                 PROVE  /\ shared(s) => cq_order[s] # <<>>
                        /\ LET p == Completed(s)
                           IN cq_strm[s][1].of = Transfer(p, completed[p] + 1)
      BY DEF CompletionsRouted
    <2>1. PICK x, c : x = cq_strm[s][1].of /\ c = Chain(s)  OBVIOUS
    <2>2. /\ x = Transfer(x.port, completed[x.port] + 1)
          /\ shared(s) => cq_order[s] # <<>>
          /\ Completed(s) = x.port
      BY <2>1, OldestCompleted
    <2> QED BY <2>1, <2>2
  <1> QED BY <1>1, InitFlow, NextFlow, PTL DEF SafeSpec

----
(* Beats, flattened from the requests they are for.                         *)

----
(* What FlattenSeq makes of a sequence when one is added at an end.          *)

\* f holds the first n elements of ss put together.
IsFlat(ss, n, f) == f = [i \in 1 .. n |-> IF i = 1 THEN ss[i] ELSE f[i - 1] \o ss[i]]

LEMMA FlatExists ==
  ASSUME NEW ss
  PROVE  \A n \in Nat : \E f : IsFlat(ss, n, f)
  <1> DEFINE S == {n \in Nat : \E f : IsFlat(ss, n, f)}
  <1>1. 0 \in S
    <2>1. IsFlat(ss, 0, [i \in 1 .. 0 |-> ss[i]])  BY DEF IsFlat
    <2> QED BY <2>1
  <1>2. ASSUME NEW n \in Nat, n \in S
        PROVE  n + 1 \in S
    <2>1. PICK f : IsFlat(ss, n, f)  BY <1>2
    <2> DEFINE last == IF n = 0 THEN ss[1] ELSE f[n] \o ss[n + 1]
               h == [i \in 1 .. n + 1 |-> IF i = n + 1 THEN last ELSE f[i]]
    <2>2. f = [i \in 1 .. n |-> IF i = 1 THEN ss[i] ELSE f[i - 1] \o ss[i]]  BY <2>1 DEF IsFlat
    <2>3. ASSUME NEW i \in 1 .. n + 1
          PROVE  h[i] = IF i = 1 THEN ss[i] ELSE h[i - 1] \o ss[i]
      <3>1. CASE i = n + 1
        <4>1. h[i] = last  BY <3>1
        <4>2. n # 0 => i # 1 /\ i - 1 = n /\ i - 1 \in 1 .. n + 1 /\ i - 1 # n + 1  BY <3>1
        <4>3. n # 0 => h[i - 1] = f[n]  BY <4>2
        <4> QED BY <3>1, <4>1, <4>2, <4>3
      <3>2. CASE i # n + 1
        <4>1. i \in 1 .. n /\ h[i] = f[i]  BY <3>2
        <4>2. i # 1 => i - 1 \in 1 .. n + 1 /\ i - 1 # n + 1  BY <4>1
        <4>3. i # 1 => h[i - 1] = f[i - 1]  BY <4>2
        <4>4. f[i] = IF i = 1 THEN ss[i] ELSE f[i - 1] \o ss[i]  BY <2>2, <4>1
        <4> QED BY <4>1, <4>3, <4>4
      <3> QED BY <3>1, <3>2
    <2>4. h = [i \in 1 .. n + 1 |-> h[i]]  OBVIOUS
    <2> HIDE DEF h
    <2>5. IsFlat(ss, n + 1, h)  BY <2>3, <2>4 DEF IsFlat
    <2> QED BY <2>5
  <1> HIDE DEF S
  <1>3. \A n \in Nat : n \in S  BY <1>1, <1>2, SetInduction
  <1> QED BY <1>3 DEF S

SameFirst(n, ss, tt) == \A i \in 1 .. n : ss[i] = tt[i]

LEMMA FlatUnique ==
  ASSUME NEW ss, NEW tt, NEW n \in Nat, NEW m \in Nat, n <= m, NEW f, NEW g,
         IsFlat(ss, n, f), IsFlat(tt, m, g), SameFirst(n, ss, tt)
  PROVE  SameFirst(n, f, g)
  <1> DEFINE S == {i \in Nat : i \in 1 .. n => f[i] = g[i]}
  <1>1. f = [i \in 1 .. n |-> IF i = 1 THEN ss[i] ELSE f[i - 1] \o ss[i]]  BY DEF IsFlat
  <1>2. g = [i \in 1 .. m |-> IF i = 1 THEN tt[i] ELSE g[i - 1] \o tt[i]]  BY DEF IsFlat
  <1>3. 0 \in S  OBVIOUS
  <1>4. ASSUME NEW i \in Nat, i \in S
        PROVE  i + 1 \in S
    <2> SUFFICES ASSUME i + 1 \in 1 .. n PROVE f[i + 1] = g[i + 1]  OBVIOUS
    <2>1. i + 1 \in 1 .. m /\ (i + 1) - 1 = i /\ (i + 1 # 1 => i \in 1 .. n)  OBVIOUS
    <2>2. f[i + 1] = IF i + 1 = 1 THEN ss[i + 1] ELSE f[i] \o ss[i + 1]  BY <1>1, <2>1
    <2>3. g[i + 1] = IF i + 1 = 1 THEN tt[i + 1] ELSE g[i] \o tt[i + 1]  BY <1>2, <2>1
    <2>4. i + 1 # 1 => f[i] = g[i]  BY <1>4, <2>1
    <2>5. ss[i + 1] = tt[i + 1]  BY DEF SameFirst
    <2> QED BY <2>2, <2>3, <2>4, <2>5
  <1> HIDE DEF S
  <1>5. \A i \in Nat : i \in S  BY <1>3, <1>4, SetInduction
  <1> QED BY <1>5 DEF S, SameFirst

LEMMA FlattenIs ==
  ASSUME NEW ss, Len(ss) \in Nat, Len(ss) # 0
  PROVE  \E f : IsFlat(ss, Len(ss), f) /\ FlattenSeq(ss) = f[Len(ss)]
  <1> DEFINE f == CHOOSE f : IsFlat(ss, Len(ss), f)
  <1>1. IsFlat(ss, Len(ss), f)  BY FlatExists
  <1>2. FlattenSeq(ss) = f[Len(ss)]  BY DEF FlattenSeq, IsFlat
  <1> QED BY <1>1, <1>2

LEMMA FlattenNone == FlattenSeq(<<>>) = <<>>
  BY DEF FlattenSeq

LEMMA FlattenAppend ==
  ASSUME NEW R, NEW ss \in Seq(Seq(R)), NEW a \in Seq(R)
  PROVE  FlattenSeq(Append(ss, a)) = (IF ss = <<>> THEN a ELSE FlattenSeq(ss) \o a)
  <1>1. PICK n, tt : n = Len(ss) /\ tt = Append(ss, a)  OBVIOUS
  <1>2. /\ n \in Nat /\ Len(tt) = n + 1 /\ tt[n + 1] = a
        /\ \A i \in 1 .. n : ss[i] = tt[i]
    BY <1>1, AppendProperties
  <1>3. PICK g : IsFlat(tt, Len(tt), g) /\ FlattenSeq(tt) = g[Len(tt)]
    <2>1. Len(tt) \in Nat /\ Len(tt) # 0  BY <1>2
    <2> QED BY <2>1, FlattenIs
  <1>4. g[n + 1] = IF n + 1 = 1 THEN a ELSE g[n] \o a
    <2>1. g = [i \in 1 .. n + 1 |-> IF i = 1 THEN tt[i] ELSE g[i - 1] \o tt[i]]
      BY <1>2, <1>3 DEF IsFlat
    <2>2. n + 1 \in 1 .. n + 1 /\ (n + 1) - 1 = n  BY <1>2
    <2> QED BY <2>1, <2>2, <1>2
  <1>5. CASE ss = <<>>
    <2>1. n = 0  BY <1>1, <1>5
    <2> QED BY <2>1, <1>1, <1>2, <1>3, <1>4, <1>5
  <1>6. CASE ss # <<>>
    <2>1. n # 0 /\ n \in Nat  BY <1>1, <1>6, EmptySeq
    <2>2. PICK f : IsFlat(ss, n, f) /\ FlattenSeq(ss) = f[n]  BY <2>1, <1>1, FlattenIs
    <2>3. SameFirst(n, f, g)
      <3>1. PICK m : m = n + 1  OBVIOUS
      <3>2. m \in Nat /\ n <= m /\ IsFlat(tt, m, g)  BY <3>1, <1>2, <1>3
      <3>3. SameFirst(n, ss, tt)  BY <1>2 DEF SameFirst
      <3> QED BY <3>2, <3>3, <2>1, <2>2, FlatUnique
    <2>4. f[n] = g[n]  BY <2>1, <2>3 DEF SameFirst
    <2> QED BY <2>1, <2>2, <2>4, <1>1, <1>2, <1>3, <1>4, <1>6
  <1> QED BY <1>5, <1>6

\* Concatenation is associative.
LEMMA Reassociated ==
  ASSUME NEW R, NEW j \in Seq(R), NEW k \in Seq(R), NEW l \in Seq(R)
  PROVE  k \o l \in Seq(R) /\ (j \o k) \o l = j \o (k \o l)
  <1>1. k \o l \in Seq(R)  BY ConcatProperties
  <1>2. (j \o k) \o l = j \o (k \o l)  BY ConcatAssociative
  <1> QED BY <1>1, <1>2

\* A sequence of sequences has its elements' type when it is flattened.
LEMMA FlattenHead ==
  ASSUME NEW R, NEW a \in Seq(R)
  PROVE  \A ss \in Seq(Seq(R)) :
           FlattenSeq(ss) \in Seq(R) /\ FlattenSeq(<<a>> \o ss) = a \o FlattenSeq(ss)
  <1> DEFINE Q == Seq(R)
             Good(ss) == FlattenSeq(ss) \in Seq(R) /\ FlattenSeq(<<a>> \o ss) = a \o FlattenSeq(ss)
             S == {n \in Nat : \A ss \in Seq(Q) : Len(ss) = n => Good(ss)}
  <1>1. 0 \in S
    <2> SUFFICES ASSUME NEW ss \in Seq(Q), Len(ss) = 0 PROVE Good(ss)  OBVIOUS
    <2>1. ss = <<>>  BY EmptySeq
    <2>2. FlattenSeq(<<a>>) = a
      <3>1. <<>> \in Seq(Seq(R)) /\ Append(<<>>, a) = <<a>>  OBVIOUS
      <3>2. PICK e : e = <<>>  OBVIOUS
      <3>3. FlattenSeq(Append(e, a)) = (IF e = <<>> THEN a ELSE FlattenSeq(e) \o a)
        BY <3>1, <3>2, FlattenAppend
      <3> QED BY <3>1, <3>2, <3>3
    <2>3. <<a>> \o <<>> = <<a>> /\ a \o <<>> = a /\ <<>> \in Seq(R)  OBVIOUS
    <2> QED BY <2>1, <2>2, <2>3, FlattenNone
  <1>2. ASSUME NEW n \in Nat, n \in S
        PROVE  n + 1 \in S
    <2> HIDE DEF Good
    <2> SUFFICES ASSUME NEW ss \in Seq(Q), Len(ss) = n + 1 PROVE Good(ss)  OBVIOUS
    <2> USE DEF Good
    <2>1. PICK front, last : front = Front(ss) /\ last = Last(ss)  OBVIOUS
    <2>2. ss # <<>>  OBVIOUS
    <2>3. /\ front \in Seq(Q) /\ last \in Q /\ ss = Append(front, last) /\ Len(front) = n
      <3> HIDE DEF Q
      <3>1. front = SubSeq(ss, 1, n) /\ last = ss[n + 1]  BY <2>1 DEF Front, Last
      <3> QED BY <3>1
    <2>4. Good(front)  BY <1>2, <2>3
    <2>5. FlattenSeq(ss) = (IF front = <<>> THEN last ELSE FlattenSeq(front) \o last)
      BY <2>3, FlattenAppend
    <2>6. <<a>> \o ss = Append(<<a>> \o front, last) /\ <<a>> \o front \in Seq(Q) /\ <<a>> \o front # <<>>
      <3>1. a \in Q  OBVIOUS
      <3> HIDE DEF Q
      <3>2. <<a>> \in Seq(Q) /\ Len(<<a>>) = 1  BY <3>1
      <3>3. PICK b : b = <<a>>  OBVIOUS
      <3>4. b \o front \in Seq(Q) /\ b \o Append(front, last) = Append(b \o front, last)
        BY <3>2, <3>3, <2>3, AppendLast
      <3>5. b \o front # <<>>  BY <3>2, <3>3, <2>3
      <3> QED BY <3>3, <3>4, <3>5, <2>3
    <2>7. FlattenSeq(<<a>> \o ss) = FlattenSeq(<<a>> \o front) \o last
      <3>1. PICK b : b = <<a>> \o front  OBVIOUS
      <3>2. b \in Seq(Seq(R)) /\ b # <<>> /\ last \in Seq(R)  BY <3>1, <2>3, <2>6
      <3>3. FlattenSeq(Append(b, last)) = (IF b = <<>> THEN last ELSE FlattenSeq(b) \o last)
        BY <3>2, FlattenAppend
      <3> QED BY <3>1, <3>2, <3>3, <2>6
    <2>8. PICK k : k = FlattenSeq(front)  OBVIOUS
    <2>9. k \in Seq(R) /\ last \in Seq(R) /\ FlattenSeq(<<a>> \o ss) = (a \o k) \o last
      BY <2>3, <2>4, <2>7, <2>8
    <2>10. FlattenSeq(ss) = k \o last
      <3>1. CASE front = <<>>
        <4>1. k = <<>> /\ FlattenSeq(ss) = last  BY <3>1, <2>5, <2>8, FlattenNone
        <4> QED BY <4>1, <2>9, ConcatEmptySeq
      <3>2. CASE front # <<>>  BY <3>2, <2>5, <2>8
      <3> QED BY <3>1, <3>2
    <2>11. k \o last \in Seq(R) /\ (a \o k) \o last = a \o (k \o last)
      <3> HIDE DEF Q, S, Good
      <3> QED BY <2>9, Reassociated
    <2> QED BY <2>9, <2>10, <2>11
  <1> HIDE DEF S
  <1>3. \A n \in Nat : n \in S  BY <1>1, <1>2, SetInduction
  <1>4. ASSUME NEW ss \in Seq(Q)
        PROVE  Good(ss)
    <2> HIDE DEF Q, Good
    <2>1. PICK n : n = Len(ss)  OBVIOUS
    <2>2. n \in Nat  BY <2>1
    <2>3. n \in S  BY <1>3, <2>2
    <2> QED BY <2>1, <2>3 DEF S
  <1> QED BY <1>4

\* The beats of a request; the beats of the requests of c but the first t.
Beats(w, r) == w[r.port][r.transfer].beats
Times(r, n) == [b \in 1 .. n |-> r]
Piece(w, c, t, i) == Times(c[i], Beats(w, c[i]) - (IF i = 1 THEN t ELSE 0))
Pieces(w, c, t) == [i \in DOMAIN c |-> Piece(w, c, t, i)]
Flat(w, c, t) == FlattenSeq(Pieces(w, c, t))

Counted(w, c) == \A i \in 1 .. Len(c) : Beats(w, c[i]) \in Nat \ {0}
Short(w, c, t) == c # <<>> => t <= Beats(w, Head(c))
\* Of the beats of c, t are past, and they are not all of the first request.
Started(w, c, t) == IF c = <<>> THEN t = 0 ELSE t < Beats(w, Head(c))

LEMMA TimesType ==
  ASSUME NEW R, NEW r \in R, NEW n \in Nat
  PROVE  Times(r, n) \in Seq(R) /\ Len(Times(r, n)) = n
  BY DEF Times

LEMMA TimesNext ==
  ASSUME NEW R, NEW r \in R, NEW n \in Nat \ {0}
  PROVE  Times(r, n) = <<r>> \o Times(r, n - 1)
  <1>1. PICK a, b : a = Times(r, n) /\ b = Times(r, n - 1)  OBVIOUS
  <1>2. n - 1 \in Nat /\ n \in Nat  OBVIOUS
  <1>3. /\ a \in Seq(R) /\ Len(a) = n /\ \A i \in 1 .. n : a[i] = r
        /\ b \in Seq(R) /\ Len(b) = n - 1 /\ \A i \in 1 .. n - 1 : b[i] = r
    BY <1>1, <1>2, TimesType DEF Times
  <1>4. /\ <<r>> \o b \in Seq(R) /\ Len(<<r>> \o b) = n
        /\ \A i \in 1 .. n : (<<r>> \o b)[i] = r
    BY <1>3
  <1>5. a = <<r>> \o b
    <2>1. PICK e : e = <<r>> \o b  OBVIOUS
    <2>2. e \in Seq(R) /\ Len(e) = Len(a) /\ \A i \in 1 .. Len(a) : e[i] = a[i]  BY <2>1, <1>3, <1>4
    <2>3. e = a  BY <2>2, <1>3, SeqEqual
    <2> QED BY <2>1, <2>3
  <1> QED BY <1>1, <1>5

LEMMA PiecesType ==
  ASSUME NEW R, NEW w, NEW c \in Seq(R), Counted(w, c), NEW t \in Nat, Short(w, c, t)
  PROVE  Pieces(w, c, t) \in Seq(Seq(R)) /\ Len(Pieces(w, c, t)) = Len(c)
  <1>1. Len(c) \in Nat /\ DOMAIN c = 1 .. Len(c)  BY LenProperties
  <1>2. ASSUME NEW i \in 1 .. Len(c)
        PROVE  Piece(w, c, t, i) \in Seq(R)
    <2>1. PICK r, n : r = c[i] /\ n = Beats(w, c[i])  OBVIOUS
    <2>2. r \in R /\ n \in Nat  BY <2>1, ElementOfSeq DEF Counted
    <2>3. i = 1 => t <= n
      <3>1. c # <<>> /\ Head(c) = c[1]  BY <1>1
      <3> QED BY <2>1, <3>1 DEF Short
    <2>4. PICK k : k = n - (IF i = 1 THEN t ELSE 0)  OBVIOUS
    <2>5. k \in Nat  BY <2>2, <2>3, <2>4
    <2>6. Times(r, k) \in Seq(R)  BY <2>2, <2>5, TimesType
    <2> QED BY <2>1, <2>4, <2>6 DEF Piece
  <1>3. PICK Q : Q = Seq(R)  OBVIOUS
  <1>4. \A i \in 1 .. Len(c) : Piece(w, c, t, i) \in Q  BY <1>2, <1>3
  <1>5. Pieces(w, c, t) = [i \in 1 .. Len(c) |-> Piece(w, c, t, i)]  BY <1>1 DEF Pieces
  <1>6. Pieces(w, c, t) \in Seq(Q) /\ Len(Pieces(w, c, t)) = Len(c)  BY <1>1, <1>4, <1>5
  <1> QED BY <1>3, <1>6

LEMMA PieceOf ==
  ASSUME NEW R, NEW w, NEW c \in Seq(R), NEW t, NEW i \in 1 .. Len(c)
  PROVE  Pieces(w, c, t)[i] = Piece(w, c, t, i)
  <1>1. DOMAIN c = 1 .. Len(c)  BY LenProperties
  <1> QED BY <1>1 DEF Pieces

LEMMA TailCounted ==
  ASSUME NEW R, NEW w, NEW c \in Seq(R), Counted(w, c), c # <<>>
  PROVE  Counted(w, Tail(c)) /\ Tail(c) \in Seq(R) /\ Beats(w, Head(c)) \in Nat \ {0} /\ Head(c) \in R
  <1>1. PICK d : d = Tail(c)  OBVIOUS
  <1>2. /\ d \in Seq(R) /\ Len(d) = Len(c) - 1 /\ Head(c) = c[1] /\ Head(c) \in R
        /\ \A i \in 1 .. Len(d) : d[i] = c[i + 1]
        /\ Len(c) \in Nat \ {0}
    BY <1>1, HeadTailProperties, EmptySeq
  <1>3. Counted(w, d)
    <2>1. ASSUME NEW i \in 1 .. Len(d) PROVE Beats(w, d[i]) \in Nat \ {0}
      <3>1. i + 1 \in 1 .. Len(c) /\ d[i] = c[i + 1]  BY <1>2
      <3> QED BY <3>1 DEF Counted
    <2> QED BY <2>1 DEF Counted
  <1>4. Beats(w, Head(c)) \in Nat \ {0}  BY <1>2 DEF Counted
  <1> QED BY <1>1, <1>2, <1>3, <1>4

LEMMA PiecesHead ==
  ASSUME NEW R, NEW w, NEW c \in Seq(R), Counted(w, c), c # <<>>, NEW t \in Nat, t <= Beats(w, Head(c))
  PROVE  Pieces(w, c, t) = <<Times(Head(c), Beats(w, Head(c)) - t)>> \o Pieces(w, Tail(c), 0)
  <1>1. PICK d, o, p, q, f : /\ d = Tail(c) /\ o = 0 /\ p = Pieces(w, c, t) /\ q = Pieces(w, d, o)
                             /\ f = Times(Head(c), Beats(w, Head(c)) - t)
    OBVIOUS
  <1>2. Counted(w, d) /\ d \in Seq(R) /\ Head(c) \in R /\ Beats(w, Head(c)) \in Nat \ {0}
    BY <1>1, TailCounted
  <1>3. /\ Len(d) = Len(c) - 1 /\ Head(c) = c[1] /\ \A i \in 1 .. Len(d) : d[i] = c[i + 1]
        /\ Len(c) \in Nat \ {0}
    BY <1>1, HeadTailProperties, EmptySeq
  <1>4. o \in Nat /\ Short(w, d, o)
    <2>1. d # <<>> => Beats(w, Head(d)) \in Nat \ {0}  BY <1>2, TailCounted
    <2> QED BY <2>1, <1>1 DEF Short
  <1>5. p \in Seq(Seq(R)) /\ Len(p) = Len(c)
    <2>1. Short(w, c, t)  BY DEF Short
    <2> QED BY <2>1, <1>1, PiecesType
  <1>6. q \in Seq(Seq(R)) /\ Len(q) = Len(d)
    <2>1. Counted(w, d) /\ d \in Seq(R) /\ o \in Nat /\ Short(w, d, o)  BY <1>2, <1>4
    <2>2. Pieces(w, d, o) \in Seq(Seq(R)) /\ Len(Pieces(w, d, o)) = Len(d)  BY <2>1, PiecesType
    <2> QED BY <2>2, <1>1
  <1>7. f \in Seq(R)
    <2>1. Beats(w, Head(c)) - t \in Nat  BY <1>2
    <2> QED BY <2>1, <1>1, <1>2, TimesType
  <1>8. p[1] = f
    <2>1. PICK i : i = 1  OBVIOUS
    <2>2. i \in 1 .. Len(c)  BY <2>1, <1>3
    <2>3. p[i] = Piece(w, c, t, i)  BY <2>2, <1>1, PieceOf
    <2> QED BY <2>1, <2>3, <1>1, <1>3 DEF Piece
  <1>9. ASSUME NEW i \in 1 .. Len(d) PROVE p[i + 1] = q[i]
    <2>1. i + 1 \in 1 .. Len(c) /\ i + 1 # 1 /\ d[i] = c[i + 1]  BY <1>3
    <2>2. PICK j : j = i + 1  OBVIOUS
    <2>3. p[j] = Piece(w, c, t, j)  BY <2>1, <2>2, <1>1, PieceOf
    <2>4. q[i] = Piece(w, d, o, i)  BY <1>1, <1>2, PieceOf
    <2> QED BY <2>1, <2>2, <2>3, <2>4, <1>1 DEF Piece
  <1>10. PICK e, Q : e = <<f>> \o q /\ Q = Seq(R)  OBVIOUS
  <1>11. e \in Seq(Q) /\ Len(e) = Len(q) + 1 /\ e[1] = f /\ \A i \in 1 .. Len(q) : e[i + 1] = q[i]
    BY <1>6, <1>7, <1>10
  <1>12. ASSUME NEW i \in 1 .. Len(c) PROVE p[i] = e[i]
    <2>1. CASE i = 1  BY <2>1, <1>8, <1>11
    <2>2. CASE i # 1
      <3>1. i - 1 \in 1 .. Len(d) /\ (i - 1) + 1 = i  BY <2>2, <1>3
      <3> QED BY <3>1, <1>6, <1>9, <1>11
    <2> QED BY <2>1, <2>2
  <1>13. p = e
    <2>1. Len(p) = Len(e) /\ p \in Seq(Q)  BY <1>3, <1>5, <1>6, <1>10, <1>11
    <2> QED BY <2>1, <1>5, <1>11, <1>12, SeqEqual
  <1> QED BY <1>1, <1>10, <1>13

LEMMA PiecesAppend ==
  ASSUME NEW R, NEW w, NEW c \in Seq(R), Counted(w, c), NEW t \in Nat, Started(w, c, t),
         NEW x \in R, Beats(w, x) \in Nat \ {0}
  PROVE  /\ Counted(w, Append(c, x)) /\ Append(c, x) \in Seq(R) /\ Started(w, Append(c, x), t)
         /\ Pieces(w, Append(c, x), t) = Append(Pieces(w, c, t), Times(x, Beats(w, x)))
  <1>1. PICK d, p, q, f : /\ d = Append(c, x) /\ p = Pieces(w, d, t) /\ q = Pieces(w, c, t)
                          /\ f = Times(x, Beats(w, x))
    OBVIOUS
  <1>2. /\ d \in Seq(R) /\ Len(d) = Len(c) + 1 /\ Len(c) \in Nat /\ d[Len(c) + 1] = x
        /\ \A i \in 1 .. Len(c) : d[i] = c[i]
    BY <1>1, AppendProperties
  <1>3. Counted(w, d)
    <2>1. ASSUME NEW i \in 1 .. Len(d) PROVE Beats(w, d[i]) \in Nat \ {0}
      <3>1. CASE i = Len(c) + 1  BY <3>1, <1>2
      <3>2. CASE i # Len(c) + 1
        <4>1. i \in 1 .. Len(c)  BY <3>2, <1>2
        <4> QED BY <4>1, <1>2 DEF Counted
      <3> QED BY <3>1, <3>2
    <2> QED BY <2>1 DEF Counted
  <1>4. c # <<>> => t < Beats(w, Head(c)) /\ Head(d) = Head(c) /\ Beats(w, Head(c)) \in Nat
    <2> SUFFICES ASSUME c # <<>> PROVE t < Beats(w, Head(c)) /\ Head(d) = Head(c) /\ Beats(w, Head(c)) \in Nat
      OBVIOUS
    <2>1. Head(d) = d[1] /\ Head(c) = c[1] /\ 1 \in 1 .. Len(c)  BY <1>2, EmptySeq
    <2>2. Beats(w, Head(c)) \in Nat  BY TailCounted
    <2> QED BY <2>1, <2>2, <1>2 DEF Started
  <1>5. c = <<>> => t = 0 /\ Head(d) = x
    <2> SUFFICES ASSUME c = <<>> PROVE t = 0 /\ Head(d) = x  OBVIOUS
    <2>1. Len(c) = 0 /\ Head(d) = d[1]  BY <1>2
    <2> QED BY <2>1, <1>2 DEF Started
  <1>6. Started(w, d, t) /\ Short(w, d, t)
    <2>1. d # <<>>  BY <1>2
    <2> QED BY <2>1, <1>4, <1>5 DEF Started, Short
  <1>7. p \in Seq(Seq(R)) /\ Len(p) = Len(d)
    <2>1. Counted(w, d) /\ d \in Seq(R) /\ Short(w, d, t)  BY <1>2, <1>3, <1>6
    <2>2. Pieces(w, d, t) \in Seq(Seq(R)) /\ Len(Pieces(w, d, t)) = Len(d)  BY <2>1, PiecesType
    <2> QED BY <2>2, <1>1
  <1>8. q \in Seq(Seq(R)) /\ Len(q) = Len(c)
    <2>1. Short(w, c, t)  BY <1>4 DEF Short
    <2> QED BY <2>1, <1>1, PiecesType
  <1>9. f \in Seq(R)  BY <1>1, TimesType
  <1>10. ASSUME NEW i \in 1 .. Len(c) PROVE p[i] = q[i]
    <2>1. i \in 1 .. Len(d) /\ d[i] = c[i]  BY <1>2
    <2>2. p[i] = Piece(w, d, t, i)  BY <2>1, <1>1, <1>2, PieceOf
    <2>3. q[i] = Piece(w, c, t, i)  BY <1>1, PieceOf
    <2> QED BY <2>1, <2>2, <2>3 DEF Piece
  <1>11. p[Len(c) + 1] = f
    <2>1. PICK i : i = Len(c) + 1  OBVIOUS
    <2>2. i \in 1 .. Len(d) /\ d[i] = x  BY <2>1, <1>2
    <2>3. p[i] = Piece(w, d, t, i)  BY <2>2, <1>1, <1>2, PieceOf
    <2>4. i = 1 => t = 0
      <3>1. i = 1 => Len(c) = 0  BY <2>1, <1>2
      <3> QED BY <3>1, <1>5, EmptySeq
    <2>5. Beats(w, x) - (IF i = 1 THEN t ELSE 0) = Beats(w, x)  BY <2>4
    <2> QED BY <2>1, <2>2, <2>3, <2>5, <1>1 DEF Piece
  <1>12. PICK e, Q : e = Append(q, f) /\ Q = Seq(R)  OBVIOUS
  <1>13. /\ e \in Seq(Q) /\ Len(e) = Len(q) + 1 /\ e[Len(q) + 1] = f
         /\ \A i \in 1 .. Len(q) : e[i] = q[i]
    BY <1>8, <1>9, <1>12, AppendProperties
  <1>14. ASSUME NEW i \in 1 .. Len(d) PROVE p[i] = e[i]
    <2>1. CASE i = Len(c) + 1  BY <2>1, <1>8, <1>11, <1>13
    <2>2. CASE i # Len(c) + 1
      <3>1. i \in 1 .. Len(c)  BY <2>2, <1>2
      <3> QED BY <3>1, <1>8, <1>10, <1>13
    <2> QED BY <2>1, <2>2
  <1>15. p = e
    <2>1. Len(p) = Len(e) /\ p \in Seq(Q)  BY <1>2, <1>7, <1>8, <1>12, <1>13
    <2> QED BY <2>1, <1>7, <1>13, <1>14, SeqEqual
  <1> QED BY <1>1, <1>2, <1>3, <1>6, <1>12, <1>15

LEMMA FlatType ==
  ASSUME NEW R, NEW w, NEW c \in Seq(R), Counted(w, c), NEW t \in Nat, Short(w, c, t)
  PROVE  Flat(w, c, t) \in Seq(R) /\ (c = <<>> => Flat(w, c, t) = <<>>)
  <1>1. PICK p, e : p = Pieces(w, c, t) /\ e = <<>>  OBVIOUS
  <1>2. p \in Seq(Seq(R)) /\ Len(p) = Len(c)  BY <1>1, PiecesType
  <1>3. e \in Seq(R)  BY <1>1
  <1>4. FlattenSeq(p) \in Seq(R)  BY <1>2, <1>3, FlattenHead
  <1>5. c = <<>> => p = <<>>  BY <1>2
  <1> QED BY <1>1, <1>4, <1>5, FlattenNone DEF Flat

LEMMA FlatHead ==
  ASSUME NEW R, NEW w, NEW c \in Seq(R), Counted(w, c), c # <<>>, NEW t \in Nat, t <= Beats(w, Head(c))
  PROVE  /\ Flat(w, Tail(c), 0) \in Seq(R)
         /\ Flat(w, c, t) = Times(Head(c), Beats(w, Head(c)) - t) \o Flat(w, Tail(c), 0)
  <1>1. PICK d, o, q, f : /\ d = Tail(c) /\ o = 0 /\ q = Pieces(w, d, o)
                          /\ f = Times(Head(c), Beats(w, Head(c)) - t)
    OBVIOUS
  <1>2. Counted(w, d) /\ d \in Seq(R) /\ Head(c) \in R /\ Beats(w, Head(c)) \in Nat \ {0}
    BY <1>1, TailCounted
  <1>3. o \in Nat /\ Short(w, d, o)
    <2>1. d # <<>> => Beats(w, Head(d)) \in Nat \ {0}  BY <1>2, TailCounted
    <2> QED BY <2>1, <1>1 DEF Short
  <1>4. Flat(w, d, o) \in Seq(R)
    <2>1. d \in Seq(R) /\ Counted(w, d) /\ o \in Nat /\ Short(w, d, o)  BY <1>2, <1>3
    <2> QED BY <2>1, FlatType
  <1>5. q \in Seq(Seq(R))
    <2>1. d \in Seq(R) /\ Counted(w, d) /\ o \in Nat /\ Short(w, d, o)  BY <1>2, <1>3
    <2>2. Pieces(w, d, o) \in Seq(Seq(R))  BY <2>1, PiecesType
    <2> QED BY <2>2, <1>1
  <1>6. f \in Seq(R)
    <2>1. PICK n : n = Beats(w, Head(c)) - t  OBVIOUS
    <2>2. n \in Nat  BY <2>1, <1>2
    <2>3. Times(Head(c), n) \in Seq(R)  BY <2>2, <1>2, TimesType
    <2> QED BY <2>1, <2>3, <1>1
  <1>7. Pieces(w, c, t) = <<f>> \o q  BY <1>1, PiecesHead
  <1>8. FlattenSeq(<<f>> \o q) = f \o FlattenSeq(q)  BY <1>5, <1>6, FlattenHead
  <1> QED BY <1>1, <1>4, <1>7, <1>8 DEF Flat

LEMMA FlatAppend ==
  ASSUME NEW R, NEW w, NEW c \in Seq(R), Counted(w, c), NEW t \in Nat, Started(w, c, t),
         NEW x \in R, Beats(w, x) \in Nat \ {0}
  PROVE  /\ Counted(w, Append(c, x)) /\ Started(w, Append(c, x), t)
         /\ Flat(w, c, t) \in Seq(R) /\ Times(x, Beats(w, x)) \in Seq(R)
         /\ Flat(w, Append(c, x), t) = Flat(w, c, t) \o Times(x, Beats(w, x))
  <1>1. PICK p, q, f : /\ p = Pieces(w, Append(c, x), t) /\ q = Pieces(w, c, t)
                       /\ f = Times(x, Beats(w, x))
    OBVIOUS
  <1>2. Short(w, c, t)
    <2>1. c # <<>> => Beats(w, Head(c)) \in Nat  BY TailCounted
    <2> QED BY <2>1 DEF Started, Short
  <1>3. q \in Seq(Seq(R)) /\ Len(q) = Len(c)  BY <1>1, <1>2, PiecesType
  <1>4. f \in Seq(R)  BY <1>1, TimesType
  <1>5. p = Append(q, f) /\ Counted(w, Append(c, x)) /\ Started(w, Append(c, x), t)
    BY <1>1, PiecesAppend
  <1>6. FlattenSeq(p) = (IF q = <<>> THEN f ELSE FlattenSeq(q) \o f)
    BY <1>3, <1>4, <1>5, FlattenAppend
  <1>7. Flat(w, c, t) \in Seq(R) /\ (c = <<>> => Flat(w, c, t) = <<>>)  BY <1>2, FlatType
  <1>8. FlattenSeq(p) = Flat(w, c, t) \o f
    <2>1. CASE q = <<>>
      <3>1. c = <<>>  BY <2>1, <1>3
      <3>2. Flat(w, c, t) = <<>> /\ <<>> \o f = f  BY <3>1, <1>4, <1>7
      <3> QED BY <3>2, <2>1, <1>6
    <2>2. CASE q # <<>>  BY <2>2, <1>1, <1>6 DEF Flat
    <2> QED BY <2>1, <2>2
  <1> QED BY <1>1, <1>4, <1>5, <1>7, <1>8 DEF Flat

\* One beat after the other.
NextBeat(w, c, t) ==
  /\ Flat(w, c, t) = <<Head(c)>> \o Flat(w, c, t + 1)
  /\ t + 1 = Beats(w, Head(c)) => Flat(w, c, t + 1) = Flat(w, Tail(c), 0)

LEMMA FlatNext ==
  ASSUME NEW R, NEW w, NEW c \in Seq(R), Counted(w, c), c # <<>>, NEW t \in Nat, t < Beats(w, Head(c))
  PROVE  Flat(w, c, t + 1) \in Seq(R) /\ NextBeat(w, c, t)
  <1>1. PICK r, n, e, u : /\ r = Head(c) /\ n = Beats(w, r) /\ e = Flat(w, Tail(c), 0) /\ u = t + 1
    OBVIOUS
  <1>2. r \in R /\ n \in Nat \ {0}  BY <1>1, TailCounted
  <1>3. u \in Nat /\ u <= n /\ t <= n /\ n - t \in Nat \ {0} /\ n - u \in Nat /\ (n - t) - 1 = n - u
    BY <1>1, <1>2
  <1>4. e \in Seq(R) /\ Flat(w, c, t) = Times(r, n - t) \o e
    <2>1. t \in Nat /\ t <= Beats(w, Head(c))  BY <1>1, <1>3
    <2>2. /\ Flat(w, Tail(c), 0) \in Seq(R)
          /\ Flat(w, c, t) = Times(Head(c), Beats(w, Head(c)) - t) \o Flat(w, Tail(c), 0)
      BY <2>1, FlatHead
    <2> QED BY <2>2, <1>1
  <1>5. Flat(w, c, u) = Times(r, n - u) \o e
    <2>1. u \in Nat /\ u <= Beats(w, Head(c))  BY <1>1, <1>3
    <2>2. Flat(w, c, u) = Times(Head(c), Beats(w, Head(c)) - u) \o Flat(w, Tail(c), 0)
      BY <2>1, FlatHead
    <2> QED BY <2>2, <1>1
  <1>6. PICK a, b : a = Times(r, n - t) /\ b = Times(r, n - u)  OBVIOUS
  <1>7. a = <<r>> \o b
    <2>1. PICK k : k = n - t  OBVIOUS
    <2>2. k \in Nat \ {0} /\ k - 1 = n - u  BY <2>1, <1>3
    <2>3. Times(r, k) = <<r>> \o Times(r, k - 1)  BY <2>2, <1>2, TimesNext
    <2> QED BY <2>1, <2>2, <2>3, <1>6
  <1>8. b \in Seq(R) /\ Len(b) = n - u
    <2>1. PICK k : k = n - u  OBVIOUS
    <2>2. k \in Nat  BY <2>1, <1>3
    <2>3. Times(r, k) \in Seq(R) /\ Len(Times(r, k)) = k  BY <2>2, <1>2, TimesType
    <2> QED BY <2>1, <2>3, <1>6
  <1>9. (<<r>> \o b) \o e = <<r>> \o (b \o e) /\ b \o e \in Seq(R)  BY <1>2, <1>4, <1>8
  <1>10. Flat(w, c, t) = <<r>> \o Flat(w, c, u) /\ Flat(w, c, u) \in Seq(R)
    BY <1>4, <1>5, <1>6, <1>7, <1>9
  <1>11. u = n => Flat(w, c, u) = e
    <2> SUFFICES ASSUME u = n PROVE Flat(w, c, u) = e  OBVIOUS
    <2>1. Len(b) = 0  BY <1>2, <1>8
    <2>2. b = <<>>  BY <2>1, <1>8, EmptySeq
    <2>3. <<>> \o e = e  BY <1>4
    <2> QED BY <2>2, <2>3, <1>5, <1>6
  <1> QED BY <1>1, <1>10, <1>11 DEF NextBeat

LEMMA FlatLength ==
  ASSUME NEW R, NEW w, NEW c \in Seq(R), Counted(w, c), c # <<>>, NEW t \in Nat, NEW u \in Nat,
         t <= Beats(w, Head(c)), u <= Beats(w, Head(c))
  PROVE  Len(Flat(w, c, t)) + t = Len(Flat(w, c, u)) + u
  <1>1. PICK r, n, e : r = Head(c) /\ n = Beats(w, r) /\ e = Flat(w, Tail(c), 0)  OBVIOUS
  <1>2. r \in R /\ n \in Nat  BY <1>1, TailCounted
  <1>3. ASSUME NEW v \in Nat, v <= n
        PROVE  Len(Flat(w, c, v)) = n - v + Len(e) /\ Len(e) \in Nat
    <2>1. e \in Seq(R) /\ Flat(w, c, v) = Times(r, n - v) \o e  BY <1>1, <1>3, FlatHead
    <2>2. PICK k, b : k = n - v /\ b = Times(r, n - v)  OBVIOUS
    <2>3. k \in Nat  BY <2>2, <1>2, <1>3
    <2>4. b \in Seq(R) /\ Len(b) = k  BY <2>2, <2>3, <1>2, TimesType
    <2>5. Len(b \o e) = Len(b) + Len(e) /\ Len(e) \in Nat  BY <2>1, <2>4
    <2> QED BY <2>1, <2>2, <2>4, <2>5
  <1>4. Len(Flat(w, c, t)) = n - t + Len(e) /\ Len(e) \in Nat  BY <1>1, <1>3
  <1>5. Len(Flat(w, c, u)) = n - u + Len(e)  BY <1>1, <1>3
  <1> QED BY <1>2, <1>4, <1>5

Associates(a, b, c) == (a \o b) \o c = a \o (b \o c)
Moves(a, x, b) == a \o (<<x>> \o b) = Append(a, x) \o b

LEMMA Joined ==
  ASSUME NEW R, NEW a \in Seq(R), NEW b \in Seq(R), NEW c \in Seq(R)
  PROVE  Associates(a, b, c)
  BY DEF Associates

LEMMA Moved ==
  ASSUME NEW R, NEW a \in Seq(R), NEW b \in Seq(R), NEW x \in R
  PROVE  Moves(a, x, b)
  BY DEF Moves

LEMMA CountedBoth ==
  ASSUME NEW R, NEW w, NEW a \in Seq(R), NEW b \in Seq(R), Counted(w, a \o b)
  PROVE  Counted(w, a) /\ Counted(w, b) /\ a \o b \in Seq(R)
  <1>1. PICK c : c = a \o b  OBVIOUS
  <1>2. /\ c \in Seq(R) /\ Len(c) = Len(a) + Len(b) /\ Len(a) \in Nat /\ Len(b) \in Nat
        /\ \A i \in 1 .. Len(a) : c[i] = a[i]
        /\ \A i \in 1 .. Len(b) : c[Len(a) + i] = b[i]
    BY <1>1
  <1>3. ASSUME NEW i \in 1 .. Len(a) PROVE Beats(w, a[i]) \in Nat \ {0}
    <2>1. i \in 1 .. Len(c) /\ c[i] = a[i]  BY <1>2
    <2> QED BY <2>1, <1>1 DEF Counted
  <1>4. ASSUME NEW i \in 1 .. Len(b) PROVE Beats(w, b[i]) \in Nat \ {0}
    <2>1. Len(a) + i \in 1 .. Len(c) /\ c[Len(a) + i] = b[i]  BY <1>2
    <2> QED BY <2>1, <1>1 DEF Counted
  <1> QED BY <1>1, <1>2, <1>3, <1>4 DEF Counted

(* The data follows the requests a \o b, of which t beats are taken: k is what *)
(* was sent and not taken, b the requests whose data is not all sent, u the  *)
(* beats sent of the first of them.                                          *)
Follows(w, a, b, t, u, k) ==
  /\ Counted(w, a \o b) /\ Started(w, a \o b, t) /\ Started(w, b, u)
  /\ Flat(w, a \o b, t) = k \o Flat(w, b, u)

LEMMA FollowsAppend ==
  ASSUME NEW R, NEW w, NEW a \in Seq(R), NEW b \in Seq(R), NEW t \in Nat, NEW u \in Nat,
         NEW k \in Seq(R), Follows(w, a, b, t, u, k), NEW x \in R, Beats(w, x) \in Nat \ {0}
  PROVE  Follows(w, a, Append(b, x), t, u, k)
  <1>1. PICK c, f, d : c = a \o b /\ f = Times(x, Beats(w, x)) /\ d = Append(b, x)  OBVIOUS
  <1>2. c \in Seq(R) /\ d \in Seq(R) /\ Counted(w, c) /\ Counted(w, b) /\ a \o d = Append(c, x)
    <2>1. Counted(w, a \o b)  BY DEF Follows
    <2>2. Counted(w, b) /\ a \o b \in Seq(R)  BY <2>1, CountedBoth
    <2>3. a \o Append(b, x) = Append(a \o b, x)  BY AppendLast
    <2>4. Append(b, x) \in Seq(R)  OBVIOUS
    <2> QED BY <1>1, <2>1, <2>2, <2>3, <2>4
  <1>3. Started(w, c, t) /\ Started(w, b, u) /\ Flat(w, c, t) = k \o Flat(w, b, u)
    BY <1>1 DEF Follows
  <1>4. /\ Counted(w, Append(c, x)) /\ Started(w, Append(c, x), t)
        /\ Flat(w, c, t) \in Seq(R) /\ f \in Seq(R)
        /\ Flat(w, Append(c, x), t) = Flat(w, c, t) \o f
    <2>1. c \in Seq(R) /\ Counted(w, c) /\ Started(w, c, t)  BY <1>2, <1>3
    <2>2. /\ Counted(w, Append(c, x)) /\ Started(w, Append(c, x), t)
          /\ Flat(w, c, t) \in Seq(R) /\ Times(x, Beats(w, x)) \in Seq(R)
          /\ Flat(w, Append(c, x), t) = Flat(w, c, t) \o Times(x, Beats(w, x))
      BY <2>1, FlatAppend
    <2> QED BY <2>2, <1>1
  <1>5. /\ Started(w, d, u) /\ Flat(w, b, u) \in Seq(R)
        /\ Flat(w, d, u) = Flat(w, b, u) \o f
    <2>1. Counted(w, b) /\ Started(w, b, u)  BY <1>2, <1>3
    <2>2. /\ Started(w, Append(b, x), u) /\ Flat(w, b, u) \in Seq(R)
          /\ Flat(w, Append(b, x), u) = Flat(w, b, u) \o Times(x, Beats(w, x))
      BY <2>1, FlatAppend
    <2> QED BY <2>2, <1>1
  <1>6. PICK g : g = Flat(w, b, u)  OBVIOUS
  <1>7. (k \o g) \o f = k \o (g \o f)
    <2>1. f \in Seq(R) /\ g \in Seq(R)  BY <1>4, <1>5, <1>6
    <2>2. Associates(k, g, f)  BY <2>1, Joined
    <2> QED BY <2>2 DEF Associates
  <1>8. Flat(w, a \o d, t) = k \o Flat(w, d, u)  BY <1>2, <1>3, <1>4, <1>5, <1>6, <1>7
  <1>9. Counted(w, a \o d) /\ Started(w, a \o d, t) /\ Started(w, d, u)  BY <1>2, <1>4, <1>5
  <1> QED BY <1>1, <1>8, <1>9 DEF Follows

LEMMA FollowsSend ==
  ASSUME NEW R, NEW w, NEW a \in Seq(R), NEW b \in Seq(R), b # <<>>, NEW t \in Nat, NEW u \in Nat,
         NEW k \in Seq(R), Follows(w, a, b, t, u, k)
  PROVE  /\ Beats(w, Head(b)) \in Nat
         /\ u + 1 # Beats(w, Head(b)) => Follows(w, a, b, t, u + 1, Append(k, Head(b)))
         /\ u + 1 = Beats(w, Head(b)) =>
              Follows(w, Append(a, Head(b)), Tail(b), t, 0, Append(k, Head(b)))
  <1>1. PICK c, x, n, d, v, e : /\ c = a \o b /\ x = Head(b) /\ n = Beats(w, x) /\ d = Tail(b) /\ v = u + 1
                                /\ e = Append(k, x)
    OBVIOUS
  <1>2. c \in Seq(R) /\ Counted(w, c) /\ Counted(w, b)  BY <1>1, CountedBoth DEF Follows
  <1>3. Started(w, c, t) /\ u < n /\ Flat(w, c, t) = k \o Flat(w, b, u)
    BY <1>1 DEF Follows, Started
  <1>4. x \in R /\ d \in Seq(R) /\ n \in Nat \ {0} /\ Counted(w, d)  BY <1>1, <1>2, TailCounted
  <1>5. /\ Flat(w, b, v) \in Seq(R) /\ Flat(w, b, u) = <<x>> \o Flat(w, b, v)
        /\ v = n => Flat(w, b, v) = Flat(w, d, 0)
    <2>1. Counted(w, b) /\ u < Beats(w, Head(b))  BY <1>1, <1>2, <1>3
    <2>2. Flat(w, b, u + 1) \in Seq(R) /\ NextBeat(w, b, u)  BY <2>1, FlatNext
    <2>3. /\ Flat(w, b, u) = <<Head(b)>> \o Flat(w, b, u + 1)
          /\ u + 1 = Beats(w, Head(b)) => Flat(w, b, u + 1) = Flat(w, Tail(b), 0)
      BY <2>2 DEF NextBeat
    <2> QED BY <2>2, <2>3, <1>1
  <1>6. Flat(w, c, t) = e \o Flat(w, b, v)
    <2>1. PICK g : g = Flat(w, b, v)  OBVIOUS
    <2>2. k \o (<<x>> \o g) = e \o g
      <3>1. g \in Seq(R) /\ x \in R  BY <2>1, <1>4, <1>5
      <3>2. Moves(k, x, g)  BY <3>1, Moved
      <3>3. k \o (<<x>> \o g) = Append(k, x) \o g  BY <3>2 DEF Moves
      <3> QED BY <3>3, <1>1
    <2> QED BY <2>1, <2>2, <1>3, <1>5
  <1>7. ASSUME v # n PROVE Follows(w, a, b, t, v, e)
    <2>1. v < n  BY <1>1, <1>3, <1>4, <1>7
    <2>2. Started(w, b, v)  BY <2>1, <1>1 DEF Started
    <2> QED BY <2>2, <1>1, <1>2, <1>3, <1>6 DEF Follows
  <1>8. ASSUME v = n PROVE Follows(w, Append(a, x), d, t, 0, e)
    <2>1. Append(a, x) \o d = c
      <3>1. Append(a, Head(b)) \o Tail(b) = a \o b  BY PassOn
      <3> QED BY <3>1, <1>1
    <2>2. Started(w, d, 0)
      <3>1. d # <<>> => Beats(w, Head(d)) \in Nat \ {0}  BY <1>4, TailCounted
      <3> QED BY <3>1 DEF Started
    <2>3. Flat(w, c, t) = e \o Flat(w, d, 0)  BY <1>5, <1>6, <1>8
    <2> QED BY <2>1, <2>2, <2>3, <1>2, <1>3 DEF Follows
  <1> QED BY <1>1, <1>4, <1>7, <1>8

\* After one of k is taken.
FollowsTaken(w, a, b, t, u, k, c) ==
  /\ Head(k) = Head(c)
  /\ t + 1 # Beats(w, Head(c)) => Follows(w, a, b, t + 1, u, Tail(k))
  /\ t + 1 = Beats(w, Head(c)) =>
       /\ a # <<>> /\ Head(a) = Head(c) /\ Tail(c) = Tail(a) \o b
       /\ Follows(w, Tail(a), b, 0, u, Tail(k))

LEMMA FollowsTake ==
  ASSUME NEW R, NEW w, NEW a \in Seq(R), NEW b \in Seq(R), NEW t \in Nat, NEW u \in Nat,
         NEW k \in Seq(R), k # <<>>, Follows(w, a, b, t, u, k), NEW c, c = a \o b, c # <<>>
  PROVE  FollowsTaken(w, a, b, t, u, k, c)
  <1>1. PICK x, n, v, y, j : x = Head(c) /\ n = Beats(w, x) /\ v = t + 1 /\ y = Head(k) /\ j = Tail(k)
    OBVIOUS
  <1>2. c \in Seq(R) /\ Counted(w, c) /\ Counted(w, b) /\ Counted(w, a)  BY CountedBoth DEF Follows
  <1>3. Started(w, c, t) /\ t < n /\ Started(w, b, u) /\ Flat(w, c, t) = k \o Flat(w, b, u)
    BY <1>1 DEF Follows, Started
  <1>4. x \in R /\ n \in Nat \ {0} /\ Tail(c) \in Seq(R) /\ Counted(w, Tail(c))
    BY <1>1, <1>2, TailCounted
  <1>5. /\ Flat(w, c, v) \in Seq(R) /\ Flat(w, c, t) = <<x>> \o Flat(w, c, v)
        /\ v = n => Flat(w, c, v) = Flat(w, Tail(c), 0)
    <2>1. c \in Seq(R) /\ Counted(w, c) /\ t < Beats(w, Head(c))  BY <1>1, <1>2, <1>3
    <2>2. Flat(w, c, t + 1) \in Seq(R) /\ NextBeat(w, c, t)  BY <2>1, FlatNext
    <2>3. /\ Flat(w, c, t) = <<Head(c)>> \o Flat(w, c, t + 1)
          /\ t + 1 = Beats(w, Head(c)) => Flat(w, c, t + 1) = Flat(w, Tail(c), 0)
      BY <2>2 DEF NextBeat
    <2> QED BY <2>2, <2>3, <1>1
  <1>6. Flat(w, b, u) \in Seq(R)
    <2>1. Short(w, b, u)
      <3>1. b # <<>> => Beats(w, Head(b)) \in Nat  BY <1>2, TailCounted
      <3> QED BY <3>1, <1>3 DEF Short, Started
    <2> QED BY <2>1, <1>2, FlatType
  <1>7. y = x /\ j \in Seq(R) /\ Flat(w, c, v) = j \o Flat(w, b, u)
    <2>1. PICK f, g : f = Flat(w, c, v) /\ g = Flat(w, b, u)  OBVIOUS
    <2>2. f \in Seq(R) /\ g \in Seq(R) /\ <<x>> \o f = k \o g  BY <2>1, <1>3, <1>5, <1>6
    <2>3. k = <<y>> \o j /\ j \in Seq(R) /\ y \in R  BY <1>1
    <2>4. k \o g = <<y>> \o (j \o g) /\ j \o g \in Seq(R)  BY <2>2, <2>3
    <2>5. PICK h : h = j \o g  OBVIOUS
    <2>6. h \in Seq(R) /\ <<x>> \o f = <<y>> \o h  BY <2>2, <2>4, <2>5
    <2>7. Head(<<x>> \o f) = x /\ Tail(<<x>> \o f) = f  BY <2>2, <1>4, FirstOf
    <2>8. Head(<<y>> \o h) = y /\ Tail(<<y>> \o h) = h  BY <2>3, <2>6, FirstOf
    <2>9. x = y /\ f = h  BY <2>6, <2>7, <2>8
    <2> QED BY <2>1, <2>3, <2>5, <2>9
  <1>8. ASSUME v # n PROVE Follows(w, a, b, v, u, j)
    <2>1. v < n
      <3>1. t \in Nat /\ n \in Nat /\ v = t + 1 /\ t < n /\ v # n  BY <1>1, <1>3, <1>4, <1>8
      <3> QED BY <3>1
    <2>2. Started(w, c, v)  BY <2>1, <1>1 DEF Started
    <2> QED BY <2>2, <1>2, <1>3, <1>7 DEF Follows
  <1>9. ASSUME v = n PROVE a # <<>> /\ Head(a) = x /\ Tail(c) = Tail(a) \o b
                           /\ Follows(w, Tail(a), b, 0, u, j)
    <2>1. a # <<>>
      <3> SUFFICES ASSUME a = <<>> PROVE FALSE  OBVIOUS
      <3>1. c = b /\ b # <<>>  OBVIOUS
      <3>2. u < n  BY <3>1, <1>1, <1>3 DEF Started
      <3>3. PICK f, g : f = Flat(w, c, t) /\ g = Flat(w, c, u)  OBVIOUS
      <3>4. Len(f) + t = Len(g) + u
        <4>1. t <= n /\ u <= n  BY <3>2, <1>3, <1>4
        <4>2. Counted(w, c) /\ c \in Seq(R) /\ c # <<>> /\ t <= Beats(w, Head(c)) /\ u <= Beats(w, Head(c))
          BY <4>1, <3>1, <1>1, <1>2, <1>3
        <4>3. Len(Flat(w, c, t)) + t = Len(Flat(w, c, u)) + u  BY <4>2, FlatLength
        <4> QED BY <4>3, <3>3
      <3>5. g \in Seq(R) /\ f = k \o g  BY <3>1, <3>3, <1>3, <1>6
      <3>6. Len(f) = Len(k) + Len(g) /\ Len(g) \in Nat /\ Len(k) \in Nat \ {0}  BY <3>5
      <3>7. u = Len(k) + t  BY <3>4, <3>6
      <3> QED BY <3>2, <3>6, <3>7, <1>1, <1>4, <1>9
    <2>2. Head(a) \in R /\ Tail(a) \in Seq(R) /\ <<Head(a)>> \o (Tail(a) \o b) = c
      <3>1. a \in Seq(R) /\ b \in Seq(R) /\ c = a \o b  BY <1>1
      <3>2. <<Head(a)>> \o (Tail(a) \o b) = a \o b /\ Head(a) \in R /\ Tail(a) \in Seq(R)
        BY <2>1, PassFirst
      <3> QED BY <3>1, <3>2
    <2>3. PICK z, r : z = Head(a) /\ r = Tail(a) \o b  OBVIOUS
    <2>4. z \in R /\ r \in Seq(R) /\ <<z>> \o r = c  BY <2>2, <2>3
    <2>5. Head(<<z>> \o r) = z /\ Tail(<<z>> \o r) = r  BY <2>4, FirstOf
    <2>6. Head(a) = x /\ Tail(c) = Tail(a) \o b  BY <2>3, <2>4, <2>5, <1>1
    <2>7. Started(w, Tail(c), 0)
      <3>1. Tail(c) # <<>> => Beats(w, Head(Tail(c))) \in Nat \ {0}  BY <1>4, TailCounted
      <3> QED BY <3>1 DEF Started
    <2>8. Flat(w, Tail(c), 0) = j \o Flat(w, b, u)  BY <1>5, <1>7, <1>9
    <2> QED BY <2>1, <2>6, <2>7, <2>8, <1>3, <1>4 DEF Follows
  <1> QED BY <1>1, <1>4, <1>7, <1>8, <1>9 DEF FollowsTaken

LEMMA FollowsPrefix ==
  ASSUME NEW R, NEW w, NEW a \in Seq(R), NEW b \in Seq(R), NEW t \in Nat, NEW u \in Nat,
         NEW k \in Seq(R), Follows(w, a, b, t, u, k)
  PROVE  IsPrefix(k, Flat(w, a \o b, t))
  <1>1. Counted(w, b) /\ Started(w, b, u) /\ Flat(w, a \o b, t) = k \o Flat(w, b, u)
    BY CountedBoth DEF Follows
  <1>2. Short(w, b, u)
    <2>1. b # <<>> => Beats(w, Head(b)) \in Nat  BY <1>1, TailCounted
    <2> QED BY <2>1, <1>1 DEF Short, Started
  <1>3. PICK g : g = Flat(w, b, u)  OBVIOUS
  <1>4. g \in Seq(R)  BY <1>1, <1>2, <1>3, FlatType
  <1>5. PICK f : f = k \o g  OBVIOUS
  <1>6. /\ f \in Seq(R) /\ Len(k) <= Len(f) /\ Len(k) \in Nat /\ Len(f) \in Nat
        /\ \A i \in 1 .. Len(k) : f[i] = k[i]
    BY <1>4, <1>5
  <1>7. SubSeq(k, 1, Len(k)) = SubSeq(f, 1, Len(k))  BY <1>6
  <1> QED BY <1>1, <1>3, <1>5, <1>6, <1>7 DEF IsPrefix

----
(* The requests of a stream that are under way, in two parts: the data of    *)
(* the first is all sent, that of the second is not.                         *)

AtMost(c, done) == \A i \in 1 .. Len(c) : c[i].transfer <= done[c[i].port]

\* c is a \o b: of a all is done, b are the transfers from done to fired.
Parted(s, c, a, b, done, fired) ==
  c = a \o b /\ AtMost(a, done) /\ Successive(s, b, done, fired)

(* Only the first request of b is begun, and the data follows: of the ports'  *)
(* current transfers the beats are sent, of a \o b the shell took t, and k is *)
(* in between.                                                               *)
OnlyHead(s, b, beats) ==
  \A p \in ports : Stream(p) = s /\ beats[p] # 0 => b # <<>> /\ Head(b).port = p
Progress(b, beats) == IF b = <<>> THEN 0 ELSE beats[Head(b).port]
Paced(s, a, b, beats, w, t, k) ==
  OnlyHead(s, b, beats) /\ Follows(w, a, b, t, Progress(b, beats), k)

LEMMA PartedAgree ==
  ASSUME NEW s \in streams, NEW c, NEW a \in Seq(RequestsOf(s)), NEW b \in Seq(RequestsOf(s)),
         NEW done, NEW fired, NEW done2, NEW fired2,
         Parted(s, c, a, b, done, fired), Agree(s, done, fired, done2, fired2)
  PROVE  Parted(s, c, a, b, done2, fired2)
  <1>1. Successive(s, b, done2, fired2)
    <2>1. Successive(s, b, done, fired)  BY DEF Parted
    <2> QED BY <2>1, SameSuccessive
  <1>2. ASSUME NEW i \in 1 .. Len(a) PROVE a[i].transfer <= done2[a[i].port]
    <2>1. a[i] \in RequestsOf(s)  BY ElementOfSeq
    <2>2. done2[a[i].port] = done[a[i].port]  BY <2>1 DEF RequestsOf, Requests, Agree
    <2> QED BY <2>2 DEF Parted, AtMost
  <1> QED BY <1>1, <1>2 DEF Parted, AtMost

LEMMA PartedEnter ==
  ASSUME NEW s \in streams, NEW c, NEW a \in Seq(RequestsOf(s)), NEW b \in Seq(RequestsOf(s)),
         NEW done \in [ports -> Nat], NEW fired \in [ports -> Nat],
         Parted(s, c, a, b, done, fired),
         NEW p \in ports, Stream(p) = s, NEW after, after = Raised(fired, p),
         NEW x, x = Transfer(p, after[p])
  PROVE  /\ x \in RequestsOf(s) /\ Append(b, x) \in Seq(RequestsOf(s))
         /\ Parted(s, Append(c, x), a, Append(b, x), done, after)
  <1>1. c = a \o b /\ AtMost(a, done) /\ Successive(s, b, done, fired)  BY DEF Parted
  <1>2. x \in RequestsOf(s) /\ Successive(s, Append(b, x), done, after)
    <2>1. Successive(s, b, done, fired)  BY <1>1
    <2> QED BY <2>1, AppendSuccessive
  <1>3. Append(c, x) = a \o Append(b, x)
    <2>1. PICK R : R = RequestsOf(s)  OBVIOUS
    <2>2. a \in Seq(R) /\ b \in Seq(R) /\ x \in R  BY <2>1, <1>2
    <2>3. a \o Append(b, x) = Append(a \o b, x)  BY <2>2, AppendLast
    <2> QED BY <2>3, <1>1
  <1>5. Append(b, x) \in Seq(RequestsOf(s))  BY <1>2
  <1> QED BY <1>1, <1>2, <1>3, <1>5 DEF Parted

\* After the data of the first request of b is sent.
SentOne(s, c, a, b, done, fired, after) ==
  /\ Head(b) = Transfer(Head(b).port, done[Head(b).port] + 1)
  /\ Append(a, Head(b)) \in Seq(RequestsOf(s)) /\ Tail(b) \in Seq(RequestsOf(s))
  /\ Parted(s, c, Append(a, Head(b)), Tail(b), after, fired)

LEMMA PartedSend ==
  ASSUME NEW s \in streams, NEW c, NEW a \in Seq(RequestsOf(s)), NEW b \in Seq(RequestsOf(s)),
         NEW done \in [ports -> Nat], NEW fired \in [ports -> Nat],
         Parted(s, c, a, b, done, fired), b # <<>>,
         NEW after, after = Raised(done, Head(b).port)
  PROVE  SentOne(s, c, a, b, done, fired, after)
  <1>1. c = a \o b /\ AtMost(a, done) /\ Successive(s, b, done, fired)  BY DEF Parted
  <1>2. PICK R, x, t, d : R = RequestsOf(s) /\ x = Head(b) /\ t = Tail(b) /\ d = Append(a, x)
    OBVIOUS
  <1>3. x = Transfer(x.port, done[x.port] + 1) /\ Successive(s, t, after, fired)
    <2>1. after = [done EXCEPT ![Head(b).port] = @ + 1]  BY DEF Raised
    <2> QED BY <2>1, <1>1, <1>2, TailSuccessive
  <1>4. x \in R /\ t \in Seq(R) /\ d \in Seq(R) /\ d \o t = a \o b
    <2>1. a \in Seq(R) /\ b \in Seq(R)  BY <1>2
    <2>2. /\ Head(b) \in R /\ Tail(b) \in Seq(R) /\ Append(a, Head(b)) \in Seq(R)
          /\ Append(a, Head(b)) \o Tail(b) = a \o b
      BY <2>1, PassOn
    <2> QED BY <2>2, <1>2
  <1>5. x.port \in ports /\ x.transfer = done[x.port] + 1
    BY <1>2, <1>3, <1>4 DEF RequestsOf, Requests, Transfer
  <1>6. /\ \A q \in ports : done[q] <= after[q] /\ done[q] \in Nat /\ after[q] \in Nat
        /\ after[x.port] = done[x.port] + 1
    BY <1>2, <1>5 DEF Raised
  <1>7. AtMost(d, after)
    <2>1. /\ Len(d) = Len(a) + 1 /\ Len(a) \in Nat /\ d[Len(a) + 1] = x
          /\ \A i \in 1 .. Len(a) : d[i] = a[i]
      BY <1>2, <1>4
    <2>2. ASSUME NEW i \in 1 .. Len(d) PROVE d[i].transfer <= after[d[i].port]
      <3>1. CASE i = Len(a) + 1  BY <3>1, <2>1, <1>5, <1>6
      <3>2. CASE i # Len(a) + 1
        <4>1. i \in 1 .. Len(a) /\ d[i] = a[i]  BY <3>2, <2>1
        <4>2. a[i] \in RequestsOf(s)  BY <4>1, ElementOfSeq
        <4>3. a[i].transfer <= done[a[i].port]  BY <4>1, <1>1 DEF AtMost
        <4>4. a[i].port \in ports /\ a[i].transfer \in Nat  BY <4>2 DEF RequestsOf, Requests
        <4>5. done[a[i].port] <= after[a[i].port] /\ done[a[i].port] \in Nat /\ after[a[i].port] \in Nat
          BY <4>4, <1>6
        <4> QED BY <4>1, <4>3, <4>4, <4>5
      <3> QED BY <3>1, <3>2
    <2> QED BY <2>2 DEF AtMost
  <1>9. Parted(s, c, d, t, after, fired)  BY <1>1, <1>3, <1>4, <1>7 DEF Parted
  <1> QED BY <1>2, <1>3, <1>4, <1>9 DEF SentOne

LEMMA PartedTake ==
  ASSUME NEW s \in streams, NEW c, NEW a \in Seq(RequestsOf(s)), NEW b \in Seq(RequestsOf(s)),
         NEW done, NEW fired, Parted(s, c, a, b, done, fired), a # <<>>,
         NEW d, d = Tail(a) \o b
  PROVE  /\ Tail(a) \in Seq(RequestsOf(s)) /\ Head(a).transfer <= done[Head(a).port]
         /\ Parted(s, d, Tail(a), b, done, fired)
  <1>1. PICK t : t = Tail(a)  OBVIOUS
  <1>2. /\ t \in Seq(RequestsOf(s)) /\ Len(t) = Len(a) - 1 /\ Len(a) \in Nat \ {0}
        /\ Head(a) = a[1] /\ \A i \in 1 .. Len(t) : t[i] = a[i + 1]
    BY <1>1
  <1>3. AtMost(t, done)
    <2>1. ASSUME NEW i \in 1 .. Len(t) PROVE t[i].transfer <= done[t[i].port]
      <3>1. i + 1 \in 1 .. Len(a) /\ t[i] = a[i + 1]  BY <1>2
      <3> QED BY <3>1 DEF Parted, AtMost
    <2> QED BY <2>1 DEF AtMost
  <1>4. Head(a).transfer <= done[Head(a).port]
    <2>1. 1 \in 1 .. Len(a)  BY <1>2
    <2> QED BY <2>1, <1>2 DEF Parted, AtMost
  <1>5. Parted(s, d, t, b, done, fired)  BY <1>1, <1>3 DEF Parted
  <1> QED BY <1>1, <1>2, <1>4, <1>5

LEMMA FirstPortOf ==
  ASSUME NEW s \in streams, NEW b \in Seq(RequestsOf(s)), b # <<>>
  PROVE  Head(b) \in RequestsOf(s) /\ Head(b).port \in ports /\ Stream(Head(b).port) = s
  <1>1. Head(b) \in RequestsOf(s)  OBVIOUS
  <1> QED BY <1>1 DEF RequestsOf, Requests

LEMMA PacedAgree ==
  ASSUME NEW s \in streams, NEW a, NEW b \in Seq(RequestsOf(s)), NEW beats, NEW beats2,
         NEW w, NEW t, NEW k, Paced(s, a, b, beats, w, t, k),
         \A p \in ports : Stream(p) = s => beats2[p] = beats[p]
  PROVE  Paced(s, a, b, beats2, w, t, k)
  <1>1. Progress(b, beats2) = Progress(b, beats)  BY FirstPortOf DEF Progress
  <1>2. OnlyHead(s, b, beats2)  BY DEF Paced, OnlyHead
  <1> QED BY <1>1, <1>2 DEF Paced

LEMMA PacedEnter ==
  ASSUME NEW s \in streams, NEW R, R = RequestsOf(s), NEW a \in Seq(R), NEW b \in Seq(R),
         NEW beats \in [ports -> Nat], NEW w, NEW t \in Nat, NEW k \in Seq(R),
         Paced(s, a, b, beats, w, t, k), NEW x \in R, Beats(w, x) \in Nat \ {0}
  PROVE  Paced(s, a, Append(b, x), beats, w, t, k)
  <1>1. PICK d, u : d = Append(b, x) /\ u = Progress(b, beats)  OBVIOUS
  <1>2. d \in Seq(R) /\ d # <<>> /\ (b # <<>> => Head(d) = Head(b)) /\ (b = <<>> => Head(d) = x)
    BY <1>1
  <1>3. x.port \in ports /\ Stream(x.port) = s  BY DEF RequestsOf, Requests
  <1>4. b # <<>> => Head(b).port \in ports  BY FirstPortOf
  <1>5. u \in Nat  BY <1>1, <1>4 DEF Progress
  <1>6. b = <<>> => beats[x.port] = 0  BY <1>3 DEF Paced, OnlyHead
  <1>7. Progress(d, beats) = u  BY <1>1, <1>2, <1>6 DEF Progress
  <1>8. OnlyHead(s, d, beats)  BY <1>2 DEF Paced, OnlyHead
  <1>9. Follows(w, a, d, t, u, k)
    <2>1. Follows(w, a, b, t, u, k)  BY <1>1 DEF Paced
    <2>2. Follows(w, a, Append(b, x), t, u, k)  BY <2>1, <1>5, FollowsAppend
    <2> QED BY <2>2, <1>1
  <1> QED BY <1>1, <1>7, <1>8, <1>9 DEF Paced

\* The next beat of the first request of b: its last one, or another.
LEMMA PacedSend ==
  ASSUME NEW s \in streams, NEW R, R = RequestsOf(s), NEW a \in Seq(R), NEW b \in Seq(R),
         b # <<>>, NEW beats \in [ports -> Nat], NEW w, NEW t \in Nat, NEW k \in Seq(R),
         Paced(s, a, b, beats, w, t, k), NEW p, p = Head(b).port,
         NEW more \in [ports -> Nat], \A q \in ports \ {p} : more[q] = beats[q]
  PROVE  /\ beats[p] + 1 # Beats(w, Head(b)) /\ more[p] = beats[p] + 1 =>
              Paced(s, a, b, more, w, t, Append(k, Head(b)))
         /\ beats[p] + 1 = Beats(w, Head(b)) /\ more[p] = 0 =>
              Paced(s, Append(a, Head(b)), Tail(b), more, w, t, Append(k, Head(b)))
  <1>1. PICK x, d, e, u : x = Head(b) /\ d = Tail(b) /\ e = Append(k, x) /\ u = beats[p]  OBVIOUS
  <1>2. p \in ports /\ Stream(p) = s  BY FirstPortOf
  <1>3. Progress(b, beats) = u /\ u \in Nat  BY <1>1, <1>2 DEF Progress
  <1>4. \A q \in ports : Stream(q) = s /\ beats[q] # 0 => q = p  BY DEF Paced, OnlyHead
  <1>5. /\ u + 1 # Beats(w, x) => Follows(w, a, b, t, u + 1, e)
        /\ u + 1 = Beats(w, x) => Follows(w, Append(a, x), d, t, 0, e)
    <2>1. Follows(w, a, b, t, u, k)  BY <1>3 DEF Paced
    <2>2. /\ u + 1 # Beats(w, Head(b)) => Follows(w, a, b, t, u + 1, Append(k, Head(b)))
          /\ u + 1 = Beats(w, Head(b)) =>
               Follows(w, Append(a, Head(b)), Tail(b), t, 0, Append(k, Head(b)))
      BY <2>1, <1>3, FollowsSend
    <2> QED BY <2>2, <1>1
  <1>6. ASSUME u + 1 # Beats(w, x), more[p] = u + 1 PROVE Paced(s, a, b, more, w, t, e)
    <2>1. Progress(b, more) = u + 1  BY <1>6 DEF Progress
    <2>2. OnlyHead(s, b, more)  BY <1>4 DEF OnlyHead
    <2> QED BY <2>1, <2>2, <1>5, <1>6 DEF Paced
  <1>7. ASSUME u + 1 = Beats(w, x), more[p] = 0 PROVE Paced(s, Append(a, x), d, more, w, t, e)
    <2>1. \A q \in ports : Stream(q) = s => more[q] = 0  BY <1>4, <1>7
    <2>2. d \in Seq(R)  BY <1>1
    <2>3. d # <<>> => Head(d).port \in ports /\ Stream(Head(d).port) = s  BY <2>2, FirstPortOf
    <2>4. Progress(d, more) = 0  BY <2>1, <2>3 DEF Progress
    <2>5. OnlyHead(s, d, more)  BY <2>1 DEF OnlyHead
    <2> QED BY <2>4, <2>5, <1>5, <1>7 DEF Paced
  <1> QED BY <1>1, <1>6, <1>7

\* After the shell took the first of k.
PacedTaken(s, a, b, beats, w, t, k, c) ==
  /\ Head(k) = Head(c)
  /\ t + 1 # Beats(w, Head(c)) => Paced(s, a, b, beats, w, t + 1, Tail(k))
  /\ t + 1 = Beats(w, Head(c)) =>
       /\ a # <<>> /\ Head(a) = Head(c) /\ Tail(c) = Tail(a) \o b
       /\ Paced(s, Tail(a), b, beats, w, 0, Tail(k))

LEMMA PacedTake ==
  ASSUME NEW s \in streams, NEW R, R = RequestsOf(s), NEW a \in Seq(R), NEW b \in Seq(R),
         NEW beats \in [ports -> Nat], NEW w, NEW t \in Nat, NEW k \in Seq(R), k # <<>>,
         Paced(s, a, b, beats, w, t, k), NEW c, c = a \o b, c # <<>>
  PROVE  PacedTaken(s, a, b, beats, w, t, k, c)
  <1>1. PICK u : u = Progress(b, beats)  OBVIOUS
  <1>2. b # <<>> => Head(b).port \in ports  BY FirstPortOf
  <1>3. u \in Nat /\ OnlyHead(s, b, beats) /\ Follows(w, a, b, t, u, k)
    BY <1>1, <1>2 DEF Progress, Paced
  <1>4. /\ Head(k) = Head(c)
        /\ t + 1 # Beats(w, Head(c)) => Follows(w, a, b, t + 1, u, Tail(k))
        /\ t + 1 = Beats(w, Head(c)) =>
             a # <<>> /\ Head(a) = Head(c) /\ Tail(c) = Tail(a) \o b
             /\ Follows(w, Tail(a), b, 0, u, Tail(k))
    <2>1. FollowsTaken(w, a, b, t, u, k, c)  BY <1>3, FollowsTake
    <2> QED BY <2>1 DEF FollowsTaken
  <1> QED BY <1>1, <1>3, <1>4 DEF Paced, PacedTaken

----
(* The invariant of the data: the requests under way of every stream are in  *)
(* two parts, and what is done or completed was sent.                        *)

DataTypes ==
  /\ workload \in [ports -> Seq([beats : Nat \ {0}, end : BOOLEAN])]
  /\ beats_sent \in [ports -> Nat] /\ beats_taken \in [streams -> Nat]
  /\ Queues(data_skid)

StreamData(s, a, b) ==
  /\ Parted(s, RequestsUnderWay(s), a, b, sent, Fired)
  /\ shared(s) => Ordered(data_order[s], b)
  /\ Paced(s, a, b, beats_sent, workload, beats_taken[s], data_skid[s])
StreamsData == \A s \in streams : \E a, b \in Seq(RequestsOf(s)) : StreamData(s, a, b)

Written ==
  \A s \in streams :
    AtMost(acks[s], sent) /\ AtMost(Own(cq_wr, s), sent) /\ AtMost(Own(cq_strm[s], s), sent)
Limits == \A p \in ports : requested[p] <= Len(workload[p]) /\ completed[p] <= sent[p]

DataInv == FlowInv /\ DataTypes /\ Written /\ Limits /\ StreamsData

LEMMA KeepStreams ==
  ASSUME StreamsData, MovesRequests,
         UNCHANGED <<sent, data_order, beats_sent, workload, beats_taken, data_skid>>
  PROVE  StreamsData'
  <1>1. ASSUME NEW s \in streams, NEW a, NEW b, StreamData(s, a, b)
        PROVE  StreamData(s, a, b)'
    <2>1. RequestsUnderWay(s)' = RequestsUnderWay(s) /\ Fired' = Fired  BY DEF MovesRequests
    <2>2. Parted(s, RequestsUnderWay(s)', a, b, sent', Fired')  BY <2>1, <1>1 DEF StreamData
    <2>3. /\ shared(s) => Ordered(data_order'[s], b)
          /\ Paced(s, a, b, beats_sent', workload', beats_taken'[s], data_skid'[s])
      BY <1>1 DEF StreamData
    <2> QED BY <2>2, <2>3 DEF StreamData
  <1> QED BY <1>1 DEF StreamsData

LEMMA UnderWayAppend ==
  ASSUME QueueTypes, AckTypes, NEW s \in streams, NEW x \in RequestsOf(s),
         sq_skid'[s] = Append(sq_skid[s], x), UNCHANGED <<sq_arb, sq>>
  PROVE  RequestsUnderWay(s)' = Append(RequestsUnderWay(s), x)
  <1>1. PICK R, d, e, f, g :
          /\ R = RequestsOf(s) /\ d = sq[s] /\ e = Of(sq_arb.out, s)
          /\ f = sq_arb.buf[s] /\ g = sq_skid[s]
    OBVIOUS
  <1>2. d \in Seq(R) /\ e \in Seq(R) /\ f \in Seq(R) /\ g \in Seq(R) /\ x \in R  BY <1>1, ChainTypes
  <1>3. f \o g \in Seq(R) /\ f \o Append(g, x) = Append(f \o g, x)  BY <1>2, AppendLast
  <1>4. PICK h : h = f \o g  OBVIOUS
  <1>5. e \o h \in Seq(R) /\ e \o Append(h, x) = Append(e \o h, x)
    <2>1. h \in Seq(R)  BY <1>3, <1>4
    <2> QED BY <2>1, <1>2, AppendLast
  <1>6. PICK i : i = e \o h  OBVIOUS
  <1>7. d \o Append(i, x) = Append(d \o i, x)
    <2>1. i \in Seq(R)  BY <1>5, <1>6
    <2> QED BY <2>1, <1>2, AppendLast
  <1>8. d \o (e \o (f \o Append(g, x))) = Append(d \o (e \o (f \o g)), x)
    BY <1>3, <1>4, <1>5, <1>6, <1>7
  <1> QED BY <1>1, <1>8 DEF RequestsUnderWay

\* The requests of a stream whose parts are untouched.
LEMMA SameUnderWay ==
  ASSUME NEW s \in streams, sq_skid'[s] = sq_skid[s], UNCHANGED <<sq_arb, sq>>
  PROVE  RequestsUnderWay(s)' = RequestsUnderWay(s)
  BY DEF RequestsUnderWay

LEMMA EnterStreams ==
  ASSUME FlowInv, DataTypes, StreamsData, NEW p \in ports, AddsRequest(p),
         requested'[p] <= Len(workload[p]), requested'[p] \in Nat,
         shared(Stream(p)) =>
           data_order'[Stream(p)] = Append(data_order[Stream(p)], Writer(p)),
         \A s \in streams : s # Stream(p) => data_order'[s] = data_order[s],
         UNCHANGED <<sent, beats_sent, workload, beats_taken, data_skid>>
  PROVE  StreamsData'
  <1>0. CountTypes /\ OrderTypes /\ QueueTypes /\ AckTypes /\ RequestInv  BY DEF FlowInv, FlowTypes
  <1>1. PICK done, fired, after : done = sent /\ fired = Fired /\ after = Fired'  OBVIOUS
  <1>2. done \in [ports -> Nat] /\ fired \in [ports -> Nat]  BY <1>0, <1>1, FiredType DEF CountTypes
  <1>3. after = Raised(fired, p) /\ after[p] = requested'[p]  BY <1>1 DEF AddsRequest, Raised
  <1>4. ASSUME NEW s \in streams, s = Stream(p)
        PROVE  (\E a, b \in Seq(RequestsOf(s)) : StreamData(s, a, b))'
    <2>1. PICK a \in Seq(RequestsOf(s)), b \in Seq(RequestsOf(s)) : StreamData(s, a, b)
      BY DEF StreamsData
    <2>2. PICK x, c, d, o : x = Transfer(p, after[p]) /\ c = RequestsUnderWay(s) /\ d = Append(b, x)
                            /\ o = data_order[s]
      OBVIOUS
    <2>3. Parted(s, c, a, b, done, fired)  BY <2>1, <2>2, <1>1 DEF StreamData
    <2>4. x \in RequestsOf(s) /\ d \in Seq(RequestsOf(s)) /\ Parted(s, Append(c, x), a, d, done, after)
      <3>1. /\ x \in RequestsOf(s) /\ Append(b, x) \in Seq(RequestsOf(s))
            /\ Parted(s, Append(c, x), a, Append(b, x), done, after)
        BY <2>2, <2>3, <1>2, <1>3, <1>4, PartedEnter
      <3> QED BY <3>1, <2>2
    <2>5. RequestsUnderWay(s)' = Append(c, x)
      <3>1. sq_skid'[s] = Append(sq_skid[s], x) /\ UNCHANGED <<sq_arb, sq>>
        BY <2>2, <1>1, <1>4 DEF AddsRequest
      <3> QED BY <3>1, <2>2, <2>4, <1>0, UnderWayAppend
    <2>6. shared(s) => Ordered(data_order'[s], d)
      <3> SUFFICES ASSUME shared(s) PROVE Ordered(data_order'[s], d)  OBVIOUS
      <3>1. o \in Seq(Nat) /\ Ordered(o, b)  BY <2>1, <2>2, <1>0 DEF StreamData, OrderTypes
      <3>2. x.port = p /\ Writer(p) \in Nat  BY <2>2, PortFacts, OutputWriterAssumption DEF Transfer
      <3>3. Ordered(Append(o, Writer(x.port)), Append(b, x))  BY <3>1, <3>2, <2>4, AppendOrdered
      <3> QED BY <3>2, <3>3, <2>2, <1>4
    <2>7. Beats(workload, x) \in Nat \ {0}
      <3>1. x.port = p /\ x.transfer = requested'[p] /\ x.transfer = fired[p] + 1 /\ fired[p] \in Nat
        BY <2>2, <1>2, <1>3 DEF Transfer, Raised
      <3>2. x.transfer \in 1 .. Len(workload[p]) /\ workload[p] \in Seq([beats : Nat \ {0}, end : BOOLEAN])
        BY <3>1 DEF DataTypes
      <3>3. workload[p][x.transfer] \in [beats : Nat \ {0}, end : BOOLEAN]
        <4>1. PICK T, l, i : T = [beats : Nat \ {0}, end : BOOLEAN] /\ l = workload[p] /\ i = x.transfer
          OBVIOUS
        <4>2. l \in Seq(T) /\ i \in 1 .. Len(l)  BY <3>2, <4>1
        <4>3. l[i] \in T  BY <4>2, ElementOfSeq
        <4> QED BY <4>1, <4>3
      <3> QED BY <3>1, <3>3 DEF Beats
    <2>8. Paced(s, a, d, beats_sent', workload', beats_taken'[s], data_skid'[s])
      <3>1. PICK R, w, n, t, k : R = RequestsOf(s) /\ w = workload /\ n = beats_sent
                                 /\ t = beats_taken[s] /\ k = data_skid[s]
        OBVIOUS
      <3>2. n \in [ports -> Nat] /\ t \in Nat /\ k \in Seq(R) /\ a \in Seq(R) /\ b \in Seq(R) /\ x \in R
        BY <3>1, <2>4 DEF DataTypes, Queues
      <3>3. Paced(s, a, b, n, w, t, k) /\ Beats(w, x) \in Nat \ {0}
        BY <3>1, <2>1, <2>7 DEF StreamData
      <3>4. Paced(s, a, Append(b, x), n, w, t, k)  BY <3>1, <3>2, <3>3, PacedEnter
      <3> QED BY <3>1, <3>4, <2>2
    <2>9. Parted(s, RequestsUnderWay(s)', a, d, sent', Fired')  BY <2>4, <2>5, <1>1
    <2>10. StreamData(s, a, d)'  BY <2>6, <2>8, <2>9 DEF StreamData
    <2> QED BY <2>4, <2>10
  <1>5. ASSUME NEW s \in streams, s # Stream(p)
        PROVE  (\E a, b \in Seq(RequestsOf(s)) : StreamData(s, a, b))'
    <2>1. PICK a \in Seq(RequestsOf(s)), b \in Seq(RequestsOf(s)) : StreamData(s, a, b)
      BY DEF StreamsData
    <2>2. PICK c : c = RequestsUnderWay(s)  OBVIOUS
    <2>3. Parted(s, c, a, b, done, fired)  BY <2>1, <2>2, <1>1 DEF StreamData
    <2>4. RequestsUnderWay(s)' = c  BY <2>2, <1>5, SameUnderWay DEF AddsRequest
    <2>5. Agree(s, done, fired, done, after)  BY <1>2, <1>3, <1>5 DEF Agree, Raised
    <2>6. Parted(s, c, a, b, done, after)  BY <2>3, <2>5, PartedAgree
    <2>7. Parted(s, RequestsUnderWay(s)', a, b, sent', Fired')  BY <2>4, <2>6, <1>1
    <2>8. /\ shared(s) => Ordered(data_order'[s], b)
          /\ Paced(s, a, b, beats_sent', workload', beats_taken'[s], data_skid'[s])
      BY <2>1, <1>5 DEF StreamData
    <2>9. StreamData(s, a, b)'  BY <2>7, <2>8 DEF StreamData
    <2> QED BY <2>9
  <1>6. ASSUME NEW s \in streams PROVE (\E a, b \in Seq(RequestsOf(s)) : StreamData(s, a, b))'
    BY <1>4, <1>5
  <1> QED BY <1>6 DEF StreamsData

LEMMA SendStreams ==
  ASSUME FlowInv, DataTypes, StreamsData, NEW p \in ports, SendBeat(p)
  PROVE  StreamsData' /\ Queues(data_skid') /\ beats_sent' \in [ports -> Nat]
  <1>0. CountTypes /\ OrderTypes /\ QueueTypes /\ AckTypes /\ RequestInv  BY DEF FlowInv, FlowTypes
  <1>1. PICK s, r, done, fired, after, more :
          /\ s = Stream(p) /\ r = Transfer(p, sent[p] + 1)
          /\ done = sent /\ fired = Fired /\ after = sent' /\ more = beats_sent'
    OBVIOUS
  <1>2. s \in streams /\ done \in [ports -> Nat] /\ fired \in [ports -> Nat]
    BY <1>0, <1>1, FiredType, PortFacts DEF CountTypes
  <1>3. /\ sent[p] < requested[p]
        /\ shared(s) => data_order[s] # <<>> /\ Head(data_order[s]) = Writer(p)
        /\ data_skid' = [data_skid EXCEPT ![s] = Append(@, r)]
        /\ data_order' = IF shared(s) /\ LastBeat(p) THEN [data_order EXCEPT ![s] = Tail(@)] ELSE data_order
    BY <1>1 DEF SendBeat, data_pop
  <1>4. /\ LastBeat(p) => after = [sent EXCEPT ![p] = @ + 1] /\ more = [beats_sent EXCEPT ![p] = 0]
        /\ ~ LastBeat(p) => after = sent /\ more = [beats_sent EXCEPT ![p] = @ + 1]
    BY <1>1 DEF SendBeat
  <1>5. UNCHANGED <<requested, writer_arb, sq_skid, sq_arb, sq, workload, beats_taken>>
    BY DEF SendBeat
  <1>6. Fired' = fired  BY <1>1, <1>5, KeepFired
  <1>7. beats_sent \in [ports -> Nat] /\ more \in [ports -> Nat] /\ \A q \in ports \ {p} : more[q] = beats_sent[q]
    <2>1. beats_sent \in [ports -> Nat] /\ beats_sent[p] \in Nat  BY DEF DataTypes
    <2>2. more = [beats_sent EXCEPT ![p] = 0] \/ more = [beats_sent EXCEPT ![p] = beats_sent[p] + 1]
      BY <1>4
    <2> QED BY <2>1, <2>2
  <1>8. \A q \in ports \ {p} : after[q] = done[q]  BY <1>1, <1>2, <1>4
  <1>9. r \in RequestsOf(s)  BY <1>1, <1>2 DEF Transfer, RequestsOf, Requests
  <1>10. Queues(data_skid') /\ data_skid'[s] = Append(data_skid[s], r)
         /\ \A u \in streams : u # s => data_skid'[u] = data_skid[u]
    <2>1. PICK y : y = Append(data_skid[s], r)  OBVIOUS
    <2>2. Queues(data_skid) /\ data_skid[s] \in Seq(RequestsOf(s))  BY <1>2 DEF DataTypes, Queues
    <2>3. y \in Seq(RequestsOf(s)) /\ data_skid' = [data_skid EXCEPT ![s] = y]
      BY <2>1, <2>2, <1>3, <1>9
    <2>4. Queues([data_skid EXCEPT ![s] = y])  BY <2>2, <2>3, <1>2, QueueUpdate
    <2>5. data_skid'[s] = y /\ \A u \in streams : u # s => data_skid'[u] = data_skid[u]
      BY <2>2, <2>3, <1>2 DEF Queues
    <2> QED BY <2>1, <2>3, <2>4, <2>5
  \* The beat is of the first request whose data is not all sent.
  <1>11. ASSUME NEW a \in Seq(RequestsOf(s)), NEW b \in Seq(RequestsOf(s)), StreamData(s, a, b)
         PROVE  b # <<>> /\ Head(b).port = p
    <2>1. Successive(s, b, done, fired) /\ (shared(s) => Ordered(data_order[s], b))
      BY <1>1, <1>11 DEF StreamData, Parted
    <2>2. CASE shared(s)
      <3>1. PICK o : o = data_order[s]  OBVIOUS
      <3>2. o \in Seq(Nat) /\ o # <<>> /\ Head(o) = Writer(p) /\ Ordered(o, b)
        BY <3>1, <2>1, <2>2, <1>0, <1>2, <1>3 DEF OrderTypes
      <3>3. b # <<>>
        <4>1. Len(o) = Len(b)  BY <3>2 DEF Ordered
        <4> QED BY <4>1, <3>2
      <3>4. Head(o) = Writer(Head(b).port)  BY <3>2, <3>3, TailOrdered
      <3>5. Head(b).port \in ports /\ Stream(Head(b).port) = s  BY <3>3, <1>2, FirstPortOf
      <3> QED BY <3>2, <3>3, <3>4, <3>5, <1>1, SamePort
    <2>3. CASE ~ shared(s)
      <3>1. ~ InArb(p)  BY <2>3, <1>0, <1>1, UnsharedIdle
      <3>2. fired[p] = requested[p]  BY <3>1, <1>1 DEF Fired
      <3>3. done[p] < fired[p] /\ fired[p] \in Nat  BY <3>2, <1>1, <1>2, <1>3
      <3>4. \E i \in 1 .. Len(b) : b[i] = Transfer(p, fired[p])  BY <3>3, <2>1, <1>1 DEF Successive
      <3>5. b # <<>>  BY <3>4
      <3>6. PICK q : q = Head(b).port  OBVIOUS
      <3>7. q \in ports /\ Stream(q) = s  BY <3>5, <3>6, <1>2, FirstPortOf
      <3>8. PORTS_PER_STREAM[s] = 1
        <4>1. PORTS_PER_STREAM[s] \in Nat \ {0}
          <5>1. s \in streams /\ PORTS_PER_STREAM \in [streams -> Nat \ {0}]
            BY <1>2, OutputWriterAssumption
          <5> QED BY <5>1
        <4>2. ~ (PORTS_PER_STREAM[s] > 1)  BY <2>3 DEF shared
        <4> QED BY <4>1, <4>2
      <3>9. Writer(q) = 0 /\ Writer(p) = 0  BY <3>7, <3>8, <1>1, PortFacts
      <3> QED BY <3>5, <3>6, <3>7, <3>9, <1>1, SamePort
    <2> QED BY <2>2, <2>3
  <1>12. ASSUME NEW u \in streams, u = s
         PROVE  (\E a, b \in Seq(RequestsOf(u)) : StreamData(u, a, b))'
    <2>1. PICK a \in Seq(RequestsOf(s)), b \in Seq(RequestsOf(s)) : StreamData(s, a, b)
      BY <1>2 DEF StreamsData
    <2>2. b # <<>> /\ Head(b).port = p  BY <2>1, <1>11
    <2>3. PICK R, c, x, w, n, t, k, d, e, o :
            /\ R = RequestsOf(s) /\ c = RequestsUnderWay(s) /\ x = Head(b) /\ w = workload
            /\ n = beats_sent /\ t = beats_taken[s] /\ k = data_skid[s]
            /\ d = Append(a, x) /\ e = Tail(b) /\ o = data_order[s]
      OBVIOUS
    <2>4. a \in Seq(R) /\ b \in Seq(R) /\ t \in Nat /\ k \in Seq(R) /\ o \in Seq(Nat)
      BY <2>3, <1>0, <1>2 DEF DataTypes, Queues, OrderTypes
    <2>5. Parted(s, c, a, b, done, fired) /\ (shared(s) => Ordered(o, b)) /\ Paced(s, a, b, n, w, t, k)
      BY <2>1, <2>3, <1>1 DEF StreamData
    <2>6. PICK one : one = Raised(done, Head(b).port)  OBVIOUS
    <2>7. /\ Head(b) = Transfer(Head(b).port, done[Head(b).port] + 1)
          /\ Append(a, Head(b)) \in Seq(RequestsOf(s)) /\ Tail(b) \in Seq(RequestsOf(s))
          /\ Parted(s, c, Append(a, Head(b)), Tail(b), one, fired)
      <3>1. Parted(s, c, a, b, done, fired)  BY <2>5
      <3>2. SentOne(s, c, a, b, done, fired, one)  BY <3>1, <2>2, <2>6, <1>2, PartedSend
      <3> QED BY <3>2 DEF SentOne
    <2>8. x = r  BY <2>2, <2>3, <2>7, <1>1
    <2>9. Beats(w, x) = workload[p][sent[p] + 1].beats  BY <2>3, <2>8, <1>1 DEF Beats, Transfer
    <2>10. LastBeat(p) <=> n[p] + 1 = Beats(w, x)  BY <2>3, <2>9 DEF LastBeat
    <2>11. /\ n[p] + 1 # Beats(w, x) /\ more[p] = n[p] + 1 => Paced(s, a, b, more, w, t, Append(k, x))
           /\ n[p] + 1 = Beats(w, x) /\ more[p] = 0 => Paced(s, d, e, more, w, t, Append(k, x))
      <3>1. /\ n \in [ports -> Nat] /\ more \in [ports -> Nat] /\ \A q \in ports \ {p} : more[q] = n[q]
            /\ R = RequestsOf(s) /\ Paced(s, a, b, n, w, t, k) /\ p = Head(b).port
        BY <2>2, <2>3, <2>5, <1>7
      <3>2. /\ n[p] + 1 # Beats(w, Head(b)) /\ more[p] = n[p] + 1 =>
                 Paced(s, a, b, more, w, t, Append(k, Head(b)))
            /\ n[p] + 1 = Beats(w, Head(b)) /\ more[p] = 0 =>
                 Paced(s, Append(a, Head(b)), Tail(b), more, w, t, Append(k, Head(b)))
        BY <3>1, <2>2, <2>4, <1>2, PacedSend
      <3> QED BY <3>2, <2>3
    <2>12. RequestsUnderWay(s)' = c
      <3>1. sq_skid'[s] = sq_skid[s] /\ UNCHANGED <<sq_arb, sq>>  BY <1>5
      <3>2. RequestsUnderWay(s)' = RequestsUnderWay(s)  BY <3>1, <1>2, SameUnderWay
      <3> QED BY <3>2, <2>3
    <2>13. workload' = w /\ beats_taken'[s] = t /\ data_skid'[s] = Append(k, x) /\ beats_sent' = more
           /\ sent' = after /\ Fired' = fired
      BY <2>3, <2>8, <1>1, <1>5, <1>6, <1>10
    <2>14. CASE ~ LastBeat(p)
      <3>1. more[p] = n[p] + 1  BY <2>3, <2>14, <1>4, <1>7
      <3>2. Paced(s, a, b, more, w, t, Append(k, x))  BY <3>1, <2>10, <2>11, <2>14
      <3>3. after = done /\ data_order'[s] = o  BY <2>3, <2>14, <1>1, <1>3, <1>4
      <3>4. StreamData(s, a, b)'  BY <3>2, <3>3, <2>5, <2>12, <2>13 DEF StreamData
      <3> QED BY <3>4, <2>1, <1>12
    <2>15. CASE LastBeat(p)
      <3>1. more[p] = 0  BY <2>15, <1>4, <1>7
      <3>2. Paced(s, d, e, more, w, t, Append(k, x))  BY <3>1, <2>10, <2>11, <2>15
      <3>3. after = one  BY <2>2, <2>6, <2>15, <1>1, <1>4 DEF Raised
      <3>4. Parted(s, c, d, e, after, fired) /\ d \in Seq(RequestsOf(s)) /\ e \in Seq(RequestsOf(s))
        BY <3>3, <2>3, <2>7
      <3>5. shared(s) => Ordered(data_order'[s], e)
        <4> SUFFICES ASSUME shared(s) PROVE Ordered(data_order'[s], e)  OBVIOUS
        <4>1. data_order'[s] = Tail(o)  BY <2>3, <2>15, <1>0, <1>2, <1>3 DEF OrderTypes
        <4>2. Ordered(Tail(o), Tail(b))
          <5>1. Ordered(o, b)  BY <2>5
          <5> QED BY <5>1, <2>2, <2>4, TailOrdered
        <4> QED BY <4>1, <4>2, <2>3
      <3>6. StreamData(s, d, e)'  BY <3>2, <3>4, <3>5, <2>12, <2>13 DEF StreamData
      <3> QED BY <3>4, <3>6, <1>12
    <2> QED BY <2>14, <2>15
  <1>13. ASSUME NEW u \in streams, u # s
         PROVE  (\E a, b \in Seq(RequestsOf(u)) : StreamData(u, a, b))'
    <2>1. PICK a \in Seq(RequestsOf(u)), b \in Seq(RequestsOf(u)) : StreamData(u, a, b)
      BY DEF StreamsData
    <2>2. PICK c : c = RequestsUnderWay(u)  OBVIOUS
    <2>3. \A q \in ports : Stream(q) = u => q # p  BY <1>1, <1>13
    <2>4. Parted(u, c, a, b, after, fired)
      <3>1. Parted(u, c, a, b, done, fired)  BY <2>1, <2>2, <1>1 DEF StreamData
      <3>2. Agree(u, done, fired, after, fired)  BY <2>3, <1>8 DEF Agree
      <3> QED BY <3>1, <3>2, PartedAgree
    <2>5. Paced(u, a, b, more, workload, beats_taken[u], data_skid[u])
      <3>1. PICK n, w, t, k : n = beats_sent /\ w = workload /\ t = beats_taken[u] /\ k = data_skid[u]
        OBVIOUS
      <3>2. Paced(u, a, b, n, w, t, k)  BY <3>1, <2>1 DEF StreamData
      <3>3. \A q \in ports : Stream(q) = u => more[q] = n[q]  BY <3>1, <2>3, <1>7
      <3>4. Paced(u, a, b, more, w, t, k)  BY <3>2, <3>3, PacedAgree
      <3> QED BY <3>1, <3>4
    <2>6. RequestsUnderWay(u)' = c /\ data_skid'[u] = data_skid[u]
      BY <2>2, <1>5, <1>10, <1>13, SameUnderWay
    <2>7. data_order'[u] = data_order[u]  BY <1>0, <1>3, <1>13 DEF OrderTypes
    <2>8. Parted(u, RequestsUnderWay(u)', a, b, sent', Fired')  BY <2>4, <2>6, <1>1, <1>6
    <2>9. Paced(u, a, b, beats_sent', workload', beats_taken'[u], data_skid'[u])
      BY <2>5, <2>6, <1>1, <1>5
    <2>10. shared(u) => Ordered(data_order'[u], b)  BY <2>1, <2>7 DEF StreamData
    <2>11. StreamData(u, a, b)'  BY <2>8, <2>9, <2>10 DEF StreamData
    <2> QED BY <2>11
  <1>14. StreamsData'
    <2>1. ASSUME NEW u \in streams PROVE (\E a, b \in Seq(RequestsOf(u)) : StreamData(u, a, b))'
      BY <1>12, <1>13
    <2> QED BY <2>1 DEF StreamsData
  <1> QED BY <1>1, <1>7, <1>10, <1>14

LEMMA AtMostAppend ==
  ASSUME NEW R, NEW c \in Seq(R), NEW x \in R, NEW done, AtMost(c, done), x.transfer <= done[x.port]
  PROVE  AtMost(Append(c, x), done)
  <1>1. PICK d : d = Append(c, x)  OBVIOUS
  <1>2. /\ Len(d) = Len(c) + 1 /\ Len(c) \in Nat /\ d[Len(c) + 1] = x
        /\ \A i \in 1 .. Len(c) : d[i] = c[i]
    BY <1>1
  <1>3. ASSUME NEW i \in 1 .. Len(d) PROVE d[i].transfer <= done[d[i].port]
    <2>1. CASE i = Len(c) + 1  BY <2>1, <1>2
    <2>2. CASE i # Len(c) + 1
      <3>1. i \in 1 .. Len(c) /\ d[i] = c[i]  BY <2>2, <1>2
      <3> QED BY <3>1 DEF AtMost
    <2> QED BY <2>1, <2>2
  <1> QED BY <1>1, <1>3 DEF AtMost

LEMMA AtMostTail ==
  ASSUME NEW R, NEW c \in Seq(R), c # <<>>, NEW done, AtMost(c, done)
  PROVE  AtMost(Tail(c), done) /\ AtMost(<<Head(c)>>, done)
  <1>1. PICK d, e, x : d = Tail(c) /\ x = Head(c) /\ e = <<x>>  OBVIOUS
  <1>2. /\ Len(d) = Len(c) - 1 /\ Len(c) \in Nat \ {0} /\ x = c[1]
        /\ \A i \in 1 .. Len(d) : d[i] = c[i + 1]
    BY <1>1
  <1>3. ASSUME NEW i \in 1 .. Len(d) PROVE d[i].transfer <= done[d[i].port]
    <2>1. i + 1 \in 1 .. Len(c) /\ d[i] = c[i + 1]  BY <1>2
    <2> QED BY <2>1 DEF AtMost
  <1>4. x.transfer <= done[x.port]
    <2>1. 1 \in 1 .. Len(c)  BY <1>2
    <2> QED BY <2>1, <1>2 DEF AtMost
  <1>5. Len(e) = 1 /\ \A i \in 1 .. 1 : e[i] = x  BY <1>1
  <1> QED BY <1>1, <1>3, <1>4, <1>5 DEF AtMost

LEMMA TakeStreams ==
  ASSUME FlowInv, DataTypes, StreamsData, NEW s \in streams, TakeBeat(s)
  PROVE  /\ StreamsData' /\ Queues(data_skid') /\ beats_taken' \in [streams -> Nat]
         /\ AtMost(acks[s], sent) => AtMost(acks'[s], sent)
         /\ \A u \in streams : u # s => acks'[u] = acks[u]
  <1>0. CountTypes /\ OrderTypes /\ QueueTypes /\ AckTypes  BY DEF FlowInv, FlowTypes
  <1>1. PICK R, c, q, r, x, w, n, t, k, j, next :
          /\ R = RequestsOf(s) /\ c = RequestsUnderWay(s) /\ q = sq[s]
          /\ r = Of(sq_arb.out, s) \o (sq_arb.buf[s] \o sq_skid[s])
          /\ x = Head(q) /\ w = workload /\ n = beats_sent /\ t = beats_taken[s] /\ k = data_skid[s]
          /\ j = Tail(k) /\ next = t + 1
    OBVIOUS
  <1>2. q # <<>> /\ k # <<>> /\ data_skid' = [data_skid EXCEPT ![s] = j]  BY <1>1 DEF TakeBeat
  <1>3. UNCHANGED <<requested, sent, beats_sent, workload, writer_arb, data_order, sq_skid, sq_arb>>
    BY DEF TakeBeat, writerVars, requestVars
  <1>4. /\ next # Beats(w, x) =>
             beats_taken' = [beats_taken EXCEPT ![s] = next] /\ UNCHANGED <<sq, acks>>
        /\ next = Beats(w, x) =>
             /\ beats_taken' = [beats_taken EXCEPT ![s] = 0]
             /\ sq' = [sq EXCEPT ![s] = Tail(q)] /\ acks' = [acks EXCEPT ![s] = Append(@, x)]
    BY <1>1 DEF TakeBeat, Beats
  <1>5. /\ q \in Seq(R) /\ k \in Seq(R) /\ t \in Nat /\ next \in Nat /\ acks[s] \in Seq(R)
    BY <1>0, <1>1 DEF QueueTypes, Queues, DataTypes
  <1>6. r \in Seq(R)
    <2>1. Of(sq_arb.out, s) \in Seq(R) /\ sq_arb.buf[s] \in Seq(R) /\ sq_skid[s] \in Seq(R)
      BY <1>0, <1>1, ChainTypes
    <2>2. sq_arb.buf[s] \o sq_skid[s] \in Seq(R)  BY <2>1, ConcatProperties
    <2> QED BY <2>1, <2>2, <1>1, ConcatProperties
  <1>7. c = q \o r  BY <1>1 DEF RequestsUnderWay
  <1>8. c \in Seq(R) /\ c # <<>> /\ Head(c) = x /\ Tail(c) = Tail(q) \o r /\ x \in R
    <2>1. Head(q) \in R /\ Tail(q) \in Seq(R) /\ <<Head(q)>> \o (Tail(q) \o r) = q \o r
      <3>1. q \in Seq(R) /\ q # <<>> /\ r \in Seq(R)  BY <1>2, <1>5, <1>6
      <3> QED BY <3>1, HandOn
    <2>2. PICK d : d = Tail(q) \o r  OBVIOUS
    <2>3. d \in Seq(R)  BY <2>1, <2>2, <1>6, ConcatProperties
    <2>4. x \in R /\ <<x>> \o d = c  BY <2>1, <2>2, <1>1, <1>7
    <2>5. /\ <<x>> \o d \in Seq(R) /\ <<x>> \o d # <<>>
          /\ Head(<<x>> \o d) = x /\ Tail(<<x>> \o d) = d
      BY <2>3, <2>4, FirstOf
    <2> QED BY <2>2, <2>4, <2>5
  <1>9. Queues(data_skid') /\ data_skid'[s] = j
        /\ \A u \in streams : u # s => data_skid'[u] = data_skid[u]
    <2>1. Queues(data_skid) /\ j \in Seq(RequestsOf(s))
      <3>1. Tail(k) \in Seq(R)  BY <1>2, <1>5
      <3> QED BY <3>1, <1>1 DEF DataTypes
    <2>2. Queues([data_skid EXCEPT ![s] = j])  BY <2>1, QueueUpdate
    <2>3. data_skid'[s] = j /\ \A u \in streams : u # s => data_skid'[u] = data_skid[u]
      BY <2>1, <1>2 DEF Queues
    <2> QED BY <2>2, <2>3, <1>2
  <1>10. beats_taken \in [streams -> Nat]  BY DEF DataTypes
  <1>11. /\ beats_taken' \in [streams -> Nat]
         /\ \A u \in streams : u # s => beats_taken'[u] = beats_taken[u] /\ sq'[u] = sq[u] /\ acks'[u] = acks[u]
    <2>1. sq = [u \in streams |-> sq[u]] /\ acks = [u \in streams |-> acks[u]]
      BY <1>0 DEF QueueTypes, Queues
    <2>2. CASE next # Beats(w, x)  BY <2>2, <1>4, <1>5, <1>10
    <2>3. CASE next = Beats(w, x)
      <3>1. PICK y, z : y = Tail(q) /\ z = Append(acks[s], x)  OBVIOUS
      <3>2. sq' = [sq EXCEPT ![s] = y] /\ acks' = [acks EXCEPT ![s] = z] /\ beats_taken' = [beats_taken EXCEPT ![s] = 0]
        BY <3>1, <2>3, <1>4
      <3>3. \A u \in streams : u # s => sq'[u] = sq[u] /\ acks'[u] = acks[u]  BY <3>2, <2>1
      <3>4. beats_taken' \in [streams -> Nat] /\ \A u \in streams : u # s => beats_taken'[u] = beats_taken[u]
        BY <3>2, <1>10
      <3> QED BY <3>3, <3>4
    <2> QED BY <2>2, <2>3
  <1>12. PICK a \in Seq(RequestsOf(s)), b \in Seq(RequestsOf(s)) : StreamData(s, a, b)
    BY DEF StreamsData
  <1>13. PICK done, fired, o : done = sent /\ fired = Fired /\ o = data_order[s]  OBVIOUS
  <1>14. /\ Parted(s, c, a, b, done, fired) /\ (shared(s) => Ordered(o, b)) /\ Paced(s, a, b, n, w, t, k)
         /\ a \in Seq(R) /\ b \in Seq(R)
    BY <1>1, <1>12, <1>13 DEF StreamData
  <1>15. /\ next # Beats(w, x) => Paced(s, a, b, n, w, next, j)
         /\ next = Beats(w, x) => /\ a # <<>> /\ Head(a) = x /\ Tail(c) = Tail(a) \o b
                                  /\ Paced(s, Tail(a), b, n, w, 0, j)
    <2>1. n \in [ports -> Nat] /\ R = RequestsOf(s) /\ Paced(s, a, b, n, w, t, k)
      BY <1>1, <1>14 DEF DataTypes
    <2>2. c = a \o b  BY <1>14 DEF Parted
    <2>3. PacedTaken(s, a, b, n, w, t, k, c)  BY <2>1, <2>2, <1>2, <1>5, <1>8, <1>14, PacedTake
    <2> QED BY <2>3, <1>1, <1>8 DEF PacedTaken
  <1>16. Fired' = fired /\ sent' = done /\ data_order'[s] = o /\ beats_sent' = n /\ workload' = w
    BY <1>1, <1>3, <1>13, KeepFired
  <1>17. ASSUME next # Beats(w, x)
         PROVE  /\ (\E a1, b1 \in Seq(RequestsOf(s)) : StreamData(s, a1, b1))'
                /\ AtMost(acks[s], sent) => AtMost(acks'[s], sent)
    <2>1. RequestsUnderWay(s)' = c  BY <1>1, <1>3, <1>4, <1>17 DEF RequestsUnderWay
    <2>2. beats_taken'[s] = next  BY <1>4, <1>10, <1>17
    <2>3. StreamData(s, a, b)'  BY <2>1, <2>2, <1>9, <1>14, <1>15, <1>16, <1>17 DEF StreamData
    <2> QED BY <2>3, <1>4, <1>17
  <1>18. ASSUME next = Beats(w, x)
         PROVE  /\ (\E a1, b1 \in Seq(RequestsOf(s)) : StreamData(s, a1, b1))'
                /\ AtMost(acks[s], sent) => AtMost(acks'[s], sent)
    <2>1. PICK d, e : d = Tail(a) /\ e = Tail(c)  OBVIOUS
    <2>2. a # <<>> /\ Head(a) = x /\ e = d \o b /\ Paced(s, d, b, n, w, 0, j)  BY <2>1, <1>15, <1>18
    <2>3. d \in Seq(RequestsOf(s)) /\ Head(a).transfer <= done[Head(a).port] /\ Parted(s, e, d, b, done, fired)
      <3>1. Parted(s, c, a, b, done, fired) /\ e = Tail(a) \o b  BY <2>1, <2>2, <1>14
      <3>2. /\ Tail(a) \in Seq(RequestsOf(s)) /\ Head(a).transfer <= done[Head(a).port]
            /\ Parted(s, e, Tail(a), b, done, fired)
        BY <3>1, <2>2, PartedTake
      <3> QED BY <3>2, <2>1
    <2>4. RequestsUnderWay(s)' = e
      <3>1. sq'[s] = Tail(q)  BY <1>0, <1>4, <1>18 DEF QueueTypes, Queues
      <3> QED BY <3>1, <2>1, <1>1, <1>3, <1>8 DEF RequestsUnderWay
    <2>5. beats_taken'[s] = 0  BY <1>4, <1>10, <1>18
    <2>6. StreamData(s, d, b)'  BY <2>2, <2>3, <2>4, <2>5, <1>9, <1>14, <1>16 DEF StreamData
    <2>7. AtMost(acks[s], sent) => AtMost(acks'[s], sent)
      <3> SUFFICES ASSUME AtMost(acks[s], sent) PROVE AtMost(acks'[s], sent)  OBVIOUS
      <3>1. acks'[s] = Append(acks[s], x)  BY <1>0, <1>4, <1>18 DEF QueueTypes, Queues
      <3>2. x.transfer <= sent[x.port]  BY <2>2, <2>3, <1>13
      <3>3. AtMost(Append(acks[s], x), sent)  BY <3>2, <1>5, <1>8, AtMostAppend
      <3> QED BY <3>1, <3>3
    <2> QED BY <2>3, <2>6, <2>7
  <1>19. (\E a1, b1 \in Seq(RequestsOf(s)) : StreamData(s, a1, b1))' /\ (AtMost(acks[s], sent) => AtMost(acks'[s], sent))
    BY <1>17, <1>18
  <1>20. ASSUME NEW u \in streams, u # s
         PROVE  (\E a1, b1 \in Seq(RequestsOf(u)) : StreamData(u, a1, b1))'
    <2>1. PICK a1 \in Seq(RequestsOf(u)), b1 \in Seq(RequestsOf(u)) : StreamData(u, a1, b1)
      BY DEF StreamsData
    <2>2. RequestsUnderWay(u)' = RequestsUnderWay(u)  BY <1>3, <1>11, <1>20 DEF RequestsUnderWay
    <2>3. /\ data_order'[u] = data_order[u] /\ data_skid'[u] = data_skid[u] /\ beats_taken'[u] = beats_taken[u]
      BY <1>3, <1>9, <1>11, <1>20
    <2>4. StreamData(u, a1, b1)'  BY <2>1, <2>2, <2>3, <1>1, <1>13, <1>16 DEF StreamData
    <2> QED BY <2>4
  <1>21. StreamsData'  BY <1>19, <1>20 DEF StreamsData
  <1> QED BY <1>9, <1>11, <1>19, <1>21

LEMMA KeepMoves ==
  ASSUME UNCHANGED <<requested, writer_arb, sq_skid, sq_arb, sq>>
  PROVE  MovesRequests
  <1>1. ASSUME NEW s \in streams PROVE RequestsUnderWay(s)' = RequestsUnderWay(s)
    BY DEF RequestsUnderWay
  <1> QED BY <1>1, KeepFired DEF MovesRequests

LEMMA KeepRest ==
  ASSUME DataInv, UNCHANGED <<workload, requested, sent, completed, beats_sent, beats_taken, data_skid,
                              acks, cq_wr, cq_strm>>
  PROVE  DataTypes' /\ Written' /\ Limits'
  <1>1. DataTypes'  BY DEF DataInv, DataTypes, Queues
  <1>2. Written'  BY DEF DataInv, Written, AtMost, Own
  <1>3. Limits'  BY DEF DataInv, Limits
  <1> QED BY <1>1, <1>2, <1>3

\* A step that only moves requests.
LEMMA MoveData ==
  ASSUME DataInv, FlowInv', MovesRequests,
         UNCHANGED <<workload, requested, sent, completed, beats_sent, beats_taken, data_skid,
                     acks, cq_wr, cq_strm, data_order>>
  PROVE  DataInv'
  <1>1. DataTypes' /\ Written' /\ Limits'  BY KeepRest
  <1>2. StreamsData'  BY KeepStreams DEF DataInv
  <1> QED BY <1>1, <1>2 DEF DataInv

LEMMA RequestData ==
  ASSUME DataInv, NEW p \in ports, Request(p)
  PROVE  DataInv'
  <1>1. FlowInv' /\ (IF shared(Stream(p)) THEN MovesRequests ELSE AddsRequest(p))
    BY RequestFlow DEF DataInv
  <1>2. /\ requested[p] < Len(workload[p]) /\ requested' = [requested EXCEPT ![p] = @ + 1]
        /\ UNCHANGED <<workload, sent, completed, beats_sent, beats_taken, data_skid, acks, cq_wr, cq_strm,
                       data_order>>
    BY DEF Request, shellVars, completionVars
  <1>3. DataTypes' /\ Written'  BY <1>2 DEF DataInv, DataTypes, Queues, Written, AtMost, Own
  <1>4. requested \in [ports -> Nat] /\ \A q \in ports : workload[q] \in Seq([beats : Nat \ {0}, end : BOOLEAN])
    BY DEF DataInv, FlowInv, FlowTypes, CountTypes, DataTypes
  <1>5. /\ requested'[p] = requested[p] + 1 /\ requested'[p] \in Nat /\ requested'[p] <= Len(workload[p])
        /\ \A q \in ports : q # p => requested'[q] = requested[q]
    <2>1. Len(workload[p]) \in Nat  BY <1>4, LenProperties
    <2> QED BY <2>1, <1>2, <1>4
  <1>6. Limits'  BY <1>2, <1>5 DEF DataInv, Limits
  <1>7. CASE shared(Stream(p))
    <2>1. StreamsData'  BY <1>1, <1>2, <1>7, KeepStreams DEF DataInv
    <2> QED BY <2>1, <1>1, <1>3, <1>6 DEF DataInv
  <1>8. CASE ~ shared(Stream(p))
    <2>1. AddsRequest(p) /\ FlowInv /\ DataTypes /\ StreamsData  BY <1>1, <1>8 DEF DataInv
    <2>2. /\ shared(Stream(p)) => data_order'[Stream(p)] = Append(data_order[Stream(p)], Writer(p))
          /\ \A s \in streams : s # Stream(p) => data_order'[s] = data_order[s]
          /\ UNCHANGED <<sent, beats_sent, workload, beats_taken, data_skid>>
      BY <1>2, <1>8
    <2>3. StreamsData'  BY <2>1, <2>2, <1>5, EnterStreams
    <2> QED BY <2>3, <1>1, <1>3, <1>6 DEF DataInv
  <1> QED BY <1>7, <1>8

LEMMA FireRequestData ==
  ASSUME DataInv, NEW s \in streams, FireRequest(s)
  PROVE  DataInv'
  <1>1. FlowInv' /\ \E p \in ports : FiresRequest(s, p)  BY FireRequestFlow DEF DataInv
  <1>2. PICK p \in ports : FiresRequest(s, p)  BY <1>1
  <1>3. UNCHANGED <<workload, requested, sent, completed, beats_sent, beats_taken, data_skid,
                    acks, cq_wr, cq_strm>>
    BY DEF FireRequest, writerVars, shellVars, completionVars
  <1>4. DataTypes' /\ Written' /\ Limits'  BY <1>3, KeepRest
  <1>5. requested'[p] <= Len(workload[p]) /\ requested'[p] \in Nat
    BY <1>3 DEF DataInv, Limits, FlowInv, FlowTypes, CountTypes
  <1>6. AddsRequest(p) /\ FlowInv /\ DataTypes /\ StreamsData  BY <1>2 DEF DataInv, FiresRequest
  <1>7. /\ shared(Stream(p)) => data_order'[Stream(p)] = Append(data_order[Stream(p)], Writer(p))
        /\ \A u \in streams : u # Stream(p) => data_order'[u] = data_order[u]
        /\ UNCHANGED <<sent, beats_sent, workload, beats_taken, data_skid>>
    BY <1>2, <1>3 DEF FiresRequest
  <1>8. StreamsData'  BY <1>5, <1>6, <1>7, EnterStreams
  <1> QED BY <1>1, <1>4, <1>8 DEF DataInv

LEMMA AtMostMore ==
  ASSUME NEW s \in streams, NEW c \in Seq(RequestsOf(s)), NEW done \in [ports -> Nat],
         NEW more \in [ports -> Nat], AtMost(c, done), \A p \in ports : done[p] <= more[p]
  PROVE  AtMost(c, more)
  <1>1. ASSUME NEW i \in 1 .. Len(c) PROVE c[i].transfer <= more[c[i].port]
    <2>1. c[i] \in RequestsOf(s)  BY ElementOfSeq
    <2>2. c[i].port \in ports /\ c[i].transfer \in Nat  BY <2>1 DEF RequestsOf, Requests
    <2>3. c[i].transfer <= done[c[i].port]  BY DEF AtMost
    <2>4. done[c[i].port] <= more[c[i].port] /\ done[c[i].port] \in Nat /\ more[c[i].port] \in Nat
      BY <2>2
    <2> QED BY <2>2, <2>3, <2>4
  <1> QED BY <1>1 DEF AtMost

LEMMA SendBeatData ==
  ASSUME DataInv, NEW p \in ports, SendBeat(p)
  PROVE  DataInv'
  <1>1. FlowInv'  BY SendBeatFlow DEF DataInv
  <1>2. StreamsData' /\ Queues(data_skid') /\ beats_sent' \in [ports -> Nat]
    BY SendStreams DEF DataInv
  <1>3. UNCHANGED <<workload, requested, completed, beats_taken, acks, cq_wr, cq_strm>>
    BY DEF SendBeat, completionVars
  <1>4. DataTypes'  BY <1>2, <1>3 DEF DataInv, DataTypes
  <1>5. sent \in [ports -> Nat] /\ sent' \in [ports -> Nat] /\ completed \in [ports -> Nat]
    BY <1>1 DEF DataInv, FlowInv, FlowTypes, CountTypes
  <1>6. \A q \in ports : sent[q] <= sent'[q]
    <2>1. sent' = sent \/ sent' = [sent EXCEPT ![p] = sent[p] + 1]  BY DEF SendBeat
    <2> QED BY <2>1, <1>5
  <1>7. Written'
    <2>1. ASSUME NEW s \in streams
          PROVE  /\ AtMost(acks'[s], sent') /\ AtMost(Own(cq_wr', s), sent')
                 /\ AtMost(Own(cq_strm'[s], s), sent')
      <3>1. PICK a, b, c, done, more :
              /\ a = acks[s] /\ b = Own(cq_wr, s) /\ c = Own(cq_strm[s], s) /\ done = sent /\ more = sent'
        OBVIOUS
      <3>2. a \in Seq(RequestsOf(s)) /\ b \in Seq(RequestsOf(s)) /\ c \in Seq(RequestsOf(s))
        BY <3>1, ChainTypes DEF DataInv, FlowInv, FlowTypes
      <3>3. done \in [ports -> Nat] /\ more \in [ports -> Nat] /\ \A q \in ports : done[q] <= more[q]
        BY <3>1, <1>5, <1>6
      <3>4. AtMost(a, done) /\ AtMost(b, done) /\ AtMost(c, done)  BY <3>1 DEF DataInv, Written
      <3>5. AtMost(a, more) /\ AtMost(b, more) /\ AtMost(c, more)  BY <3>2, <3>3, <3>4, AtMostMore
      <3> QED BY <3>1, <3>5, <1>3
    <2> QED BY <2>1 DEF Written
  <1>8. Limits'
    <2>1. ASSUME NEW q \in ports PROVE completed'[q] <= sent'[q]
      <3>1. completed[q] <= sent[q]  BY DEF DataInv, Limits
      <3> QED BY <3>1, <1>3, <1>5, <1>6
    <2> QED BY <2>1, <1>3 DEF DataInv, Limits
  <1> QED BY <1>1, <1>2, <1>4, <1>7, <1>8 DEF DataInv

LEMMA TakeBeatData ==
  ASSUME DataInv, NEW s \in streams, TakeBeat(s)
  PROVE  DataInv'
  <1>1. FlowInv'  BY TakeBeatFlow DEF DataInv
  <1>2. /\ StreamsData' /\ Queues(data_skid') /\ beats_taken' \in [streams -> Nat]
        /\ AtMost(acks[s], sent) => AtMost(acks'[s], sent)
        /\ \A u \in streams : u # s => acks'[u] = acks[u]
    BY TakeStreams DEF DataInv
  <1>3. UNCHANGED <<workload, requested, sent, completed, beats_sent, cq_wr, cq_strm>>
    BY DEF TakeBeat, writerVars, completionVars
  <1>4. DataTypes' /\ Limits'  BY <1>2, <1>3 DEF DataInv, DataTypes, Limits
  <1>5. Written'
    <2>1. ASSUME NEW u \in streams
          PROVE  /\ AtMost(acks'[u], sent') /\ AtMost(Own(cq_wr', u), sent')
                 /\ AtMost(Own(cq_strm'[u], u), sent')
      <3>1. AtMost(acks[u], sent) /\ AtMost(Own(cq_wr, u), sent) /\ AtMost(Own(cq_strm[u], u), sent)
        BY DEF DataInv, Written
      <3> QED BY <3>1, <1>2, <1>3
    <2> QED BY <2>1 DEF Written
  <1> QED BY <1>1, <1>2, <1>4, <1>5 DEF DataInv

\* What is kept when only completions move.
LEMMA CompletionData ==
  ASSUME DataInv, FlowInv', Written', \A p \in ports : completed'[p] <= sent[p],
         UNCHANGED <<workload, requested, sent, beats_sent, beats_taken, data_skid, data_order,
                     writer_arb, sq_skid, sq_arb, sq>>
  PROVE  DataInv'
  <1>1. StreamsData'
    <2>1. MovesRequests  BY KeepMoves
    <2> QED BY <2>1, KeepStreams DEF DataInv
  <1>2. DataTypes' /\ Limits'  BY DEF DataInv, DataTypes, Limits
  <1> QED BY <1>1, <1>2 DEF DataInv

LEMMA AtMostNone == \A done : AtMost(<<>>, done)
  BY DEF AtMost

LEMMA CompleteData ==
  ASSUME DataInv, NEW s \in streams, Complete(s)
  PROVE  DataInv'
  <1>1. FlowInv'  BY CompleteFlow DEF DataInv
  <1>2. PICK R, a, x : R = RequestsOf(s) /\ a = acks[s] /\ x = Head(a)  OBVIOUS
  <1>3. /\ a # <<>> /\ cq_wr' = <<[dest |-> s, own |-> TRUE, of |-> x]>>
        /\ acks' = [acks EXCEPT ![s] = Tail(a)]
        /\ UNCHANGED <<workload, requested, sent, completed, beats_sent, beats_taken, data_skid, data_order,
                       writer_arb, sq_skid, sq_arb, sq, cq_strm>>
    BY <1>2 DEF Complete, writerVars, requestVars
  <1>4. a \in Seq(R) /\ acks = [u \in streams |-> acks[u]]
    BY <1>2 DEF DataInv, FlowInv, FlowTypes, QueueTypes, Queues
  <1>5. AtMost(Tail(a), sent) /\ AtMost(<<x>>, sent)
    <2>1. AtMost(a, sent)  BY <1>2 DEF DataInv, Written
    <2> QED BY <2>1, <1>2, <1>3, <1>4, AtMostTail
  <1>6. ASSUME NEW u \in streams
        PROVE  /\ AtMost(acks'[u], sent') /\ AtMost(Own(cq_wr', u), sent')
               /\ AtMost(Own(cq_strm'[u], u), sent')
    <2>1. AtMost(acks[u], sent) /\ AtMost(Own(cq_strm[u], u), sent)  BY DEF DataInv, Written
    <2>2. Own(cq_wr', u) = IF u = s THEN <<x>> ELSE <<>>  BY <1>3 DEF Own
    <2>3. AtMost(Own(cq_wr', u), sent)  BY <2>2, <1>5, AtMostNone
    <2>4. acks'[u] = IF u = s THEN Tail(a) ELSE acks[u]
      <3>1. PICK t : t = Tail(a)  OBVIOUS
      <3>2. acks' = [acks EXCEPT ![s] = t]  BY <3>1, <1>3
      <3> QED BY <3>1, <3>2, <1>4
    <2> QED BY <2>1, <2>3, <2>4, <1>3, <1>5
  <1>7. Written'  BY <1>6 DEF Written
  <1>8. \A p \in ports : completed'[p] <= sent[p]  BY <1>3 DEF DataInv, Limits
  <1> QED BY <1>1, <1>3, <1>7, <1>8, CompletionData

LEMMA CompleteForeignData ==
  ASSUME DataInv, NEW s \in streams, CompleteForeign(s)
  PROVE  DataInv'
  <1>1. FlowInv'  BY CompleteForeignFlow DEF DataInv
  <1>2. /\ cq_wr' = <<[dest |-> s, own |-> FALSE, of |-> Transfer(0, 0)]>>
        /\ UNCHANGED <<workload, requested, sent, completed, beats_sent, beats_taken, data_skid, data_order,
                       writer_arb, sq_skid, sq_arb, sq, acks, cq_strm>>
    BY DEF CompleteForeign, writerVars, requestVars, shellVars
  <1>3. \A u \in streams : Own(cq_wr', u) = <<>>  BY <1>2 DEF Own
  <1>4. Written'  BY <1>2, <1>3, AtMostNone DEF DataInv, Written
  <1>5. \A p \in ports : completed'[p] <= sent[p]  BY <1>2 DEF DataInv, Limits
  <1> QED BY <1>1, <1>2, <1>4, <1>5, CompletionData

LEMMA DemultiplexData ==
  ASSUME DataInv, Demultiplex
  PROVE  DataInv'
  <1>1. FlowInv'  BY DemultiplexFlow DEF DataInv
  <1>2. PICK d : d = cq_wr[1].dest  OBVIOUS
  <1>3. /\ cq_wr # <<>> /\ cq_strm' = [cq_strm EXCEPT ![d] = cq_wr] /\ cq_wr' = <<>>
        /\ UNCHANGED <<workload, requested, sent, completed, beats_sent, beats_taken, data_skid, data_order,
                       writer_arb, sq_skid, sq_arb, sq, acks>>
    BY <1>2 DEF Demultiplex, writerVars, requestVars, shellVars
  <1>4. cq_strm \in [streams -> Slots(Acks)]  BY DEF DataInv, FlowInv, FlowTypes, AckTypes
  <1>5. ASSUME NEW u \in streams
        PROVE  /\ AtMost(acks'[u], sent') /\ AtMost(Own(cq_wr', u), sent')
               /\ AtMost(Own(cq_strm'[u], u), sent')
    <2>1. AtMost(acks[u], sent) /\ AtMost(Own(cq_strm[u], u), sent) /\ AtMost(Own(cq_wr, u), sent)
      BY DEF DataInv, Written
    <2>2. Own(cq_wr', u) = <<>>  BY <1>3 DEF Own
    <2>3. cq_strm'[u] = cq_wr \/ cq_strm'[u] = cq_strm[u]  BY <1>3, <1>4
    <2> QED BY <2>1, <2>2, <2>3, <1>3, AtMostNone
  <1>6. Written'  BY <1>5 DEF Written
  <1>7. \A p \in ports : completed'[p] <= sent[p]  BY <1>3 DEF DataInv, Limits
  <1> QED BY <1>1, <1>3, <1>6, <1>7, CompletionData

LEMMA RouteCompletionData ==
  ASSUME DataInv, NEW s \in streams, RouteCompletion(s)
  PROVE  DataInv'
  <1>1. FlowInv'  BY RouteCompletionFlow DEF DataInv
  <1>2. /\ cq_strm[s] # <<>> /\ cq_strm' = [cq_strm EXCEPT ![s] = <<>>]
        /\ UNCHANGED <<workload, requested, sent, beats_sent, beats_taken, data_skid, data_order,
                       writer_arb, sq_skid, sq_arb, sq, acks, cq_wr>>
    BY DEF RouteCompletion, shellVars
  <1>3. cq_strm \in [streams -> Slots(Acks)] /\ completed \in [ports -> Nat] /\ sent \in [ports -> Nat]
    BY DEF DataInv, FlowInv, FlowTypes, AckTypes, CountTypes
  <1>4. ASSUME NEW u \in streams
        PROVE  /\ AtMost(acks'[u], sent') /\ AtMost(Own(cq_wr', u), sent')
               /\ AtMost(Own(cq_strm'[u], u), sent')
    <2>1. AtMost(acks[u], sent) /\ AtMost(Own(cq_strm[u], u), sent) /\ AtMost(Own(cq_wr, u), sent)
      BY DEF DataInv, Written
    <2>2. cq_strm'[u] = <<>> \/ cq_strm'[u] = cq_strm[u]  BY <1>2, <1>3
    <2>3. Own(<<>>, u) = <<>>  BY DEF Own
    <2> QED BY <2>1, <2>2, <2>3, <1>2, AtMostNone
  <1>5. Written'  BY <1>4 DEF Written
  <1>6. \A p \in ports : completed[p] <= sent[p]  BY DEF DataInv, Limits
  <1>7. \A p \in ports : completed'[p] <= sent[p]
    <2>1. CASE ~ cq_strm[s][1].own
      <3>1. completed' = completed  BY <2>1 DEF RouteCompletion, is_completion
      <3> QED BY <3>1, <1>6
    <2>2. CASE cq_strm[s][1].own
      <3>1. PICK x, c, p : x = cq_strm[s][1].of /\ c = Chain(s) /\ p = x.port  OBVIOUS
      <3>2. /\ p \in ports /\ x = Transfer(p, completed[p] + 1) /\ Completed(s) = p
        <4>1. /\ x.port \in ports /\ x = Transfer(x.port, completed[x.port] + 1) /\ Completed(s) = x.port
          BY <3>1, <2>2, <1>2, OldestCompleted DEF DataInv
        <4> QED BY <4>1, <3>1
      <3>3. completed' = [completed EXCEPT ![p] = completed[p] + 1]
        BY <3>2, <2>2 DEF RouteCompletion, is_completion
      <3>4. completed[p] + 1 <= sent[p]
        <4>1. Own(cq_strm[s], s) = <<x>>
          <5>1. cq_strm[s][1].dest = s  BY <1>2 DEF DataInv, FlowInv, FlowTypes, AckTypes
          <5> QED BY <5>1, <3>1, <2>2, <1>2 DEF Own
        <4>2. AtMost(<<x>>, sent)  BY <4>1 DEF DataInv, Written
        <4>3. PICK e : e = <<x>>  OBVIOUS
        <4>4. Len(e) = 1 /\ e[1] = x  BY <4>3
        <4>5. x.transfer <= sent[x.port]  BY <4>2, <4>3, <4>4 DEF AtMost
        <4>6. x.transfer = completed[p] + 1  BY <3>2 DEF Transfer
        <4> QED BY <4>5, <4>6, <3>1
      <3> QED BY <3>2, <3>3, <3>4, <1>3, <1>6
    <2> QED BY <2>1, <2>2
  <1> QED BY <1>1, <1>2, <1>5, <1>7, CompletionData

LEMMA InitData == Init => DataInv
  <1> SUFFICES ASSUME Init PROVE DataInv  OBVIOUS
  <1>1. FlowInv  BY InitFlow
  <1>2. DataTypes
    <2>1. /\ workload \in Workloads /\ beats_sent = [p \in ports |-> 0] /\ beats_taken = [s \in streams |-> 0]
          /\ data_skid = [s \in streams |-> <<>>]
      BY DEF Init
    <2>2. workload \in [ports -> Seq([beats : Nat \ {0}, end : BOOLEAN])]
      BY <2>1, OutputWriterAssumption
    <2>3. Queues(data_skid)  BY <2>1 DEF Queues
    <2> QED BY <2>1, <2>2, <2>3 DEF DataTypes
  <1>3. Written
    <2>1. ASSUME NEW s \in streams
          PROVE  acks[s] = <<>> /\ Own(cq_wr, s) = <<>> /\ Own(cq_strm[s], s) = <<>>
      BY DEF Init, Own
    <2> QED BY <2>1, AtMostNone DEF Written
  <1>4. Limits
    <2>1. ASSUME NEW p \in ports PROVE requested[p] <= Len(workload[p]) /\ completed[p] <= sent[p]
      <3>1. requested[p] = 0 /\ completed[p] = 0 /\ sent[p] = 0  BY DEF Init
      <3>2. Len(workload[p]) \in Nat
        <4>1. workload[p] \in Seq([beats : Nat \ {0}, end : BOOLEAN])  BY <1>2 DEF DataTypes
        <4> QED BY <4>1, LenProperties
      <3> QED BY <3>1, <3>2
    <2> QED BY <2>1 DEF Limits
  <1>5. \A p \in ports : sent[p] = 0 /\ Fired[p] = 0
    <2>1. ASSUME NEW p \in ports PROVE Fired[p] = 0
      <3>1. AtMostOne(p)  BY <1>1 DEF FlowInv, RequestInv
      <3>2. requested[p] = 0 /\ sent[p] = 0  BY DEF Init
      <3> QED BY <3>1, <3>2 DEF AtMostOne, Fired
    <2> QED BY <2>1 DEF Init
  <1>6. ASSUME NEW s \in streams PROVE \E a, b \in Seq(RequestsOf(s)) : StreamData(s, a, b)
    <2>1. PICK e, o, k, t : e = <<>> /\ o = data_order[s] /\ k = data_skid[s] /\ t = beats_taken[s]
      OBVIOUS
    <2>2. /\ e \in Seq(RequestsOf(s)) /\ Len(e) = 0 /\ e \o e = e /\ o = e /\ k = e /\ t = 0
      BY <2>1 DEF Init
    <2>3. RequestsUnderWay(s) = e
      <3>1. sq[s] = e /\ Of(sq_arb.out, s) = e /\ sq_arb.buf[s] = e /\ sq_skid[s] = e
        <4>1. sq_arb.out = <<>> /\ sq_arb.buf[s] = <<>>  BY StreamCount DEF Init, IdleArbiter
        <4> QED BY <4>1, <2>1 DEF Init, Of
      <3> QED BY <3>1, <2>2 DEF RequestsUnderWay
    <2>4. Parted(s, e, e, e, sent, Fired)  BY <2>2, <1>5 DEF Parted, AtMost, Successive
    <2>5. Ordered(o, e)  BY <2>2 DEF Ordered
    <2>6. Flat(workload, e, t) = e
      <3>1. t \in Nat /\ Counted(workload, e) /\ Short(workload, e, t)
        BY <2>1, <2>2 DEF Counted, Short
      <3>2. e \in Seq(RequestsOf(s)) /\ e = <<>>  BY <2>1, <2>2
      <3>3. e = <<>> => Flat(workload, e, t) = <<>>  BY <3>1, <3>2, FlatType
      <3> QED BY <3>2, <3>3
    <2>7. Follows(workload, e, e, t, t, k)  BY <2>1, <2>2, <2>6 DEF Follows, Counted, Started
    <2>8. Progress(e, beats_sent) = t  BY <2>1, <2>2 DEF Progress
    <2>9. OnlyHead(s, e, beats_sent)  BY DEF Init, OnlyHead
    <2>10. StreamData(s, e, e)  BY <2>1, <2>3, <2>4, <2>5, <2>7, <2>8, <2>9 DEF StreamData, Paced
    <2> QED BY <2>2, <2>10
  <1> QED BY <1>1, <1>2, <1>3, <1>4, <1>6 DEF DataInv, StreamsData

LEMMA NextData ==
  ASSUME DataInv, [Next]_vars
  PROVE  DataInv'
  <1>0. FlowInv  BY DEF DataInv
  <1>k. ASSUME UNCHANGED <<workload, writerVars, requestVars, shellVars, completionVars>>
        PROVE  DataInv'
    <2>1. /\ UNCHANGED <<workload, requested, sent, completed, beats_sent, beats_taken, data_skid,
                         acks, cq_wr, cq_strm, data_order, writer_arb, sq_skid, sq_arb, sq, requestVars>>
      BY <1>k DEF writerVars, requestVars, shellVars, completionVars
    <2>2. FlowInv'  BY <2>1, <1>0, UnchangedFlow
    <2>3. MovesRequests  BY <2>1, KeepMoves
    <2> QED BY <2>1, <2>2, <2>3, MoveData
  <1>1. ASSUME NEW p \in ports, Request(p) PROVE DataInv'  BY <1>1, RequestData
  <1>2. ASSUME NEW p \in ports, SendBeat(p) PROVE DataInv'  BY <1>2, SendBeatData
  <1>3. ASSUME NEW p \in ports, Notify(p) PROVE DataInv'
    <2>1. /\ UNCHANGED <<workload, requested, sent, completed, beats_sent, beats_taken, data_skid,
                         acks, cq_wr, cq_strm, data_order, writer_arb, sq_skid, sq_arb, sq, requestVars>>
      BY <1>3 DEF Notify, requestVars, shellVars, completionVars
    <2>2. FlowInv' /\ MovesRequests  BY <2>1, <1>0, UnchangedFlow, KeepMoves
    <2> QED BY <2>1, <2>2, MoveData
  <1>4. ASSUME NEW p \in ports, OfferNotification(p) PROVE DataInv'
    BY <1>4, <1>k DEF OfferNotification
  <1>5. ASSUME NEW s \in streams, SelectWriter(s) PROVE DataInv'
    <2>1. FlowInv' /\ MovesRequests  BY <1>5, <1>0, SelectWriterFlow
    <2>2. UNCHANGED <<workload, requested, sent, completed, beats_sent, beats_taken, data_skid,
                      acks, cq_wr, cq_strm, data_order>>
      BY <1>5 DEF SelectWriter, writerVars, shellVars, completionVars
    <2> QED BY <2>1, <2>2, MoveData
  <1>6. ASSUME NEW s \in streams, FireRequest(s) PROVE DataInv'  BY <1>6, FireRequestData
  <1>7. ASSUME NEW s \in streams, OfferRequest(s) PROVE DataInv'
    <2>1. FlowInv' /\ MovesRequests  BY <1>7, <1>0, OfferRequestFlow
    <2>2. UNCHANGED <<workload, requested, sent, completed, beats_sent, beats_taken, data_skid,
                      acks, cq_wr, cq_strm, data_order>>
      BY <1>7 DEF OfferRequest, writerVars, shellVars, completionVars
    <2> QED BY <2>1, <2>2, MoveData
  <1>8. ASSUME NEW s \in streams, TakeBeat(s) PROVE DataInv'  BY <1>8, TakeBeatData
  <1>9. ASSUME NEW s \in streams, Complete(s) PROVE DataInv'  BY <1>9, CompleteData
  <1>10. ASSUME NEW s \in streams, CompleteForeign(s) PROVE DataInv'  BY <1>10, CompleteForeignData
  <1>11. ASSUME NEW s \in streams, RouteCompletion(s) PROVE DataInv'  BY <1>11, RouteCompletionData
  <1>12. ASSUME SelectStream PROVE DataInv'
    <2>1. FlowInv' /\ MovesRequests  BY <1>12, <1>0, SelectStreamFlow
    <2>2. UNCHANGED <<workload, requested, sent, completed, beats_sent, beats_taken, data_skid,
                      acks, cq_wr, cq_strm, data_order>>
      BY <1>12 DEF SelectStream, writerVars, shellVars, completionVars
    <2> QED BY <2>1, <2>2, MoveData
  <1>13. ASSUME TakeRequest PROVE DataInv'
    <2>1. FlowInv' /\ MovesRequests  BY <1>13, <1>0, TakeRequestFlow
    <2>2. UNCHANGED <<workload, requested, sent, completed, beats_sent, beats_taken, data_skid,
                      acks, cq_wr, cq_strm, data_order>>
      BY <1>13 DEF TakeRequest, writerVars, completionVars
    <2> QED BY <2>1, <2>2, MoveData
  <1>14. ASSUME Demultiplex PROVE DataInv'  BY <1>14, DemultiplexData
  <1>15. ASSUME SelectNotification \/ Interrupt PROVE DataInv'
    BY <1>15, <1>k DEF SelectNotification, Interrupt
  <1>16. CASE UNCHANGED vars  BY <1>16, <1>k DEF vars
  <1> QED
    BY <1>1, <1>2, <1>3, <1>4, <1>5, <1>6, <1>7, <1>8, <1>9, <1>10, <1>11, <1>12, <1>13,
       <1>14, <1>15, <1>16 DEF Next

----
(* The depths of the FIFOs.                                                  *)

Bounded(f, D, n) == \A i \in D : Len(f[i]) <= n

LEMMA BoundedAppend ==
  ASSUME NEW D, NEW S, NEW f \in [D -> Seq(S)], NEW n \in Nat, Bounded(f, D, n), NEW i \in D,
         Len(f[i]) < n, NEW x \in S, NEW g, g = [f EXCEPT ![i] = Append(f[i], x)]
  PROVE  Bounded(g, D, n)
  <1>1. PICK y : y = Append(f[i], x)  OBVIOUS
  <1>2. Len(y) = Len(f[i]) + 1 /\ Len(f[i]) \in Nat  BY <1>1
  <1>3. g[i] = y /\ \A j \in D : j # i => g[j] = f[j]  BY <1>1
  <1> QED BY <1>2, <1>3 DEF Bounded

LEMMA BoundedTail ==
  ASSUME NEW D, NEW S, NEW f \in [D -> Seq(S)], NEW n \in Nat, Bounded(f, D, n), NEW i \in D,
         f[i] # <<>>, NEW g, g = [f EXCEPT ![i] = Tail(f[i])]
  PROVE  Bounded(g, D, n)
  <1>1. PICK y : y = Tail(f[i])  OBVIOUS
  <1>2. Len(y) = Len(f[i]) - 1 /\ Len(f[i]) \in Nat /\ Len(f[i]) <= n  BY <1>1 DEF Bounded
  <1>3. g[i] = y /\ \A j \in D : j # i => g[j] = f[j]  BY <1>1
  <1> QED BY <1>2, <1>3 DEF Bounded

LEMMA SlotLength ==
  ASSUME NEW R, NEW x \in Slots(R)
  PROVE  Len(x) <= 1
  <1>1. x = <<>> \/ \E r \in R : x = <<r>>  BY DEF Slots
  <1>2. CASE x = <<>>  BY <1>2
  <1>3. CASE \E r \in R : x = <<r>>
    <2>1. PICK r \in R : x = <<r>>  BY <1>3
    <2>2. Len(<<r>>) = 1  OBVIOUS
    <2> QED BY <2>1, <2>2
  <1> QED BY <1>1, <1>2, <1>3

DepthInv ==
  /\ notified \in [ports -> Nat] /\ interrupts \in [ports -> Nat]
  /\ Bounded(data_order, streams, DATA_ORDER_DEPTH) /\ Bounded(cq_order, streams, CQ_ORDER_DEPTH)
  /\ Bounded(sq_skid, streams, SKID_DEPTH) /\ Bounded(data_skid, streams, SKID_DEPTH)
  /\ Bounded(notify_skid, ports, SKID_DEPTH)

TypeInv == DataInv /\ TurnInv /\ DepthInv

LEMMA DepthFacts ==
  ASSUME TypeInv
  PROVE  /\ SKID_DEPTH \in Nat /\ DATA_ORDER_DEPTH \in Nat /\ CQ_ORDER_DEPTH \in Nat
         /\ data_order \in [streams -> Seq(Nat)] /\ cq_order \in [streams -> Seq(Nat)]
         /\ sq_skid \in [streams -> Seq(Requests)] /\ data_skid \in [streams -> Seq(Requests)]
         /\ notify_skid \in [ports -> Seq(ports)]
  BY OutputWriterAssumption DEF TypeInv, DataInv, FlowInv, FlowTypes, OrderTypes, QueueTypes, Queues,
     DataTypes, TurnInv, NotifyOK

LEMMA KeepDepth ==
  ASSUME DepthInv, UNCHANGED <<notified, interrupts, data_order, cq_order, sq_skid, data_skid, notify_skid>>
  PROVE  DepthInv'
  BY DEF DepthInv, Bounded

LEMMA RequestDepth ==
  ASSUME TypeInv, NEW p \in ports, Request(p)
  PROVE  DepthInv'
  <1>1. /\ sq_skid \in [streams -> Seq(Requests)] /\ SKID_DEPTH \in Nat
        /\ Bounded(sq_skid, streams, SKID_DEPTH) /\ Stream(p) \in streams
    BY DepthFacts, PortFacts DEF TypeInv, DepthInv
  <1>2. PICK s, x : s = Stream(p) /\ x = Transfer(p, requested[p] + 1)  OBVIOUS
  <1>3. x \in Requests
    BY <1>2 DEF TypeInv, DataInv, FlowInv, FlowTypes, CountTypes, Transfer, Requests
  <1>4. /\ UNCHANGED <<notified, interrupts, data_order, cq_order, data_skid, notify_skid>>
        /\ shared(s) => sq_skid' = sq_skid
        /\ ~ shared(s) => Len(sq_skid[s]) < SKID_DEPTH /\ sq_skid' = [sq_skid EXCEPT ![s] = Append(sq_skid[s], x)]
    BY <1>2 DEF Request, shellVars, completionVars, notifyVars, Room
  <1>5. Bounded(sq_skid', streams, SKID_DEPTH)
    <2>1. CASE shared(s)  BY <2>1, <1>1, <1>4
    <2>2. CASE ~ shared(s)
      <3>1. s \in streams /\ sq_skid \in [streams -> Seq(Requests)] /\ SKID_DEPTH \in Nat /\ x \in Requests
        BY <1>1, <1>2, <1>3
      <3>2. Len(sq_skid[s]) < SKID_DEPTH /\ sq_skid' = [sq_skid EXCEPT ![s] = Append(sq_skid[s], x)]
        BY <2>2, <1>4
      <3>3. Bounded(sq_skid, streams, SKID_DEPTH)  BY <1>1
      <3> QED BY <3>1, <3>2, <3>3, BoundedAppend
    <2> QED BY <2>1, <2>2
  <1> QED BY <1>4, <1>5 DEF TypeInv, DepthInv, Bounded

LEMMA FireRequestDepth ==
  ASSUME TypeInv, NEW s \in streams, FireRequest(s)
  PROVE  DepthInv'
  <1>1. PICK x, w : x = Head(writer_arb[s].out) /\ w = Writer(x.port)  OBVIOUS
  <1>2. writer_arb[s].out # <<>> /\ OrderFifosReady(s) /\ Room(sq_skid[s])
    BY DEF FireRequest, CanTake
  <1>3. x \in Requests /\ w \in Nat
    <2>1. ArbiterTypes  BY DEF TypeInv, DataInv, FlowInv, FlowTypes
    <2>2. PICK slot : slot = writer_arb[s].out  OBVIOUS
    <2>3. slot = <<slot[1]>> /\ slot[1] \in RequestsOf(s)  BY <2>1, <2>2, <1>2, ArbiterSlots
    <2>4. x \in RequestsOf(s)  BY <2>2, <2>3, <1>1
    <2>5. x \in Requests /\ x.port \in ports  BY <2>4 DEF RequestsOf, Requests
    <2>6. Writer(x.port) \in 0 .. PORTS_PER_STREAM[Stream(x.port)] - 1  BY <2>5, PortFacts
    <2> QED BY <2>5, <2>6, <1>1
  <1>4. /\ sq_skid' = [sq_skid EXCEPT ![s] = Append(sq_skid[s], x)]
        /\ data_order' = [data_order EXCEPT ![s] = Append(data_order[s], w)]
        /\ cq_order' = [cq_order EXCEPT ![s] = Append(cq_order[s], w)]
        /\ UNCHANGED <<notified, interrupts, data_skid, notify_skid>>
    BY <1>1, <1>2 DEF FireRequest, OrderFifosReady, Push, writerVars, shellVars, notifyVars
  <1>5. Bounded(sq_skid', streams, SKID_DEPTH)
    <2>1. sq_skid \in [streams -> Seq(Requests)] /\ SKID_DEPTH \in Nat /\ Bounded(sq_skid, streams, SKID_DEPTH)
      BY DepthFacts DEF TypeInv, DepthInv
    <2>2. Len(sq_skid[s]) < SKID_DEPTH  BY <1>2 DEF Room
    <2> QED BY <2>1, <2>2, <1>3, <1>4, BoundedAppend
  <1>6. Bounded(data_order', streams, DATA_ORDER_DEPTH)
    <2>1. /\ data_order \in [streams -> Seq(Nat)] /\ DATA_ORDER_DEPTH \in Nat
          /\ Bounded(data_order, streams, DATA_ORDER_DEPTH)
      BY DepthFacts DEF TypeInv, DepthInv
    <2>2. Len(data_order[s]) < DATA_ORDER_DEPTH  BY <1>2 DEF OrderFifosReady
    <2> QED BY <2>1, <2>2, <1>3, <1>4, BoundedAppend
  <1>7. Bounded(cq_order', streams, CQ_ORDER_DEPTH)
    <2>1. /\ cq_order \in [streams -> Seq(Nat)] /\ CQ_ORDER_DEPTH \in Nat
          /\ Bounded(cq_order, streams, CQ_ORDER_DEPTH)
      BY DepthFacts DEF TypeInv, DepthInv
    <2>2. Len(cq_order[s]) < CQ_ORDER_DEPTH  BY <1>2 DEF OrderFifosReady
    <2> QED BY <2>1, <2>2, <1>3, <1>4, BoundedAppend
  <1> QED BY <1>4, <1>5, <1>6, <1>7 DEF TypeInv, DepthInv, Bounded

LEMMA SendBeatDepth ==
  ASSUME TypeInv, NEW p \in ports, SendBeat(p)
  PROVE  DepthInv'
  <1>1. PICK s, x : s = Stream(p) /\ x = Transfer(p, sent[p] + 1)  OBVIOUS
  <1>2. s \in streams /\ x \in Requests
    BY <1>1, PortFacts DEF TypeInv, DataInv, FlowInv, FlowTypes, CountTypes, Transfer, Requests
  <1>3. /\ shared(s) => data_order[s] # <<>>
        /\ Len(data_skid[s]) < SKID_DEPTH
        /\ data_skid' = [data_skid EXCEPT ![s] = Append(data_skid[s], x)]
        /\ data_order' = data_order \/ (shared(s) /\ data_order' = [data_order EXCEPT ![s] = Tail(data_order[s])])
        /\ UNCHANGED <<notified, interrupts, cq_order, sq_skid, notify_skid>>
    BY <1>1 DEF SendBeat, data_pop, Room, notifyVars
  <1>4. Bounded(data_skid', streams, SKID_DEPTH)
    <2>1. data_skid \in [streams -> Seq(Requests)] /\ SKID_DEPTH \in Nat /\ Bounded(data_skid, streams, SKID_DEPTH)
      BY DepthFacts DEF TypeInv, DepthInv
    <2> QED BY <2>1, <1>2, <1>3, BoundedAppend
  <1>5. Bounded(data_order', streams, DATA_ORDER_DEPTH)
    <2>1. /\ data_order \in [streams -> Seq(Nat)] /\ DATA_ORDER_DEPTH \in Nat
          /\ Bounded(data_order, streams, DATA_ORDER_DEPTH)
      BY DepthFacts DEF TypeInv, DepthInv
    <2>2. CASE data_order' = data_order  BY <2>1, <2>2
    <2>3. CASE shared(s) /\ data_order' = [data_order EXCEPT ![s] = Tail(data_order[s])]
      <3>1. data_order[s] # <<>>  BY <2>3, <1>3
      <3> QED BY <3>1, <2>1, <2>3, <1>2, BoundedTail
    <2> QED BY <2>2, <2>3, <1>3
  <1> QED BY <1>3, <1>4, <1>5 DEF TypeInv, DepthInv, Bounded

\* The steps that take from one queue.
LEMMA TailDepth ==
  ASSUME TypeInv
  PROVE  /\ \A s \in streams : OfferRequest(s) \/ TakeBeat(s) \/ RouteCompletion(s) => DepthInv'
         /\ \A p \in ports : OfferNotification(p) => DepthInv'
  <1>1. ASSUME NEW s \in streams, OfferRequest(s) PROVE DepthInv'
    <2>1. /\ sq_skid[s] # <<>> /\ sq_skid' = [sq_skid EXCEPT ![s] = Tail(sq_skid[s])]
          /\ UNCHANGED <<notified, interrupts, data_order, cq_order, data_skid, notify_skid>>
      BY <1>1 DEF OfferRequest, writerVars, shellVars, notifyVars
    <2>2. sq_skid \in [streams -> Seq(Requests)] /\ SKID_DEPTH \in Nat /\ Bounded(sq_skid, streams, SKID_DEPTH)
      BY DepthFacts DEF TypeInv, DepthInv
    <2>3. Bounded(sq_skid', streams, SKID_DEPTH)  BY <2>1, <2>2, BoundedTail
    <2> QED BY <2>1, <2>3 DEF TypeInv, DepthInv, Bounded
  <1>2. ASSUME NEW s \in streams, TakeBeat(s) PROVE DepthInv'
    <2>1. /\ data_skid[s] # <<>> /\ data_skid' = [data_skid EXCEPT ![s] = Tail(data_skid[s])]
          /\ UNCHANGED <<notified, interrupts, data_order, cq_order, sq_skid, notify_skid>>
      BY <1>2 DEF TakeBeat, writerVars, requestVars, notifyVars
    <2>2. data_skid \in [streams -> Seq(Requests)] /\ SKID_DEPTH \in Nat /\ Bounded(data_skid, streams, SKID_DEPTH)
      BY DepthFacts DEF TypeInv, DepthInv
    <2>3. Bounded(data_skid', streams, SKID_DEPTH)  BY <2>1, <2>2, BoundedTail
    <2> QED BY <2>1, <2>3 DEF TypeInv, DepthInv, Bounded
  <1>3. ASSUME NEW s \in streams, RouteCompletion(s) PROVE DepthInv'
    <2>1. /\ \/ cq_order' = cq_order
             \/ cq_order[s] # <<>> /\ cq_order' = [cq_order EXCEPT ![s] = Tail(cq_order[s])]
          /\ UNCHANGED <<notified, interrupts, data_order, sq_skid, data_skid, notify_skid>>
      BY <1>3 DEF RouteCompletion, shellVars, notifyVars
    <2>2. /\ cq_order \in [streams -> Seq(Nat)] /\ CQ_ORDER_DEPTH \in Nat
          /\ Bounded(cq_order, streams, CQ_ORDER_DEPTH)
      BY DepthFacts DEF TypeInv, DepthInv
    <2>3. Bounded(cq_order', streams, CQ_ORDER_DEPTH)
      <3>1. CASE cq_order' = cq_order  BY <3>1, <2>2
      <3>2. CASE cq_order[s] # <<>> /\ cq_order' = [cq_order EXCEPT ![s] = Tail(cq_order[s])]
        BY <3>2, <2>2, BoundedTail
      <3> QED BY <3>1, <3>2, <2>1
    <2> QED BY <2>1, <2>3 DEF TypeInv, DepthInv, Bounded
  <1>4. ASSUME NEW p \in ports, OfferNotification(p) PROVE DepthInv'
    <2>1. /\ notify_skid[p] # <<>> /\ notify_skid' = [notify_skid EXCEPT ![p] = Tail(notify_skid[p])]
          /\ UNCHANGED <<notified, interrupts, data_order, cq_order, sq_skid, data_skid>>
      BY <1>4 DEF OfferNotification, writerVars, requestVars, shellVars
    <2>2. notify_skid \in [ports -> Seq(ports)] /\ SKID_DEPTH \in Nat /\ Bounded(notify_skid, ports, SKID_DEPTH)
      BY DepthFacts DEF TypeInv, DepthInv
    <2>3. Bounded(notify_skid', ports, SKID_DEPTH)  BY <2>1, <2>2, BoundedTail
    <2> QED BY <2>1, <2>3 DEF TypeInv, DepthInv, Bounded
  <1> QED BY <1>1, <1>2, <1>3, <1>4

LEMMA NotifyDepth ==
  ASSUME TypeInv, NEW p \in ports, Notify(p)
  PROVE  DepthInv'
  <1>1. /\ Len(notify_skid[p]) < SKID_DEPTH
        /\ notify_skid' = [notify_skid EXCEPT ![p] = Append(notify_skid[p], p)]
        /\ notified' = [notified EXCEPT ![p] = @ + 1]
        /\ UNCHANGED <<interrupts, data_order, cq_order, sq_skid, data_skid>>
    BY DEF Notify, Room, requestVars, shellVars
  <1>2. notify_skid \in [ports -> Seq(ports)] /\ SKID_DEPTH \in Nat /\ Bounded(notify_skid, ports, SKID_DEPTH)
    BY DepthFacts DEF TypeInv, DepthInv
  <1>3. Bounded(notify_skid', ports, SKID_DEPTH)  BY <1>1, <1>2, BoundedAppend
  <1>4. notified' \in [ports -> Nat]  BY <1>1 DEF TypeInv, DepthInv
  <1> QED BY <1>1, <1>3, <1>4 DEF TypeInv, DepthInv, Bounded

LEMMA InterruptDepth ==
  ASSUME TypeInv, Interrupt
  PROVE  DepthInv'
  <1>1. PICK p : p = Head(notify_arb.out)  OBVIOUS
  <1>2. /\ interrupts' = [interrupts EXCEPT ![p] = @ + 1]
        /\ UNCHANGED <<notified, data_order, cq_order, sq_skid, data_skid, notify_skid>>
    BY <1>1 DEF Interrupt, writerVars, requestVars, shellVars
  <1>3. interrupts \in [ports -> Nat]  BY DEF TypeInv, DepthInv
  <1>4. PICK f : f = [interrupts EXCEPT ![p] = @ + 1]  OBVIOUS
  <1>5. f \in [ports -> Nat]
    <2>1. f = [q \in ports |-> IF q = p THEN interrupts[q] + 1 ELSE interrupts[q]]  BY <1>3, <1>4
    <2>2. \A q \in ports : interrupts[q] \in Nat  BY <1>3
    <2>3. \A q \in ports : (IF q = p THEN interrupts[q] + 1 ELSE interrupts[q]) \in Nat  BY <2>2
    <2> QED BY <2>1, <2>3
  <1>6. interrupts' \in [ports -> Nat]  BY <1>2, <1>4, <1>5
  <1> QED BY <1>2, <1>6 DEF TypeInv, DepthInv, Bounded

LEMMA NextTypes ==
  ASSUME TypeInv, [Next]_vars
  PROVE  TypeInv'
  <1>0. DataInv' /\ TurnInv' /\ DepthInv  BY NextData, NextTurns DEF TypeInv
  <1>1. ASSUME NEW p \in ports, Request(p) \/ SendBeat(p) \/ Notify(p) \/ OfferNotification(p)
        PROVE  DepthInv'
    BY <1>1, RequestDepth, SendBeatDepth, NotifyDepth, TailDepth
  <1>2. ASSUME NEW s \in streams, FireRequest(s) \/ OfferRequest(s) \/ TakeBeat(s) \/ RouteCompletion(s)
        PROVE  DepthInv'
    BY <1>2, FireRequestDepth, TailDepth
  <1>3. ASSUME NEW s \in streams, SelectWriter(s) \/ Complete(s) \/ CompleteForeign(s)
        PROVE  DepthInv'
    <2>1. UNCHANGED <<notified, interrupts, data_order, cq_order, sq_skid, data_skid, notify_skid>>
      BY <1>3 DEF SelectWriter, Complete, CompleteForeign, writerVars, requestVars, shellVars, notifyVars
    <2> QED BY <2>1, <1>0, KeepDepth
  <1>4. ASSUME SelectStream \/ TakeRequest \/ Demultiplex \/ SelectNotification
        PROVE  DepthInv'
    <2>1. UNCHANGED <<notified, interrupts, data_order, cq_order, sq_skid, data_skid, notify_skid>>
      BY <1>4 DEF SelectStream, TakeRequest, Demultiplex, SelectNotification, writerVars, requestVars,
         shellVars, notifyVars
    <2> QED BY <2>1, <1>0, KeepDepth
  <1>5. ASSUME Interrupt PROVE DepthInv'  BY <1>5, InterruptDepth
  <1>6. CASE UNCHANGED vars
    <2>1. UNCHANGED <<notified, interrupts, data_order, cq_order, sq_skid, data_skid, notify_skid>>
      BY <1>6 DEF vars, writerVars, requestVars, shellVars, notifyVars
    <2>2. DepthInv'  BY <2>1, <1>0, KeepDepth
    <2> QED BY <2>2, <1>0 DEF TypeInv
  <1>7. DepthInv'  BY <1>1, <1>2, <1>3, <1>4, <1>5, <1>6 DEF Next, TypeInv
  <1> QED BY <1>0, <1>7 DEF TypeInv

LEMMA InitTypes == Init => TypeInv
  <1> SUFFICES ASSUME Init PROVE TypeInv  OBVIOUS
  <1>1. notified \in [ports -> Nat] /\ interrupts \in [ports -> Nat]  BY DEF Init
  <1>2. SKID_DEPTH \in Nat /\ DATA_ORDER_DEPTH \in Nat /\ CQ_ORDER_DEPTH \in Nat
    BY OutputWriterAssumption
  <1>3. /\ \A s \in streams : /\ data_order[s] = <<>> /\ cq_order[s] = <<>>
                              /\ sq_skid[s] = <<>> /\ data_skid[s] = <<>>
        /\ \A p \in ports : notify_skid[p] = <<>>
    BY DEF Init
  <1>4. DepthInv  BY <1>1, <1>2, <1>3 DEF DepthInv, Bounded
  <1> QED BY <1>4, InitData, InitTurns DEF TypeInv

----
(* The types of the state, and that every FIFO stays within its depth, none   *)
(* of a port's counts overtakes the one before it: with any number of streams *)
(* and ports, any depths and any workload.                                   *)
THEOREM WriterTypesCorrect == SafeSpec => []TypeOK
  <1>1. TypeInv => TypeOK
    <2> SUFFICES ASSUME TypeInv PROVE TypeOK  OBVIOUS
    <2>1. CountTypes /\ ArbiterTypes /\ QueueTypes /\ AckTypes /\ RequestInv
      BY DEF TypeInv, DataInv, FlowInv, FlowTypes
    <2>2. DataTypes /\ Limits /\ NotifyOK /\ DepthInv  BY DEF TypeInv, DataInv, TurnInv
    <2>3. \A p \in ports : sent[p] <= requested[p] /\ completed[p] <= sent[p]
      BY <2>1, <2>2 DEF RequestInv, AtMostOne, Limits
    <2>4. ASSUME NEW n \in Nat, NEW R, NEW a \in Arbiters(n, R) PROVE ArbiterOK(a, n)
      <3>1. /\ a.buf \in [0 .. n - 1 -> Slots(R)] /\ a.out \in Slots(R) /\ a.rr \in 0 .. n - 1
        BY DEF Arbiters
      <3>2. \A x \in Slots(R) : Len(x) <= 1  BY SlotLength
      <3> QED BY <3>1, <3>2 DEF ArbiterOK
    <2>5. ASSUME NEW s \in streams PROVE ArbiterOK(writer_arb[s], PORTS_PER_STREAM[s])
      <3>1. writer_arb[s] \in Arbiters(PORTS_PER_STREAM[s], RequestsOf(s)) /\ PORTS_PER_STREAM[s] \in Nat
        BY <2>1, OutputWriterAssumption DEF ArbiterTypes
      <3> QED BY <3>1, <2>4
    <2>6. ArbiterOK(sq_arb, NUM_STREAMS)  BY <2>1, <2>4, StreamCount DEF QueueTypes
    <2>7. ArbiterOK(notify_arb, NUM_PORTS)
      <3>1. notify_arb \in Arbiters(NUM_PORTS, ports)
        BY <2>2 DEF NotifyOK, Slot, Slots, Arbiters, ports
      <3> QED BY <3>1, <2>4, SomePorts
    <2>8. Len(cq_wr) <= 1 /\ \A s \in streams : Len(cq_strm[s]) <= 1
      <3>1. \A x \in Slots(Acks) : Len(x) <= 1  BY SlotLength
      <3> QED BY <3>1, <2>1 DEF AckTypes
    <2>9. /\ requested \in [ports -> Nat] /\ sent \in [ports -> Nat] /\ beats_sent \in [ports -> Nat]
          /\ completed \in [ports -> Nat] /\ notified \in [ports -> Nat]
          /\ beats_taken \in [streams -> Nat]
          /\ interrupts \in [ports -> Nat] /\ waited \in [ports -> Nat]
      BY <2>1, <2>2 DEF CountTypes, DataTypes, NotifyOK, DepthInv
    <2>10. /\ \A s \in streams : Len(data_order[s]) <= DATA_ORDER_DEPTH
           /\ \A s \in streams : Len(cq_order[s]) <= CQ_ORDER_DEPTH
           /\ \A s \in streams : Len(sq_skid[s]) <= SKID_DEPTH /\ Len(data_skid[s]) <= SKID_DEPTH
           /\ \A p \in ports : Len(notify_skid[p]) <= SKID_DEPTH
      BY <2>2 DEF DepthInv, Bounded
    <2> QED BY <2>3, <2>5, <2>6, <2>7, <2>8, <2>9, <2>10 DEF TypeOK
  <1> QED BY <1>1, InitTypes, NextTypes, PTL DEF SafeSpec

----
(* The shell pairs the data of a stream with its requests by their order:    *)
(* what is on its way to the shell is the data of the requests on their way, *)
(* every beat in their order, so every beat is written to the memory of its  *)
(* own port.  No writer's data gets in between another's                     *)
(* (stream_writer_arbiter.sv), with any number of streams and ports, any     *)
(* depths and any workload.                                                  *)
THEOREM DataReachesItsRequest == SafeSpec => []DataFollowsRequests
  <1>1. DataInv => DataFollowsRequests
    <2> SUFFICES ASSUME DataInv, NEW s \in streams PROVE IsPrefix(data_skid[s], ExpectedBeats(s))
      BY DEF DataFollowsRequests
    <2>1. PICK a \in Seq(RequestsOf(s)), b \in Seq(RequestsOf(s)) : StreamData(s, a, b)
      BY DEF DataInv, StreamsData
    <2>2. PICK w, t, u, k : w = workload /\ t = beats_taken[s] /\ u = Progress(b, beats_sent) /\ k = data_skid[s]
      OBVIOUS
    <2>3. t \in Nat /\ u \in Nat /\ k \in Seq(RequestsOf(s))
      <3>1. b # <<>> => Head(b).port \in ports  BY FirstPortOf
      <3> QED BY <3>1, <2>2 DEF DataInv, DataTypes, Queues, Progress
    <2>4. Follows(w, a, b, t, u, k) /\ RequestsUnderWay(s) = a \o b
      BY <2>1, <2>2 DEF StreamData, Paced, Parted
    <2>5. IsPrefix(k, Flat(w, a \o b, t))  BY <2>3, <2>4, FollowsPrefix
    <2>6. ExpectedBeats(s) = Flat(w, RequestsUnderWay(s), t)
      BY <2>2 DEF ExpectedBeats, Flat, Pieces, Piece, Times, Beats
    <2> QED BY <2>2, <2>4, <2>5, <2>6
  <1> QED BY <1>1, InitData, NextData, PTL DEF SafeSpec

=============================================================================
