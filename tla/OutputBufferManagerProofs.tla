---------------------- MODULE OutputBufferManagerProofs ----------------------
(***************************************************************************)
(* Four properties of the manager, for any number of streams, handles and   *)
(* buffers: no buffer leaks, is freed twice or is in two places             *)
(* (BuffersAccounted); what the manager has enqueued and what the FPGA has   *)
(* agree (FpgaAgrees); an interrupt finds a handle and a buffer              *)
(* (InterruptHasHandle); a handle gets the output of its run                *)
(* (HandleGetsItsOutput).                                                   *)
(*                                                                         *)
(* All queues that hold buffers are seen as one family of queues: slot      *)
(* <<0, s>> is what stream s has enqueued, slot <<h, s>> is the output of    *)
(* handle h on s. The invariant is that a buffer is in one place of one     *)
(* slot or free, and an action appends to a slot, takes the front of one,   *)
(* or clears some.                                                          *)
(*                                                                         *)
(* The next two are about how many interrupts of a stream are under way,    *)
(* which is counted as the positions of the queue of interrupts that hold    *)
(* one: an Append adds one, a Tail takes one, and the queues of the stream  *)
(* change with them.                                                        *)
(*                                                                         *)
(* The last one follows the output of a stream through its pipe: a cursor   *)
(* says which handle and which buffer an interrupt is about, and how much of *)
(* the output of the handle is out. The interrupts under way lead from the   *)
(* cursor of the manager to the cursor of the FPGA, and each finds in its    *)
(* buffer the part of the output its cursor says. Where a failed acquire     *)
(* left its handle in the queue, only the handles before it still follow.   *)
(***************************************************************************)
EXTENDS OutputBufferManager, NumberInduction, FiniteSetTheorems, TLAPS

(* A nonempty finite set of numbers has a least: the one with the fewest below it. *)
LEMMA LowestExists ==
  ASSUME NEW S, IsFiniteSet(S), S # {}, S \subseteq Nat
  PROVE  Lowest(S) \in S
  <1> DEFINE Below(i) == {j \in S : j < i}
             F == {Below(i) : i \in S}
  <1>1. IsWellFoundedOn(StrictSubsetOrdering(S), SUBSET S)
    <2>1. FiniteSubsetsOf(S) = SUBSET S  BY FS_FiniteSubsetsOfFinite
    <2> QED BY <2>1, FS_StrictSubsetOrderingWellFounded
  <1>2. F \subseteq SUBSET S /\ F # {}  OBVIOUS
  <1>3. PICK least \in F : \A A \in F : ~ (<<A, least>> \in StrictSubsetOrdering(S))
    <2> HIDE DEF F
    <2> QED BY <1>1, <1>2, WFMin
  <1>4. PICK i \in S : least = Below(i)  OBVIOUS
  <1>5. i \in Int /\ \A k \in S : k \in Int  OBVIOUS
  <1>6. ASSUME NEW j \in S, j < i PROVE FALSE
    <2>1. j \in Below(i) /\ j \notin Below(j) /\ Below(j) \subseteq Below(i)
      <3>1. j \in Below(i)  BY <1>6
      <3>2. j \notin Below(j)  BY <1>5
      <3>3. ASSUME NEW k \in S, k < j PROVE k < i  BY <1>5, <1>6, <3>3
      <3> QED BY <3>1, <3>2, <3>3
    <2>2. Below(j) \in F /\ Below(j) \in SUBSET S /\ Below(i) \in SUBSET S  OBVIOUS
    <2> HIDE DEF F, Below
    <2>3. <<Below(j), Below(i)>> \in StrictSubsetOrdering(S)  BY <2>1, <2>2 DEF StrictSubsetOrdering
    <2> QED BY <2>2, <2>3, <1>3, <1>4
  <1>7. \A j \in S : i <= j  BY <1>5, <1>6
  <1> QED BY <1>7 DEF Lowest

----
(* Families of queues of buffers.                                           *)

Inj(F) == \A p, q \in DOMAIN F : \A i \in DOMAIN F[p], j \in DOMAIN F[q] :
            F[p][i].id = F[q][j].id => p = q /\ i = j

Ids(F) == UNION {{F[p][i].id : i \in DOMAIN F[p]} : p \in DOMAIN F}

(* Exactly one place for each buffer of the pool. *)
Placed(F, unused) ==
  /\ Inj(F)
  /\ Ids(F) \cap unused = {}
  /\ Ids(F) \cup unused = BufferIds

(* G is F with Q in slot p. *)
Changes(F, G, p, Q) ==
  /\ DOMAIN G = DOMAIN F /\ p \in DOMAIN F
  /\ G[p] = Q
  /\ \A q \in DOMAIN F \ {p} : G[q] = F[q]

LEMMA InIds ==
  ASSUME NEW F, NEW b
  PROVE  b \in Ids(F) <=> \E p \in DOMAIN F : \E i \in DOMAIN F[p] : b = F[p][i].id
  BY DEF Ids

LEMMA AppendPlaced ==
  ASSUME NEW R, NEW S, NEW F \in [S -> Seq(R)], NEW unused, Placed(F, unused),
         NEW p, NEW x \in R, x.id \in unused, NEW G, Changes(F, G, p, Append(F[p], x))
  PROVE  Placed(G, unused \ {x.id})
  <1> DEFINE n == Len(F[p])
  <1>1. /\ DOMAIN F = S /\ DOMAIN G = S /\ p \in S
        /\ \A q \in S \ {p} : G[q] = F[q]
        /\ G[p] = Append(F[p], x)
    BY DEF Changes
  <1>2. /\ F[p] \in Seq(R) /\ n \in Nat /\ DOMAIN F[p] = 1 .. n
        /\ DOMAIN G[p] = 1 .. n + 1
        /\ \A i \in 1 .. n : G[p][i] = F[p][i]
        /\ G[p][n + 1] = x
    BY <1>1
  <1>3. \A q \in S : \A i \in DOMAIN F[q] : F[q][i].id \in Ids(F)  BY <1>1 DEF Ids
  <1>4. \A q \in S : \A i \in DOMAIN F[q] : F[q][i].id # x.id  BY <1>3 DEF Placed
  <1> HIDE DEF n
  \* An element of G is an old one in its place, or the new one.
  <1>5. \A q \in S : \A i \in DOMAIN G[q] :
          \/ i \in DOMAIN F[q] /\ G[q][i] = F[q][i]
          \/ q = p /\ i = n + 1 /\ G[q][i] = x
    <2> TAKE q \in S
    <2> TAKE i \in DOMAIN G[q]
    <2>1. CASE q # p  BY <2>1, <1>1
    <2>2. CASE q = p
      <3>1. i \in 1 .. n \/ i = n + 1  BY <2>2, <1>2
      <3> QED BY <2>2, <3>1, <1>2
    <2> QED BY <2>1, <2>2
  <1>6. Inj(G)
    <2> SUFFICES ASSUME NEW q \in S, NEW r \in S, NEW i \in DOMAIN G[q], NEW j \in DOMAIN G[r],
                        G[q][i].id = G[r][j].id
                 PROVE  q = r /\ i = j
      BY <1>1 DEF Inj
    <2> QED BY <1>1, <1>4, <1>5 DEF Placed, Inj
  <1>7. Ids(G) = Ids(F) \cup {x.id}
    <2>1. Ids(G) \subseteq Ids(F) \cup {x.id}  BY <1>1, <1>3, <1>5 DEF Ids
    <2>2. ASSUME NEW q \in S, NEW i \in DOMAIN F[q] PROVE F[q][i].id \in Ids(G)
      <3>1. i \in DOMAIN G[q] /\ G[q][i] = F[q][i]  BY <1>1, <1>2
      <3> QED BY <3>1, <1>1 DEF Ids
    <2>3. x.id \in Ids(G)
      <3>1. n + 1 \in DOMAIN G[p] /\ G[p][n + 1] = x  BY <1>2
      <3> QED BY <3>1, <1>1 DEF Ids
    <2>4. Ids(F) \subseteq Ids(G)
      <3> SUFFICES ASSUME NEW b \in Ids(F) PROVE b \in Ids(G)  OBVIOUS
      <3>1. PICK q \in S : \E i \in DOMAIN F[q] : b = F[q][i].id  BY <1>1, InIds
      <3> QED BY <3>1, <2>2
    <2> QED BY <2>1, <2>3, <2>4
  <1> QED BY <1>6, <1>7 DEF Placed
LEMMA TailPlaced ==
  ASSUME NEW R, NEW S, NEW F \in [S -> Seq(R)], NEW unused, Placed(F, unused),
         NEW p, F[p] # <<>>, NEW G, Changes(F, G, p, Tail(F[p]))
  PROVE  /\ Head(F[p]).id \in BufferIds /\ Head(F[p]).id \notin unused
         /\ Placed(G, unused \cup {Head(F[p]).id})
  <1> DEFINE n == Len(F[p])
             b == Head(F[p]).id
  <1>1. /\ DOMAIN F = S /\ DOMAIN G = S /\ p \in S
        /\ \A q \in S \ {p} : G[q] = F[q]
        /\ G[p] = Tail(F[p])
    BY DEF Changes
  <1>2. /\ F[p] \in Seq(R) /\ n \in Nat \ {0} /\ DOMAIN F[p] = 1 .. n
        /\ DOMAIN G[p] = 1 .. n - 1
        /\ \A i \in 1 .. n - 1 : G[p][i] = F[p][i + 1]
        /\ b = F[p][1].id
    BY <1>1
  <1> HIDE DEF n, b
  <1>3. b \in Ids(F)  BY <1>1, <1>2, InIds
  <1>4. b \in BufferIds /\ b \notin unused  BY <1>3 DEF Placed
  \* An element of G is one of F, which is not the first of p.
  <1> DEFINE At(q, i) == IF q = p THEN i + 1 ELSE i
  <1>5. ASSUME NEW q \in S, NEW i \in DOMAIN G[q]
        PROVE  /\ At(q, i) \in DOMAIN F[q] /\ G[q][i] = F[q][At(q, i)]
               /\ ~ (q = p /\ At(q, i) = 1)
    <2>1. CASE q # p  BY <2>1, <1>1
    <2>2. CASE q = p
      <3>1. i \in 1 .. n - 1  BY <2>2, <1>2
      <3> QED BY <2>2, <3>1, <1>2
    <2> QED BY <2>1, <2>2
  <1>6. Inj(G)
    <2> SUFFICES ASSUME NEW q \in S, NEW r \in S, NEW i \in DOMAIN G[q], NEW j \in DOMAIN G[r],
                        G[q][i].id = G[r][j].id
                 PROVE  q = r /\ i = j
      BY <1>1 DEF Inj
    <2>1. q = r /\ At(q, i) = At(r, j)
      <3> HIDE DEF At
      <3> QED BY <1>1, <1>5 DEF Placed, Inj
    <2>2. i \in Int /\ j \in Int  BY <2>1, <1>1, <1>2
    <2> QED BY <2>1, <2>2
  <1>7. b \notin Ids(G)
    <2> SUFFICES ASSUME NEW q \in S, NEW i \in DOMAIN G[q], G[q][i].id = b PROVE FALSE
      BY <1>1, InIds
    <2> HIDE DEF At
    <2>1. 1 \in DOMAIN F[p] /\ F[p][1].id = b  BY <1>2
    <2> QED BY <2>1, <1>1, <1>5 DEF Placed, Inj
  <1>8. Ids(G) \subseteq Ids(F)
    <2> SUFFICES ASSUME NEW q \in S, NEW i \in DOMAIN G[q] PROVE G[q][i].id \in Ids(F)
      BY <1>1, InIds
    <2> HIDE DEF At
    <2> QED BY <1>1, <1>5, InIds
  <1>9. ASSUME NEW q \in S, NEW i \in DOMAIN F[q], F[q][i].id # b
        PROVE  F[q][i].id \in Ids(G)
    <2>1. CASE q # p  BY <2>1, <1>1, InIds
    <2>2. CASE q = p
      <3>1. i \in 2 .. n  BY <2>2, <1>2, <1>9
      <3>2. i - 1 \in DOMAIN G[p] /\ G[p][i - 1] = F[p][i]  BY <3>1, <1>2
      <3> QED BY <2>2, <3>2, <1>1, InIds
    <2> QED BY <2>1, <2>2
  <1>10. Ids(G) = Ids(F) \ {b}
    <2>1. Ids(F) \subseteq Ids(G) \cup {b}  BY <1>1, <1>9, InIds
    <2> QED BY <2>1, <1>7, <1>8
  <1> QED BY <1>4, <1>6, <1>10 DEF Placed, b

(* G is F with the slots in C empty; what they held. *)
Clears(F, G, C) ==
  /\ C \subseteq DOMAIN F
  /\ G = [q \in DOMAIN F |-> IF q \in C THEN <<>> ELSE F[q]]
IdsAt(F, C) == UNION {{F[q][i].id : i \in DOMAIN F[q]} : q \in C}

LEMMA ClearPlaced ==
  ASSUME NEW F, NEW unused, Placed(F, unused), NEW C, NEW G, Clears(F, G, C)
  PROVE  IdsAt(F, C) \subseteq BufferIds /\ Placed(G, unused \cup IdsAt(F, C))
  <1> DEFINE S == DOMAIN F
             K == IdsAt(F, C)
  <1>1. /\ DOMAIN G = S /\ C \subseteq S
        /\ \A q \in C : DOMAIN G[q] = {}
        /\ \A q \in S \ C : G[q] = F[q]
    BY DEF Clears
  <1>2. K \subseteq Ids(F)  BY <1>1 DEF Ids, IdsAt
  <1>3. \A q \in C : \A i \in DOMAIN F[q] : F[q][i].id \in K  BY DEF IdsAt
  <1>4. \A b \in K : \E q \in C : \E i \in DOMAIN F[q] : b = F[q][i].id  BY DEF IdsAt
  <1> HIDE DEF K
  <1>5. Inj(G)  BY <1>1 DEF Placed, Inj
  <1>6. Ids(G) \subseteq Ids(F)
    <2> SUFFICES ASSUME NEW q \in S, NEW i \in DOMAIN G[q] PROVE G[q][i].id \in Ids(F)
      BY <1>1, InIds
    <2>1. q \notin C /\ G[q] = F[q]  BY <1>1
    <2> QED BY <2>1, InIds
  <1>7. ASSUME NEW q \in S, NEW i \in DOMAIN G[q] PROVE G[q][i].id \notin K
    <2>1. q \notin C /\ G[q] = F[q]  BY <1>1
    <2> SUFFICES ASSUME G[q][i].id \in K PROVE FALSE  OBVIOUS
    <2>2. PICK r \in C : \E j \in DOMAIN F[r] : G[q][i].id = F[r][j].id  BY <1>4
    <2>3. q = r  BY <2>1, <2>2, <1>1 DEF Placed, Inj
    <2> QED BY <2>1, <2>3
  <1>8. Ids(F) \subseteq Ids(G) \cup K
    <2> SUFFICES ASSUME NEW q \in S, NEW i \in DOMAIN F[q], F[q][i].id \notin K
                 PROVE  F[q][i].id \in Ids(G)
      BY InIds
    <2>1. q \notin C /\ G[q] = F[q]  BY <1>1, <1>3
    <2> QED BY <2>1, <1>1, InIds
  <1>9. Ids(G) \cap K = {}  BY <1>1, <1>7, InIds
  <1> QED BY <1>2, <1>5, <1>6, <1>8, <1>9 DEF Placed, K

----
(* The invariant.                                                           *)

Delivered == [id : BufferIds, size : Nat \ {0}]
Job == {j \in [handle : Handles, len : Nat, done : Nat] : j.done < j.len \/ j.len = 0}
Notification == [stream : Streams, bytes : Nat, last : BOOLEAN]

BufferTypes ==
  /\ enqueued_buffers \in [Streams -> Seq(Buffer)]
  /\ output_buffers \in [Handles -> [Streams -> Seq(Delivered)]]
  /\ free \subseteq BufferIds

(* A handle that waits on a stream is active for it and was created. *)
HandleTypes ==
  /\ num_handles \in 0 .. MAX_HANDLES
  /\ enqueued_handles \in [Streams -> Seq(Handles)]
  /\ active_streams \in [Handles -> SUBSET Streams]
  /\ finished_streams \in [Handles -> SUBSET Streams]
  /\ callback_thread \in [Handles -> {"none", "idle", "running"}]
  /\ dropped \subseteq Handles
  /\ state \in States

HandlesActive ==
  /\ \A s \in Streams : \A i \in DOMAIN enqueued_handles[s] :
       /\ enqueued_handles[s][i] <= num_handles
       /\ s \in active_streams[enqueued_handles[s][i]]
  /\ \A h \in Handles : finished_streams[h] \subseteq active_streams[h]
  /\ \A h \in Handles : h > num_handles => finished_streams[h] = {}

FpgaTypes ==
  /\ fpga_buffers \in [Streams -> Seq(Buffer)]
  /\ jobs \in [Streams -> Seq(Job)]
  /\ interrupts \in Seq(Notification)
  /\ consumes \in BOOLEAN

Acquiring ==
  /\ cs \in [who : {"acquire"}, handle : 1 .. num_handles, left : SUBSET Streams,
             by : 0 .. MAX_HANDLES]
  /\ cs.left # {} /\ cs.left \subseteq active_streams[cs.handle]
AcquiringSize ==
  /\ cs \in [who : {"acquire_size"}, handle : 1 .. num_handles, stream : Streams,
             size : Nat, remaining : Nat \ {0}]
  /\ active_streams[cs.handle] = {cs.stream}
Interrupted ==
  /\ cs \in [who : {"interrupt"}, stream : Streams, last : BOOLEAN, destroy : 0 .. MAX_HANDLES]
  /\ cs.last => enqueued_handles[cs.stream] # <<>>
FailTypes == spoilt \subseteq Streams /\ misled \in [Handles -> SUBSET Streams]

CsTypes == cs = Nobody \/ Acquiring \/ AcquiringSize \/ Interrupted

Types == BufferTypes /\ HandleTypes /\ HandlesActive /\ FpgaTypes /\ FailTypes /\ CsTypes

SlotSet == (0 .. MAX_HANDLES) \X Streams
Store(E, O) == [p \in SlotSet |-> IF p[1] = 0 THEN E[p[2]] ELSE O[p[1]][p[2]]]

Accounted == Placed(Store(enqueued_buffers, output_buffers), free)

IInv == Types /\ Accounted

----
(* What changes to the queues do to the slots.                              *)

LEMMA StoreType ==
  ASSUME NEW E \in [Streams -> Seq(Buffer)], NEW O \in [Handles -> [Streams -> Seq(Delivered)]]
  PROVE  Store(E, O) \in [SlotSet -> Seq(Buffer \cup Delivered)]
  <1> SUFFICES ASSUME NEW p \in SlotSet PROVE Store(E, O)[p] \in Seq(Buffer \cup Delivered)
    BY DEF Store
  <1>1. p[1] \in 0 .. MAX_HANDLES /\ p[2] \in Streams  BY DEF SlotSet
  <1>2. CASE p[1] = 0  BY <1>1, <1>2 DEF Store
  <1>3. CASE p[1] # 0
    <2>1. p[1] \in Handles  BY <1>1, <1>3, ManagerAssumption DEF Handles
    <2>2. O[p[1]][p[2]] \in Seq(Delivered)  BY <2>1, <1>1
    <2> QED BY <2>2, <1>3 DEF Store
  <1> QED BY <1>2, <1>3

LEMMA StoreEnqueued ==
  ASSUME NEW E, NEW E2, NEW O, NEW s, NEW Q, DOMAIN E = Streams, Changes(E, E2, s, Q)
  PROVE  /\ Changes(Store(E, O), Store(E2, O), <<0, s>>, Q)
         /\ Store(E, O)[<<0, s>>] = E[s]
  <1>1. s \in Streams /\ E2[s] = Q /\ \A t \in Streams \ {s} : E2[t] = E[t]  BY DEF Changes
  <1>2. <<0, s>> \in SlotSet  BY <1>1, ManagerAssumption DEF SlotSet
  <1>3. ASSUME NEW p \in SlotSet \ {<<0, s>>} PROVE Store(E2, O)[p] = Store(E, O)[p]
    <2>1. p = <<p[1], p[2]>> /\ p[2] \in Streams  BY DEF SlotSet
    <2> QED BY <2>1, <1>1 DEF Store
  <1>4. Store(E2, O)[<<0, s>>] = E2[s] /\ Store(E, O)[<<0, s>>] = E[s]  BY <1>2 DEF Store
  <1>5. DOMAIN Store(E2, O) = SlotSet /\ DOMAIN Store(E, O) = SlotSet  BY DEF Store
  <1> QED BY <1>1, <1>2, <1>3, <1>4, <1>5 DEF Changes

LEMMA StoreAt ==
  ASSUME NEW E, NEW O, NEW s \in Streams
  PROVE  Store(E, O)[<<0, s>>] = E[s]
  BY ManagerAssumption DEF Store, SlotSet

ChangesOutput(O, O2, h, s, Q) ==
  /\ h \in Handles /\ s \in Streams
  /\ O2[h][s] = Q
  /\ \A g \in Handles, t \in Streams : g # h \/ t # s => O2[g][t] = O[g][t]

LEMMA StoreOutput ==
  ASSUME NEW E, NEW O, NEW O2, NEW h, NEW s, NEW Q, ChangesOutput(O, O2, h, s, Q)
  PROVE  /\ Changes(Store(E, O), Store(E, O2), <<h, s>>, Q)
         /\ Store(E, O)[<<h, s>>] = O[h][s]
  <1>1. h \in 0 .. MAX_HANDLES /\ h # 0 /\ s \in Streams
    BY ManagerAssumption DEF ChangesOutput, Handles
  <1>2. <<h, s>> \in SlotSet  BY <1>1 DEF SlotSet
  <1>3. ASSUME NEW p \in SlotSet \ {<<h, s>>} PROVE Store(E, O2)[p] = Store(E, O)[p]
    <2>1. p = <<p[1], p[2]>> /\ p[1] \in 0 .. MAX_HANDLES /\ p[2] \in Streams  BY DEF SlotSet
    <2>2. CASE p[1] = 0  BY <2>2 DEF Store
    <2>3. CASE p[1] # 0
      <3>1. p[1] \in Handles /\ (p[1] # h \/ p[2] # s)  BY <2>1, <2>3, ManagerAssumption DEF Handles
      <3>2. O2[p[1]][p[2]] = O[p[1]][p[2]]  BY <2>1, <3>1 DEF ChangesOutput
      <3> QED BY <2>3, <3>2 DEF Store
    <2> QED BY <2>2, <2>3
  <1>4. Store(E, O2)[<<h, s>>] = O2[h][s] /\ Store(E, O)[<<h, s>>] = O[h][s]
    BY <1>1, <1>2 DEF Store
  <1>5. DOMAIN Store(E, O2) = SlotSet /\ DOMAIN Store(E, O) = SlotSet  BY DEF Store
  <1> QED BY <1>2, <1>3, <1>4, <1>5 DEF Changes, ChangesOutput

----
(* Where the buffers go, action by action.                                  *)

LEMMA SameBuffers ==
  ASSUME BufferTypes, Accounted, UNCHANGED <<enqueued_buffers, output_buffers, free>>
  PROVE  BufferTypes' /\ Accounted'
  BY DEF BufferTypes, Accounted

LEMMA EnqueueAccounted ==
  ASSUME BufferTypes, Accounted, NEW s \in Streams, NEW capacity \in Nat,
         EnqueueBuffer(s, capacity), UNCHANGED output_buffers
  PROVE  /\ BufferTypes' /\ Accounted'
         /\ \E b \in Buffer : fpga_buffers' = [fpga_buffers EXCEPT ![s] = Append(@, b)]
  <1> DEFINE b == [id |-> Lowest(free), capacity |-> capacity]
             E == enqueued_buffers
             O == output_buffers
  <1>1. /\ E' = [E EXCEPT ![s] = Append(@, b)] /\ O' = O /\ free' = free \ {b.id}
        /\ fpga_buffers' = [fpga_buffers EXCEPT ![s] = Append(@, b)]
    BY DEF EnqueueBuffer
  <1>2. /\ E \in [Streams -> Seq(Buffer)] /\ O \in [Handles -> [Streams -> Seq(Delivered)]]
        /\ free \subseteq BufferIds
    BY DEF BufferTypes
  <1>3. Lowest(free) \in free
    <2>1. free # {} /\ free \subseteq Nat  BY <1>2, ManagerAssumption DEF EnqueueBuffer
    <2>2. IsFiniteSet(free)  BY <1>2, ManagerAssumption, FS_Subset
    <2> QED BY <2>1, <2>2, LowestExists
  <1>4. b \in Buffer /\ b.id \in free  BY <1>2, <1>3 DEF Buffer
  <1> HIDE DEF b
  <1>5. BufferTypes'
    <2>1. E' \in [Streams -> Seq(Buffer)]  BY <1>1, <1>2, <1>4
    <2> QED BY <2>1, <1>1, <1>2 DEF BufferTypes
  <1>6. Accounted'
    <2> DEFINE F == Store(E, O)
               R == Buffer \cup Delivered
    <2>1. F \in [SlotSet -> Seq(R)]  BY <1>2, StoreType
    <2>2. Placed(F, free)  BY DEF Accounted
    <2>3. b \in R  BY <1>4
    <2> DEFINE G == Store(E', O)
    <2>4. F[<<0, s>>] = E[s] /\ Changes(F, G, <<0, s>>, Append(E[s], b))
      <3>1. DOMAIN E = Streams /\ Changes(E, E', s, Append(E[s], b))  BY <1>1, <1>2 DEF Changes
      <3> HIDE DEF E, O
      <3> QED BY <3>1, StoreEnqueued
    <2> HIDE DEF F, G, R, E, O
    <2>5. Placed(G, free \ {b.id})  BY <2>1, <2>2, <2>3, <2>4, <1>4, AppendPlaced
    <2>6. G = Store(E', O')  BY <1>1 DEF G
    <2> QED BY <2>5, <2>6, <1>1 DEF Accounted, E, O
  <1> QED BY <1>1, <1>4, <1>5, <1>6

(* The front of a stream's enqueued buffers leaves its slot. *)
LEMMA PopPlaced ==
  ASSUME BufferTypes, Accounted, NEW s \in Streams, enqueued_buffers[s] # <<>>,
         NEW E2, NEW Q, Q = Tail(enqueued_buffers[s]), Changes(enqueued_buffers, E2, s, Q)
  PROVE  /\ Head(enqueued_buffers[s]).id \in BufferIds
         /\ Head(enqueued_buffers[s]).id \notin free
         /\ Placed(Store(E2, output_buffers), free \cup {Head(enqueued_buffers[s]).id})
  <1> DEFINE E == enqueued_buffers
             O == output_buffers
             F == Store(E, O)
             R == Buffer \cup Delivered
             G == Store(E2, O)
  <1>1. F \in [SlotSet -> Seq(R)]  BY StoreType DEF BufferTypes
  <1>2. Placed(F, free)  BY DEF Accounted
  <1>3. F[<<0, s>>] = E[s] /\ Changes(F, G, <<0, s>>, Q)
    <2>1. DOMAIN E = Streams  BY DEF BufferTypes
    <2>2. Changes(F, G, <<0, s>>, Q)  BY <2>1, StoreEnqueued
    <2>3. F[<<0, s>>] = E[s]  BY StoreAt
    <2> QED BY <2>2, <2>3
  <1>4. E[s] # <<>> /\ Q = Tail(E[s])  OBVIOUS
  <1> DEFINE p == <<0, s>>
  <1>5. F[p] # <<>> /\ Changes(F, G, p, Tail(F[p]))  BY <1>3, <1>4
  <1> HIDE DEF E, F, G, R, p
  <1>6. Head(F[p]).id \in BufferIds /\ Head(F[p]).id \notin free  BY <1>1, <1>2, <1>5, TailPlaced
  <1>7. Placed(G, free \cup {Head(F[p]).id})  BY <1>1, <1>2, <1>5, TailPlaced
  <1> QED BY <1>3, <1>6, <1>7 DEF E, G, O, p

LEMMA MoveAccounted ==
  ASSUME Types, Accounted, HandleInterrupt
  PROVE  BufferTypes' /\ Accounted'
  <1> DEFINE i == Head(interrupts)
             s == i.stream
             h == Head(enqueued_handles[s])
             E == enqueued_buffers
             O == output_buffers
             b == Head(E[s])
             d == [id |-> b.id, size |-> i.bytes]
  <1>1. i \in Notification  BY DEF HandleInterrupt, Types, FpgaTypes
  <1>2. s \in Streams /\ i.bytes \in Nat  BY <1>1 DEF Notification
  <1>3. E[s] # <<>> /\ enqueued_handles[s] # <<>> /\ MoveCurrentBuffer(s, i.bytes)
    BY DEF HandleInterrupt
  <1>4. h \in Handles  BY <1>2, <1>3 DEF Types, HandleTypes
  <1>5. /\ E \in [Streams -> Seq(Buffer)] /\ O \in [Handles -> [Streams -> Seq(Delivered)]]
        /\ free \subseteq BufferIds
    BY DEF Types, BufferTypes
  <1> DEFINE E1 == [E EXCEPT ![s] = Tail(@)]
  <1>6. E1 \in [Streams -> Seq(Buffer)]
    <2>1. Tail(E[s]) \in Seq(Buffer)  BY <1>2, <1>3, <1>5
    <2> QED BY <2>1, <1>5
  <1>7. b.id \in BufferIds /\ b.id \notin free /\ Placed(Store(E1, O), free \cup {b.id})
    <2>1. Changes(E, E1, s, Tail(E[s]))  BY <1>2, <1>5 DEF Changes
    <2> HIDE DEF E1, s, i
    <2> QED BY <2>1, <1>2, <1>3, PopPlaced DEF Types
  <1>8. CASE HasOutput(i.bytes)
    <2>1. /\ O' = [O EXCEPT ![h][s] = Append(@, d)] /\ E' = E1 /\ free' = free
      BY <1>3, <1>8 DEF MoveCurrentBuffer
    <2>2. d \in Delivered  BY <1>2, <1>7, <1>8 DEF Delivered, HasOutput
    <2>3. d.id = b.id  OBVIOUS
    <2> HIDE DEF d, b, h, s, i
    <2>4. O' \in [Handles -> [Streams -> Seq(Delivered)]]  BY <2>1, <2>2, <1>2, <1>4, <1>5
    <2>5. BufferTypes'  BY <2>1, <2>4, <1>5, <1>6 DEF BufferTypes
    <2> DEFINE F == Store(E1, O)
               R == Buffer \cup Delivered
    <2>6. F \in [SlotSet -> Seq(R)]  BY <1>5, <1>6, StoreType
    <2> DEFINE G == Store(E1, O')
    <2>7. F[<<h, s>>] = O[h][s] /\ Changes(F, G, <<h, s>>, Append(O[h][s], d))
      <3>1. ChangesOutput(O, O', h, s, Append(O[h][s], d))
        BY <2>1, <1>2, <1>4, <1>5 DEF ChangesOutput
      <3> HIDE DEF E1, O
      <3> QED BY <3>1, StoreOutput
    <2>8. d \in R /\ d.id \in free \cup {b.id}  BY <2>2, <2>3
    <2>9. Placed(F, free \cup {b.id})  BY <1>7
    <2> HIDE DEF F, G, R
    <2>10. Placed(G, (free \cup {b.id}) \ {d.id})  BY <2>6, <2>7, <2>8, <2>9, AppendPlaced
    <2>11. (free \cup {b.id}) \ {d.id} = free'  BY <1>7, <2>1, <2>3
    <2>12. Accounted'  BY <2>1, <2>10, <2>11 DEF Accounted, G
    <2> QED BY <2>5, <2>12
  <1>9. CASE ~ HasOutput(i.bytes) /\ FreesEmptyBuffer
    <2>1. E' = E1 /\ O' = O /\ free' = free \cup {b.id}  BY <1>3, <1>9 DEF MoveCurrentBuffer, Free
    <2> HIDE DEF b, s, i
    <2> QED BY <2>1, <1>5, <1>6, <1>7 DEF BufferTypes, Accounted
  <1>10. CASE ~ HasOutput(i.bytes) /\ ~ FreesEmptyBuffer
    <2>1. UNCHANGED <<enqueued_buffers, output_buffers, free>>  BY <1>3, <1>10 DEF MoveCurrentBuffer
    <2> QED BY <2>1, SameBuffers DEF Types
  <1> QED BY <1>8, <1>9, <1>10

LEMMA ReadAccounted ==
  ASSUME BufferTypes, Accounted, NEW h \in Handles, NEW s \in Streams, Read(h, s)
  PROVE  BufferTypes' /\ Accounted'
  <1> DEFINE E == enqueued_buffers
             O == output_buffers
             F == Store(E, O)
             R == Buffer \cup Delivered
             b == Head(O[h][s]).id
  <1>1. /\ O[h][s] # <<>> /\ O' = [O EXCEPT ![h][s] = Tail(O[h][s])] /\ E' = E
        /\ free' = free \cup {b}
    BY DEF Read, Free
  <1>2. /\ E \in [Streams -> Seq(Buffer)] /\ O \in [Handles -> [Streams -> Seq(Delivered)]]
        /\ free \subseteq BufferIds
    BY DEF BufferTypes
  <1>3. O' \in [Handles -> [Streams -> Seq(Delivered)]]
    <2>1. Tail(O[h][s]) \in Seq(Delivered)  BY <1>1, <1>2
    <2> QED BY <2>1, <1>1, <1>2
  <1>4. F \in [SlotSet -> Seq(R)]  BY <1>2, StoreType
  <1> DEFINE G == Store(E, O')
  <1>5. F[<<h, s>>] = O[h][s] /\ Changes(F, G, <<h, s>>, Tail(O[h][s]))
    <2>1. ChangesOutput(O, O', h, s, Tail(O[h][s]))  BY <1>1, <1>2 DEF ChangesOutput
    <2> HIDE DEF E, O
    <2> QED BY <2>1, StoreOutput
  <1>6. Placed(F, free)  BY DEF Accounted
  <1> HIDE DEF F, G, R, E, O
  <1>7. b \in BufferIds /\ Placed(G, free \cup {b})
    <2>1. F[<<h, s>>] # <<>>  BY <1>1, <1>5
    <2>2. /\ Head(F[<<h, s>>]).id \in BufferIds
          /\ Placed(G, free \cup {Head(F[<<h, s>>]).id})
      BY <1>4, <1>5, <1>6, <2>1, TailPlaced
    <2> QED BY <1>5, <2>2
  <1> QED BY <1>1, <1>2, <1>3, <1>7 DEF BufferTypes, Accounted, E, O, G

(* All queues of one row of slots are cleared and their buffers freed. *)
LEMMA ClearRow ==
  ASSUME NEW F, DOMAIN F = SlotSet, NEW unused, Placed(F, unused),
         NEW k \in 0 .. MAX_HANDLES, NEW queues, \A s \in Streams : F[<<k, s>>] = queues[s],
         NEW G, G = [q \in SlotSet |-> IF q[1] = k THEN <<>> ELSE F[q]]
  PROVE  IdsIn(queues) \subseteq BufferIds /\ Placed(G, unused \cup IdsIn(queues))
  <1> DEFINE C == {q \in SlotSet : q[1] = k}
             K == IdsAt(F, C)
  <1>1. \A s \in Streams : <<k, s>> \in C  BY DEF SlotSet
  <1>2. \A q \in C : q[2] \in Streams /\ q = <<k, q[2]>>  BY DEF SlotSet
  <1>3. Clears(F, G, C)  BY DEF Clears
  <1> HIDE DEF C
  <1>4. K = IdsIn(queues)
    <2>1. ASSUME NEW s \in Streams, NEW i \in DOMAIN queues[s] PROVE queues[s][i].id \in K
      <3>1. <<k, s>> \in C /\ F[<<k, s>>] = queues[s]  BY <1>1
      <3> QED BY <3>1 DEF IdsAt
    <2>2. ASSUME NEW q \in C, NEW i \in DOMAIN F[q] PROVE F[q][i].id \in IdsIn(queues)
      <3>1. q[2] \in Streams /\ F[q] = queues[q[2]]  BY <1>2
      <3> QED BY <3>1 DEF IdsIn
    <2>3. K \subseteq IdsIn(queues)  BY <2>2 DEF IdsAt
    <2>4. IdsIn(queues) \subseteq K
      <3> HIDE DEF K
      <3> QED BY <2>1 DEF IdsIn
    <2> QED BY <2>3, <2>4
  <1>5. K \subseteq BufferIds /\ Placed(G, unused \cup K)  BY <1>3, ClearPlaced
  <1> QED BY <1>4, <1>5

LEMMA FreeAccounted ==
  ASSUME BufferTypes, Accounted, NEW h \in Handles, FreeOutput(h), UNCHANGED enqueued_buffers
  PROVE  BufferTypes' /\ Accounted'
  <1> DEFINE E == enqueued_buffers
             O == output_buffers
             F == Store(E, O)
             G == Store(E, O')
             K == IdsIn(O[h])
  <1>1. O' = [O EXCEPT ![h] = [s \in Streams |-> <<>>]] /\ E' = E /\ free' = free \cup K
    BY DEF FreeOutput, Free
  <1>2. /\ E \in [Streams -> Seq(Buffer)] /\ O \in [Handles -> [Streams -> Seq(Delivered)]]
        /\ free \subseteq BufferIds
    BY DEF BufferTypes
  <1>3. O' \in [Handles -> [Streams -> Seq(Delivered)]]
    <2>1. [s \in Streams |-> <<>>] \in [Streams -> Seq(Delivered)]  OBVIOUS
    <2> QED BY <2>1, <1>1, <1>2
  <1>4. h \in 0 .. MAX_HANDLES /\ h # 0  BY ManagerAssumption DEF Handles
  <1>5. DOMAIN F = SlotSet /\ \A s \in Streams : F[<<h, s>>] = O[h][s]  BY <1>4 DEF Store, SlotSet
  <1>6. G = [q \in SlotSet |-> IF q[1] = h THEN <<>> ELSE F[q]]
    <2>1. \A q \in SlotSet : q[1] = 0 \/ q[1] \in Handles  BY ManagerAssumption DEF SlotSet, Handles
    <2>2. \A q \in SlotSet : q[2] \in Streams  BY DEF SlotSet
    <2>3. \A s \in Streams : O'[h][s] = <<>>  BY <1>1, <1>2
    <2>4. \A g \in Handles : g # h => O'[g] = O[g]  BY <1>1, <1>2
    <2> HIDE DEF E, O
    <2>5. \A q \in SlotSet : G[q] = IF q[1] = h THEN <<>> ELSE F[q]
      BY <2>1, <2>2, <2>3, <2>4, <1>4 DEF Store
    <2> QED BY <2>5 DEF Store
  <1>7. Placed(F, free)  BY DEF Accounted
  <1> HIDE DEF E, O, F, G, K
  <1>8. K \subseteq BufferIds /\ Placed(G, free \cup K)  BY <1>4, <1>5, <1>6, <1>7, ClearRow DEF K
  <1> QED BY <1>1, <1>2, <1>3, <1>8 DEF BufferTypes, Accounted, E, O, G

(* The buffers that are still enqueued, and those of some handles. *)
Slot(H) == {q \in SlotSet : q[1] = 0 \/ q[1] \in H}
Emptied(O, H) == [h \in Handles |-> IF h \in H THEN [s \in Streams |-> <<>>] ELSE O[h]]
HeldBy(O, H) == UNION {IdsIn(O[h]) : h \in H}

LEMMA SlotIds ==
  ASSUME NEW E, NEW O, NEW H \in SUBSET Handles
  PROVE  IdsAt(Store(E, O), Slot(H)) = IdsIn(E) \cup HeldBy(O, H)
  <1> DEFINE F == Store(E, O)
             K == IdsAt(F, Slot(H))
  <1>0. \A h \in Handles : h \in 0 .. MAX_HANDLES /\ h # 0  BY ManagerAssumption DEF Handles
  <1>1. ASSUME NEW s \in Streams
        PROVE  <<0, s>> \in Slot(H) /\ F[<<0, s>>] = E[s]
    BY ManagerAssumption DEF Slot, SlotSet, Store
  <1>2. ASSUME NEW h \in H, NEW s \in Streams
        PROVE  <<h, s>> \in Slot(H) /\ F[<<h, s>>] = O[h][s]
    BY <1>0 DEF Slot, SlotSet, Store
  <1>3. ASSUME NEW q \in Slot(H)
        PROVE  q[2] \in Streams /\ (F[q] = E[q[2]] \/ \E h \in H : F[q] = O[h][q[2]])
    BY DEF Slot, SlotSet, Store
  <1> HIDE DEF F
  <1>4. ASSUME NEW s \in Streams, NEW i \in DOMAIN E[s] PROVE E[s][i].id \in K
    <2>1. <<0, s>> \in Slot(H) /\ F[<<0, s>>] = E[s]  BY <1>1
    <2> QED BY <2>1 DEF IdsAt
  <1>5. ASSUME NEW h \in H, NEW s \in Streams, NEW i \in DOMAIN O[h][s] PROVE O[h][s][i].id \in K
    <2>1. <<h, s>> \in Slot(H) /\ F[<<h, s>>] = O[h][s]  BY <1>2
    <2> QED BY <2>1 DEF IdsAt
  <1>6. ASSUME NEW q \in Slot(H), NEW i \in DOMAIN F[q]
        PROVE  F[q][i].id \in IdsIn(E) \cup HeldBy(O, H)
    <2>1. q[2] \in Streams  BY <1>3
    <2>2. CASE F[q] = E[q[2]]  BY <2>1, <2>2 DEF IdsIn
    <2>3. CASE \E h \in H : F[q] = O[h][q[2]]
      <3>1. PICK h \in H : F[q] = O[h][q[2]]  BY <2>3
      <3>2. F[q][i].id \in IdsIn(O[h])  BY <2>1, <3>1 DEF IdsIn
      <3> QED BY <3>2 DEF HeldBy
    <2> QED BY <1>3, <2>2, <2>3
  <1>7. K \subseteq IdsIn(E) \cup HeldBy(O, H)  BY <1>6 DEF IdsAt
  <1> HIDE DEF K
  <1>8. IdsIn(E) \subseteq K  BY <1>4 DEF IdsIn
  <1>9. \A h \in H : IdsIn(O[h]) \subseteq K  BY <1>5 DEF IdsIn
  <1>10. HeldBy(O, H) \subseteq K  BY <1>9 DEF HeldBy
  <1> QED BY <1>7, <1>8, <1>10 DEF K, F

LEMMA EmptiedStore ==
  ASSUME NEW E, NEW O, NEW H \in SUBSET Handles, NEW E2, E2 = [s \in Streams |-> <<>>]
  PROVE  Clears(Store(E, O), Store(E2, Emptied(O, H)), Slot(H))
  <1>1. \A q \in SlotSet : q[2] \in Streams /\ (q[1] = 0 \/ q[1] \in Handles)
    BY ManagerAssumption DEF SlotSet, Handles
  <1>2. \A h \in H : h # 0  BY ManagerAssumption DEF Handles
  <1>3. Slot(H) \subseteq SlotSet /\ DOMAIN Store(E, O) = SlotSet  BY DEF Slot, Store
  <1>4. ASSUME NEW q \in SlotSet
        PROVE  Store(E2, Emptied(O, H))[q] = IF q \in Slot(H) THEN <<>> ELSE Store(E, O)[q]
    <2>1. CASE q[1] = 0  BY <2>1, <1>1 DEF Store, Slot
    <2>2. CASE q[1] # 0 /\ q[1] \in H  BY <2>2, <1>1 DEF Store, Slot, Emptied
    <2>3. CASE q[1] # 0 /\ q[1] \notin H  BY <2>3, <1>1 DEF Store, Slot, Emptied
    <2> QED BY <2>1, <2>2, <2>3
  <1> QED BY <1>3, <1>4 DEF Clears, Store

Orphans == {h \in dropped : Waiting(h, enqueued_handles)}

LEMMA RestartAccounted ==
  ASSUME BufferTypes, HandleTypes, Accounted, Restart
  PROVE  BufferTypes' /\ Accounted'
  <1> DEFINE E == enqueued_buffers
             O == output_buffers
             K == IdsIn(E) \cup HeldBy(O, Orphans)
  <1>1. /\ E' = [s \in Streams |-> <<>>]
        /\ O' = Emptied(O, Orphans)
        /\ free' = free \cup K
    BY DEF Restart, Free, Orphans, Emptied, HeldBy
  <1>2. /\ O \in [Handles -> [Streams -> Seq(Delivered)]] /\ free \subseteq BufferIds
        /\ Orphans \in SUBSET Handles
    BY DEF BufferTypes, HandleTypes, Orphans
  <1> HIDE DEF K
  <1>3. E' \in [Streams -> Seq(Buffer)]  BY <1>1
  <1>4. O' \in [Handles -> [Streams -> Seq(Delivered)]]
    <2>1. [s \in Streams |-> <<>>] \in [Streams -> Seq(Delivered)]  OBVIOUS
    <2> QED BY <1>1, <1>2, <2>1 DEF Emptied
  <1>5. Clears(Store(E, O), Store(E', O'), Slot(Orphans))
    <2> DEFINE E2 == E'
               H == Orphans
    <2>1. E2 = [s \in Streams |-> <<>>] /\ H \in SUBSET Handles /\ O' = Emptied(O, H)  BY <1>1, <1>2
    <2> HIDE DEF E, O, E2, H
    <2>2. Clears(Store(E, O), Store(E2, Emptied(O, H)), Slot(H))  BY <2>1, EmptiedStore
    <2> QED BY <2>1, <2>2 DEF E2, H
  <1>6. IdsAt(Store(E, O), Slot(Orphans)) = K  BY <1>2, SlotIds DEF K
  <1> HIDE DEF E, O
  <1>7. Placed(Store(E, O), free)  BY DEF Accounted, E, O
  <1>8. K \subseteq BufferIds /\ Placed(Store(E', O'), free \cup K)
    <2> DEFINE F == Store(E, O)
               G == Store(E', O')
               C == Slot(Orphans)
    <2>1. Placed(F, free) /\ Clears(F, G, C) /\ IdsAt(F, C) = K  BY <1>5, <1>6, <1>7
    <2> HIDE DEF F, G, C
    <2>2. IdsAt(F, C) \subseteq BufferIds /\ Placed(G, free \cup IdsAt(F, C))  BY <2>1, ClearPlaced
    <2> QED BY <2>1, <2>2 DEF G
  <1> QED BY <1>1, <1>2, <1>3, <1>4, <1>8 DEF BufferTypes, Accounted, E, O

----
(* The critical section tells whose turn it is.                             *)

LEMMA CsWho ==
  ASSUME CsTypes
  PROVE  /\ cs.who = "acquire" => Acquiring
         /\ cs.who = "acquire_size" => AcquiringSize
         /\ cs.who = "interrupt" => Interrupted
  <1>1. CASE cs = Nobody  BY <1>1 DEF Nobody
  <1>2. CASE Acquiring  BY <1>2 DEF Acquiring
  <1>3. CASE AcquiringSize  BY <1>3 DEF AcquiringSize
  <1>4. CASE Interrupted  BY <1>4 DEF Interrupted
  <1> QED BY <1>1, <1>2, <1>3, <1>4 DEF CsTypes

LEMMA HandleInUse ==
  ASSUME HandleTypes, NEW h \in 1 .. num_handles
  PROVE  h \in Handles
  BY ManagerAssumption DEF HandleTypes, Handles

(* The stream acquire_output_handle is at. *)
LEMMA AcquireFacts ==
  ASSUME HandleTypes, CsTypes, cs.who = "acquire"
  PROVE  /\ cs.handle \in Handles /\ cs.handle <= num_handles
         /\ cs.by \in 0 .. MAX_HANDLES
         /\ Lowest(cs.left) \in cs.left /\ Lowest(cs.left) \in Streams
         /\ Lowest(cs.left) \in active_streams[cs.handle]
  <1>1. Acquiring  BY CsWho
  <1>2. /\ cs.handle \in 1 .. num_handles /\ cs.by \in 0 .. MAX_HANDLES
        /\ cs.left \subseteq Streams /\ cs.left # {} /\ cs.left \subseteq active_streams[cs.handle]
    BY <1>1 DEF Acquiring
  <1>3. cs.handle \in Handles /\ cs.handle <= num_handles
    <2>1. cs.handle \in Handles  BY <1>2, HandleInUse
    <2>2. cs.handle <= num_handles  BY <1>2, ManagerAssumption DEF HandleTypes
    <2> QED BY <2>1, <2>2
  <1>4. IsFiniteSet(cs.left) /\ cs.left \subseteq Nat
    <2>1. IsFiniteSet(cs.left)  BY <1>2, ManagerAssumption, FS_Subset
    <2>2. cs.left \subseteq Nat  BY <1>2, ManagerAssumption
    <2> QED BY <2>1, <2>2
  <1>5. Lowest(cs.left) \in cs.left
    <2> DEFINE S == cs.left
    <2>1. IsFiniteSet(S) /\ S # {} /\ S \subseteq Nat  BY <1>2, <1>4
    <2> HIDE DEF S
    <2>2. Lowest(S) \in S  BY <2>1, LowestExists
    <2> QED BY <2>2 DEF S
  <1> QED BY <1>2, <1>3, <1>5

LEMMA SizeFacts ==
  ASSUME HandleTypes, CsTypes, cs.who = "acquire_size"
  PROVE  /\ cs.handle \in Handles /\ cs.handle <= num_handles
         /\ cs.stream \in Streams /\ active_streams[cs.handle] = {cs.stream}
         /\ cs.size \in Nat /\ cs.remaining \in Nat \ {0}
  <1>1. AcquiringSize  BY CsWho
  <1>2. /\ cs.handle \in 1 .. num_handles /\ cs.stream \in Streams
        /\ active_streams[cs.handle] = {cs.stream}
        /\ cs.size \in Nat /\ cs.remaining \in Nat \ {0}
    BY <1>1 DEF AcquiringSize
  <1>3. cs.handle \in Handles  BY <1>2, HandleInUse
  <1>4. cs.handle <= num_handles  BY <1>2, ManagerAssumption DEF HandleTypes
  <1> QED BY <1>2, <1>3, <1>4

LEMMA InterruptFacts ==
  ASSUME HandleTypes, CsTypes, cs.who = "interrupt"
  PROVE  /\ cs.stream \in Streams /\ cs.last \in BOOLEAN /\ cs.destroy \in 0 .. MAX_HANDLES
         /\ cs.destroy # 0 => cs.destroy \in Handles
         /\ cs.last => enqueued_handles[cs.stream] # <<>>
  <1>1. Interrupted  BY CsWho
  <1>2. /\ cs.stream \in Streams /\ cs.last \in BOOLEAN /\ cs.destroy \in 0 .. MAX_HANDLES
        /\ cs.last => enqueued_handles[cs.stream] # <<>>
    BY <1>1 DEF Interrupted
  <1>3. cs.destroy # 0 => cs.destroy \in Handles  BY <1>2, ManagerAssumption DEF Handles
  <1> QED BY <1>2, <1>3

----
(* Every step keeps every buffer in one place.                              *)

LEMMA BufferStep ==
  ASSUME Types, Accounted, [Next]_vars
  PROVE  BufferTypes' /\ Accounted'
  <1> USE DEF Types
  <1>1. CASE FlushBuffers  BY <1>1, SameBuffers DEF FlushBuffers, handleVars
  <1>2. CASE Acquire  BY <1>2, SameBuffers DEF Acquire, BeginAcquire
  <1>3. CASE AcquireStream
    <2>1. UNCHANGED output_buffers  BY <1>3 DEF AcquireStream
    <2>2. CASE EnqueueBuffer(Lowest(cs.left), CAPACITY)
      <3>1. Lowest(cs.left) \in Streams /\ CAPACITY \in Nat
        BY <1>3, AcquireFacts, ManagerAssumption DEF AcquireStream
      <3> QED BY <2>1, <2>2, <3>1, EnqueueAccounted
    <2>3. CASE UNCHANGED <<enqueued_buffers, free, fpga_buffers>>  BY <2>1, <2>3, SameBuffers
    <2> QED BY <1>3, <2>2, <2>3 DEF AcquireStream
  <1>4. CASE AcquireSize  BY <1>4, SameBuffers DEF AcquireSize, BeginAcquireSize
  <1>5. CASE AcquireChunk
    <2> DEFINE chunk == IF cs.remaining < MAX_CAPACITY THEN cs.remaining ELSE MAX_CAPACITY
    <2>1. EnqueueBuffer(cs.stream, chunk) /\ UNCHANGED output_buffers  BY <1>5 DEF AcquireChunk
    <2>2. cs.stream \in Streams /\ cs.remaining \in Nat  BY <1>5, SizeFacts DEF AcquireChunk
    <2>3. chunk \in Nat  BY <2>2, ManagerAssumption
    <2> HIDE DEF chunk
    <2> QED BY <2>1, <2>2, <2>3, EnqueueAccounted
  <1>6. CASE HandleInterrupt  BY <1>6, MoveAccounted
  <1>7. CASE MarkDone  BY <1>7, SameBuffers DEF MarkDone
  <1>8. CASE DestroyHandle
    <2>1. cs.destroy \in Handles  BY <1>8, InterruptFacts DEF DestroyHandle
    <2>2. FreeOutput(cs.destroy) /\ UNCHANGED enqueued_buffers  BY <1>8 DEF DestroyHandle
    <2> QED BY <2>1, <2>2, FreeAccounted
  <1>9. CASE TopUp
    <2>1. UNCHANGED output_buffers  BY <1>9 DEF TopUp, handleVars
    <2>2. CASE EnqueueBuffer(cs.stream, CAPACITY)
      <3>1. cs.stream \in Streams /\ CAPACITY \in Nat
        BY <1>9, InterruptFacts, ManagerAssumption DEF TopUp
      <3> QED BY <2>1, <2>2, <3>1, EnqueueAccounted
    <2>3. CASE UNCHANGED <<enqueued_buffers, free, fpga_buffers>>  BY <2>1, <2>3, SameBuffers
    <2> QED BY <1>9, <2>2, <2>3 DEF TopUp
  <1>10. CASE AllocationFails  BY <1>10, SameBuffers DEF AllocationFails
  <1>11. CASE CallbackAcquires  BY <1>11, SameBuffers DEF CallbackAcquires, BeginAcquire
  <1>12. CASE CallbackEnds  BY <1>12, SameBuffers DEF CallbackEnds, Callback
  <1>13. CASE ReadOutput  BY <1>13, ReadAccounted DEF ReadOutput
  <1>14. CASE Drop
    <2>1. PICK h \in Handles : DropHandle(h)  BY <1>14 DEF Drop
    <2>2. UNCHANGED enqueued_buffers  BY <2>1 DEF DropHandle
    <2>3. CASE FreeOutput(h)  BY <2>2, <2>3, FreeAccounted
    <2>4. CASE UNCHANGED <<free, memory, output_buffers>>  BY <2>2, <2>4, SameBuffers
    <2> QED BY <2>1, <2>3, <2>4 DEF DropHandle
  <1>15. CASE Restart  BY <1>15, RestartAccounted
  <1>16. CASE Fpga  BY <1>16, SameBuffers DEF Fpga, FpgaOutput, FpgaEmptyOutput, handleVars
  <1>17. CASE UNCHANGED vars  BY <1>17, SameBuffers DEF vars, handleVars
  <1> QED
    BY <1>1, <1>2, <1>3, <1>4, <1>5, <1>6, <1>7, <1>8, <1>9, <1>10, <1>11, <1>12, <1>13,
       <1>14, <1>15, <1>16, <1>17 DEF Next

----
(* Every step keeps the types of the handles.                               *)

LEMMA SameHandles ==
  ASSUME HandleTypes, UNCHANGED <<num_handles, enqueued_handles, active_streams, finished_streams,
                                  callback_thread, dropped, state>>
  PROVE  HandleTypes'
  BY DEF HandleTypes

LEMMA AddCallbackType ==
  ASSUME callback_thread \in [Handles -> {"none", "idle", "running"}], NEW h, NEW by, AddCallback(h, by)
  PROVE  callback_thread' \in [Handles -> {"none", "idle", "running"}]
  BY DEF AddCallback, Calls

(* An acquisition by the application or a callback creates a handle. *)
LEMMA NewHandle ==
  ASSUME HandleTypes, num_handles < MAX_HANDLES, num_handles' = num_handles + 1,
         NEW mask \in SUBSET Streams,
         active_streams' = [active_streams EXCEPT ![num_handles + 1] = mask],
         UNCHANGED <<enqueued_handles, finished_streams, callback_thread, dropped, state>>
  PROVE  HandleTypes'
  <1>1. num_handles' \in 0 .. MAX_HANDLES  BY ManagerAssumption DEF HandleTypes
  <1>2. active_streams' \in [Handles -> SUBSET Streams]  BY DEF HandleTypes
  <1> QED BY <1>1, <1>2 DEF HandleTypes

LEMMA EnqueueHandleType ==
  ASSUME NEW E \in [Streams -> Seq(Handles)], NEW s \in Streams, NEW h \in Handles
  PROVE  [E EXCEPT ![s] = Append(@, h)] \in [Streams -> Seq(Handles)]
  <1>1. Append(E[s], h) \in Seq(Handles)  OBVIOUS
  <1> QED BY <1>1

LEMMA PopHandleType ==
  ASSUME NEW E \in [Streams -> Seq(Handles)], NEW s \in Streams, E[s] # <<>>
  PROVE  [E EXCEPT ![s] = Tail(@)] \in [Streams -> Seq(Handles)] /\ Head(E[s]) \in Handles
  <1>1. Tail(E[s]) \in Seq(Handles) /\ Head(E[s]) \in Handles  OBVIOUS
  <1> QED BY <1>1

LEMMA HandleStep ==
  ASSUME Types, [Next]_vars
  PROVE  HandleTypes'
  <1> USE DEF Types
  <1>0. enqueued_handles \in [Streams -> Seq(Handles)]  BY DEF HandleTypes
  <1>1. CASE FlushBuffers
    <2>1. state' \in States  BY <1>1 DEF FlushBuffers, States
    <2> QED BY <1>1, <2>1 DEF FlushBuffers, handleVars, HandleTypes
  <1>2. CASE Acquire
    <2>1. PICK mask \in (SUBSET Managed) \ {{}} : BeginAcquire(mask, 0)  BY <1>2 DEF Acquire
    <2>2. mask \in SUBSET Streams  BY <2>1, ManagerAssumption
    <2> QED BY <2>1, <2>2, NewHandle DEF BeginAcquire
  <1>3. CASE AcquireStream
    <2>1. UNCHANGED <<num_handles, active_streams, finished_streams, dropped, state>>
      BY <1>3 DEF AcquireStream
    <2>2. /\ cs.handle \in Handles /\ cs.by \in 0 .. MAX_HANDLES /\ Lowest(cs.left) \in Streams
      BY <1>3, AcquireFacts DEF AcquireStream
    <2>3. enqueued_handles' \in [Streams -> Seq(Handles)]
      <3>1. \/ UNCHANGED enqueued_handles
            \/ enqueued_handles' = [enqueued_handles EXCEPT ![Lowest(cs.left)] = Append(@, cs.handle)]
        BY <1>3 DEF AcquireStream
      <3> DEFINE s == Lowest(cs.left)
                 h == cs.handle
      <3>2. s \in Streams /\ h \in Handles  BY <2>2
      <3> HIDE DEF s, h
      <3>3. [enqueued_handles EXCEPT ![s] = Append(@, h)] \in [Streams -> Seq(Handles)]
        BY <3>2, <1>0, EnqueueHandleType
      <3> QED BY <3>1, <3>3, <1>0 DEF s, h
    <2>4. callback_thread' \in [Handles -> {"none", "idle", "running"}]
      <3>1. UNCHANGED callback_thread \/ AddCallback(cs.handle, cs.by)  BY <1>3 DEF AcquireStream
      <3>2. callback_thread \in [Handles -> {"none", "idle", "running"}]  BY DEF HandleTypes
      <3>3. AddCallback(cs.handle, cs.by) => callback_thread' \in [Handles -> {"none", "idle", "running"}]
        BY <3>2, AddCallbackType
      <3> QED BY <3>1, <3>2, <3>3
    <2> QED BY <2>1, <2>3, <2>4 DEF HandleTypes
  <1>4. CASE AcquireSize
    <2>1. PICK s \in Streams \ Managed, size \in Sizes : BeginAcquireSize(s, size)
      BY <1>4 DEF AcquireSize
    <2>2. {s} \in SUBSET Streams  OBVIOUS
    <2> QED BY <2>1, <2>2, NewHandle DEF BeginAcquireSize
  <1>5. CASE AcquireChunk
    <2>1. UNCHANGED <<num_handles, active_streams, finished_streams, dropped, state>>
      BY <1>5 DEF AcquireChunk
    <2>2. cs.handle \in Handles /\ cs.stream \in Streams  BY <1>5, SizeFacts DEF AcquireChunk
    <2>3. enqueued_handles' = [enqueued_handles EXCEPT ![cs.stream] = Append(@, cs.handle)]
      BY <1>5 DEF AcquireChunk
    <2>4. enqueued_handles' \in [Streams -> Seq(Handles)]  BY <2>2, <2>3, <1>0, EnqueueHandleType
    <2>5. callback_thread' \in [Handles -> {"none", "idle", "running"}]
      <3>1. UNCHANGED callback_thread \/ AddCallback(cs.handle, 0)  BY <1>5 DEF AcquireChunk
      <3>2. callback_thread \in [Handles -> {"none", "idle", "running"}]  BY DEF HandleTypes
      <3>3. AddCallback(cs.handle, 0) => callback_thread' \in [Handles -> {"none", "idle", "running"}]
        BY <3>2, AddCallbackType
      <3> QED BY <3>1, <3>2, <3>3
    <2> QED BY <2>1, <2>4, <2>5 DEF HandleTypes
  <1>6. CASE HandleInterrupt  BY <1>6, SameHandles DEF HandleInterrupt
  <1>7. CASE MarkDone
    <2> DEFINE s == cs.stream
               h == Head(enqueued_handles[s])
    <2>1. s \in Streams /\ enqueued_handles[s] # <<>>  BY <1>7, InterruptFacts DEF MarkDone
    <2>2. /\ finished_streams' = [finished_streams EXCEPT ![h] = @ \cup {s}]
          /\ callback_thread' = [callback_thread EXCEPT ![h] = IF @ = "none" THEN @ ELSE "running"]
          /\ enqueued_handles' = [enqueued_handles EXCEPT ![s] = Tail(@)]
          /\ UNCHANGED <<num_handles, active_streams, dropped, state>>
      BY <1>7 DEF MarkDone, PopHandle
    <2>3. enqueued_handles' \in [Streams -> Seq(Handles)] /\ h \in Handles
      BY <2>1, <2>2, <1>0, PopHandleType
    <2> HIDE DEF h, s
    <2>4. finished_streams' \in [Handles -> SUBSET Streams]  BY <2>1, <2>2, <2>3 DEF HandleTypes
    <2>5. callback_thread' \in [Handles -> {"none", "idle", "running"}]
      BY <2>2, <2>3 DEF HandleTypes
    <2> QED BY <2>2, <2>3, <2>4, <2>5 DEF HandleTypes
  <1>8. CASE DestroyHandle  BY <1>8, SameHandles DEF DestroyHandle
  <1>9. CASE TopUp  BY <1>9, SameHandles DEF TopUp, handleVars
  <1>10. CASE AllocationFails
    <2>1. state' \in States  BY <1>10 DEF AllocationFails, States, HandleTypes
    <2>2. /\ UNCHANGED <<num_handles, enqueued_handles, active_streams, finished_streams, callback_thread>>
          /\ dropped' = dropped \/ (cs.who # "interrupt" /\ dropped' = dropped \cup {cs.handle})
          /\ cs.who \in {"acquire", "acquire_size", "interrupt"}
      BY <1>10 DEF AllocationFails
    <2>3. cs.who # "interrupt" => cs.handle \in Handles  BY <2>2, AcquireFacts, SizeFacts
    <2>4. dropped' \subseteq Handles  BY <2>2, <2>3 DEF HandleTypes
    <2> QED BY <2>1, <2>2, <2>4 DEF HandleTypes
  <1>11. CASE CallbackAcquires
    <2>1. PICK h \in Handles : BeginAcquire(Managed, h)  BY <1>11 DEF CallbackAcquires
    <2>2. Managed \in SUBSET Streams  BY ManagerAssumption
    <2> QED BY <2>1, <2>2, NewHandle DEF BeginAcquire
  <1>12. CASE CallbackEnds
    <2>1. PICK h \in Handles : Callback(h)  BY <1>12 DEF CallbackEnds
    <2>2. callback_thread' \in [Handles -> {"none", "idle", "running"}]
      BY <2>1 DEF Callback, HandleTypes
    <2> QED BY <2>1, <2>2 DEF Callback, HandleTypes
  <1>13. CASE ReadOutput  BY <1>13, SameHandles DEF ReadOutput, Read
  <1>14. CASE Drop
    <2>1. PICK h \in Handles : DropHandle(h)  BY <1>14 DEF Drop
    <2>2. dropped' \subseteq Handles  BY <2>1 DEF DropHandle, HandleTypes
    <2> QED BY <2>1, <2>2 DEF DropHandle, HandleTypes
  <1>15. CASE Restart
    <2>1. state' \in States /\ enqueued_handles' \in [Streams -> Seq(Handles)]
      BY <1>15 DEF Restart, States
    <2> QED BY <1>15, <2>1 DEF Restart, HandleTypes
  <1>16. CASE Fpga  BY <1>16, SameHandles DEF Fpga, FpgaOutput, FpgaEmptyOutput, handleVars
  <1>17. CASE UNCHANGED vars  BY <1>17, SameHandles DEF vars, handleVars
  <1> QED
    BY <1>1, <1>2, <1>3, <1>4, <1>5, <1>6, <1>7, <1>8, <1>9, <1>10, <1>11, <1>12, <1>13,
       <1>14, <1>15, <1>16, <1>17 DEF Next

----
(* Every step keeps the handles that wait on a stream active for it.        *)

(* queue holds handles up to n that are active for s. *)
Active(queue, s, n, A) == \A i \in DOMAIN queue : queue[i] <= n /\ s \in A[queue[i]]

LEMMA AppendActive ==
  ASSUME NEW queue \in Seq(Handles), NEW s, NEW n, NEW A, Active(queue, s, n, A),
         NEW h \in Handles, h <= n, s \in A[h]
  PROVE  Active(Append(queue, h), s, n, A)
  BY DEF Active

LEMMA TailActive ==
  ASSUME NEW queue \in Seq(Handles), queue # <<>>, NEW s, NEW n, NEW A, Active(queue, s, n, A)
  PROVE  Active(Tail(queue), s, n, A) /\ Head(queue) <= n /\ s \in A[Head(queue)]
  <1>1. 1 \in DOMAIN queue /\ Head(queue) = queue[1]  OBVIOUS
  <1>2. \A i \in DOMAIN Tail(queue) : i + 1 \in DOMAIN queue /\ Tail(queue)[i] = queue[i + 1]
    OBVIOUS
  <1> QED BY <1>1, <1>2 DEF Active

Finished == \A h \in Handles : /\ finished_streams[h] \subseteq active_streams[h]
                               /\ h > num_handles => finished_streams[h] = {}

LEMMA HandlesActiveParts ==
  HandlesActive <=> /\ \A s \in Streams : Active(enqueued_handles[s], s, num_handles, active_streams)
                    /\ Finished
  BY DEF HandlesActive, Active, Finished

LEMMA SameActive ==
  ASSUME HandlesActive,
         UNCHANGED <<num_handles, enqueued_handles, active_streams, finished_streams>>
  PROVE  HandlesActive'
  BY DEF HandlesActive

LEMMA NewHandleActive ==
  ASSUME HandleTypes, HandlesActive, num_handles < MAX_HANDLES, num_handles' = num_handles + 1,
         NEW mask \in SUBSET Streams,
         active_streams' = [active_streams EXCEPT ![num_handles + 1] = mask],
         UNCHANGED <<enqueued_handles, finished_streams>>
  PROVE  HandlesActive'
  <1>1. num_handles \in Nat /\ \A h \in Handles : h \in Nat
    BY ManagerAssumption DEF HandleTypes, Handles
  <1>2. \A h \in Handles : h <= num_handles => active_streams'[h] = active_streams[h]
    BY <1>1 DEF HandleTypes
  <1>3. \A s \in Streams : \A i \in DOMAIN enqueued_handles[s] : enqueued_handles[s][i] \in Handles
    BY DEF HandleTypes
  <1>4. \A s \in Streams : Active(enqueued_handles[s], s, num_handles', active_streams')
    BY <1>1, <1>2, <1>3 DEF Active, HandlesActive
  <1>5. ASSUME NEW h \in Handles
        PROVE  /\ finished_streams[h] \subseteq active_streams'[h]
               /\ h > num_handles' => finished_streams[h] = {}
    <2>1. CASE h <= num_handles  BY <2>1, <1>1, <1>2 DEF HandlesActive
    <2>2. CASE h > num_handles  BY <2>2, <1>1 DEF HandlesActive
    <2> QED BY <2>1, <2>2, <1>1
  <1>6. /\ \A s \in Streams : \A i \in DOMAIN enqueued_handles[s] :
             /\ enqueued_handles[s][i] <= num_handles'
             /\ s \in active_streams'[enqueued_handles[s][i]]
    BY <1>4 DEF Active
  <1> QED BY <1>5, <1>6 DEF HandlesActive

(* A handle that is enqueued on a stream it is active for. *)
LEMMA EnqueueActive ==
  ASSUME HandleTypes, HandlesActive, NEW s \in Streams, NEW h \in Handles, h <= num_handles,
         s \in active_streams[h],
         enqueued_handles' = [enqueued_handles EXCEPT ![s] = Append(@, h)],
         UNCHANGED <<num_handles, active_streams, finished_streams>>
  PROVE  HandlesActive'
  <1>1. enqueued_handles \in [Streams -> Seq(Handles)]  BY DEF HandleTypes
  <1>2. \A t \in Streams : Active(enqueued_handles[t], t, num_handles, active_streams)
    BY HandlesActiveParts
  <1>3. Active(Append(enqueued_handles[s], h), s, num_handles, active_streams)
    BY <1>1, <1>2, AppendActive
  <1>4. /\ enqueued_handles'[s] = Append(enqueued_handles[s], h)
        /\ \A t \in Streams \ {s} : enqueued_handles'[t] = enqueued_handles[t]
    BY <1>1
  <1>5. \A t \in Streams : Active(enqueued_handles'[t], t, num_handles, active_streams)
    BY <1>2, <1>3, <1>4
  <1> QED BY <1>5 DEF HandlesActive, Active

LEMMA ActiveStep ==
  ASSUME Types, [Next]_vars
  PROVE  HandlesActive'
  <1> USE DEF Types
  <1>1. CASE FlushBuffers  BY <1>1, SameActive DEF FlushBuffers, handleVars
  <1>2. CASE Acquire
    <2>1. PICK mask \in (SUBSET Managed) \ {{}} : BeginAcquire(mask, 0)  BY <1>2 DEF Acquire
    <2>2. mask \in SUBSET Streams  BY <2>1, ManagerAssumption
    <2> QED BY <2>1, <2>2, NewHandleActive DEF BeginAcquire
  <1>3. CASE AcquireStream
    <2>1. UNCHANGED <<num_handles, active_streams, finished_streams>>  BY <1>3 DEF AcquireStream
    <2>2. /\ cs.handle \in Handles /\ cs.handle <= num_handles /\ Lowest(cs.left) \in Streams
          /\ Lowest(cs.left) \in active_streams[cs.handle]
      BY <1>3, AcquireFacts DEF AcquireStream
    <2>3. \/ UNCHANGED enqueued_handles
          \/ enqueued_handles' = [enqueued_handles EXCEPT ![Lowest(cs.left)] = Append(@, cs.handle)]
      BY <1>3 DEF AcquireStream
    <2> QED BY <2>1, <2>2, <2>3, SameActive, EnqueueActive
  <1>4. CASE AcquireSize
    <2>1. PICK s \in Streams \ Managed, size \in Sizes : BeginAcquireSize(s, size)
      BY <1>4 DEF AcquireSize
    <2>2. {s} \in SUBSET Streams  OBVIOUS
    <2> QED BY <2>1, <2>2, NewHandleActive DEF BeginAcquireSize
  <1>5. CASE AcquireChunk
    <2>1. UNCHANGED <<num_handles, active_streams, finished_streams>>  BY <1>5 DEF AcquireChunk
    <2>2. /\ cs.handle \in Handles /\ cs.handle <= num_handles /\ cs.stream \in Streams
          /\ cs.stream \in active_streams[cs.handle]
      BY <1>5, SizeFacts DEF AcquireChunk
    <2>3. enqueued_handles' = [enqueued_handles EXCEPT ![cs.stream] = Append(@, cs.handle)]
      BY <1>5 DEF AcquireChunk
    <2> QED BY <2>1, <2>2, <2>3, EnqueueActive
  <1>6. CASE HandleInterrupt  BY <1>6, SameActive DEF HandleInterrupt
  <1>7. CASE MarkDone
    <2> DEFINE s == cs.stream
               h == Head(enqueued_handles[s])
               n == num_handles
               A == active_streams
    <2>1. s \in Streams /\ enqueued_handles[s] # <<>> /\ enqueued_handles[s] \in Seq(Handles)
      BY <1>7, InterruptFacts DEF MarkDone, HandleTypes
    <2>2. /\ finished_streams' = [finished_streams EXCEPT ![h] = @ \cup {s}]
          /\ enqueued_handles' = [enqueued_handles EXCEPT ![s] = Tail(@)]
          /\ UNCHANGED <<num_handles, active_streams>>
      BY <1>7 DEF MarkDone, PopHandle
    <2>3. \A t \in Streams : Active(enqueued_handles[t], t, n, A)  BY HandlesActiveParts
    <2>4. h \in Handles  BY <2>1
    <2>5. n \in Nat /\ \A g \in Handles : g \in Nat  BY ManagerAssumption DEF HandleTypes, Handles
    <2>6. /\ enqueued_handles'[s] = Tail(enqueued_handles[s])
          /\ \A t \in Streams \ {s} : enqueued_handles'[t] = enqueued_handles[t]
      BY <2>1, <2>2 DEF HandleTypes
    <2>7. /\ finished_streams'[h] = finished_streams[h] \cup {s}
          /\ \A g \in Handles \ {h} : finished_streams'[g] = finished_streams[g]
      BY <2>2, <2>4 DEF HandleTypes
    <2>8. /\ Active(Tail(enqueued_handles[s]), s, n, A)
          /\ h <= n /\ s \in A[h]
      <3> HIDE DEF n, A
      <3>1. Active(enqueued_handles[s], s, n, A)  BY <2>1, <2>3
      <3> HIDE DEF s
      <3> QED BY <3>1, <2>1, TailActive
    <2> HIDE DEF h, s, n, A
    <2>9. \A t \in Streams : Active(enqueued_handles'[t], t, n, A)  BY <2>1, <2>3, <2>6, <2>8
    <2>10. \A g \in Handles : /\ finished_streams'[g] \subseteq A[g]
                              /\ g > n => finished_streams'[g] = {}
      <3>1. \A g \in Handles : /\ finished_streams[g] \subseteq A[g]
                               /\ g > n => finished_streams[g] = {}
        BY DEF HandlesActive, A, n
      <3> QED BY <3>1, <2>4, <2>5, <2>7, <2>8
    <2> QED BY <2>2, <2>9, <2>10 DEF HandlesActive, Active, n, A
  <1>8. CASE DestroyHandle  BY <1>8, SameActive DEF DestroyHandle
  <1>9. CASE TopUp  BY <1>9, SameActive DEF TopUp, handleVars
  <1>10. CASE AllocationFails  BY <1>10, SameActive DEF AllocationFails
  <1>11. CASE CallbackAcquires
    <2>1. PICK h \in Handles : BeginAcquire(Managed, h)  BY <1>11 DEF CallbackAcquires
    <2>2. Managed \in SUBSET Streams  BY ManagerAssumption
    <2> QED BY <2>1, <2>2, NewHandleActive DEF BeginAcquire
  <1>12. CASE CallbackEnds  BY <1>12, SameActive DEF CallbackEnds, Callback
  <1>13. CASE ReadOutput  BY <1>13, SameActive DEF ReadOutput, Read
  <1>14. CASE Drop  BY <1>14, SameActive DEF Drop, DropHandle
  <1>15. CASE Restart
    <2>1. \A s \in Streams : enqueued_handles'[s] = <<>>  BY <1>15 DEF Restart
    <2>2. UNCHANGED <<num_handles, active_streams, finished_streams>>  BY <1>15 DEF Restart
    <2>3. \A s \in Streams : DOMAIN enqueued_handles'[s] = {}  BY <2>1
    <2> QED BY <2>2, <2>3 DEF HandlesActive
  <1>16. CASE Fpga  BY <1>16, SameActive DEF Fpga, FpgaOutput, FpgaEmptyOutput, handleVars
  <1>17. CASE UNCHANGED vars  BY <1>17, SameActive DEF vars, handleVars
  <1> QED
    BY <1>1, <1>2, <1>3, <1>4, <1>5, <1>6, <1>7, <1>8, <1>9, <1>10, <1>11, <1>12, <1>13,
       <1>14, <1>15, <1>16, <1>17 DEF Next

----
(* Every step keeps the types of the FPGA's state.                          *)

LEMMA SameFpga ==
  ASSUME FpgaTypes, UNCHANGED <<fpga_buffers, jobs, interrupts, consumes>>
  PROVE  FpgaTypes'
  BY DEF FpgaTypes

(* The design starts with lengths that are numbers. *)
LEMMA StartTypes ==
  ASSUME FpgaTypes, NEW h \in Handles, active_streams[h] \subseteq Streams,
         NEW lengths, \A s \in active_streams[h] : lengths[s] \in Nat, StartDesign(h, lengths)
  PROVE  jobs' \in [Streams -> Seq(Job)]
  <1>1. jobs \in [Streams -> Seq(Job)]  BY DEF FpgaTypes
  <1>2. ASSUME NEW s \in Streams PROVE jobs'[s] \in Seq(Job)
    <2>1. CASE s \notin active_streams[h]  BY <2>1, <1>1 DEF StartDesign
    <2>2. CASE s \in active_streams[h]
      <3> DEFINE job == [handle |-> h, len |-> lengths[s], done |-> 0]
      <3>1. job \in Job
        <4>1. lengths[s] \in Nat  BY <2>2
        <4> QED BY <4>1 DEF Job
      <3>2. jobs'[s] = Append(jobs[s], job)  BY <2>2 DEF StartDesign
      <3> HIDE DEF job
      <3> QED BY <3>1, <3>2, <1>1
    <2> QED BY <2>1, <2>2
  <1>3. jobs' = [s \in Streams |-> jobs'[s]]  BY DEF StartDesign
  <1> QED BY <1>2, <1>3

LEMMA EnqueueFpga ==
  ASSUME Types, Accounted, NEW s \in Streams, NEW capacity \in Nat, EnqueueBuffer(s, capacity),
         UNCHANGED output_buffers
  PROVE  fpga_buffers' \in [Streams -> Seq(Buffer)]
  <1>1. PICK b \in Buffer : fpga_buffers' = [fpga_buffers EXCEPT ![s] = Append(@, b)]
    BY EnqueueAccounted DEF Types
  <1>2. fpga_buffers \in [Streams -> Seq(Buffer)]  BY DEF Types, FpgaTypes
  <1>3. Append(fpga_buffers[s], b) \in Seq(Buffer)  BY <1>2
  <1> QED BY <1>1, <1>2, <1>3

LEMMA OutputTypes ==
  ASSUME FpgaTypes, NEW s \in Streams, FpgaOutput(s)
  PROVE  FpgaTypes'
  <1> DEFINE job == Head(jobs[s])
             buffer == Head(fpga_buffers[s])
             left == job.len - job.done
             bytes == IF left < buffer.capacity THEN left ELSE buffer.capacity
             job2 == [job EXCEPT !.done = @ + bytes]
             i == [stream |-> s, bytes |-> bytes, last |-> (bytes = left)]
  <1>1. /\ jobs \in [Streams -> Seq(Job)] /\ fpga_buffers \in [Streams -> Seq(Buffer)]
        /\ interrupts \in Seq(Notification) /\ consumes \in BOOLEAN
    BY DEF FpgaTypes
  <1>2. /\ jobs[s] # <<>> /\ fpga_buffers[s] # <<>> /\ job.len > 0
        /\ jobs' = [jobs EXCEPT ![s] = IF bytes = left THEN Tail(@) ELSE <<job2>> \o Tail(@)]
        /\ interrupts' = Append(interrupts, i)
        /\ fpga_buffers' = [fpga_buffers EXCEPT ![s] = Tail(@)]
        /\ UNCHANGED consumes
    BY DEF FpgaOutput, Interrupt
  <1>3. job \in Job /\ buffer \in Buffer  BY <1>1, <1>2
  <1>4. job \in [handle : Handles, len : Nat, done : Nat] /\ job.done < job.len
    BY <1>2, <1>3 DEF Job
  <1>5. left \in Nat /\ bytes \in Nat /\ bytes <= left /\ buffer.capacity \in Nat
    BY <1>3, <1>4 DEF Buffer
  <1>6. i \in Notification  BY <1>5 DEF Notification
  <1>7. Tail(jobs[s]) \in Seq(Job) /\ Tail(fpga_buffers[s]) \in Seq(Buffer)  BY <1>1, <1>2
  <1>8. ASSUME bytes # left PROVE job2 \in Job
    <2>1. job2 = [handle |-> job.handle, len |-> job.len, done |-> job.done + bytes]  BY <1>4
    <2>2. job.done + bytes \in Nat /\ job.done + bytes < job.len  BY <1>4, <1>5, <1>8
    <2> QED BY <2>1, <2>2, <1>4 DEF Job
  <1> HIDE DEF job, buffer, left, bytes, job2, i
  <1>9. jobs' \in [Streams -> Seq(Job)]
    <2>1. CASE bytes = left  BY <2>1, <1>1, <1>2, <1>7
    <2>2. CASE bytes # left
      <3>1. <<job2>> \o Tail(jobs[s]) \in Seq(Job)  BY <2>2, <1>7, <1>8
      <3> QED BY <2>2, <3>1, <1>1, <1>2
    <2> QED BY <2>1, <2>2
  <1>10. interrupts' \in Seq(Notification)  BY <1>1, <1>2, <1>6
  <1>11. fpga_buffers' \in [Streams -> Seq(Buffer)]  BY <1>1, <1>2, <1>7
  <1> QED BY <1>1, <1>2, <1>9, <1>10, <1>11 DEF FpgaTypes

LEMMA EmptyOutputTypes ==
  ASSUME FpgaTypes, NEW s \in Streams, FpgaEmptyOutput(s)
  PROVE  FpgaTypes'
  <1> DEFINE i == [stream |-> s, bytes |-> 0, last |-> TRUE]
  <1>1. /\ jobs \in [Streams -> Seq(Job)] /\ fpga_buffers \in [Streams -> Seq(Buffer)]
        /\ interrupts \in Seq(Notification) /\ consumes \in BOOLEAN
    BY DEF FpgaTypes
  <1>2. /\ jobs[s] # <<>> /\ fpga_buffers[s] # <<>>
        /\ jobs' = [jobs EXCEPT ![s] = Tail(@)]
        /\ interrupts' = Append(interrupts, i)
        /\ \/ fpga_buffers' = [fpga_buffers EXCEPT ![s] = Tail(@)]
           \/ fpga_buffers' = fpga_buffers
        /\ UNCHANGED consumes
    BY DEF FpgaEmptyOutput, Interrupt
  <1>3. i \in Notification  BY DEF Notification
  <1>4. Tail(jobs[s]) \in Seq(Job) /\ Tail(fpga_buffers[s]) \in Seq(Buffer)  BY <1>1, <1>2
  <1> HIDE DEF i
  <1>5. jobs' \in [Streams -> Seq(Job)]  BY <1>1, <1>2, <1>4
  <1>6. interrupts' \in Seq(Notification)  BY <1>1, <1>2, <1>3
  <1>7. fpga_buffers' \in [Streams -> Seq(Buffer)]  BY <1>1, <1>2, <1>4
  <1> QED BY <1>1, <1>2, <1>5, <1>6, <1>7 DEF FpgaTypes

LEMMA FpgaStep ==
  ASSUME Types, Accounted, [Next]_vars
  PROVE  FpgaTypes'
  <1>0. FpgaTypes /\ HandleTypes /\ CsTypes  BY DEF Types
  <1>1. CASE FlushBuffers
    <2>1. fpga_buffers' \in [Streams -> Seq(Buffer)]  BY <1>1 DEF FlushBuffers, Flushed
    <2> QED BY <1>0, <1>1, <2>1 DEF FlushBuffers, fpgaVars, FpgaTypes
  <1>2. CASE Acquire  BY <1>0, <1>2, SameFpga DEF Acquire, BeginAcquire, fpgaVars
  <1>3. CASE AcquireStream
    <2>1. UNCHANGED <<interrupts, consumes, output_buffers>>  BY <1>3 DEF AcquireStream
    <2>2. CASE ~ HasBuffers(Lowest(cs.left))
      <3>1. EnqueueBuffer(Lowest(cs.left), CAPACITY) /\ UNCHANGED jobs
        BY <1>3, <2>2 DEF AcquireStream
      <3>2. Lowest(cs.left) \in Streams /\ CAPACITY \in Nat
        BY <1>0, <1>3, AcquireFacts, ManagerAssumption DEF AcquireStream
      <3>3. fpga_buffers' \in [Streams -> Seq(Buffer)]  BY <2>1, <3>1, <3>2, EnqueueFpga
      <3> QED BY <1>0, <2>1, <3>1, <3>3 DEF FpgaTypes
    <2>3. CASE HasBuffers(Lowest(cs.left))
      <3>1. UNCHANGED fpga_buffers  BY <1>3, <2>3 DEF AcquireStream
      <3>2. jobs' \in [Streams -> Seq(Job)]
        <4>1. CASE UNCHANGED jobs  BY <1>0, <4>1 DEF FpgaTypes
        <4>2. CASE \E lengths \in [active_streams[cs.handle] -> Lengths] :
                     StartDesign(cs.handle, lengths)
          <5>1. PICK lengths \in [active_streams[cs.handle] -> Lengths] :
                  StartDesign(cs.handle, lengths)
            BY <4>2
          <5>2. cs.handle \in Handles  BY <1>0, <1>3, AcquireFacts DEF AcquireStream
          <5>3. active_streams[cs.handle] \subseteq Streams  BY <1>0, <5>2 DEF HandleTypes
          <5>4. \A s \in active_streams[cs.handle] : lengths[s] \in Nat  BY ManagerAssumption
          <5> QED BY <1>0, <5>1, <5>2, <5>3, <5>4, StartTypes
        <4> QED BY <1>3, <2>3, <4>1, <4>2 DEF AcquireStream
      <3> QED BY <1>0, <2>1, <3>1, <3>2 DEF FpgaTypes
    <2> QED BY <2>2, <2>3
  <1>4. CASE AcquireSize  BY <1>0, <1>4, SameFpga DEF AcquireSize, BeginAcquireSize, fpgaVars
  <1>5. CASE AcquireChunk
    <2> DEFINE chunk == IF cs.remaining < MAX_CAPACITY THEN cs.remaining ELSE MAX_CAPACITY
               lengths == [s \in {cs.stream} |-> cs.size]
    <2>1. EnqueueBuffer(cs.stream, chunk) /\ UNCHANGED <<interrupts, consumes, output_buffers>>
      BY <1>5 DEF AcquireChunk
    <2>2. /\ cs.handle \in Handles /\ active_streams[cs.handle] = {cs.stream}
          /\ cs.stream \in Streams /\ cs.remaining \in Nat /\ cs.size \in Nat
      BY <1>0, <1>5, SizeFacts DEF AcquireChunk
    <2>3. chunk \in Nat  BY <2>2, ManagerAssumption
    <2>4. UNCHANGED jobs \/ StartDesign(cs.handle, lengths)  BY <1>5 DEF AcquireChunk
    <2>5. \A s \in active_streams[cs.handle] : lengths[s] \in Nat  BY <2>2
    <2>6. active_streams[cs.handle] \subseteq Streams  BY <2>2
    <2> HIDE DEF chunk, lengths
    <2>7. fpga_buffers' \in [Streams -> Seq(Buffer)]  BY <2>1, <2>2, <2>3, EnqueueFpga
    <2>8. jobs' \in [Streams -> Seq(Job)]
      <3>1. CASE UNCHANGED jobs  BY <1>0, <3>1 DEF FpgaTypes
      <3>2. CASE StartDesign(cs.handle, lengths)  BY <1>0, <3>2, <2>2, <2>5, <2>6, StartTypes
      <3> QED BY <2>4, <3>1, <3>2
    <2> QED BY <1>0, <2>1, <2>7, <2>8 DEF FpgaTypes
  <1>6. CASE HandleInterrupt
    <2>1. interrupts' \in Seq(Notification)  BY <1>0, <1>6 DEF HandleInterrupt, FpgaTypes
    <2> QED BY <1>0, <1>6, <2>1 DEF HandleInterrupt, FpgaTypes
  <1>7. CASE MarkDone  BY <1>0, <1>7, SameFpga DEF MarkDone, fpgaVars
  <1>8. CASE DestroyHandle  BY <1>0, <1>8, SameFpga DEF DestroyHandle
  <1>9. CASE TopUp
    <2>1. UNCHANGED <<interrupts, consumes, jobs, output_buffers>>
      BY <1>9 DEF TopUp, fpgaVars, handleVars
    <2>2. CASE EnqueueBuffer(cs.stream, CAPACITY)
      <3>1. cs.stream \in Streams /\ CAPACITY \in Nat
        BY <1>0, <1>9, InterruptFacts, ManagerAssumption DEF TopUp
      <3>2. fpga_buffers' \in [Streams -> Seq(Buffer)]  BY <2>1, <2>2, <3>1, EnqueueFpga
      <3> QED BY <1>0, <2>1, <3>2 DEF FpgaTypes
    <2>3. CASE UNCHANGED fpga_buffers  BY <1>0, <2>1, <2>3, SameFpga
    <2> QED BY <1>9, <2>2, <2>3 DEF TopUp
  <1>10. CASE AllocationFails  BY <1>0, <1>10, SameFpga DEF AllocationFails, fpgaVars
  <1>11. CASE CallbackAcquires
    BY <1>0, <1>11, SameFpga DEF CallbackAcquires, BeginAcquire, fpgaVars
  <1>12. CASE CallbackEnds  BY <1>0, <1>12, SameFpga DEF CallbackEnds, Callback, fpgaVars
  <1>13. CASE ReadOutput  BY <1>0, <1>13, SameFpga DEF ReadOutput, Read
  <1>14. CASE Drop  BY <1>0, <1>14, SameFpga DEF Drop, DropHandle
  <1>15. CASE Restart  BY <1>0, <1>15, SameFpga DEF Restart
  <1>16. CASE Fpga  BY <1>0, <1>16, OutputTypes, EmptyOutputTypes DEF Fpga
  <1>17. CASE UNCHANGED vars  BY <1>0, <1>17, SameFpga DEF vars, fpgaVars
  <1> QED
    BY <1>1, <1>2, <1>3, <1>4, <1>5, <1>6, <1>7, <1>8, <1>9, <1>10, <1>11, <1>12, <1>13,
       <1>14, <1>15, <1>16, <1>17 DEF Next

----
(* Every step keeps the types of the critical section.                      *)

LEMMA SameCs ==
  ASSUME CsTypes, UNCHANGED <<cs, num_handles, active_streams, enqueued_handles>>
  PROVE  CsTypes'
  BY DEF CsTypes, Acquiring, AcquiringSize, Interrupted

LEMMA LeavesCs ==
  ASSUME cs' = Nobody
  PROVE  CsTypes'
  BY DEF CsTypes

LEMMA BeginAcquireCs ==
  ASSUME HandleTypes, NEW mask \in (SUBSET Streams) \ {{}}, NEW by \in 0 .. MAX_HANDLES,
         BeginAcquire(mask, by)
  PROVE  CsTypes'
  <1> DEFINE h == num_handles + 1
  <1>1. /\ cs' = [who |-> "acquire", handle |-> h, left |-> mask, by |-> by]
        /\ num_handles' = h /\ num_handles < MAX_HANDLES
        /\ active_streams' = [active_streams EXCEPT ![h] = mask]
    BY DEF BeginAcquire
  <1>2. num_handles \in Nat /\ h \in Handles /\ h \in 1 .. h
    BY <1>1, ManagerAssumption DEF HandleTypes, Handles
  <1> HIDE DEF h
  <1>3. active_streams'[h] = mask  BY <1>1, <1>2 DEF HandleTypes
  <1>4. cs'.left = mask /\ cs'.handle = h  BY <1>1
  <1>5. cs' \in [who : {"acquire"}, handle : 1 .. num_handles', left : SUBSET Streams,
                 by : 0 .. MAX_HANDLES]
    BY <1>1, <1>2
  <1> QED BY <1>3, <1>4, <1>5 DEF CsTypes, Acquiring

LEMMA BeginSizeCs ==
  ASSUME HandleTypes, NEW s \in Streams, NEW size \in Nat \ {0}, BeginAcquireSize(s, size)
  PROVE  CsTypes'
  <1> DEFINE h == num_handles + 1
  <1>1. /\ cs' = [who |-> "acquire_size", handle |-> h, stream |-> s, size |-> size,
                  remaining |-> size]
        /\ num_handles' = h /\ num_handles < MAX_HANDLES
        /\ active_streams' = [active_streams EXCEPT ![h] = {s}]
    BY DEF BeginAcquireSize
  <1>2. num_handles \in Nat /\ h \in Handles /\ h \in 1 .. h
    BY <1>1, ManagerAssumption DEF HandleTypes, Handles
  <1> HIDE DEF h
  <1>3. active_streams'[h] = {s}  BY <1>1, <1>2 DEF HandleTypes
  <1>4. cs'.stream = s /\ cs'.handle = h  BY <1>1
  <1>5. cs' \in [who : {"acquire_size"}, handle : 1 .. num_handles', stream : Streams,
                 size : Nat, remaining : Nat \ {0}]
    BY <1>1, <1>2
  <1> QED BY <1>3, <1>4, <1>5 DEF CsTypes, AcquiringSize

LEMMA CsStep ==
  ASSUME Types, [Next]_vars
  PROVE  CsTypes'
  <1>0. HandleTypes /\ CsTypes  BY DEF Types
  <1>1. CASE FlushBuffers  BY <1>0, <1>1, SameCs DEF FlushBuffers, handleVars
  <1>2. CASE Acquire
    <2>1. PICK mask \in (SUBSET Managed) \ {{}} : BeginAcquire(mask, 0)  BY <1>2 DEF Acquire
    <2>2. mask \in (SUBSET Streams) \ {{}} /\ 0 \in 0 .. MAX_HANDLES  BY <2>1, ManagerAssumption
    <2> QED BY <1>0, <2>1, <2>2, BeginAcquireCs
  <1>3. CASE AcquireStream
    <2>1. Acquiring /\ UNCHANGED <<num_handles, active_streams>>
      BY <1>0, <1>3, CsWho DEF AcquireStream
    <2>2. CASE cs' = Nobody  BY <2>2, LeavesCs
    <2>3. CASE UNCHANGED cs  BY <2>1, <2>3 DEF CsTypes, Acquiring
    <2> DEFINE left == cs.left \ {Lowest(cs.left)}
    <2>4. CASE left # {} /\ cs' = [cs EXCEPT !.left = left]
      <3>1. cs \in [who : {"acquire"}, handle : 1 .. num_handles, left : SUBSET Streams,
                    by : 0 .. MAX_HANDLES]
        BY <2>1 DEF Acquiring
      <3>2. left \subseteq cs.left /\ cs.left \subseteq active_streams[cs.handle]
        BY <2>1 DEF Acquiring
      <3>3. left \in SUBSET Streams  BY <3>1, <3>2
      <3> HIDE DEF left
      <3>4. cs'.left = left /\ cs'.handle = cs.handle  BY <2>4, <3>1
      <3>5. cs' \in [who : {"acquire"}, handle : 1 .. num_handles, left : SUBSET Streams,
                     by : 0 .. MAX_HANDLES]
        BY <2>4, <3>1, <3>3
      <3> QED BY <2>1, <2>4, <3>2, <3>4, <3>5 DEF CsTypes, Acquiring
    <2> QED BY <1>3, <2>2, <2>3, <2>4 DEF AcquireStream
  <1>4. CASE AcquireSize
    <2>1. PICK s \in Streams \ Managed, size \in Sizes : BeginAcquireSize(s, size)
      BY <1>4 DEF AcquireSize
    <2>2. size \in Nat \ {0} /\ s \in Streams  BY <2>1, ManagerAssumption
    <2> QED BY <1>0, <2>1, <2>2, BeginSizeCs
  <1>5. CASE AcquireChunk
    <2> DEFINE chunk == IF cs.remaining < MAX_CAPACITY THEN cs.remaining ELSE MAX_CAPACITY
    <2>1. AcquiringSize /\ UNCHANGED <<num_handles, active_streams>>
      BY <1>0, <1>5, CsWho DEF AcquireChunk
    <2>2. CASE cs' = Nobody  BY <2>2, LeavesCs
    <2>3. CASE chunk < cs.remaining /\ cs' = [cs EXCEPT !.remaining = @ - chunk]
      <3> DEFINE remaining == cs.remaining - chunk
      <3>1. cs \in [who : {"acquire_size"}, handle : 1 .. num_handles, stream : Streams,
                    size : Nat, remaining : Nat \ {0}]
        BY <2>1 DEF AcquiringSize
      <3>2. cs.remaining \in Nat  BY <3>1
      <3>3. remaining \in Nat \ {0}  BY <2>3, <3>2, ManagerAssumption
      <3>4. cs' = [cs EXCEPT !.remaining = remaining]  BY <2>3
      <3> HIDE DEF chunk, remaining
      <3>5. cs'.handle = cs.handle /\ cs'.stream = cs.stream  BY <3>1, <3>4
      <3>6. cs' \in [who : {"acquire_size"}, handle : 1 .. num_handles, stream : Streams,
                     size : Nat, remaining : Nat \ {0}]
        BY <3>1, <3>3, <3>4
      <3> QED BY <2>1, <3>5, <3>6 DEF CsTypes, AcquiringSize
    <2> QED BY <1>5, <2>2, <2>3 DEF AcquireChunk
  <1>6. CASE HandleInterrupt
    <2> DEFINE i == Head(interrupts)
    <2>1. /\ cs' = [who |-> "interrupt", stream |-> i.stream, last |-> i.last, destroy |-> 0]
          /\ UNCHANGED enqueued_handles /\ enqueued_handles[i.stream] # <<>>
          /\ interrupts # <<>>
      BY <1>6 DEF HandleInterrupt, IsLast
    <2>2. i \in Notification  BY <2>1 DEF Types, FpgaTypes
    <2>3. i.stream \in Streams /\ i.last \in BOOLEAN  BY <2>2 DEF Notification
    <2> HIDE DEF i
    <2>4. 0 \in 0 .. MAX_HANDLES  BY ManagerAssumption
    <2>5. cs' \in [who : {"interrupt"}, stream : Streams, last : BOOLEAN, destroy : 0 .. MAX_HANDLES]
      BY <2>1, <2>3, <2>4
    <2>6. cs'.stream = i.stream  BY <2>1
    <2> QED BY <2>1, <2>5, <2>6 DEF CsTypes, Interrupted
  <1>7. CASE MarkDone
    <2> DEFINE h == Head(enqueued_handles[cs.stream])
               d == IF h \in dropped /\ ~Waiting(h, enqueued_handles') THEN h ELSE 0
    <2>1. cs' = [cs EXCEPT !.last = FALSE, !.destroy = d]  BY <1>7 DEF MarkDone
    <2>2. /\ cs.stream \in Streams /\ enqueued_handles[cs.stream] # <<>>
          /\ Interrupted
      BY <1>0, <1>7, InterruptFacts, CsWho DEF MarkDone
    <2>3. d \in 0 .. MAX_HANDLES
      <3>1. h \in Handles  BY <1>0, <2>2 DEF HandleTypes
      <3> QED BY <3>1, ManagerAssumption DEF Handles
    <2> HIDE DEF h, d
    <2>4. cs \in [who : {"interrupt"}, stream : Streams, last : BOOLEAN, destroy : 0 .. MAX_HANDLES]
      BY <2>2 DEF Interrupted
    <2>5. cs'.last = FALSE  BY <2>1, <2>4
    <2>6. cs' \in [who : {"interrupt"}, stream : Streams, last : BOOLEAN, destroy : 0 .. MAX_HANDLES]
      BY <2>1, <2>3, <2>4
    <2> QED BY <2>5, <2>6 DEF CsTypes, Interrupted
  <1>8. CASE DestroyHandle
    <2>1. cs' = [cs EXCEPT !.destroy = 0] /\ UNCHANGED enqueued_handles  BY <1>8 DEF DestroyHandle
    <2>2. Interrupted  BY <1>0, <1>8, CsWho DEF DestroyHandle
    <2>3. cs \in [who : {"interrupt"}, stream : Streams, last : BOOLEAN, destroy : 0 .. MAX_HANDLES]
      BY <2>2 DEF Interrupted
    <2>4. cs'.last = cs.last /\ cs'.stream = cs.stream  BY <2>1, <2>3
    <2>5. 0 \in 0 .. MAX_HANDLES  BY ManagerAssumption
    <2>6. cs' \in [who : {"interrupt"}, stream : Streams, last : BOOLEAN, destroy : 0 .. MAX_HANDLES]
      BY <2>1, <2>3, <2>5
    <2> QED BY <2>1, <2>2, <2>4, <2>6 DEF CsTypes, Interrupted
  <1>9. CASE TopUp
    <2>1. UNCHANGED <<num_handles, active_streams, enqueued_handles>>  BY <1>9 DEF TopUp, handleVars
    <2>2. UNCHANGED cs \/ cs' = Nobody  BY <1>9 DEF TopUp
    <2> QED BY <1>0, <2>1, <2>2, SameCs, LeavesCs
  <1>10. CASE AllocationFails  BY <1>10, LeavesCs DEF AllocationFails, Unlock
  <1>11. CASE CallbackAcquires
    <2>1. PICK h \in Handles : BeginAcquire(Managed, h)  BY <1>11 DEF CallbackAcquires
    <2>2. Managed \in (SUBSET Streams) \ {{}}  BY <1>11, ManagerAssumption DEF CallbackAcquires
    <2>3. h \in 0 .. MAX_HANDLES  BY ManagerAssumption DEF Handles
    <2> QED BY <1>0, <2>1, <2>2, <2>3, BeginAcquireCs
  <1>12. CASE CallbackEnds  BY <1>0, <1>12, SameCs DEF CallbackEnds, Callback
  <1>13. CASE ReadOutput  BY <1>0, <1>13, SameCs DEF ReadOutput, Read
  <1>14. CASE Drop  BY <1>0, <1>14, SameCs DEF Drop, DropHandle
  <1>15. CASE Restart  BY <1>15, LeavesCs DEF Restart
  <1>16. CASE Fpga  BY <1>0, <1>16, SameCs DEF Fpga, FpgaOutput, FpgaEmptyOutput, handleVars
  <1>17. CASE UNCHANGED vars  BY <1>0, <1>17, SameCs DEF vars, handleVars
  <1> QED
    BY <1>1, <1>2, <1>3, <1>4, <1>5, <1>6, <1>7, <1>8, <1>9, <1>10, <1>11, <1>12, <1>13,
       <1>14, <1>15, <1>16, <1>17 DEF Next

----
(* Every step keeps the types of what is remembered of failed allocations.  *)

LEMMA SameFail ==
  ASSUME FailTypes, UNCHANGED failVars
  PROVE  FailTypes'
  BY DEF FailTypes, failVars

LEMMA NewFail ==
  ASSUME FailTypes, NEW mask \in SUBSET Streams, UNCHANGED spoilt,
         misled' = [misled EXCEPT ![num_handles + 1] = mask \cap spoilt]
  PROVE  FailTypes'
  BY DEF FailTypes

LEMMA FailStep ==
  ASSUME Types, [Next]_vars
  PROVE  FailTypes'
  <1>0. FailTypes  BY DEF Types
  <1>1. CASE FlushBuffers  BY <1>0, <1>1, SameFail DEF FlushBuffers, histVars
  <1>2. CASE Acquire
    <2>1. PICK mask \in (SUBSET Managed) \ {{}} : BeginAcquire(mask, 0)  BY <1>2 DEF Acquire
    <2>2. mask \in SUBSET Streams  BY <2>1, ManagerAssumption
    <2> QED BY <1>0, <2>1, <2>2, NewFail DEF BeginAcquire
  <1>3. CASE AcquireStream  BY <1>0, <1>3, SameFail DEF AcquireStream
  <1>4. CASE AcquireSize
    <2>1. PICK s \in Streams \ Managed, size \in Sizes : BeginAcquireSize(s, size)
      BY <1>4 DEF AcquireSize
    <2>2. {s} \in SUBSET Streams  OBVIOUS
    <2> QED BY <1>0, <2>1, <2>2, NewFail DEF BeginAcquireSize
  <1>5. CASE AcquireChunk  BY <1>0, <1>5, SameFail DEF AcquireChunk
  <1>6. CASE HandleInterrupt  BY <1>0, <1>6, SameFail DEF HandleInterrupt, histVars
  <1>7. CASE MarkDone  BY <1>0, <1>7, SameFail DEF MarkDone, histVars
  <1>8. CASE DestroyHandle  BY <1>0, <1>8, SameFail DEF DestroyHandle, histVars
  <1>9. CASE TopUp  BY <1>0, <1>9, SameFail DEF TopUp, histVars
  <1>10. CASE AllocationFails  BY <1>0, <1>10 DEF AllocationFails, FailTypes
  <1>11. CASE CallbackAcquires
    <2>1. PICK h \in Handles : BeginAcquire(Managed, h)  BY <1>11 DEF CallbackAcquires
    <2>2. Managed \in SUBSET Streams  BY ManagerAssumption
    <2> QED BY <1>0, <2>1, <2>2, NewFail DEF BeginAcquire
  <1>12. CASE CallbackEnds  BY <1>0, <1>12, SameFail DEF CallbackEnds, Callback, histVars
  <1>13. CASE ReadOutput  BY <1>0, <1>13, SameFail DEF ReadOutput, Read
  <1>14. CASE Drop  BY <1>0, <1>14, SameFail DEF Drop, DropHandle, histVars
  <1>15. CASE Restart  BY <1>0, <1>15 DEF Restart, FailTypes
  <1>16. CASE Fpga  BY <1>0, <1>16, SameFail DEF Fpga, FpgaOutput, FpgaEmptyOutput, histVars
  <1>17. CASE UNCHANGED vars  BY <1>0, <1>17, SameFail DEF vars, histVars
  <1> QED
    BY <1>1, <1>2, <1>3, <1>4, <1>5, <1>6, <1>7, <1>8, <1>9, <1>10, <1>11, <1>12, <1>13,
       <1>14, <1>15, <1>16, <1>17 DEF Next

----
(* The theorems.                                                            *)

LEMMA InitInv == Init => IInv
  <1> SUFFICES ASSUME Init PROVE IInv  OBVIOUS
  <1>1. BufferTypes  BY DEF Init, BufferTypes
  <1>2. HandleTypes  BY ManagerAssumption DEF Init, HandleTypes, States
  <1>3. HandlesActive  BY DEF Init, HandlesActive
  <1>4. FpgaTypes  BY DEF Init, FpgaTypes
  <1>5. CsTypes  BY DEF Init, CsTypes
  <1>7. FailTypes  BY DEF Init, FailTypes
  <1>6. Accounted
    <2> DEFINE F == Store(enqueued_buffers, output_buffers)
    <2>1. DOMAIN F = SlotSet /\ free = BufferIds  BY DEF Store, Init
    <2>2. ASSUME NEW p \in SlotSet PROVE F[p] = <<>>
      <3>1. p[2] \in Streams /\ (p[1] = 0 \/ p[1] \in Handles)
        BY ManagerAssumption DEF SlotSet, Handles
      <3> QED BY <3>1 DEF Store, Init
    <2> HIDE DEF F
    <2>3. \A p \in SlotSet : DOMAIN F[p] = {}  BY <2>2
    <2>4. Inj(F)  BY <2>1, <2>3 DEF Inj
    <2>5. Ids(F) = {}  BY <2>1, <2>3, InIds
    <2> QED BY <2>1, <2>4, <2>5 DEF Accounted, Placed, F
  <1> QED BY <1>1, <1>2, <1>3, <1>4, <1>5, <1>6, <1>7 DEF IInv, Types

LEMMA NextInv == IInv /\ [Next]_vars => IInv'
  BY BufferStep, HandleStep, ActiveStep, FpgaStep, CsStep, FailStep DEF IInv, Types

LEMMA InductiveInvariant == SafeSpec => []IInv
  BY InitInv, NextInv, PTL DEF SafeSpec

(* Type correctness of the manager, for any number of streams, handles and  *)
(* buffers.                                                                 *)
THEOREM ManagerTypeCorrect == SafeSpec => []TypeOK
  <1>1. IInv => TypeOK
    <2> SUFFICES ASSUME Types PROVE TypeOK  BY DEF IInv
    <2>1. /\ enqueued_buffers \in [Streams -> Seq(Buffer)] /\ free \subseteq BufferIds
          /\ \A h \in Handles : \A s \in Streams :
               output_buffers[h][s] \in Seq([id : BufferIds, size : Nat \ {0}])
      BY DEF Types, BufferTypes, Delivered
    <2>2. /\ enqueued_handles \in [Streams -> Seq(Handles)] /\ num_handles \in 0 .. MAX_HANDLES
          /\ active_streams \in [Handles -> SUBSET Streams]
          /\ callback_thread \in [Handles -> {"none", "idle", "running"}] /\ dropped \subseteq Handles
          /\ state \in States
      BY DEF Types, HandleTypes
    <2>3. \A h \in Handles : finished_streams[h] \subseteq active_streams[h]
      BY DEF Types, HandlesActive
    <2>4. cs.who \in {"nobody", "acquire", "acquire_size", "interrupt"}
      BY DEF Types, CsTypes, Nobody, Acquiring, AcquiringSize, Interrupted
    <2>5. \A s \in Streams : \A i \in DOMAIN jobs[s] :
            jobs[s][i].done < jobs[s][i].len \/ jobs[s][i].len = 0
      <3>1. \A s \in Streams : \A i \in DOMAIN jobs[s] : jobs[s][i] \in Job  BY DEF Types, FpgaTypes
      <3> QED BY <3>1 DEF Job
    <2>6. \A i \in DOMAIN interrupts : interrupts[i].stream \in Streams
      <3>1. \A i \in DOMAIN interrupts : interrupts[i] \in Notification  BY DEF Types, FpgaTypes
      <3> QED BY <3>1 DEF Notification
    <2>7. fpga_buffers \in [Streams -> Seq(Buffer)] /\ consumes \in BOOLEAN  BY DEF Types, FpgaTypes
    <2>8. spoilt \subseteq Streams /\ misled \in [Handles -> SUBSET Streams]
      BY DEF Types, FailTypes
    <2> QED BY <2>1, <2>2, <2>3, <2>4, <2>5, <2>6, <2>7, <2>8 DEF TypeOK
  <1> QED BY <1>1, InductiveInvariant, PTL

(* A queue holds different buffers, so it is no longer than there are any. *)
LEMMA QueueBound ==
  ASSUME NEW R, NEW F \in [SlotSet -> Seq(R)], NEW unused, Placed(F, unused), NEW p \in SlotSet
  PROVE  DOMAIN F[p] \subseteq 1 .. Cardinality(BufferIds)
  <1> DEFINE n == Len(F[p])
             f == [i \in 1 .. n |-> F[p][i].id]
  <1>1. n \in Nat /\ DOMAIN F[p] = 1 .. n  OBVIOUS
  <1>2. \A i \in 1 .. n : F[p][i].id \in Ids(F)  BY <1>1, InIds
  <1>3. \A i, j \in 1 .. n : F[p][i].id = F[p][j].id => i = j  BY <1>1 DEF Placed, Inj
  <1>4. f \in Injection(1 .. n, BufferIds)
    <2>1. f \in [1 .. n -> BufferIds]  BY <1>2 DEF Placed
    <2>2. IsInjective(f)  BY <1>3 DEF IsInjective
    <2> QED BY <2>1, <2>2 DEF Injection
  <1> HIDE DEF f, n
  <1>5. Cardinality(1 .. n) <= Cardinality(BufferIds)  BY <1>4, ManagerAssumption, FS_Injection
  <1>6. Cardinality(1 .. n) = n  BY <1>1, FS_Interval
  <1>7. Cardinality(BufferIds) \in Nat  BY ManagerAssumption, FS_CardinalityType
  <1> QED BY <1>1, <1>5, <1>6, <1>7

(* The slots of row k are the given queues; where b is in them. *)
Row(F, k, queues) == \A s \in Streams : F[<<k, s>>] = queues[s]
IsPlace(F, k, b, x) ==
  \E s \in Streams : \E i \in DOMAIN F[<<k, s>>] : x = <<s, i>> /\ F[<<k, s>>][i].id = b

(* What Slots finds in a row of slots. *)
LEMMA SlotsIn ==
  ASSUME NEW R, NEW F \in [SlotSet -> Seq(R)], NEW unused, Placed(F, unused),
         NEW k \in 0 .. MAX_HANDLES, NEW queues, Row(F, k, queues), NEW b, NEW x
  PROVE  x \in Slots(b, queues) <=> IsPlace(F, k, b, x)
  <1>1. \A s \in Streams : <<k, s>> \in SlotSet  BY DEF SlotSet
  <1>2. \A s \in Streams : DOMAIN queues[s] \subseteq 1 .. Cardinality(BufferIds)
    BY <1>1, QueueBound DEF Row
  <1>3. ASSUME x \in Slots(b, queues) PROVE IsPlace(F, k, b, x)
    <2>1. x \in Streams \X (1 .. Cardinality(BufferIds))  BY <1>3 DEF Slots
    <2>2. x[2] \in DOMAIN queues[x[1]] /\ queues[x[1]][x[2]].id = b  BY <1>3 DEF Slots
    <2>3. x[1] \in Streams /\ x = <<x[1], x[2]>>  BY <2>1
    <2> QED BY <2>2, <2>3 DEF IsPlace, Row
  <1>4. ASSUME NEW s \in Streams, NEW i \in DOMAIN F[<<k, s>>], x = <<s, i>>,
               F[<<k, s>>][i].id = b
        PROVE  x \in Slots(b, queues)
    <2>1. x \in Streams \X (1 .. Cardinality(BufferIds)) /\ x[1] = s /\ x[2] = i
      BY <1>2, <1>4 DEF Row
    <2> QED BY <1>4, <2>1 DEF Slots, Row
  <1> QED BY <1>3, <1>4 DEF IsPlace

(* Every buffer is free or in one place, with the FPGA or in a handle, for  *)
(* any number of streams, handles and buffers: OutputBufferManager and       *)
(* OutputHandle leak no memory and free none twice.                          *)
THEOREM NoBufferLeaks == SafeSpec => []BuffersAccounted
  <1>1. IInv => BuffersAccounted
    <2> SUFFICES ASSUME BufferTypes, Accounted, NEW b \in BufferIds
                 PROVE  LET places == Slots(b, enqueued_buffers)
                              \cup UNION {{<<h, p>> : p \in Slots(b, output_buffers[h])} : h \in Handles}
                        IN IF b \in free THEN places = {} ELSE Cardinality(places) = 1
      BY DEF BuffersAccounted, IInv, Types
    <2> DEFINE E == enqueued_buffers
               O == output_buffers
               F == Store(E, O)
               R == Buffer \cup Delivered
               In(h) == Slots(b, O[h])
               Held == UNION {{<<h, p>> : p \in In(h)} : h \in Handles}
    <2>1. F \in [SlotSet -> Seq(R)]  BY StoreType DEF BufferTypes
    <2>2. Placed(F, free)  BY DEF Accounted
    <2>3. \A h \in Handles : h \in 0 .. MAX_HANDLES /\ h # 0  BY ManagerAssumption DEF Handles
    <2>4. Row(F, 0, E)  BY ManagerAssumption DEF Row, Store, SlotSet
    <2>5. \A h \in Handles : Row(F, h, O[h])  BY <2>3 DEF Row, Store, SlotSet
    <2>6. DOMAIN F = SlotSet  BY DEF Store
    <2>7. \A k \in 0 .. MAX_HANDLES, s \in Streams : <<k, s>> \in SlotSet  BY DEF SlotSet
    <2>8. 0 \in 0 .. MAX_HANDLES  BY ManagerAssumption
    <2> HIDE DEF E, O, F, R
    <2>9. \A x : x \in Slots(b, E) <=> IsPlace(F, 0, b, x)  BY <2>1, <2>2, <2>4, <2>8, SlotsIn
    <2>10. ASSUME NEW h \in Handles PROVE \A x : x \in In(h) <=> IsPlace(F, h, b, x)
      BY <2>1, <2>2, <2>3, <2>5, SlotsIn
    <2> HIDE DEF In
    <2>11. CASE b \in free
      <3>1. \A q \in SlotSet : \A i \in DOMAIN F[q] : F[q][i].id # b
        BY <2>2, <2>6, <2>11, InIds DEF Placed
      <3>2. ASSUME NEW k \in 0 .. MAX_HANDLES, NEW x PROVE ~ IsPlace(F, k, b, x)
        BY <3>1, <2>7 DEF IsPlace
      <3>3. Slots(b, E) = {} /\ \A h \in Handles : In(h) = {}
        <4>1. Slots(b, E) = {}  BY <3>2, <2>8, <2>9
        <4>2. ASSUME NEW h \in Handles PROVE In(h) = {}  BY <3>2, <2>3, <2>10
        <4> QED BY <4>1, <4>2
      <3>4. Held = {}  BY <3>3
      <3> QED BY <2>11, <3>3, <3>4 DEF E, O, In
    <2>12. CASE b \notin free
      <3>1. PICK q \in SlotSet : \E i \in DOMAIN F[q] : b = F[q][i].id
        BY <2>2, <2>6, <2>12, InIds DEF Placed
      <3>2. PICK n \in DOMAIN F[q] : b = F[q][n].id  BY <3>1
      <3> DEFINE k == q[1]
                 s == q[2]
      <3>3. k \in 0 .. MAX_HANDLES /\ s \in Streams /\ q = <<k, s>>  BY DEF SlotSet
      <3> HIDE DEF k, s
      <3>4. ASSUME NEW g \in 0 .. MAX_HANDLES, NEW t \in Streams, NEW j \in DOMAIN F[<<g, t>>],
                   F[<<g, t>>][j].id = b
            PROVE  g = k /\ t = s /\ j = n
        <4>1. <<g, t>> \in SlotSet  BY <2>7
        <4>2. Inj(F)  BY <2>2 DEF Placed
        <4>3. F[<<g, t>>][j].id = F[q][n].id  BY <3>2, <3>4
        <4>4. <<g, t>> = q /\ j = n  BY <2>6, <3>2, <4>1, <4>2, <4>3 DEF Inj
        <4> QED BY <3>3, <4>4
      <3>5. n \in DOMAIN F[<<k, s>>] /\ F[<<k, s>>][n].id = b  BY <3>2, <3>3
      <3>6. CASE k = 0
        <4>1. Slots(b, E) = {<<s, n>>}
          <5>1. \A x : IsPlace(F, 0, b, x) => x = <<s, n>>  BY <2>8, <3>4 DEF IsPlace
          <5>2. IsPlace(F, 0, b, <<s, n>>)  BY <3>3, <3>5, <3>6 DEF IsPlace
          <5>3. \A x : x \in Slots(b, E) <=> x = <<s, n>>  BY <2>9, <5>1, <5>2
          <5> QED BY <5>3
        <4>2. \A h \in Handles : In(h) = {}  BY <2>3, <2>10, <3>4, <3>6 DEF IsPlace
        <4>3. Held = {}  BY <4>2
        <4>4. Slots(b, E) \cup Held = {<<s, n>>}  BY <4>1, <4>3
        <4> HIDE DEF Held
        <4>5. Cardinality(Slots(b, E) \cup Held) = 1  BY <4>4, FS_Singleton
        <4> QED BY <2>12, <4>5 DEF E, O, In, Held
      <3>7. CASE k # 0
        <4>1. k \in Handles  BY <3>3, <3>7, ManagerAssumption DEF Handles
        <4>2. Slots(b, E) = {}  BY <2>8, <2>9, <3>4, <3>7 DEF IsPlace
        <4>3. In(k) = {<<s, n>>}
          <5>1. \A x : IsPlace(F, k, b, x) => x = <<s, n>>  BY <3>3, <3>4 DEF IsPlace
          <5>2. IsPlace(F, k, b, <<s, n>>)  BY <3>3, <3>5 DEF IsPlace
          <5>3. \A x : x \in In(k) <=> x = <<s, n>>  BY <2>10, <4>1, <5>1, <5>2
          <5> QED BY <5>3
        <4>4. \A h \in Handles : h # k => In(h) = {}  BY <2>3, <2>10, <3>4 DEF IsPlace
        <4>5. Held = {<<k, <<s, n>>>>}  BY <4>1, <4>3, <4>4
        <4>6. Slots(b, E) \cup Held = {<<k, <<s, n>>>>}  BY <4>2, <4>5
        <4> HIDE DEF Held
        <4>7. Cardinality(Slots(b, E) \cup Held) = 1  BY <4>6, FS_Singleton
        <4> QED BY <2>12, <4>7 DEF E, O, In, Held
      <3> QED BY <3>6, <3>7
    <2> QED BY <2>11, <2>12
  <1> QED BY <1>1, InductiveInvariant, PTL

----
(* Counting the interrupts under way.                                       *)

(* The positions up to k of a sequence that hold a member of M. *)
Hits(I, M, k) == {i \in 1 .. k : I[i] \in M}
Count(I, M, k) == Cardinality(Hits(I, M, k))
Total(I, M) == Count(I, M, Len(I))
Hit(x, M) == IF x \in M THEN 1 ELSE 0

LEMMA CountType ==
  ASSUME NEW I, NEW M, NEW k \in Nat
  PROVE  IsFiniteSet(Hits(I, M, k)) /\ Count(I, M, k) \in Nat
  <1>1. IsFiniteSet(1 .. k)  BY FS_Interval
  <1>2. Hits(I, M, k) \in SUBSET (1 .. k)  BY DEF Hits
  <1>3. IsFiniteSet(Hits(I, M, k))  BY <1>1, <1>2, FS_Subset
  <1> QED BY <1>3, FS_CardinalityType DEF Count

LEMMA CountZero ==
  ASSUME NEW I, NEW M
  PROVE  Count(I, M, 0) = 0
  <1>1. Hits(I, M, 0) = {}  BY DEF Hits
  <1> QED BY <1>1, FS_EmptySet DEF Count

LEMMA CountNext ==
  ASSUME NEW I, NEW M, NEW k \in Nat
  PROVE  Count(I, M, k + 1) = Count(I, M, k) + Hit(I[k + 1], M)
  <1>1. IsFiniteSet(Hits(I, M, k)) /\ Count(I, M, k) \in Nat  BY CountType
  <1>2. k + 1 \notin Hits(I, M, k)  BY DEF Hits
  <1>3. CASE I[k + 1] \in M
    <2>1. Hits(I, M, k + 1) = Hits(I, M, k) \cup {k + 1}  BY <1>3 DEF Hits
    <2>2. Cardinality(Hits(I, M, k + 1)) = Cardinality(Hits(I, M, k)) + 1
      BY <1>1, <1>2, <2>1, FS_AddElement
    <2> QED BY <1>3, <2>2 DEF Count, Hit
  <1>4. CASE I[k + 1] \notin M
    <2>1. Hits(I, M, k + 1) = Hits(I, M, k)  BY <1>4 DEF Hits
    <2> QED BY <1>1, <1>4, <2>1 DEF Count, Hit
  <1> QED BY <1>3, <1>4

LEMMA CountSame ==
  ASSUME NEW I, NEW J, NEW M, NEW k, \A i \in 1 .. k : J[i] = I[i]
  PROVE  Count(J, M, k) = Count(I, M, k)
  <1>1. Hits(J, M, k) = Hits(I, M, k)  BY DEF Hits
  <1> QED BY <1>1 DEF Count

(* J is I without its first element. *)
LEMMA CountShift ==
  ASSUME NEW I, NEW J, NEW M, NEW k \in Nat, \A i \in 1 .. k : J[i] = I[i + 1]
  PROVE  Count(I, M, k + 1) = Hit(I[1], M) + Count(J, M, k)
  <1> DEFINE S == Hits(J, M, k)
             T == Hits(I, M, k + 1) \ {1}
             f == [i \in S |-> i + 1]
  <1>1. IsFiniteSet(S) /\ IsFiniteSet(Hits(I, M, k + 1))  BY CountType
  <1>2. \A i \in S : i \in 1 .. k /\ I[i + 1] \in M  BY DEF Hits
  <1>3. \A i \in S : i + 1 \in T
    <2> SUFFICES ASSUME NEW i \in S PROVE i + 1 \in T  OBVIOUS
    <2>1. i \in 1 .. k /\ I[i + 1] \in M  BY <1>2
    <2>2. i + 1 \in 1 .. k + 1 /\ i + 1 # 1  BY <2>1
    <2> QED BY <2>1, <2>2 DEF Hits
  <1>4. ASSUME NEW t \in T PROVE \E i \in S : t = i + 1
    <2>1. t \in 2 .. k + 1 /\ I[t] \in M  BY DEF Hits
    <2>2. t - 1 \in 1 .. k /\ t = (t - 1) + 1  BY <2>1
    <2>3. t - 1 \in S  BY <2>1, <2>2 DEF Hits
    <2> QED BY <2>2, <2>3
  <1>5. f \in Bijection(S, T)
    <2>1. f \in [S -> T]  BY <1>3
    <2>2. \A i, j \in S : i + 1 = j + 1 => i = j  BY <1>2
    <2>3. f \in Injection(S, T)  BY <2>1, <2>2 DEF Injection, IsInjective
    <2>4. f \in Surjection(S, T)  BY <2>1, <1>4 DEF Surjection
    <2> QED BY <2>3, <2>4 DEF Bijection
  <1>6. Cardinality(T) = Cardinality(S)
    <2>1. ExistsBijection(S, T)  BY <1>5 DEF ExistsBijection
    <2> HIDE DEF S, T
    <2> QED BY <1>1, <2>1, FS_Bijection
  <1>7. 1 \in Hits(I, M, k + 1) <=> I[1] \in M  BY DEF Hits
  <1>8. Cardinality(T) = IF I[1] \in M THEN Count(I, M, k + 1) - 1 ELSE Count(I, M, k + 1)
    BY <1>1, <1>7, FS_RemoveElement DEF Count
  <1>9. Count(I, M, k + 1) \in Nat  BY CountType
  <1> HIDE DEF S, T
  <1>10. Count(J, M, k) = Cardinality(T)  BY <1>6 DEF Count, S
  <1> QED BY <1>8, <1>9, <1>10 DEF Hit

LEMMA TotalAppend ==
  ASSUME NEW R, NEW I \in Seq(R), NEW x \in R, NEW M
  PROVE  Total(Append(I, x), M) = Total(I, M) + Hit(x, M)
  <1> DEFINE J == Append(I, x)
             n == Len(I)
  <1>1. n \in Nat /\ Len(J) = n + 1 /\ J[n + 1] = x /\ \A i \in 1 .. n : J[i] = I[i]  OBVIOUS
  <1> HIDE DEF J, n
  <1>2. Count(J, M, n + 1) = Count(J, M, n) + Hit(x, M)  BY <1>1, CountNext
  <1>3. Count(J, M, n) = Count(I, M, n)  BY <1>1, CountSame
  <1> QED BY <1>1, <1>2, <1>3 DEF Total, J, n

LEMMA CountAppend ==
  ASSUME NEW R, NEW I \in Seq(R), NEW x \in R, NEW M, NEW k \in 0 .. Len(I)
  PROVE  Count(Append(I, x), M, k) = Count(I, M, k)
  <1> DEFINE J == Append(I, x)
  <1>1. \A i \in 1 .. k : J[i] = I[i]  OBVIOUS
  <1> HIDE DEF J
  <1>2. Count(J, M, k) = Count(I, M, k)  BY <1>1, CountSame
  <1> QED BY <1>2 DEF J

LEMMA TotalTail ==
  ASSUME NEW R, NEW I \in Seq(R), I # <<>>, NEW M
  PROVE  Total(I, M) = Hit(Head(I), M) + Total(Tail(I), M)
  <1> DEFINE J == Tail(I)
             n == Len(J)
  <1>1. n \in Nat /\ Len(I) = n + 1 /\ I[1] = Head(I) /\ \A i \in 1 .. n : J[i] = I[i + 1]  OBVIOUS
  <1> HIDE DEF J, n
  <1>2. Count(I, M, n + 1) = Hit(I[1], M) + Count(J, M, n)  BY <1>1, CountShift
  <1> QED BY <1>1, <1>2 DEF Total, J, n

LEMMA CountTail ==
  ASSUME NEW R, NEW I \in Seq(R), I # <<>>, NEW M, NEW k \in 0 .. Len(I) - 1
  PROVE  Count(I, M, k + 1) = Hit(Head(I), M) + Count(Tail(I), M, k)
  <1> DEFINE J == Tail(I)
  <1>1. k \in Nat /\ I[1] = Head(I) /\ \A i \in 1 .. k : J[i] = I[i + 1]  OBVIOUS
  <1> HIDE DEF J
  <1>2. Count(I, M, k + 1) = Hit(I[1], M) + Count(J, M, k)  BY <1>1, CountShift
  <1> QED BY <1>1, <1>2 DEF J

LEMMA TotalType ==
  ASSUME NEW R, NEW I \in Seq(R), NEW M
  PROVE  Total(I, M) \in Nat
  BY CountType DEF Total

LEMMA TotalEmpty ==
  ASSUME NEW I, I = <<>>, NEW M
  PROVE  Total(I, M) = 0
  <1>1. Len(I) = 0  OBVIOUS
  <1> QED BY <1>1, CountZero DEF Total

----
(* What the manager has enqueued and what the FPGA has.                     *)

(* B is what is left of E without its first u elements. *)
Matches(E, B, u) ==
  /\ Len(E) = u + Len(B)
  /\ \A j \in 1 .. Len(B) : E[u + j] = B[j]

LEMMA MatchAppend ==
  ASSUME NEW R, NEW E \in Seq(R), NEW B \in Seq(R), NEW u \in Nat, NEW x \in R, Matches(E, B, u)
  PROVE  Matches(Append(E, x), Append(B, x), u)
  <1> DEFINE E2 == Append(E, x)
             B2 == Append(B, x)
             m == Len(B)
  <1>1. /\ m \in Nat /\ Len(E) = u + m
        /\ Len(E2) = u + m + 1 /\ \A j \in 1 .. u + m : E2[j] = E[j]
        /\ E2[u + m + 1] = x
    BY DEF Matches
  <1>2. Len(B2) = m + 1 /\ B2[m + 1] = x /\ \A j \in 1 .. m : B2[j] = B[j]  OBVIOUS
  <1>3. \A j \in 1 .. m : E[u + j] = B[j]  BY DEF Matches
  <1> HIDE DEF E2, B2, m
  <1>4. ASSUME NEW j \in 1 .. m + 1 PROVE E2[u + j] = B2[j]
    <2>1. CASE j = m + 1  BY <2>1, <1>1, <1>2
    <2>2. CASE j # m + 1
      <3>1. j \in 1 .. m /\ u + j \in 1 .. u + m  BY <2>2, <1>1
      <3> QED BY <3>1, <1>1, <1>2, <1>3
    <2> QED BY <2>1, <2>2
  <1>5. Matches(E2, B2, u)  BY <1>1, <1>2, <1>4 DEF Matches
  <1> QED BY <1>5 DEF E2, B2

(* An interrupt that used a buffer up is handled. *)
LEMMA MatchPop ==
  ASSUME NEW R, NEW E \in Seq(R), NEW B \in Seq(R), NEW u \in Nat, Matches(E, B, u + 1)
  PROVE  Matches(Tail(E), B, u)
  <1> DEFINE E2 == Tail(E)
             m == Len(B)
  <1>1. /\ m \in Nat /\ Len(E) = u + 1 + m /\ \A j \in 1 .. m : E[u + 1 + j] = B[j]  BY DEF Matches
  <1>2. Len(E2) = u + m /\ \A j \in 1 .. u + m : E2[j] = E[j + 1]
    <2>1. E # <<>> /\ Len(E) - 1 = u + m  BY <1>1
    <2>2. Len(E2) = Len(E) - 1 /\ \A j \in 1 .. Len(E) - 1 : E2[j] = E[j + 1]  BY <2>1
    <2> QED BY <2>1, <2>2
  <1> HIDE DEF E2, m
  <1>3. ASSUME NEW j \in 1 .. m PROVE E2[u + j] = B[j]
    <2>1. u + j \in 1 .. u + m /\ (u + j) + 1 = u + 1 + j  BY <1>1
    <2> QED BY <2>1, <1>1, <1>2
  <1>4. Matches(E2, B, u)  BY <1>2, <1>3 DEF Matches, m
  <1> QED BY <1>4 DEF E2

(* The FPGA uses a buffer up. *)
LEMMA MatchUse ==
  ASSUME NEW R, NEW E \in Seq(R), NEW B \in Seq(R), NEW u \in Nat, Matches(E, B, u), B # <<>>
  PROVE  Matches(E, Tail(B), u + 1)
  <1> DEFINE B2 == Tail(B)
             m == Len(B2)
  <1>1. m \in Nat /\ Len(B) = m + 1 /\ \A j \in 1 .. m : B2[j] = B[j + 1]  OBVIOUS
  <1>2. Len(E) = u + (m + 1) /\ \A j \in 1 .. m + 1 : E[u + j] = B[j]  BY <1>1 DEF Matches
  <1> HIDE DEF B2, m
  <1>3. ASSUME NEW j \in 1 .. m PROVE E[u + 1 + j] = B2[j]
    <2>1. j + 1 \in 1 .. m + 1 /\ u + (j + 1) = u + 1 + j  BY <1>1
    <2> QED BY <2>1, <1>1, <1>2
  <1>4. Matches(E, B2, u + 1)  BY <1>1, <1>2, <1>3 DEF Matches, m
  <1> QED BY <1>4 DEF B2

LEMMA MatchSub ==
  ASSUME NEW R, NEW E \in Seq(R), NEW B \in Seq(R), NEW u \in Nat, Matches(E, B, u)
  PROVE  SubSeq(E, u + 1, Len(E)) = B
  <1> DEFINE Q == SubSeq(E, u + 1, Len(E))
             m == Len(B)
  <1>1. m \in Nat /\ Len(E) = u + m /\ \A j \in 1 .. m : E[u + j] = B[j]  BY DEF Matches
  <1>2. Q \in Seq(R) /\ Len(Q) = m /\ \A j \in 1 .. m : Q[j] = E[u + j]  BY <1>1
  <1> HIDE DEF Q
  <1>3. B = [j \in 1 .. m |-> B[j]] /\ Q = [j \in 1 .. m |-> Q[j]]  BY <1>1, <1>2
  <1>4. Q = B  BY <1>1, <1>2, <1>3
  <1> QED BY <1>4 DEF Q

(* The interrupts of a stream that used a buffer up, and its last ones. *)
Using(s) == {i \in Notification : i.stream = s /\ UsesBuffer(i)}
Ending(s) == {i \in Notification : i.stream = s /\ i.last}

Synced ==
  state # "stale" =>
    \A s \in Streams : Matches(enqueued_buffers[s], fpga_buffers[s], Total(interrupts, Using(s)))

(* The FPGA has room for something in each of its buffers. *)
Room == \A s \in Streams : \A j \in DOMAIN fpga_buffers[s] : fpga_buffers[s][j].capacity # 0

(* Before the first use, and after a restart, nothing is under way. *)
Unused ==
  state = "stale" =>
    /\ cs = Nobody /\ interrupts = <<>>
    /\ \A s \in Streams : enqueued_buffers[s] = <<>> /\ enqueued_handles[s] = <<>> /\ jobs[s] = <<>>

(* When an interrupt is handled a buffer of its stream is still there, also  *)
(* when an empty output did not use it: it was sent while there was one.     *)
BufferWaits ==
  \A k \in DOMAIN interrupts :
    Count(interrupts, Using(interrupts[k].stream), k - 1) < Len(enqueued_buffers[interrupts[k].stream])

BuffersAgree == Synced /\ Room /\ Unused /\ BufferWaits

LEMMA SameAgree ==
  ASSUME BuffersAgree, UNCHANGED <<enqueued_buffers, fpga_buffers, interrupts, consumes>>,
         state' # "stale", state # "stale"
  PROVE  BuffersAgree'
  <1>1. \A s : Using(s)' = Using(s)  BY DEF Using, UsesBuffer
  <1>2. Synced'  BY <1>1 DEF BuffersAgree, Synced
  <1>3. Room' /\ Unused'  BY DEF BuffersAgree, Room, Unused
  <1>4. BufferWaits'  BY <1>1 DEF BuffersAgree, BufferWaits
  <1> QED BY <1>2, <1>3, <1>4 DEF BuffersAgree

LEMMA KeptAgree ==
  ASSUME BuffersAgree,
         UNCHANGED <<enqueued_buffers, enqueued_handles, fpga_buffers, interrupts, jobs, consumes,
                     state, cs>>
  PROVE  BuffersAgree'
  <1>1. \A s : Using(s)' = Using(s)  BY DEF Using, UsesBuffer
  <1>2. Synced'  BY <1>1 DEF BuffersAgree, Synced
  <1>3. Room' /\ Unused'  BY DEF BuffersAgree, Room, Unused
  <1>4. BufferWaits'  BY <1>1 DEF BuffersAgree, BufferWaits
  <1> QED BY <1>2, <1>3, <1>4 DEF BuffersAgree

LEMMA StaleAgree ==
  ASSUME Types, BuffersAgree, UNCHANGED <<fpga_buffers, interrupts, consumes>>, state' = "stale",
         interrupts = <<>>, cs' = Nobody,
         \A s \in Streams : /\ enqueued_buffers'[s] = <<>> /\ enqueued_handles'[s] = <<>>
                           /\ jobs'[s] = <<>>
  PROVE  BuffersAgree'
  <1>1. Synced' /\ Unused'  BY DEF Synced, Unused
  <1>2. Room'  BY DEF BuffersAgree, Room
  <1>3. BufferWaits'  BY DEF BufferWaits
  <1> QED BY <1>1, <1>2, <1>3 DEF BuffersAgree

LEMMA EnqueueBoth ==
  ASSUME BufferTypes, NEW s \in Streams, NEW capacity \in Nat \ {0}, EnqueueBuffer(s, capacity)
  PROVE  \E b \in Buffer :
           /\ b.capacity # 0
           /\ enqueued_buffers' = [enqueued_buffers EXCEPT ![s] = Append(@, b)]
           /\ fpga_buffers' = [fpga_buffers EXCEPT ![s] = Append(@, b)]
  <1> DEFINE b == [id |-> Lowest(free), capacity |-> capacity]
  <1>1. /\ enqueued_buffers' = [enqueued_buffers EXCEPT ![s] = Append(@, b)]
        /\ fpga_buffers' = [fpga_buffers EXCEPT ![s] = Append(@, b)]
    BY DEF EnqueueBuffer
  <1>2. Lowest(free) \in BufferIds
    <2>1. free # {} /\ free \subseteq Nat /\ free \subseteq BufferIds
      BY ManagerAssumption DEF EnqueueBuffer, BufferTypes
    <2>2. IsFiniteSet(free)  BY <2>1, ManagerAssumption, FS_Subset
    <2>3. Lowest(free) \in free  BY <2>1, <2>2, LowestExists
    <2> QED BY <2>1, <2>3
  <1>3. b \in Buffer /\ b.capacity # 0  BY <1>2 DEF Buffer
  <1> HIDE DEF b
  <1> QED BY <1>1, <1>3

LEMMA EnqueueAgree ==
  ASSUME Types, BuffersAgree, NEW s \in Streams, NEW capacity \in Nat \ {0},
         EnqueueBuffer(s, capacity), UNCHANGED <<interrupts, consumes, state>>, state # "stale"
  PROVE  BuffersAgree'
  <1>1. PICK b \in Buffer :
           /\ b.capacity # 0
           /\ enqueued_buffers' = [enqueued_buffers EXCEPT ![s] = Append(@, b)]
           /\ fpga_buffers' = [fpga_buffers EXCEPT ![s] = Append(@, b)]
    BY EnqueueBoth DEF Types
  <1>2. /\ enqueued_buffers \in [Streams -> Seq(Buffer)] /\ fpga_buffers \in [Streams -> Seq(Buffer)]
        /\ interrupts \in Seq(Notification)
    BY DEF Types, BufferTypes, FpgaTypes
  <1>3. \A t \in Streams \ {s} : /\ enqueued_buffers'[t] = enqueued_buffers[t]
                                 /\ fpga_buffers'[t] = fpga_buffers[t]
    BY <1>1, <1>2
  <1>4. /\ enqueued_buffers'[s] = Append(enqueued_buffers[s], b)
        /\ fpga_buffers'[s] = Append(fpga_buffers[s], b)
    BY <1>1, <1>2
  <1>5. \A t : Using(t)' = Using(t)  BY DEF Using, UsesBuffer
  <1>6. Synced'
    <2> SUFFICES ASSUME NEW t \in Streams
                 PROVE  Matches(enqueued_buffers'[t], fpga_buffers'[t], Total(interrupts, Using(t)))
      BY <1>5 DEF Synced
    <2>1. Matches(enqueued_buffers[t], fpga_buffers[t], Total(interrupts, Using(t)))
      BY DEF BuffersAgree, Synced
    <2>2. Total(interrupts, Using(t)) \in Nat  BY <1>2, TotalType
    <2>3. CASE t = s  BY <2>1, <2>2, <2>3, <1>1, <1>2, <1>4, MatchAppend
    <2>4. CASE t # s  BY <2>1, <2>4, <1>3
    <2> QED BY <2>3, <2>4
  <1>7. Room'
    <2> SUFFICES ASSUME NEW t \in Streams, NEW j \in DOMAIN fpga_buffers'[t]
                 PROVE  fpga_buffers'[t][j].capacity # 0
      BY DEF Room
    <2>1. \A i \in DOMAIN fpga_buffers[t] : fpga_buffers[t][i].capacity # 0
      BY DEF BuffersAgree, Room
    <2>2. CASE t = s
      <3>1. fpga_buffers[s] \in Seq(Buffer)  BY <1>2
      <3>2. \/ j \in DOMAIN fpga_buffers[s] /\ fpga_buffers'[t][j] = fpga_buffers[s][j]
            \/ fpga_buffers'[t][j] = b
        BY <2>2, <3>1, <1>4
      <3> QED BY <2>1, <2>2, <3>2, <1>1
    <2>3. CASE t # s  BY <2>1, <2>3, <1>3
    <2> QED BY <2>2, <2>3
  <1>8. BufferWaits'
    <2> SUFFICES ASSUME NEW k \in DOMAIN interrupts
                 PROVE  Count(interrupts, Using(interrupts[k].stream), k - 1)
                          < Len(enqueued_buffers'[interrupts[k].stream])
      BY <1>5 DEF BufferWaits
    <2> DEFINE t == interrupts[k].stream
               c == Count(interrupts, Using(t), k - 1)
    <2>1. c < Len(enqueued_buffers[t])  BY DEF BuffersAgree, BufferWaits
    <2>2. t \in Streams
      <3>1. interrupts[k] \in Notification  BY <1>2
      <3> QED BY <3>1 DEF Notification
    <2>3. c \in Nat
      <3>1. k - 1 \in Nat  BY <1>2
      <3> HIDE DEF t
      <3> QED BY <3>1, CountType
    <2> HIDE DEF c, t
    <2>4. enqueued_buffers[t] \in Seq(Buffer)  BY <1>2, <2>2
    <2>5. Len(enqueued_buffers[t]) <= Len(enqueued_buffers'[t])
      <3>1. CASE t = s  BY <3>1, <2>4, <1>4
      <3>2. CASE t # s  BY <3>2, <2>2, <2>4, <1>3
      <3> QED BY <3>1, <3>2
    <2>6. c < Len(enqueued_buffers'[t])
      <3>1. Len(enqueued_buffers[t]) \in Nat  BY <2>4
      <3>2. Len(enqueued_buffers'[t]) \in Nat
        <4>1. CASE t = s  BY <4>1, <2>4, <1>4
        <4>2. CASE t # s  BY <4>2, <2>2, <2>4, <1>3
        <4> QED BY <4>1, <4>2
      <3> QED BY <3>1, <3>2, <2>1, <2>3, <2>5
    <2> QED BY <2>6 DEF c, t
  <1>9. Unused'  BY DEF Unused
  <1> QED BY <1>6, <1>7, <1>8, <1>9 DEF BuffersAgree

(* The front of the buffers leaves with the interrupt that used it up. *)
LEMMA PopFacts ==
  ASSUME Types, HandleInterrupt
  PROVE  LET i == Head(interrupts)
             s == i.stream
         IN /\ i \in Notification /\ s \in Streams
            /\ enqueued_buffers[s] # <<>> /\ enqueued_handles[s] # <<>>
            /\ i \in Using(s) =>
                 enqueued_buffers' = [enqueued_buffers EXCEPT ![s] = Tail(enqueued_buffers[s])]
            /\ i \notin Using(s) => UNCHANGED enqueued_buffers
            /\ interrupts' = Tail(interrupts) /\ interrupts # <<>>
            /\ UNCHANGED <<fpga_buffers, state, consumes, jobs, enqueued_handles>>
  <1> DEFINE i == Head(interrupts)
             s == i.stream
  <1>1. /\ interrupts # <<>> /\ interrupts' = Tail(interrupts)
        /\ enqueued_buffers[s] # <<>> /\ enqueued_handles[s] # <<>>
        /\ MoveCurrentBuffer(s, i.bytes)
        /\ UNCHANGED <<fpga_buffers, state, consumes, jobs, enqueued_handles>>
    BY DEF HandleInterrupt
  <1>2. i \in Notification  BY <1>1 DEF Types, FpgaTypes
  <1>3. s \in Streams /\ i.bytes \in Nat  BY <1>2 DEF Notification
  <1>4. i \in Using(s) <=> HasOutput(i.bytes) \/ FreesEmptyBuffer
    BY <1>2 DEF Using, UsesBuffer, HasOutput, FreesEmptyBuffer
  <1> HIDE DEF i, s
  <1>5. CASE HasOutput(i.bytes)
    <2>1. enqueued_buffers' = [enqueued_buffers EXCEPT ![s] = Tail(enqueued_buffers[s])]
      BY <1>1, <1>5 DEF MoveCurrentBuffer
    <2> QED BY <1>1, <1>2, <1>3, <1>4, <1>5, <2>1 DEF i, s
  <1>6. CASE ~ HasOutput(i.bytes) /\ FreesEmptyBuffer
    <2>1. enqueued_buffers' = [enqueued_buffers EXCEPT ![s] = Tail(enqueued_buffers[s])]
      BY <1>1, <1>6 DEF MoveCurrentBuffer
    <2> QED BY <1>1, <1>2, <1>3, <1>4, <1>6, <2>1 DEF i, s
  <1>7. CASE ~ HasOutput(i.bytes) /\ ~ FreesEmptyBuffer
    <2>1. UNCHANGED enqueued_buffers  BY <1>1, <1>7 DEF MoveCurrentBuffer
    <2> QED BY <1>1, <1>2, <1>3, <1>4, <1>7, <2>1 DEF i, s
  <1> QED BY <1>5, <1>6, <1>7

LEMMA PopAgree ==
  ASSUME Types, BuffersAgree, HandleInterrupt
  PROVE  BuffersAgree'
  <1> DEFINE i == Head(interrupts)
             s == i.stream
  <1>1. /\ i \in Notification /\ s \in Streams
        /\ enqueued_buffers[s] # <<>>
        /\ i \in Using(s) =>
             enqueued_buffers' = [enqueued_buffers EXCEPT ![s] = Tail(enqueued_buffers[s])]
        /\ i \notin Using(s) => UNCHANGED enqueued_buffers
        /\ interrupts' = Tail(interrupts) /\ interrupts # <<>>
        /\ UNCHANGED <<fpga_buffers, state, consumes>>
    BY PopFacts
  <1>2. /\ enqueued_buffers \in [Streams -> Seq(Buffer)] /\ fpga_buffers \in [Streams -> Seq(Buffer)]
        /\ interrupts \in Seq(Notification)
    BY DEF Types, BufferTypes, FpgaTypes
  <1>3. \A t : Using(t)' = Using(t)  BY <1>1 DEF Using, UsesBuffer
  <1>4. state # "stale"  BY <1>1 DEF BuffersAgree, Unused
  <1>5. \A t \in Streams \ {s} : enqueued_buffers'[t] = enqueued_buffers[t] /\ i \notin Using(t)
    BY <1>1, <1>2 DEF Using
  <1>6. i \in Using(s) => enqueued_buffers'[s] = Tail(enqueued_buffers[s])  BY <1>1, <1>2
  <1> HIDE DEF i, s
  <1>7. ASSUME NEW t \in Streams
        PROVE  \/ /\ i \in Using(t) /\ Hit(i, Using(t)) = 1
                  /\ enqueued_buffers'[t] = Tail(enqueued_buffers[t]) /\ enqueued_buffers[t] # <<>>
               \/ /\ i \notin Using(t) /\ Hit(i, Using(t)) = 0
                  /\ enqueued_buffers'[t] = enqueued_buffers[t]
    <2>1. CASE i \in Using(t)  BY <2>1, <1>1, <1>5, <1>6 DEF Hit
    <2>2. CASE i \notin Using(t)  BY <2>2, <1>1, <1>5 DEF Hit
    <2> QED BY <2>1, <2>2
  <1>8. Synced'
    <2> SUFFICES ASSUME NEW t \in Streams
                 PROVE  Matches(enqueued_buffers'[t], fpga_buffers[t], Total(Tail(interrupts), Using(t)))
      BY <1>1, <1>3 DEF Synced
    <2> DEFINE u == Total(Tail(interrupts), Using(t))
    <2>1. Matches(enqueued_buffers[t], fpga_buffers[t], Total(interrupts, Using(t)))
      BY <1>4 DEF BuffersAgree, Synced
    <2>2. Total(interrupts, Using(t)) = Hit(i, Using(t)) + u  BY <1>1, <1>2, TotalTail DEF i
    <2>3. u \in Nat
      <3>1. Tail(interrupts) \in Seq(Notification)  BY <1>1, <1>2
      <3> QED BY <3>1, TotalType
    <2> HIDE DEF u
    <2>4. CASE i \in Using(t)
      <3>1. Total(interrupts, Using(t)) = u + 1  BY <2>2, <2>3, <2>4, <1>7
      <3>2. Matches(enqueued_buffers[t], fpga_buffers[t], u + 1)  BY <2>1, <3>1
      <3>3. Matches(Tail(enqueued_buffers[t]), fpga_buffers[t], u)  BY <3>2, <2>3, <1>2, MatchPop
      <3> QED BY <3>3, <2>4, <1>7 DEF u
    <2>5. CASE i \notin Using(t)
      <3>1. Total(interrupts, Using(t)) = u  BY <2>2, <2>3, <2>5, <1>7
      <3> QED BY <2>1, <2>5, <3>1, <1>7 DEF u
    <2> QED BY <2>4, <2>5
  <1>9. Room'  BY <1>1 DEF BuffersAgree, Room
  <1>10. Unused'  BY <1>1, <1>4 DEF Unused
  <1>11. BufferWaits'
    <2> SUFFICES ASSUME NEW k \in DOMAIN Tail(interrupts)
                 PROVE  Count(Tail(interrupts), Using(Tail(interrupts)[k].stream), k - 1)
                          < Len(enqueued_buffers'[Tail(interrupts)[k].stream])
      BY <1>1, <1>3 DEF BufferWaits
    <2> DEFINE t == Tail(interrupts)[k].stream
               c == Count(Tail(interrupts), Using(t), k - 1)
    <2>1. /\ k \in Nat \ {0} /\ k <= Len(interrupts) - 1
          /\ k + 1 \in DOMAIN interrupts /\ Tail(interrupts)[k] = interrupts[k + 1]
          /\ Len(interrupts) \in Nat
      BY <1>1, <1>2
    <2>2. t \in Streams
      <3>1. interrupts[k + 1] \in Notification  BY <1>2, <2>1
      <3> QED BY <2>1, <3>1 DEF Notification
    <2>3. Count(interrupts, Using(t), (k + 1) - 1) < Len(enqueued_buffers[t])
      BY <2>1 DEF BuffersAgree, BufferWaits
    <2> HIDE DEF t
    <2>4. Count(interrupts, Using(t), (k - 1) + 1) = Hit(i, Using(t)) + c
      <3>1. k - 1 \in 0 .. Len(interrupts) - 1  BY <2>1
      <3> QED BY <1>1, <1>2, <3>1, CountTail DEF i
    <2>5. (k - 1) + 1 = (k + 1) - 1  BY <2>1
    <2>6. c \in Nat
      <3>1. k - 1 \in Nat  BY <2>1
      <3> QED BY <3>1, CountType
    <2> HIDE DEF c
    <2>7. Hit(i, Using(t)) + c < Len(enqueued_buffers[t])  BY <2>3, <2>4, <2>5
    <2>8. enqueued_buffers[t] \in Seq(Buffer)  BY <1>2, <2>2
    <2>9. CASE i \in Using(t)
      <3>1. Hit(i, Using(t)) = 1 /\ enqueued_buffers'[t] = Tail(enqueued_buffers[t])
            /\ enqueued_buffers[t] # <<>>
        BY <2>2, <2>9, <1>7
      <3>2. Len(enqueued_buffers'[t]) = Len(enqueued_buffers[t]) - 1 /\ Len(enqueued_buffers[t]) \in Nat
        BY <3>1, <2>8
      <3> QED BY <3>1, <3>2, <2>6, <2>7 DEF c, t
    <2>10. CASE i \notin Using(t)
      <3>1. Hit(i, Using(t)) = 0 /\ enqueued_buffers'[t] = enqueued_buffers[t]  BY <2>2, <2>10, <1>7
      <3> QED BY <3>1, <2>6, <2>7 DEF c, t
    <2> QED BY <2>9, <2>10
  <1> QED BY <1>8, <1>9, <1>10, <1>11 DEF BuffersAgree

(* Output of the FPGA: it uses a buffer up unless the output is empty and   *)
(* empty streams use none, and the last part of an output ends its job.     *)
Sends(s, x) ==
  /\ x \in Notification /\ x.stream = s
  /\ interrupts' = Append(interrupts, x)
  /\ fpga_buffers[s] # <<>> /\ jobs[s] # <<>>
  /\ x \in Using(s) => fpga_buffers' = [fpga_buffers EXCEPT ![s] = Tail(fpga_buffers[s])]
  /\ x \notin Using(s) => fpga_buffers' = fpga_buffers
  /\ x.last => jobs' = [jobs EXCEPT ![s] = Tail(jobs[s])]
  /\ ~ x.last => \E job : jobs' = [jobs EXCEPT ![s] = <<job>> \o Tail(jobs[s])]
  /\ UNCHANGED <<enqueued_buffers, enqueued_handles, cs, state, consumes, active_streams>>

LEMMA OutputSends ==
  ASSUME Types, Room, NEW s \in Streams, FpgaOutput(s)
  PROVE  \E x : Sends(s, x)
  <1> DEFINE job == Head(jobs[s])
             buffer == Head(fpga_buffers[s])
             left == job.len - job.done
             bytes == IF left < buffer.capacity THEN left ELSE buffer.capacity
             job2 == [job EXCEPT !.done = @ + bytes]
             x == [stream |-> s, bytes |-> bytes, last |-> (bytes = left)]
  <1>1. /\ jobs \in [Streams -> Seq(Job)] /\ fpga_buffers \in [Streams -> Seq(Buffer)]
    BY DEF Types, FpgaTypes
  <1>2. /\ jobs[s] # <<>> /\ fpga_buffers[s] # <<>> /\ job.len > 0
        /\ jobs' = [jobs EXCEPT ![s] = IF bytes = left THEN Tail(jobs[s]) ELSE <<job2>> \o Tail(jobs[s])]
        /\ interrupts' = Append(interrupts, x)
        /\ fpga_buffers' = [fpga_buffers EXCEPT ![s] = Tail(fpga_buffers[s])]
        /\ UNCHANGED <<enqueued_buffers, enqueued_handles, cs, state, consumes, active_streams>>
    BY DEF FpgaOutput, Interrupt, handleVars
  <1>3. job \in Job /\ buffer \in Buffer /\ buffer.capacity # 0
    <2>1. fpga_buffers[s] \in Seq(Buffer) /\ jobs[s] \in Seq(Job)  BY <1>1
    <2>2. 1 \in DOMAIN fpga_buffers[s] /\ Head(fpga_buffers[s]) = fpga_buffers[s][1]  BY <1>2, <2>1
    <2> QED BY <1>2, <2>1, <2>2 DEF Room
  <1>4. job.len \in Nat /\ job.done \in Nat /\ job.done < job.len /\ buffer.capacity \in Nat \ {0}
    BY <1>2, <1>3 DEF Job, Buffer
  <1>5. bytes \in Nat /\ bytes > 0  BY <1>4
  <1>6. x \in Notification /\ x.stream = s  BY <1>5 DEF Notification
  <1>7. x.bytes = bytes /\ (x.last <=> bytes = left)  OBVIOUS
  <1> HIDE DEF job, buffer, left, bytes, job2, x
  <1>8. x \in Using(s)  BY <1>5, <1>6, <1>7 DEF Using, UsesBuffer
  <1>9. /\ x.last => jobs' = [jobs EXCEPT ![s] = Tail(jobs[s])]
        /\ ~ x.last => jobs' = [jobs EXCEPT ![s] = <<job2>> \o Tail(jobs[s])]
    BY <1>2, <1>7
  <1>10. Sends(s, x)  BY <1>2, <1>6, <1>8, <1>9 DEF Sends
  <1> QED BY <1>10

LEMMA EmptySends ==
  ASSUME Types, NEW s \in Streams, FpgaEmptyOutput(s)
  PROVE  \E x : Sends(s, x)
  <1> DEFINE x == [stream |-> s, bytes |-> 0, last |-> TRUE]
  <1>1. /\ jobs[s] # <<>> /\ fpga_buffers[s] # <<>>
        /\ jobs' = [jobs EXCEPT ![s] = Tail(jobs[s])]
        /\ interrupts' = Append(interrupts, x)
        /\ consumes => fpga_buffers' = [fpga_buffers EXCEPT ![s] = Tail(fpga_buffers[s])]
        /\ ~ consumes => fpga_buffers' = fpga_buffers
        /\ UNCHANGED <<enqueued_buffers, enqueued_handles, cs, state, consumes, active_streams>>
    BY DEF FpgaEmptyOutput, Interrupt, handleVars
  <1>2. x \in Notification /\ x.stream = s /\ x.bytes = 0 /\ x.last  BY DEF Notification
  <1> HIDE DEF x
  <1>3. x \in Using(s) <=> consumes  BY <1>2 DEF Using, UsesBuffer
  <1>4. Sends(s, x)  BY <1>1, <1>2, <1>3 DEF Sends
  <1> QED BY <1>4

LEMMA SendAgree ==
  ASSUME Types, BuffersAgree, NEW s \in Streams, NEW x, Sends(s, x)
  PROVE  BuffersAgree'
  <1>1. /\ x \in Notification /\ x.stream = s
        /\ interrupts' = Append(interrupts, x)
        /\ fpga_buffers[s] # <<>> /\ jobs[s] # <<>>
        /\ x \in Using(s) => fpga_buffers' = [fpga_buffers EXCEPT ![s] = Tail(fpga_buffers[s])]
        /\ x \notin Using(s) => fpga_buffers' = fpga_buffers
        /\ UNCHANGED <<enqueued_buffers, state, consumes>>
    BY DEF Sends
  <1>2. /\ enqueued_buffers \in [Streams -> Seq(Buffer)] /\ fpga_buffers \in [Streams -> Seq(Buffer)]
        /\ interrupts \in Seq(Notification)
    BY DEF Types, BufferTypes, FpgaTypes
  <1>3. \A t : Using(t)' = Using(t)  BY <1>1 DEF Using, UsesBuffer
  <1>4. state # "stale"  BY <1>1 DEF BuffersAgree, Unused
  <1>5. ASSUME NEW t \in Streams
        PROVE  \/ /\ Hit(x, Using(t)) = 1
                  /\ fpga_buffers'[t] = Tail(fpga_buffers[t]) /\ fpga_buffers[t] # <<>>
               \/ Hit(x, Using(t)) = 0 /\ fpga_buffers'[t] = fpga_buffers[t]
    <2>1. CASE x \in Using(t)
      <3>1. t = s  BY <2>1, <1>1 DEF Using
      <3> QED BY <2>1, <3>1, <1>1, <1>2 DEF Hit
    <2>2. CASE x \notin Using(t)
      <3>1. t # s \/ fpga_buffers' = fpga_buffers  BY <2>2, <1>1
      <3>2. fpga_buffers'[t] = fpga_buffers[t]  BY <3>1, <1>1, <1>2
      <3> QED BY <2>2, <3>2 DEF Hit
    <2> QED BY <2>1, <2>2
  <1>6. \A t \in Streams : Matches(enqueued_buffers[t], fpga_buffers[t], Total(interrupts, Using(t)))
    BY <1>4 DEF BuffersAgree, Synced
  <1>7. Synced'
    <2> SUFFICES ASSUME NEW t \in Streams
                 PROVE  Matches(enqueued_buffers[t], fpga_buffers'[t],
                                Total(Append(interrupts, x), Using(t)))
      BY <1>1, <1>3 DEF Synced
    <2> DEFINE u == Total(interrupts, Using(t))
    <2>1. Total(Append(interrupts, x), Using(t)) = u + Hit(x, Using(t))  BY <1>1, <1>2, TotalAppend
    <2>2. u \in Nat /\ Matches(enqueued_buffers[t], fpga_buffers[t], u)  BY <1>2, <1>6, TotalType
    <2> HIDE DEF u
    <2>3. CASE Hit(x, Using(t)) = 1 /\ fpga_buffers'[t] = Tail(fpga_buffers[t]) /\ fpga_buffers[t] # <<>>
      <3>1. Matches(enqueued_buffers[t], Tail(fpga_buffers[t]), u + 1)
        BY <2>2, <2>3, <1>2, MatchUse
      <3> QED BY <2>1, <2>3, <3>1
    <2>4. CASE Hit(x, Using(t)) = 0 /\ fpga_buffers'[t] = fpga_buffers[t]  BY <2>1, <2>2, <2>4
    <2> QED BY <2>3, <2>4, <1>5
  <1>8. Room'
    <2> SUFFICES ASSUME NEW t \in Streams, NEW j \in DOMAIN fpga_buffers'[t]
                 PROVE  fpga_buffers'[t][j].capacity # 0
      BY DEF Room
    <2>1. fpga_buffers[t] \in Seq(Buffer)  BY <1>2
    <2>2. fpga_buffers'[t] = fpga_buffers[t]
          \/ (fpga_buffers'[t] = Tail(fpga_buffers[t]) /\ fpga_buffers[t] # <<>>)
      BY <1>5
    <2>3. \E i \in DOMAIN fpga_buffers[t] : fpga_buffers'[t][j] = fpga_buffers[t][i]
      <3>1. CASE fpga_buffers'[t] = fpga_buffers[t]  BY <3>1
      <3>2. CASE fpga_buffers'[t] = Tail(fpga_buffers[t]) /\ fpga_buffers[t] # <<>>
        <4>1. j + 1 \in DOMAIN fpga_buffers[t] /\ fpga_buffers'[t][j] = fpga_buffers[t][j + 1]
          BY <2>1, <3>2
        <4> QED BY <4>1
      <3> QED BY <2>2, <3>1, <3>2
    <2> QED BY <2>3 DEF BuffersAgree, Room
  <1>9. Unused'  BY <1>1, <1>4 DEF Unused
  <1>10. BufferWaits'
    <2> DEFINE J == Append(interrupts, x)
               n == Len(interrupts)
    <2>1. /\ n \in Nat /\ DOMAIN J = 1 .. n + 1 /\ J[n + 1] = x
          /\ \A k \in 1 .. n : J[k] = interrupts[k]
      BY <1>1, <1>2
    <2> SUFFICES ASSUME NEW k \in 1 .. n + 1
                 PROVE  Count(J, Using(J[k].stream), k - 1) < Len(enqueued_buffers[J[k].stream])
      BY <1>1, <1>3, <2>1 DEF BufferWaits
    <2> DEFINE t == J[k].stream
               c == Count(interrupts, Using(t), k - 1)
    <2>2. Count(J, Using(t), k - 1) = c
      <3>1. k - 1 \in 0 .. Len(interrupts)  BY <2>1
      <3> HIDE DEF t
      <3> QED BY <3>1, <1>1, <1>2, CountAppend
    <2> HIDE DEF J
    <2>3. CASE k = n + 1
      <3>1. t = s  BY <2>1, <2>3, <1>1
      <3>2. c = Total(interrupts, Using(s))  BY <2>1, <2>3, <3>1 DEF Total
      <3>3. Len(enqueued_buffers[s]) = Total(interrupts, Using(s)) + Len(fpga_buffers[s])
        BY <1>6 DEF Matches
      <3>4. Len(fpga_buffers[s]) \in Nat \ {0} /\ Total(interrupts, Using(s)) \in Nat
        <4>1. fpga_buffers[s] \in Seq(Buffer)  BY <1>2
        <4> QED BY <4>1, <1>1, <1>2, TotalType
      <3> HIDE DEF c
      <3> QED BY <2>2, <3>1, <3>2, <3>3, <3>4
    <2>4. CASE k # n + 1
      <3>1. k \in 1 .. n  BY <2>1, <2>4
      <3>2. k \in DOMAIN interrupts /\ J[k] = interrupts[k]  BY <2>1, <3>1, <1>2
      <3>3. Count(interrupts, Using(interrupts[k].stream), k - 1)
              < Len(enqueued_buffers[interrupts[k].stream])
        BY <3>2 DEF BuffersAgree, BufferWaits
      <3> QED BY <2>2, <3>2, <3>3
    <2> QED BY <2>3, <2>4
  <1> QED BY <1>7, <1>8, <1>9, <1>10 DEF BuffersAgree

LEMMA FlushAgree ==
  ASSUME Types, BuffersAgree, FlushBuffers
  PROVE  BuffersAgree'
  <1>1. /\ state = "stale" /\ state' = "running" /\ fpga_buffers' = [s \in Streams |-> <<>>]
        /\ UNCHANGED <<enqueued_buffers, interrupts>>
    BY DEF FlushBuffers, Flushed
  <1>2. interrupts = <<>> /\ \A s \in Streams : enqueued_buffers[s] = <<>>
    BY <1>1 DEF BuffersAgree, Unused
  <1>3. Synced'
    <2> SUFFICES ASSUME NEW s \in Streams
                 PROVE  Matches(enqueued_buffers'[s], fpga_buffers'[s], Total(interrupts', Using(s)'))
      BY DEF Synced
    <2>1. Total(interrupts', Using(s)') = 0  BY <1>1, <1>2, TotalEmpty
    <2>2. enqueued_buffers'[s] = <<>> /\ fpga_buffers'[s] = <<>>  BY <1>1, <1>2
    <2>3. Matches(<<>>, <<>>, 0)  BY DEF Matches
    <2> QED BY <2>1, <2>2, <2>3
  <1>4. Room' /\ Unused'  BY <1>1 DEF Room, Unused
  <1>5. BufferWaits'  BY <1>1, <1>2 DEF BufferWaits
  <1> QED BY <1>3, <1>4, <1>5 DEF BuffersAgree

LEMMA RestartAgree ==
  ASSUME Types, BuffersAgree, Restart
  PROVE  BuffersAgree'
  <1>1. /\ state' = "stale" /\ interrupts = <<>> /\ cs' = Nobody
        /\ UNCHANGED <<fpga_buffers, interrupts, consumes>>
        /\ enqueued_buffers' = [s \in Streams |-> <<>>]
        /\ enqueued_handles' = [s \in Streams |-> <<>>]
        /\ \A s \in Streams : jobs[s] = <<>> /\ UNCHANGED jobs
    BY DEF Restart
  <1>2. \A s \in Streams : /\ enqueued_buffers'[s] = <<>> /\ enqueued_handles'[s] = <<>>
                           /\ jobs'[s] = <<>>
    BY <1>1
  <1> QED BY <1>1, <1>2, StaleAgree

(* Only an idle manager is stale. *)
LEMMA BusyNotStale ==
  ASSUME BuffersAgree, cs.who \in {"acquire", "acquire_size", "interrupt"}
  PROVE  state # "stale"
  BY DEF BuffersAgree, Unused, Nobody

LEMMA BuffersAgreeStep ==
  ASSUME Types, BuffersAgree, [Next]_vars
  PROVE  BuffersAgree'
  <1>0. HandleTypes /\ CsTypes  BY DEF Types
  <1>1. CASE FlushBuffers  BY <1>1, FlushAgree
  <1>2. CASE Acquire  BY <1>2, SameAgree DEF Acquire, BeginAcquire, fpgaVars
  <1>3. CASE AcquireStream
    <2>1. UNCHANGED <<interrupts, consumes, state>> /\ state # "stale"
      BY <1>3, BusyNotStale DEF AcquireStream
    <2>2. CASE EnqueueBuffer(Lowest(cs.left), CAPACITY)
      <3>1. Lowest(cs.left) \in Streams /\ CAPACITY \in Nat \ {0}
        BY <1>0, <1>3, AcquireFacts, ManagerAssumption DEF AcquireStream
      <3> QED BY <2>1, <2>2, <3>1, EnqueueAgree
    <2>3. CASE UNCHANGED <<enqueued_buffers, free, fpga_buffers>>  BY <2>1, <2>3, SameAgree
    <2> QED BY <1>3, <2>2, <2>3 DEF AcquireStream
  <1>4. CASE AcquireSize  BY <1>4, SameAgree DEF AcquireSize, BeginAcquireSize, fpgaVars
  <1>5. CASE AcquireChunk
    <2> DEFINE chunk == IF cs.remaining < MAX_CAPACITY THEN cs.remaining ELSE MAX_CAPACITY
    <2>1. EnqueueBuffer(cs.stream, chunk) /\ UNCHANGED <<interrupts, consumes, state>>
      BY <1>5 DEF AcquireChunk
    <2>2. cs.stream \in Streams /\ cs.remaining \in Nat \ {0}
      BY <1>0, <1>5, SizeFacts DEF AcquireChunk
    <2>3. chunk \in Nat \ {0}  BY <2>2, ManagerAssumption
    <2>4. state # "stale"  BY <1>5, BusyNotStale DEF AcquireChunk
    <2> HIDE DEF chunk
    <2> QED BY <2>1, <2>2, <2>3, <2>4, EnqueueAgree
  <1>6. CASE HandleInterrupt  BY <1>6, PopAgree
  <1>7. CASE MarkDone  BY <1>7, BusyNotStale, SameAgree DEF MarkDone, fpgaVars
  <1>8. CASE DestroyHandle  BY <1>8, BusyNotStale, SameAgree DEF DestroyHandle
  <1>9. CASE TopUp
    <2>1. UNCHANGED <<interrupts, consumes, state>> /\ state # "stale"
      BY <1>9, BusyNotStale DEF TopUp, fpgaVars
    <2>2. CASE EnqueueBuffer(cs.stream, CAPACITY)
      <3>1. cs.stream \in Streams /\ CAPACITY \in Nat \ {0}
        BY <1>0, <1>9, InterruptFacts, ManagerAssumption DEF TopUp
      <3> QED BY <2>1, <2>2, <3>1, EnqueueAgree
    <2>3. CASE UNCHANGED <<enqueued_buffers, free, fpga_buffers>>  BY <2>1, <2>3, SameAgree
    <2> QED BY <1>9, <2>2, <2>3 DEF TopUp
  <1>10. CASE AllocationFails
    <2>1. state # "stale"  BY <1>10, BusyNotStale DEF AllocationFails
    <2>2. state' # "stale"  BY <1>10, <2>1 DEF AllocationFails
    <2> QED BY <1>10, <2>1, <2>2, SameAgree DEF AllocationFails, fpgaVars
  <1>11. CASE CallbackAcquires  BY <1>11, SameAgree DEF CallbackAcquires, BeginAcquire, fpgaVars
  <1>12. CASE CallbackEnds  BY <1>12, KeptAgree DEF CallbackEnds, Callback, fpgaVars
  <1>13. CASE ReadOutput  BY <1>13, KeptAgree DEF ReadOutput, Read
  <1>14. CASE Drop  BY <1>14, KeptAgree DEF Drop, DropHandle
  <1>15. CASE Restart  BY <1>15, RestartAgree
  <1>16. CASE Fpga
    <2>1. PICK s \in Streams : FpgaOutput(s) \/ FpgaEmptyOutput(s)  BY <1>16 DEF Fpga
    <2>2. \E x : Sends(s, x)  BY <2>1, OutputSends, EmptySends DEF BuffersAgree
    <2> QED BY <2>2, SendAgree
  <1>17. CASE UNCHANGED vars  BY <1>17, KeptAgree DEF vars, fpgaVars
  <1> QED
    BY <1>1, <1>2, <1>3, <1>4, <1>5, <1>6, <1>7, <1>8, <1>9, <1>10, <1>11, <1>12, <1>13,
       <1>14, <1>15, <1>16, <1>17 DEF Next

----
(* A handle for every output to come.                                       *)

(* The handle of s is spoken for: the last interrupt has taken its buffer    *)
(* and is to mark s done, or the acquisition has dealt with s and is to      *)
(* start the design.                                                        *)
Promised(s) ==
  \/ cs.who = "interrupt" /\ cs.stream = s /\ cs.last
  \/ cs.who = "acquire" /\ s \in active_streams[cs.handle] \ cs.left
Owed(s) == IF Promised(s) THEN 1 ELSE 0

(* Every job under way, and every last interrupt, will take a handle. *)
Owes(s) == Len(jobs[s]) + Total(interrupts, Ending(s)) + Owed(s)
HandleWaits == \A s \in Streams : Owes(s) <= Len(enqueued_handles[s])

(* After an interrupt that is not the last of its output comes another. *)
MoreToCome(I, J, k) ==
  \/ J[I[k].stream] # <<>>
  \/ \E j \in DOMAIN I : j > k /\ I[j].stream = I[k].stream /\ I[j].last
EndComes == \A k \in DOMAIN interrupts : ~ interrupts[k].last => MoreToCome(interrupts, jobs, k)

LEMMA OwesType ==
  ASSUME Types, NEW s \in Streams
  PROVE  /\ Len(jobs[s]) \in Nat /\ Total(interrupts, Ending(s)) \in Nat /\ Owed(s) \in {0, 1}
         /\ Len(enqueued_handles[s]) \in Nat
         /\ jobs[s] \in Seq(Job) /\ enqueued_handles[s] \in Seq(Handles)
         /\ interrupts \in Seq(Notification)
  <1>1. jobs[s] \in Seq(Job) /\ enqueued_handles[s] \in Seq(Handles)
        /\ interrupts \in Seq(Notification)
    BY DEF Types, FpgaTypes, HandleTypes
  <1>2. Total(interrupts, Ending(s)) \in Nat  BY <1>1, TotalType
  <1> QED BY <1>1, <1>2 DEF Owed

LEMMA SameWaits ==
  ASSUME Types, HandleWaits, UNCHANGED <<jobs, interrupts, enqueued_handles>>,
         \A s \in Streams : Promised(s)' => Promised(s)
  PROVE  HandleWaits'
  <1> SUFFICES ASSUME NEW s \in Streams PROVE Owes(s)' <= Len(enqueued_handles[s])
    BY DEF HandleWaits
  <1>1. Owes(s) <= Len(enqueued_handles[s])  BY DEF HandleWaits
  <1>2. Owed(s)' \in {0, 1} /\ Owed(s)' <= Owed(s)  BY DEF Owed
  <1>3. Owes(s)' = Len(jobs[s]) + Total(interrupts, Ending(s)) + Owed(s)'  BY DEF Owes
  <1> QED BY <1>1, <1>2, <1>3, OwesType DEF Owes

(* An interrupt of the FPGA takes a job. *)
LEMMA SendWaits ==
  ASSUME Types, HandleWaits, NEW s \in Streams, NEW x, Sends(s, x)
  PROVE  HandleWaits'
  <1> SUFFICES ASSUME NEW t \in Streams PROVE Owes(t)' <= Len(enqueued_handles'[t])
    BY DEF HandleWaits
  <1>1. /\ x \in Notification /\ x.stream = s /\ interrupts' = Append(interrupts, x)
        /\ jobs[s] # <<>>
        /\ x.last => jobs' = [jobs EXCEPT ![s] = Tail(jobs[s])]
        /\ ~ x.last => \E job : jobs' = [jobs EXCEPT ![s] = <<job>> \o Tail(jobs[s])]
        /\ UNCHANGED <<enqueued_handles, cs, active_streams>>
    BY DEF Sends
  <1>2. jobs \in [Streams -> Seq(Job)]  BY DEF Types, FpgaTypes
  <1>3. Owed(t)' = Owed(t)  BY <1>1 DEF Owed, Promised
  <1>4. Total(interrupts', Ending(t)) = Total(interrupts, Ending(t)) + Hit(x, Ending(t))
    BY <1>1, OwesType, TotalAppend
  <1>5. Len(jobs'[t]) = Len(jobs[t]) - Hit(x, Ending(t))
    <2>1. jobs[t] \in Seq(Job)  BY <1>2
    <2>2. CASE t # s
      <3>1. jobs'[t] = jobs[t]  BY <2>2, <1>1, <1>2
      <3>2. Hit(x, Ending(t)) = 0  BY <2>2, <1>1 DEF Hit, Ending
      <3> QED BY <2>1, <3>1, <3>2
    <2>3. CASE t = s /\ x.last
      <3>1. jobs'[t] = Tail(jobs[t]) /\ jobs[t] # <<>>  BY <2>3, <1>1, <1>2
      <3>2. Hit(x, Ending(t)) = 1  BY <2>3, <1>1 DEF Hit, Ending
      <3> QED BY <2>1, <3>1, <3>2
    <2>4. CASE t = s /\ ~ x.last
      <3>1. PICK job : jobs' = [jobs EXCEPT ![s] = <<job>> \o Tail(jobs[s])]  BY <2>4, <1>1
      <3>2. jobs'[t] = <<job>> \o Tail(jobs[t]) /\ jobs[t] # <<>>  BY <2>4, <3>1, <1>1, <1>2
      <3>3. Len(jobs'[t]) = Len(jobs[t])  BY <2>1, <3>2
      <3>4. Hit(x, Ending(t)) = 0  BY <2>4, <1>1 DEF Hit, Ending
      <3> QED BY <2>1, <3>3, <3>4
    <2> QED BY <2>2, <2>3, <2>4
  <1>6. Owes(t)' = Len(jobs'[t]) + Total(interrupts', Ending(t)) + Owed(t)'  BY DEF Owes
  <1>7. Owes(t) <= Len(enqueued_handles[t])  BY DEF HandleWaits
  <1>8. Hit(x, Ending(t)) \in Nat  BY DEF Hit
  <1> QED BY <1>1, <1>3, <1>4, <1>5, <1>6, <1>7, <1>8, OwesType DEF Owes

(* A last interrupt is handled: it is still to take its handle. *)
LEMMA PopWaits ==
  ASSUME Types, HandleWaits, HandleInterrupt
  PROVE  HandleWaits'
  <1> DEFINE i == Head(interrupts)
  <1> SUFFICES ASSUME NEW t \in Streams PROVE Owes(t)' <= Len(enqueued_handles'[t])
    BY DEF HandleWaits
  <1>1. /\ i \in Notification /\ interrupts' = Tail(interrupts) /\ interrupts # <<>>
        /\ UNCHANGED <<jobs, enqueued_handles>>
    BY PopFacts
  <1>2. cs' = [who |-> "interrupt", stream |-> i.stream, last |-> i.last, destroy |-> 0]
        /\ cs = Nobody
    BY DEF HandleInterrupt, IsLast
  <1>3. Total(interrupts, Ending(t)) = Hit(i, Ending(t)) + Total(interrupts', Ending(t))
    BY <1>1, OwesType, TotalTail
  <1>4. Total(interrupts', Ending(t)) \in Nat
    <2>1. Tail(interrupts) \in Seq(Notification)  BY <1>1, OwesType
    <2> QED BY <1>1, <2>1, TotalType
  <1> HIDE DEF i
  <1>5. Owed(t) = 0  BY <1>2 DEF Owed, Promised, Nobody
  <1>6. Promised(t)' <=> i \in Ending(t)  BY <1>1, <1>2 DEF Promised, Ending
  <1>7. Owed(t)' = Hit(i, Ending(t))  BY <1>6 DEF Owed, Hit
  <1>8. Owes(t)' = Len(jobs[t]) + Total(interrupts', Ending(t)) + Owed(t)'  BY <1>1 DEF Owes
  <1>9. Owes(t) <= Len(enqueued_handles[t])  BY DEF HandleWaits
  <1>10. Hit(i, Ending(t)) \in Nat  BY DEF Hit
  <1> QED BY <1>1, <1>3, <1>4, <1>5, <1>7, <1>8, <1>9, <1>10, OwesType DEF Owes

(* mark_done takes the handle the last interrupt is owed. *)
LEMMA MarkWaits ==
  ASSUME Types, HandleWaits, MarkDone
  PROVE  HandleWaits'
  <1> DEFINE s == cs.stream
  <1> SUFFICES ASSUME NEW t \in Streams PROVE Owes(t)' <= Len(enqueued_handles'[t])
    BY DEF HandleWaits
  <1>1. /\ cs.who = "interrupt" /\ cs.last
        /\ enqueued_handles' = [enqueued_handles EXCEPT ![s] = Tail(enqueued_handles[s])]
        /\ UNCHANGED <<jobs, interrupts>>
    BY DEF MarkDone, PopHandle, fpgaVars
  <1>2. cs'.who = "interrupt" /\ ~ cs'.last
    <2>1. Interrupted  BY <1>1, CsWho DEF Types
    <2>2. \E d : cs' = [cs EXCEPT !.last = FALSE, !.destroy = d]  BY DEF MarkDone
    <2> QED BY <2>1, <2>2 DEF Interrupted
  <1>3. s \in Streams /\ enqueued_handles[s] # <<>>  BY <1>1, InterruptFacts DEF Types
  <1>4. enqueued_handles \in [Streams -> Seq(Handles)]  BY DEF Types, HandleTypes
  <1>5. Owed(t)' = 0  BY <1>2 DEF Owed, Promised
  <1>6. Owes(t)' = Len(jobs[t]) + Total(interrupts, Ending(t))  BY <1>1, <1>5, OwesType DEF Owes
  <1>7. Owes(t) <= Len(enqueued_handles[t])  BY DEF HandleWaits
  <1> HIDE DEF s
  <1>8. CASE t = s
    <2>1. Owed(t) = 1  BY <1>1, <1>8 DEF Owed, Promised, s
    <2>2. Len(enqueued_handles'[t]) = Len(enqueued_handles[t]) - 1  BY <1>1, <1>3, <1>4, <1>8
    <2> QED BY <2>1, <2>2, <1>6, <1>7, OwesType DEF Owes
  <1>9. CASE t # s
    <2>1. enqueued_handles'[t] = enqueued_handles[t]  BY <1>1, <1>4, <1>9
    <2> QED BY <2>1, <1>6, <1>7, OwesType DEF Owes
  <1> QED BY <1>8, <1>9

(* The design starts: a job for every stream of the handle. *)
LEMMA StartJobs ==
  ASSUME Types, NEW h \in Handles, NEW lengths, StartDesign(h, lengths), NEW t \in Streams
  PROVE  /\ t \in active_streams[h] => Len(jobs'[t]) = Len(jobs[t]) + 1
         /\ t \notin active_streams[h] => jobs'[t] = jobs[t]
  <1>1. jobs' = [s \in Streams |-> IF s \in active_streams[h]
                   THEN Append(jobs[s], [handle |-> h, len |-> lengths[s], done |-> 0])
                   ELSE jobs[s]]
    BY DEF StartDesign
  <1>2. jobs[t] \in Seq(Job)  BY OwesType
  <1>3. CASE t \in active_streams[h]
    <2> DEFINE job == [handle |-> h, len |-> lengths[t], done |-> 0]
    <2>1. jobs'[t] = Append(jobs[t], job)  BY <1>1, <1>3
    <2> HIDE DEF job
    <2> QED BY <2>1, <1>2, <1>3
  <1>4. CASE t \notin active_streams[h]  BY <1>1, <1>4
  <1> QED BY <1>3, <1>4

(* A stream is dealt with: its handle is enqueued, and after the last stream *)
(* the design starts.                                                       *)
LEMMA AcquireWaits ==
  ASSUME Types, HandleWaits, AcquireStream
  PROVE  HandleWaits'
  <1> DEFINE s == Lowest(cs.left)
  <1>0. HandleTypes /\ CsTypes /\ cs.who = "acquire"  BY DEF Types, AcquireStream
  <1>1. s \in cs.left /\ s \in Streams /\ s \in active_streams[cs.handle] /\ cs.handle \in Handles
    BY <1>0, AcquireFacts
  <1>2. UNCHANGED <<interrupts, active_streams>>  BY DEF AcquireStream
  <1>3. CASE ~ HasBuffers(s)
    <2>1. UNCHANGED <<enqueued_handles, cs, jobs>>  BY <1>3 DEF AcquireStream
    <2> QED BY <2>1, <1>2, SameWaits DEF Promised
  <1>4. CASE HasBuffers(s)
    <2> SUFFICES ASSUME NEW t \in Streams PROVE Owes(t)' <= Len(enqueued_handles'[t])
      BY DEF HandleWaits
    <2>1. enqueued_handles' = [enqueued_handles EXCEPT ![s] = Append(enqueued_handles[s], cs.handle)]
      BY <1>4 DEF AcquireStream
    <2>2. enqueued_handles \in [Streams -> Seq(Handles)]  BY DEF Types, HandleTypes
    <2>3. /\ t = s => Len(enqueued_handles'[t]) = Len(enqueued_handles[t]) + 1
          /\ t # s => enqueued_handles'[t] = enqueued_handles[t]
      BY <2>1, <2>2, <1>1
    <2>4. Owes(t) <= Len(enqueued_handles[t])  BY DEF HandleWaits
    <2>5. Promised(t) <=> t \in active_streams[cs.handle] \ cs.left  BY <1>0 DEF Promised
    <2>6. CASE cs.left \ {s} # {}
      <3>1. cs' = [cs EXCEPT !.left = cs.left \ {s}] /\ UNCHANGED jobs
        BY <1>4, <2>6 DEF AcquireStream
      <3>2. cs'.who = "acquire" /\ cs'.handle = cs.handle /\ cs'.left = cs.left \ {s}
        <4>1. Acquiring  BY <1>0, CsWho
        <4> QED BY <3>1, <4>1 DEF Acquiring
      <3>3. Promised(t)' <=> t \in active_streams[cs.handle] \ (cs.left \ {s})
        BY <3>2, <1>2 DEF Promised
      <3>4. Owes(t)' = Len(jobs[t]) + Total(interrupts, Ending(t)) + Owed(t)'
        BY <3>1, <1>2 DEF Owes
      <3>5. CASE t = s
        <4>1. Owed(t) = 0 /\ Owed(t)' \in {0, 1}  BY <3>5, <2>5, <1>1 DEF Owed
        <4> QED BY <4>1, <3>4, <3>5, <2>3, <2>4, OwesType DEF Owes
      <3>6. CASE t # s
        <4>1. Owed(t)' = Owed(t)  BY <3>3, <3>6, <2>5 DEF Owed
        <4> QED BY <4>1, <3>4, <3>6, <2>3, <2>4, OwesType DEF Owes
      <3> QED BY <3>5, <3>6
    <2>7. CASE cs.left \ {s} = {}
      <3>1. cs' = Nobody  BY <1>4, <2>7 DEF AcquireStream
      <3>2. PICK lengths : StartDesign(cs.handle, lengths)  BY <1>4, <2>7 DEF AcquireStream
      <3>3. Owed(t)' = 0  BY <3>1 DEF Owed, Promised, Nobody
      <3>4. Owes(t)' = Len(jobs'[t]) + Total(interrupts, Ending(t)) + 0  BY <3>3, <1>2 DEF Owes
      <3>5. /\ t \in active_streams[cs.handle] => Len(jobs'[t]) = Len(jobs[t]) + 1
            /\ t \notin active_streams[cs.handle] => jobs'[t] = jobs[t]
        BY <3>2, <1>1, StartJobs
      <3>6. CASE t = s
        <4>1. Owed(t) = 0 /\ Len(jobs'[t]) = Len(jobs[t]) + 1  BY <3>5, <3>6, <2>5, <1>1 DEF Owed
        <4> QED BY <4>1, <3>4, <3>6, <2>3, <2>4, OwesType DEF Owes
      <3>7. CASE t # s /\ t \in active_streams[cs.handle]
        <4>1. Owed(t) = 1 /\ Len(jobs'[t]) = Len(jobs[t]) + 1  BY <3>5, <3>7, <2>5, <2>7 DEF Owed
        <4> QED BY <4>1, <3>4, <3>7, <2>3, <2>4, OwesType DEF Owes
      <3>8. CASE t # s /\ t \notin active_streams[cs.handle]
        BY <3>4, <3>5, <3>8, <2>3, <2>4, OwesType DEF Owes
      <3> QED BY <3>6, <3>7, <3>8
    <2> QED BY <2>6, <2>7
  <1> QED BY <1>3, <1>4

(* Every chunk enqueues the handle; the last one starts the design. *)
LEMMA ChunkWaits ==
  ASSUME Types, HandleWaits, AcquireChunk
  PROVE  HandleWaits'
  <1> DEFINE s == cs.stream
  <1> SUFFICES ASSUME NEW t \in Streams PROVE Owes(t)' <= Len(enqueued_handles'[t])
    BY DEF HandleWaits
  <1>1. /\ cs.who = "acquire_size"
        /\ enqueued_handles' = [enqueued_handles EXCEPT ![s] = Append(enqueued_handles[s], cs.handle)]
        /\ UNCHANGED <<interrupts, active_streams>>
    BY DEF AcquireChunk
  <1>2. cs.handle \in Handles /\ s \in Streams /\ active_streams[cs.handle] = {s}
    BY <1>1, SizeFacts DEF Types
  <1>3. enqueued_handles \in [Streams -> Seq(Handles)]  BY DEF Types, HandleTypes
  <1>4. /\ t = s => Len(enqueued_handles'[t]) = Len(enqueued_handles[t]) + 1
        /\ t # s => enqueued_handles'[t] = enqueued_handles[t]
    BY <1>1, <1>2, <1>3
  <1>5. \/ UNCHANGED jobs /\ \E n : cs' = [cs EXCEPT !.remaining = n]
        \/ cs' = Nobody /\ \E lengths : StartDesign(cs.handle, lengths)
    BY DEF AcquireChunk
  <1>6. Owed(t)' = 0
    <2>1. cs'.who \in {"acquire_size", "nobody"}
      <3>1. AcquiringSize  BY <1>1, CsWho DEF Types
      <3> QED BY <3>1, <1>5 DEF AcquiringSize, Nobody
    <2> QED BY <2>1 DEF Owed, Promised
  <1>7. /\ t = s => Len(jobs'[t]) \in {Len(jobs[t]), Len(jobs[t]) + 1}
        /\ t # s => jobs'[t] = jobs[t]
    <2>1. CASE UNCHANGED jobs  BY <2>1
    <2>2. CASE \E lengths : StartDesign(cs.handle, lengths)  BY <2>2, <1>2, StartJobs
    <2> QED BY <2>1, <2>2, <1>5
  <1>8. Owes(t)' = Len(jobs'[t]) + Total(interrupts, Ending(t)) + 0  BY <1>1, <1>6 DEF Owes
  <1>9. Owes(t) <= Len(enqueued_handles[t])  BY DEF HandleWaits
  <1> HIDE DEF s
  <1>10. CASE t = s
    <2>1. Len(jobs'[t]) <= Len(jobs[t]) + 1 /\ Len(jobs'[t]) \in Nat  BY <1>7, <1>10, OwesType
    <2>2. PICK j, k, n, o, l \in Nat :
            /\ j = Len(jobs[t]) /\ k = Len(jobs'[t]) /\ n = Total(interrupts, Ending(t)) /\ o = Owed(t)
            /\ l = Len(enqueued_handles[t])
      BY <2>1, OwesType
    <2>3. k <= j + 1 /\ Len(enqueued_handles'[t]) = l + 1  BY <2>1, <2>2, <1>4, <1>10
    <2>4. Owes(t)' = k + n + 0  BY <2>2, <1>8
    <2>5. j + n + o <= l  BY <2>2, <1>9 DEF Owes
    <2> QED BY <2>3, <2>4, <2>5
  <1>11. CASE t # s  BY <1>4, <1>7, <1>8, <1>9, <1>11, OwesType DEF Owes
  <1> QED BY <1>10, <1>11

LEMMA RestartWaits ==
  ASSUME Types, Restart
  PROVE  HandleWaits'
  <1> SUFFICES ASSUME NEW t \in Streams PROVE Owes(t)' <= Len(enqueued_handles'[t])
    BY DEF HandleWaits
  <1>1. /\ interrupts' = <<>> /\ cs' = Nobody /\ jobs'[t] = <<>>
        /\ enqueued_handles' = [s \in Streams |-> <<>>]
    BY DEF Restart
  <1>2. Total(interrupts', Ending(t)) = 0  BY <1>1, TotalEmpty
  <1>3. Owed(t)' = 0  BY <1>1 DEF Owed, Promised, Nobody
  <1>4. Len(jobs'[t]) = 0 /\ Len(enqueued_handles'[t]) = 0  BY <1>1
  <1> QED BY <1>2, <1>3, <1>4 DEF Owes

LEMMA SameEnds ==
  ASSUME Types, EndComes, UNCHANGED interrupts,
         \A s \in Streams : jobs[s] # <<>> => jobs'[s] # <<>>
  PROVE  EndComes'
  <1> SUFFICES ASSUME NEW k \in DOMAIN interrupts, ~ interrupts[k].last
               PROVE  MoreToCome(interrupts, jobs', k)
    BY DEF EndComes
  <1>1. interrupts[k].stream \in Streams
    <2>1. interrupts[k] \in Notification  BY DEF Types, FpgaTypes
    <2> QED BY <2>1 DEF Notification
  <1>2. MoreToCome(interrupts, jobs, k)  BY DEF EndComes
  <1> QED BY <1>1, <1>2 DEF MoreToCome

LEMMA SendEnds ==
  ASSUME Types, EndComes, NEW s \in Streams, NEW x, Sends(s, x)
  PROVE  EndComes'
  <1> DEFINE J == Append(interrupts, x)
             n == Len(interrupts)
  <1>1. /\ x \in Notification /\ x.stream = s /\ interrupts' = J
        /\ x.last => jobs' = [jobs EXCEPT ![s] = Tail(jobs[s])]
        /\ ~ x.last => \E job : jobs' = [jobs EXCEPT ![s] = <<job>> \o Tail(jobs[s])]
        /\ jobs[s] # <<>>
    BY DEF Sends
  <1>2. /\ n \in Nat /\ DOMAIN interrupts = 1 .. n /\ DOMAIN J = 1 .. n + 1
        /\ J[n + 1] = x /\ \A k \in 1 .. n : J[k] = interrupts[k]
    BY <1>1 DEF Types, FpgaTypes
  <1>3. jobs \in [Streams -> Seq(Job)]  BY DEF Types, FpgaTypes
  <1>4. \A t \in Streams \ {s} : jobs'[t] = jobs[t]  BY <1>1, <1>3
  <1>5. ~ x.last => jobs'[s] # <<>>
    <2> SUFFICES ASSUME ~ x.last PROVE jobs'[s] # <<>>  OBVIOUS
    <2>1. PICK job : jobs' = [jobs EXCEPT ![s] = <<job>> \o Tail(jobs[s])]  BY <1>1
    <2>2. jobs'[s] = <<job>> \o Tail(jobs[s])  BY <2>1, <1>3
    <2>3. Tail(jobs[s]) \in Seq(Job)  BY <1>1, <1>3
    <2> QED BY <2>2, <2>3
  <1> HIDE DEF J, n
  <1> SUFFICES ASSUME NEW k \in 1 .. n + 1, ~ J[k].last PROVE MoreToCome(J, jobs', k)
    BY <1>1, <1>2 DEF EndComes
  <1>6. CASE k = n + 1  BY <1>1, <1>2, <1>5, <1>6 DEF MoreToCome
  <1>7. CASE k # n + 1
    <2>1. k \in 1 .. n /\ J[k] = interrupts[k]  BY <1>2, <1>7
    <2>2. MoreToCome(interrupts, jobs, k)  BY <2>1, <1>2 DEF EndComes
    <2>3. J[k].stream \in Streams
      <3>1. interrupts[k] \in Notification  BY <2>1, <1>2 DEF Types, FpgaTypes
      <3> QED BY <2>1, <3>1 DEF Notification
    <2>4. CASE jobs[J[k].stream] # <<>>
      <3>1. CASE J[k].stream # s  BY <3>1, <2>3, <2>4, <1>4 DEF MoreToCome
      <3>2. CASE J[k].stream = s /\ ~ x.last  BY <3>2, <1>5 DEF MoreToCome
      <3>3. CASE J[k].stream = s /\ x.last
        <4>1. n + 1 \in DOMAIN J /\ n + 1 > k /\ J[n + 1].stream = J[k].stream /\ J[n + 1].last
          BY <2>1, <3>3, <1>1, <1>2
        <4> QED BY <4>1 DEF MoreToCome
      <3> QED BY <3>1, <3>2, <3>3
    <2>5. CASE \E j \in DOMAIN interrupts : /\ j > k /\ interrupts[j].last
                                            /\ interrupts[j].stream = interrupts[k].stream
      <3>1. PICK j \in 1 .. n : /\ j > k /\ interrupts[j].last
                                /\ interrupts[j].stream = interrupts[k].stream
        BY <2>5, <1>2
      <3>2. j \in DOMAIN J /\ J[j] = interrupts[j]  BY <1>2
      <3> QED BY <2>1, <3>1, <3>2 DEF MoreToCome
    <2> QED BY <2>1, <2>2, <2>4, <2>5 DEF MoreToCome
  <1> QED BY <1>6, <1>7

LEMMA PopEnds ==
  ASSUME Types, EndComes, HandleInterrupt
  PROVE  EndComes'
  <1> DEFINE J == Tail(interrupts)
             n == Len(J)
  <1>1. interrupts' = J /\ interrupts # <<>> /\ UNCHANGED jobs  BY PopFacts
  <1>2. /\ n \in Nat /\ DOMAIN interrupts = 1 .. n + 1 /\ DOMAIN J = 1 .. n
        /\ \A k \in 1 .. n : J[k] = interrupts[k + 1]
    BY <1>1 DEF Types, FpgaTypes
  <1> HIDE DEF J, n
  <1> SUFFICES ASSUME NEW k \in 1 .. n, ~ J[k].last PROVE MoreToCome(J, jobs, k)
    BY <1>1, <1>2 DEF EndComes
  <1>3. k + 1 \in DOMAIN interrupts /\ J[k] = interrupts[k + 1]  BY <1>2
  <1>4. MoreToCome(interrupts, jobs, k + 1)  BY <1>3 DEF EndComes
  <1>5. CASE jobs[J[k].stream] # <<>>  BY <1>5 DEF MoreToCome
  <1>6. CASE \E j \in DOMAIN interrupts : /\ j > k + 1 /\ interrupts[j].last
                                          /\ interrupts[j].stream = J[k].stream
    <2>1. PICK j \in 1 .. n + 1 : j > k + 1 /\ interrupts[j].last /\ interrupts[j].stream = J[k].stream
      BY <1>2, <1>6
    <2>2. j - 1 \in DOMAIN J /\ j - 1 > k /\ (j - 1) + 1 = j  BY <2>1, <1>2
    <2>3. J[j - 1] = interrupts[j]  BY <2>2, <1>2
    <2> QED BY <2>1, <2>2, <2>3 DEF MoreToCome
  <1> QED BY <1>3, <1>4, <1>5, <1>6 DEF MoreToCome

HandlesReady == HandleWaits /\ EndComes

LEMMA StartEnds ==
  ASSUME Types, EndComes, UNCHANGED interrupts, NEW h \in Handles,
         \E lengths : StartDesign(h, lengths)
  PROVE  EndComes'
  <1>1. PICK lengths : StartDesign(h, lengths)  OBVIOUS
  <1>2. ASSUME NEW s \in Streams, jobs[s] # <<>> PROVE jobs'[s] # <<>>
    <2>1. CASE s \notin active_streams[h]  BY <2>1, <1>1, <1>2, StartJobs
    <2>2. CASE s \in active_streams[h]
      <3>1. Len(jobs'[s]) = Len(jobs[s]) + 1 /\ Len(jobs[s]) \in Nat
        BY <2>2, <1>1, StartJobs, OwesType
      <3> QED BY <3>1
    <2> QED BY <2>1, <2>2
  <1> QED BY <1>2, SameEnds

(* Steps that take and give no output. *)
LEMMA SameReady ==
  ASSUME Types, HandlesReady, UNCHANGED <<jobs, interrupts, enqueued_handles>>,
         \A s \in Streams : Promised(s)' => Promised(s)
  PROVE  HandlesReady'
  BY SameWaits, SameEnds DEF HandlesReady

LEMMA BeginReady ==
  ASSUME Types, HandlesReady, NEW mask \in (SUBSET Streams), NEW by, BeginAcquire(mask, by)
  PROVE  HandlesReady'
  <1>1. /\ cs'.who = "acquire" /\ cs'.handle = num_handles + 1 /\ cs'.left = mask
        /\ active_streams' = [active_streams EXCEPT ![num_handles + 1] = mask]
        /\ UNCHANGED <<jobs, interrupts, enqueued_handles>>
        /\ num_handles < MAX_HANDLES
    BY DEF BeginAcquire, fpgaVars
  <1>2. active_streams'[num_handles + 1] = mask
    BY <1>1, ManagerAssumption DEF Types, HandleTypes, Handles
  <1>3. \A s \in Streams : ~ Promised(s)'  BY <1>1, <1>2 DEF Promised
  <1> QED BY <1>1, <1>3, SameReady

LEMMA HandlesReadyStep ==
  ASSUME Types, Room, HandlesReady, [Next]_vars
  PROVE  HandlesReady'
  <1>0. HandleTypes /\ CsTypes /\ HandleWaits /\ EndComes  BY DEF Types, HandlesReady
  <1> DEFINE SameOutput == UNCHANGED <<jobs, interrupts, enqueued_handles>>
             SamePromise == UNCHANGED <<cs, active_streams>>
  <1>a. ASSUME SameOutput, cs' = Nobody \/ SamePromise PROVE HandlesReady'
    BY <1>a, SameReady DEF Promised, Nobody
  <1>1. CASE FlushBuffers  BY <1>1, <1>a DEF FlushBuffers, handleVars, fpgaVars
  <1>2. CASE Acquire
    <2>1. PICK mask \in (SUBSET Managed) \ {{}} : BeginAcquire(mask, 0)  BY <1>2 DEF Acquire
    <2>2. mask \in SUBSET Streams  BY ManagerAssumption
    <2> QED BY <2>1, <2>2, BeginReady
  <1>3. CASE AcquireStream
    <2>1. HandleWaits'  BY <1>0, <1>3, AcquireWaits
    <2>2. UNCHANGED interrupts /\ cs.handle \in Handles
      BY <1>0, <1>3, AcquireFacts DEF AcquireStream
    <2>3. UNCHANGED jobs \/ \E lengths : StartDesign(cs.handle, lengths)  BY <1>3 DEF AcquireStream
    <2>4. EndComes'  BY <1>0, <2>2, <2>3, SameEnds, StartEnds
    <2> QED BY <2>1, <2>4 DEF HandlesReady
  <1>4. CASE AcquireSize
    <2>1. SameOutput /\ cs'.who = "acquire_size"
      BY <1>4 DEF AcquireSize, BeginAcquireSize, fpgaVars
    <2> QED BY <2>1, SameReady DEF Promised
  <1>5. CASE AcquireChunk
    <2>1. HandleWaits'  BY <1>0, <1>5, ChunkWaits
    <2>2. UNCHANGED interrupts /\ cs.handle \in Handles  BY <1>0, <1>5, SizeFacts DEF AcquireChunk
    <2>3. UNCHANGED jobs \/ \E lengths : StartDesign(cs.handle, lengths)  BY <1>5 DEF AcquireChunk
    <2>4. EndComes'  BY <1>0, <2>2, <2>3, SameEnds, StartEnds
    <2> QED BY <2>1, <2>4 DEF HandlesReady
  <1>6. CASE HandleInterrupt  BY <1>0, <1>6, PopWaits, PopEnds DEF HandlesReady
  <1>7. CASE MarkDone
    <2>1. UNCHANGED <<interrupts, jobs>>  BY <1>7 DEF MarkDone, fpgaVars
    <2> QED BY <1>0, <1>7, <2>1, MarkWaits, SameEnds DEF HandlesReady
  <1>8. CASE DestroyHandle
    <2>1. SameOutput /\ UNCHANGED active_streams /\ cs' = [cs EXCEPT !.destroy = 0]
      BY <1>8 DEF DestroyHandle
    <2>2. Interrupted  BY <1>0, <1>8, CsWho DEF DestroyHandle
    <2>3. cs'.who = "interrupt" /\ cs'.stream = cs.stream /\ cs'.last = cs.last /\ cs.who = "interrupt"
      BY <2>1, <2>2 DEF Interrupted
    <2> QED BY <2>1, <2>3, SameReady DEF Promised
  <1>9. CASE TopUp  BY <1>9, <1>a DEF TopUp, handleVars, fpgaVars
  <1>10. CASE AllocationFails  BY <1>10, <1>a DEF AllocationFails, Unlock, fpgaVars
  <1>11. CASE CallbackAcquires
    <2>1. PICK h \in Handles : BeginAcquire(Managed, h)  BY <1>11 DEF CallbackAcquires
    <2>2. Managed \in SUBSET Streams  BY ManagerAssumption
    <2> QED BY <2>1, <2>2, BeginReady
  <1>12. CASE CallbackEnds  BY <1>12, <1>a DEF CallbackEnds, Callback, fpgaVars
  <1>13. CASE ReadOutput  BY <1>13, <1>a DEF ReadOutput, Read
  <1>14. CASE Drop  BY <1>14, <1>a DEF Drop, DropHandle
  <1>15. CASE Restart
    <2>1. interrupts' = <<>>  BY <1>15 DEF Restart
    <2>2. EndComes'  BY <2>1 DEF EndComes
    <2> QED BY <1>15, <2>2, RestartWaits DEF HandlesReady
  <1>16. CASE Fpga
    <2>1. PICK s \in Streams : FpgaOutput(s) \/ FpgaEmptyOutput(s)  BY <1>16 DEF Fpga
    <2>2. \E x : Sends(s, x)  BY <2>1, OutputSends, EmptySends
    <2> QED BY <1>0, <2>2, SendWaits, SendEnds DEF HandlesReady
  <1>17. CASE UNCHANGED vars  BY <1>17, <1>a DEF vars, handleVars, fpgaVars
  <1> QED
    BY <1>1, <1>2, <1>3, <1>4, <1>5, <1>6, <1>7, <1>8, <1>9, <1>10, <1>11, <1>12, <1>13,
       <1>14, <1>15, <1>16, <1>17 DEF Next

----
(* The theorems about the order of buffers, handles and interrupts.          *)

FullInv == IInv /\ BuffersAgree /\ HandlesReady

LEMMA FullInit == Init => FullInv
  <1> SUFFICES ASSUME Init PROVE FullInv  OBVIOUS
  <1>1. IInv  BY InitInv
  <1>2. /\ interrupts = <<>> /\ cs = Nobody /\ state = "stale"
        /\ \A s \in Streams : /\ enqueued_buffers[s] = <<>> /\ enqueued_handles[s] = <<>>
                              /\ jobs[s] = <<>> /\ fpga_buffers[s] = <<>>
    BY DEF Init
  <1>3. BuffersAgree
    <2>1. Synced /\ Unused  BY <1>2 DEF Synced, Unused
    <2>2. Room /\ BufferWaits  BY <1>2 DEF Room, BufferWaits
    <2> QED BY <2>1, <2>2 DEF BuffersAgree
  <1>4. HandleWaits
    <2> SUFFICES ASSUME NEW s \in Streams PROVE Owes(s) <= Len(enqueued_handles[s])
      BY DEF HandleWaits
    <2>1. Total(interrupts, Ending(s)) = 0  BY <1>2, TotalEmpty
    <2>2. Owed(s) = 0  BY <1>2 DEF Owed, Promised, Nobody
    <2>3. Len(jobs[s]) = 0 /\ Len(enqueued_handles[s]) = 0  BY <1>2
    <2> QED BY <2>1, <2>2, <2>3 DEF Owes
  <1>5. EndComes  BY <1>2 DEF EndComes
  <1> QED BY <1>1, <1>3, <1>4, <1>5 DEF FullInv, HandlesReady

LEMMA FullNext == FullInv /\ [Next]_vars => FullInv'
  <1> SUFFICES ASSUME FullInv, [Next]_vars PROVE FullInv'  OBVIOUS
  <1>1. IInv'  BY NextInv DEF FullInv
  <1>2. Types /\ BuffersAgree /\ Room /\ HandlesReady  BY DEF FullInv, IInv, BuffersAgree
  <1>3. BuffersAgree' /\ HandlesReady'  BY <1>2, BuffersAgreeStep, HandlesReadyStep
  <1> QED BY <1>1, <1>3 DEF FullInv

LEMMA FullInductive == SafeSpec => []FullInv
  BY FullInit, FullNext, PTL DEF SafeSpec

LEMMA TotalPositive ==
  ASSUME NEW R, NEW I \in Seq(R), NEW M, NEW j \in DOMAIN I, I[j] \in M
  PROVE  Total(I, M) > 0
  <1>1. Len(I) \in Nat /\ j \in 1 .. Len(I)  OBVIOUS
  <1>2. j \in Hits(I, M, Len(I))  BY <1>1 DEF Hits
  <1>3. IsFiniteSet(Hits(I, M, Len(I))) /\ Count(I, M, Len(I)) \in Nat  BY <1>1, CountType
  <1>4. Cardinality(Hits(I, M, Len(I))) # 0  BY <1>2, <1>3, FS_EmptySet
  <1> QED BY <1>3, <1>4 DEF Total, Count

(* The manager and the FPGA agree on the buffers the FPGA still has, for any *)
(* number of streams, buffers and interrupts under way: the front of         *)
(* enqueued_buffers is the buffer the next interrupt of the stream is about. *)
THEOREM ManagerAgreesWithFpga == SafeSpec => []FpgaAgrees
  <1>1. FullInv => FpgaAgrees
    <2> SUFFICES ASSUME FullInv, state # "stale", NEW s \in Streams
                 PROVE  SubSeq(enqueued_buffers[s], Cardinality(UsedUp(s)) + 1,
                               Len(enqueued_buffers[s])) = fpga_buffers[s]
      BY DEF FpgaAgrees
    <2> DEFINE u == Total(interrupts, Using(s))
    <2>1. /\ enqueued_buffers[s] \in Seq(Buffer) /\ fpga_buffers[s] \in Seq(Buffer)
          /\ interrupts \in Seq(Notification)
      BY DEF FullInv, IInv, Types, BufferTypes, FpgaTypes
    <2>2. UsedUp(s) = Hits(interrupts, Using(s), Len(interrupts))
      <3>1. DOMAIN interrupts = 1 .. Len(interrupts)  BY <2>1
      <3>2. \A i \in DOMAIN interrupts : interrupts[i] \in Notification  BY <2>1
      <3> QED BY <3>1, <3>2 DEF UsedUp, Hits, Using
    <2>3. Cardinality(UsedUp(s)) = u  BY <2>2 DEF Total, Count
    <2>4. u \in Nat  BY <2>1, TotalType
    <2>5. Matches(enqueued_buffers[s], fpga_buffers[s], u)  BY DEF FullInv, BuffersAgree, Synced
    <2> HIDE DEF u
    <2> QED BY <2>1, <2>3, <2>4, <2>5, MatchSub
  <1> QED BY <1>1, FullInductive, PTL

(* An interrupt always finds a handle and a buffer, for any number of        *)
(* streams, handles and buffers, whatever allocation fails and whenever the  *)
(* manager is made anew: the assertion of output_buffer_manager.cpp:210.     *)
THEOREM InterruptFindsHandle == SafeSpec => []InterruptHasHandle
  <1>1. FullInv => InterruptHasHandle
    <2> DEFINE i == Head(interrupts)
               s == i.stream
    <2> SUFFICES ASSUME FullInv, interrupts # <<>>
                 PROVE  enqueued_handles[s] # <<>> /\ enqueued_buffers[s] # <<>>
      BY DEF InterruptHasHandle
    <2>0. Types /\ BufferWaits /\ HandleWaits /\ EndComes
      BY DEF FullInv, IInv, BuffersAgree, HandlesReady
    <2>1. interrupts \in Seq(Notification) /\ 1 \in DOMAIN interrupts /\ interrupts[1] = i
      BY <2>0 DEF Types, FpgaTypes
    <2>2. i \in Notification /\ s \in Streams /\ i.stream = s
      <3>1. i \in Notification  BY <2>1
      <3> QED BY <3>1 DEF Notification
    <2> HIDE DEF i, s
    <2>3. enqueued_buffers[s] # <<>>
      <3>1. Count(interrupts, Using(s), 1 - 1) < Len(enqueued_buffers[s])
        BY <2>0, <2>1, <2>2 DEF BufferWaits
      <3>2. Count(interrupts, Using(s), 0) = 0  BY CountZero
      <3> QED BY <3>1, <3>2
    <2>4. Len(jobs[s]) + Total(interrupts, Ending(s)) > 0
      <3>1. Len(jobs[s]) \in Nat /\ Total(interrupts, Ending(s)) \in Nat /\ jobs[s] \in Seq(Job)
        BY <2>0, <2>2, OwesType
      <3>2. CASE i.last
        <4>1. i \in Ending(s)  BY <2>2, <3>2 DEF Ending
        <4>2. Total(interrupts, Ending(s)) > 0  BY <2>1, <4>1, TotalPositive
        <4> QED BY <3>1, <4>2
      <3>3. CASE ~ i.last
        <4>1. MoreToCome(interrupts, jobs, 1)  BY <2>0, <2>1, <3>3 DEF EndComes
        <4>2. CASE jobs[s] # <<>>  BY <4>2, <3>1
        <4>3. CASE \E j \in DOMAIN interrupts : interrupts[j].stream = s /\ interrupts[j].last
          <5>1. PICK j \in DOMAIN interrupts : interrupts[j].stream = s /\ interrupts[j].last
            BY <4>3
          <5>2. interrupts[j] \in Ending(s)  BY <2>1, <5>1 DEF Ending
          <5>3. Total(interrupts, Ending(s)) > 0  BY <2>1, <5>2, TotalPositive
          <5> QED BY <3>1, <5>3
        <4> QED BY <2>1, <2>2, <4>1, <4>2, <4>3 DEF MoreToCome
      <3> QED BY <3>2, <3>3
    <2>5. enqueued_handles[s] # <<>>
      <3>1. Owes(s) <= Len(enqueued_handles[s])  BY <2>0, <2>2 DEF HandleWaits
      <3>2. Len(enqueued_handles[s]) > 0  BY <2>0, <2>2, <2>4, <3>1, OwesType DEF Owes
      <3> QED BY <3>2
    <2> QED BY <2>3, <2>5
  <1> QED BY <1>1, FullInductive, PTL

----
(* Pieces of an output.                                                     *)

Part == Handles \X Streams \X Nat

\* The n parts that follow on the first a.
Piece(h, s, a, n) == [k \in 1 .. n |-> <<h, s, a + k>>]

LEMMA OutputIs ==
  ASSUME NEW h, NEW s, NEW a \in Nat, NEW n \in Nat
  PROVE  Output(h, s, a + 1, a + n) = Piece(h, s, a, n)
  <1>1. (a + n) - (a + 1) + 1 = n /\ \A k \in 1 .. n : (a + 1) + k - 1 = a + k  OBVIOUS
  <1>2. PICK b, c : b = a + n /\ c = a + 1  OBVIOUS
  <1>3. b - c + 1 = n /\ \A k \in 1 .. n : c + k - 1 = a + k  BY <1>1, <1>2
  <1>4. Output(h, s, c, b) = [k \in 1 .. n |-> <<h, s, c + k - 1>>]  BY <1>3 DEF Output
  <1>5. [k \in 1 .. n |-> <<h, s, c + k - 1>>] = [k \in 1 .. n |-> <<h, s, a + k>>]  BY <1>3
  <1> QED BY <1>2, <1>4, <1>5 DEF Piece

LEMMA OutputPiece ==
  ASSUME NEW h \in Handles, NEW s \in Streams, NEW a \in Nat, NEW b \in Nat, a <= b
  PROVE  /\ Output(h, s, a + 1, b) \in Seq(Part) /\ Len(Output(h, s, a + 1, b)) = b - a
         /\ \A k \in 1 .. b - a : Output(h, s, a + 1, b)[k] = <<h, s, a + k>>
  <1>1. PICK n \in Nat : n = b - a  OBVIOUS
  <1>2. b = a + n  BY <1>1
  <1>3. PICK o : o = [k \in 1 .. n |-> <<h, s, a + k>>]  OBVIOUS
  <1>4. \A k \in 1 .. n : <<h, s, a + k>> \in Part
    <2>1. \A k \in 1 .. n : a + k \in Nat  OBVIOUS
    <2> QED BY <2>1 DEF Part
  <1>5. o \in [1 .. n -> Part]  BY <1>3, <1>4
  <1>6. o \in Seq(Part) /\ Len(o) = n  BY <1>5
  <1>7. \A k \in 1 .. n : o[k] = <<h, s, a + k>>  BY <1>3
  <1>8. Output(h, s, a + 1, b) = o
    <2>1. Output(h, s, a + 1, a + n) = Piece(h, s, a, n)  BY OutputIs
    <2> QED BY <2>1, <1>2, <1>3 DEF Piece
  <1> QED BY <1>1, <1>6, <1>7, <1>8

LEMMA OutputStart ==
  ASSUME NEW h \in Handles, NEW s \in Streams, NEW b \in Nat
  PROVE  /\ Output(h, s, 1, b) \in Seq(Part) /\ Len(Output(h, s, 1, b)) = b
         /\ \A k \in 1 .. b : Output(h, s, 1, b)[k] = <<h, s, k>>
  <1>1. 0 + 1 = 1 /\ b - 0 = b /\ 0 \in Nat /\ 0 <= b /\ \A k \in 1 .. b : 0 + k = k  OBVIOUS
  <1>2. PICK z, i, d : z = 0 /\ i = 1 /\ d = b  OBVIOUS
  <1>3. z + 1 = i /\ b - z = d /\ z \in Nat /\ z <= b /\ \A k \in 1 .. d : z + k = k  BY <1>1, <1>2
  <1>4. Output(h, s, z + 1, b) \in Seq(Part) /\ Len(Output(h, s, z + 1, b)) = b - z
    BY <1>3, OutputPiece
  <1>5. \A k \in 1 .. b - z : Output(h, s, z + 1, b)[k] = <<h, s, z + k>>  BY <1>3, OutputPiece
  <1>6. Output(h, s, i, b) \in Seq(Part) /\ Len(Output(h, s, i, b)) = d  BY <1>3, <1>4
  <1>7. \A k \in 1 .. d : Output(h, s, i, b)[k] = <<h, s, z + k>>  BY <1>3, <1>5
  <1> QED BY <1>2, <1>3, <1>6, <1>7

\* Sequences with the same elements are the same.
LEMMA SameSeq ==
  ASSUME NEW R, NEW x \in Seq(R), NEW y \in Seq(R), Len(x) = Len(y),
         \A k \in 1 .. Len(x) : x[k] = y[k]
  PROVE  x = y
  <1>1. PICK n : n = Len(x)  OBVIOUS
  <1>2. x = [k \in 1 .. n |-> x[k]] /\ y = [k \in 1 .. n |-> y[k]]  BY <1>1
  <1> QED BY <1>1, <1>2

LEMMA NoOutput ==
  ASSUME NEW h \in Handles, NEW s \in Streams
  PROVE  Output(h, s, 1, 0) = <<>>
  <1>1. Output(h, s, 1, 0) \in Seq(Part) /\ Len(Output(h, s, 1, 0)) = 0  BY OutputStart
  <1>2. PICK o : o = Output(h, s, 1, 0)  OBVIOUS
  <1>3. o = <<>>  BY <1>1, <1>2
  <1> QED BY <1>2, <1>3

LEMMA SecondPart ==
  ASSUME NEW S, NEW x \in Seq(S), NEW y \in Seq(S), NEW j \in 1 .. Len(y)
  PROVE  (x \o y)[Len(x) + j] = y[j]
  OBVIOUS

\* What follows on a piece makes a longer one.
LEMMA OutputJoins ==
  ASSUME NEW h \in Handles, NEW s \in Streams, NEW a \in Nat, NEW b \in Nat, a <= b
  PROVE  Output(h, s, 1, a) \o Output(h, s, a + 1, b) = Output(h, s, 1, b)
  <1>1. PICK x, y, z : x = Output(h, s, 1, a) /\ y = Output(h, s, a + 1, b) /\ z = Output(h, s, 1, b)
    OBVIOUS
  <1>2. x \in Seq(Part) /\ y \in Seq(Part) /\ z \in Seq(Part)  BY <1>1, OutputStart, OutputPiece
  <1>3. Len(x) = a /\ \A k \in 1 .. a : x[k] = <<h, s, k>>  BY <1>1, OutputStart
  <1>4. Len(z) = b /\ \A k \in 1 .. b : z[k] = <<h, s, k>>  BY <1>1, OutputStart
  <1>5. Len(y) = b - a /\ \A k \in 1 .. b - a : y[k] = <<h, s, a + k>>  BY <1>1, OutputPiece
  <1>6. PICK w : w = x \o y  OBVIOUS
  <1>7. w \in Seq(Part) /\ Len(w) = b  BY <1>2, <1>3, <1>5, <1>6
  <1>8. ASSUME NEW k \in 1 .. b PROVE w[k] = z[k]
    <2>1. CASE k <= a
      <3>1. k \in 1 .. a /\ k \in 1 .. Len(x)  BY <2>1, <1>3
      <3>2. w[k] = x[k]  BY <3>1, <1>2, <1>6
      <3> QED BY <3>1, <3>2, <1>3, <1>4
    <2>2. CASE ~(k <= a)
      <3>1. k - a \in 1 .. b - a /\ a + (k - a) = k  BY <2>2
      <3>2. PICK j \in 1 .. b - a : a + j = k  BY <3>1
      <3>3. (x \o y)[Len(x) + j] = y[j]  BY <1>2, <1>5, SecondPart
      <3>4. w[k] = y[j]  BY <3>2, <3>3, <1>3, <1>6
      <3> QED BY <3>2, <3>4, <1>4, <1>5
    <2> QED BY <2>1, <2>2
  <1>9. w = z  BY <1>2, <1>4, <1>7, <1>8, SameSeq
  <1> QED BY <1>1, <1>6, <1>9

LEMMA OutputPrefix ==
  ASSUME NEW h \in Handles, NEW s \in Streams, NEW a \in Nat, NEW b \in Nat, a <= b
  PROVE  IsPrefix(Output(h, s, 1, a), Output(h, s, 1, b))
  <1>1. PICK x, z : x = Output(h, s, 1, a) /\ z = Output(h, s, 1, b)  OBVIOUS
  <1>2. x \in Seq(Part) /\ z \in Seq(Part)  BY <1>1, OutputStart, OutputPiece
  <1>3. Len(x) = a /\ \A k \in 1 .. a : x[k] = <<h, s, k>>  BY <1>1, OutputStart
  <1>4. Len(z) = b /\ \A k \in 1 .. b : z[k] = <<h, s, k>>  BY <1>1, OutputStart
  <1>5. PICK v, w : v = SubSeq(x, 1, a) /\ w = SubSeq(z, 1, a)  OBVIOUS
  <1>6. v \in Seq(Part) /\ Len(v) = a /\ \A k \in 1 .. a : v[k] = x[k]  BY <1>2, <1>3, <1>5
  <1>7. w \in Seq(Part) /\ Len(w) = a /\ \A k \in 1 .. a : w[k] = z[k]  BY <1>2, <1>4, <1>5
  <1>8. \A k \in 1 .. a : v[k] = w[k]
    <2>1. \A k \in 1 .. a : k \in 1 .. b  OBVIOUS
    <2> QED BY <2>1, <1>3, <1>4, <1>6, <1>7
  <1>9. v = w  BY <1>6, <1>7, <1>8, SameSeq
  <1> QED BY <1>1, <1>3, <1>4, <1>5, <1>9 DEF IsPrefix

----
(* What the application has and what it can still take from the buffers of  *)
(* its handle is the first m parts of the output: g says where the buffers  *)
(* begin.                                                                   *)

Cuts(g, h, s, q, r, mem) ==
  /\ g \in [0 .. Len(q) -> Nat]
  /\ r = Output(h, s, 1, g[0])
  /\ \A i \in 1 .. Len(q) : g[i - 1] <= g[i] /\ mem[q[i].id] = Output(h, s, g[i - 1] + 1, g[i])
Holds(h, s, q, r, mem, m) == \E g : Cuts(g, h, s, q, r, mem) /\ g[Len(q)] = m

LEMMA HoldsNone ==
  ASSUME NEW h \in Handles, NEW s \in Streams, NEW mem
  PROVE  Holds(h, s, <<>>, <<>>, mem, 0)
  <1>1. PICK g : g = [i \in 0 .. 0 |-> 0]  OBVIOUS
  <1>2. g \in [0 .. 0 -> Nat] /\ g[0] = 0  BY <1>1
  <1>3. PICK q : q = <<>>  OBVIOUS
  <1>4. Len(q) = 0 /\ \A i \in 1 .. Len(q) : FALSE  BY <1>3
  <1>5. Cuts(g, h, s, q, <<>>, mem)  BY <1>2, <1>4, NoOutput DEF Cuts
  <1>6. Holds(h, s, q, <<>>, mem, 0)  BY <1>2, <1>4, <1>5 DEF Holds
  <1> QED BY <1>3, <1>6

LEMMA HoldsSame ==
  ASSUME NEW h, NEW s, NEW q \in Seq(Delivered), NEW r, NEW mem, NEW kept, NEW m, Holds(h, s, q, r, mem, m),
         \A i \in 1 .. Len(q) : kept[q[i].id] = mem[q[i].id]
  PROVE  Holds(h, s, q, r, kept, m)
  <1>1. PICK g : Cuts(g, h, s, q, r, mem) /\ g[Len(q)] = m  BY DEF Holds
  <1>2. Cuts(g, h, s, q, r, kept)  BY <1>1 DEF Cuts
  <1> QED BY <1>1, <1>2 DEF Holds

\* Another buffer.
LEMMA HoldsMore ==
  ASSUME NEW h, NEW s, NEW q \in Seq(Delivered), NEW r, NEW mem, NEW m, Holds(h, s, q, r, mem, m),
         NEW e \in Delivered, NEW n \in Nat, mem[e.id] = Output(h, s, m + 1, m + n)
  PROVE  Holds(h, s, Append(q, e), r, mem, m + n)
  <1>1. PICK g : Cuts(g, h, s, q, r, mem) /\ g[Len(q)] = m  BY DEF Holds
  <1>2. PICK l, p : l = Len(q) /\ p = Append(q, e)  OBVIOUS
  <1>3. l \in Nat /\ Len(p) = l + 1 /\ p[l + 1] = e /\ \A i \in 1 .. l : p[i] = q[i]  BY <1>2
  <1>4. /\ g \in [0 .. l -> Nat] /\ r = Output(h, s, 1, g[0]) /\ g[l] = m
        /\ \A i \in 1 .. l : g[i - 1] <= g[i] /\ mem[q[i].id] = Output(h, s, g[i - 1] + 1, g[i])
    BY <1>1, <1>2 DEF Cuts
  <1>5. m \in Nat
    <2>1. l \in 0 .. l  BY <1>3
    <2> QED BY <2>1, <1>4
  <1>6. PICK f : f = [i \in 0 .. l + 1 |-> IF i = l + 1 THEN m + n ELSE g[i]]  OBVIOUS
  <1>7. f \in [0 .. l + 1 -> Nat] /\ f[l + 1] = m + n /\ \A i \in 0 .. l : f[i] = g[i]
    <2>1. \A i \in 0 .. l + 1 : i # l + 1 => i \in 0 .. l  BY <1>3
    <2>2. \A i \in 0 .. l : i \in 0 .. l + 1 /\ i # l + 1  BY <1>3
    <2>3. l + 1 \in 0 .. l + 1 /\ m + n \in Nat  BY <1>3, <1>5
    <2> QED BY <2>1, <2>2, <2>3, <1>4, <1>6
  <1>8. ASSUME NEW i \in 1 .. l + 1
        PROVE  f[i - 1] <= f[i] /\ mem[p[i].id] = Output(h, s, f[i - 1] + 1, f[i])
    <2>1. CASE i = l + 1
      <3>1. i - 1 = l /\ l \in 0 .. l  BY <2>1, <1>3
      <3>2. f[i - 1] = m /\ f[i] = m + n /\ p[i] = e /\ m <= m + n
        BY <2>1, <3>1, <1>3, <1>4, <1>5, <1>7
      <3> QED BY <3>2
    <2>2. CASE i # l + 1
      <3>1. i \in 1 .. l /\ i - 1 \in 0 .. l /\ i \in 0 .. l  BY <2>2, <1>3
      <3>2. f[i - 1] = g[i - 1] /\ f[i] = g[i] /\ p[i] = q[i]  BY <3>1, <1>3, <1>7
      <3> QED BY <3>1, <3>2, <1>4
    <2> QED BY <2>1, <2>2
  <1>9. r = Output(h, s, 1, f[0])
    <2>1. 0 \in 0 .. l  BY <1>3
    <2> QED BY <2>1, <1>4, <1>7
  <1>10. Cuts(f, h, s, p, r, mem) /\ f[Len(p)] = m + n  BY <1>3, <1>7, <1>8, <1>9 DEF Cuts
  <1> QED BY <1>2, <1>10 DEF Holds

\* The first buffer is read.
LEMMA HoldsRead ==
  ASSUME NEW h \in Handles, NEW s \in Streams, NEW q \in Seq(Delivered), NEW r, NEW mem, NEW m,
         Holds(h, s, q, r, mem, m), q # <<>>
  PROVE  Holds(h, s, Tail(q), r \o mem[Head(q).id], mem, m)
  <1>1. PICK g : Cuts(g, h, s, q, r, mem) /\ g[Len(q)] = m  BY DEF Holds
  <1>2. PICK l, p : l = Len(q) - 1 /\ p = Tail(q)  OBVIOUS
  <1>3. l \in Nat /\ Len(q) = l + 1 /\ Len(p) = l /\ Head(q) = q[1] /\ \A i \in 1 .. l : p[i] = q[i + 1]
    BY <1>2
  <1>4. /\ g \in [0 .. l + 1 -> Nat] /\ r = Output(h, s, 1, g[0]) /\ g[l + 1] = m
        /\ \A i \in 1 .. l + 1 : g[i - 1] <= g[i] /\ mem[q[i].id] = Output(h, s, g[i - 1] + 1, g[i])
    BY <1>1, <1>3 DEF Cuts
  <1>5. PICK f : f = [i \in 0 .. l |-> g[i + 1]]  OBVIOUS
  <1>6. f \in [0 .. l -> Nat] /\ \A i \in 0 .. l : f[i] = g[i + 1]
    <2>1. \A i \in 0 .. l : i + 1 \in 0 .. l + 1  BY <1>3
    <2> QED BY <2>1, <1>4, <1>5
  <1>7. ASSUME NEW i \in 1 .. l
        PROVE  f[i - 1] <= f[i] /\ mem[p[i].id] = Output(h, s, f[i - 1] + 1, f[i])
    <2>1. i - 1 \in 0 .. l /\ i \in 0 .. l /\ (i - 1) + 1 = i /\ i + 1 \in 1 .. l + 1 /\ (i + 1) - 1 = i
      BY <1>3
    <2>2. f[i - 1] = g[i] /\ f[i] = g[i + 1]  BY <2>1, <1>6
    <2>3. g[i] <= g[i + 1] /\ mem[q[i + 1].id] = Output(h, s, g[i] + 1, g[i + 1])  BY <2>1, <1>4
    <2> QED BY <2>2, <2>3, <1>3
  <1>8. r \o mem[q[1].id] = Output(h, s, 1, f[0])
    <2>1. 0 \in 0 .. l /\ 0 + 1 = 1 /\ 1 \in 1 .. l + 1 /\ 1 - 1 = 0 /\ 0 \in 0 .. l + 1 /\ 1 \in 0 .. l + 1
      BY <1>3
    <2>2. f[0] = g[1] /\ g[0] \in Nat /\ g[1] \in Nat  BY <2>1, <1>4, <1>6
    <2>3. g[0] <= g[1] /\ mem[q[1].id] = Output(h, s, g[0] + 1, g[1])
      <3>1. PICK i, j : i = 1 /\ j = 0  OBVIOUS
      <3>2. i \in 1 .. l + 1 /\ i - 1 = j  BY <3>1, <2>1
      <3>3. g[j] <= g[i] /\ mem[q[i].id] = Output(h, s, g[j] + 1, g[i])  BY <3>2, <1>4
      <3> QED BY <3>1, <3>3
    <2>4. PICK u, v : u = g[0] /\ v = g[1]  OBVIOUS
    <2>5. Output(h, s, 1, u) \o Output(h, s, u + 1, v) = Output(h, s, 1, v)
      BY <2>2, <2>3, <2>4, OutputJoins
    <2> QED BY <2>2, <2>3, <2>4, <2>5, <1>4
  <1>9. f[Len(p)] = m
    <2>1. l \in 0 .. l  BY <1>3
    <2> QED BY <2>1, <1>3, <1>4, <1>6
  <1>10. Cuts(f, h, s, p, r \o mem[q[1].id], mem)  BY <1>3, <1>6, <1>7, <1>8 DEF Cuts
  <1> QED BY <1>2, <1>3, <1>9, <1>10 DEF Holds

----
(* What Returned is.                                                        *)

UpTo(f, q, r, mem) ==
  f = [i \in 0 .. Len(q) |-> IF i = 0 THEN r ELSE f[i - 1] \o mem[q[i].id]]

LEMMA ReturnedIs ==
  ASSUME NEW h, NEW s
  PROVE  Returned(h, s) =
           (CHOOSE f : UpTo(f, output_buffers[h][s], received[h][s], memory))[Len(output_buffers[h][s])]
  BY DEF Returned, UpTo

LEMMA HoldsUpTo ==
  ASSUME NEW h \in Handles, NEW s \in Streams, NEW q \in Seq(Delivered), NEW r, NEW mem, NEW g,
         Cuts(g, h, s, q, r, mem)
  PROVE  \E f : UpTo(f, q, r, mem)
  <1>1. PICK l : l = Len(q)  OBVIOUS
  <1>2. /\ l \in Nat /\ g \in [0 .. l -> Nat] /\ r = Output(h, s, 1, g[0])
        /\ \A i \in 1 .. l : g[i - 1] <= g[i] /\ mem[q[i].id] = Output(h, s, g[i - 1] + 1, g[i])
    BY <1>1 DEF Cuts
  <1>3. PICK f : f = [i \in 0 .. l |-> Output(h, s, 1, g[i])]  OBVIOUS
  <1>4. ASSUME NEW i \in 0 .. l PROVE f[i] = (IF i = 0 THEN r ELSE f[i - 1] \o mem[q[i].id])
    <2>1. CASE i = 0  BY <2>1, <1>2, <1>3
    <2>2. CASE i # 0
      <3>1. i \in 1 .. l /\ i - 1 \in 0 .. l  BY <2>2, <1>2
      <3>2. g[i - 1] \in Nat /\ g[i] \in Nat /\ g[i - 1] <= g[i] /\ mem[q[i].id] = Output(h, s, g[i - 1] + 1, g[i])
        BY <3>1, <1>2
      <3>3. f[i - 1] = Output(h, s, 1, g[i - 1]) /\ f[i] = Output(h, s, 1, g[i])  BY <3>1, <1>3
      <3>4. f[i - 1] \o mem[q[i].id] = f[i]  BY <3>2, <3>3, OutputJoins
      <3> QED BY <2>2, <3>4
    <2> QED BY <2>1, <2>2
  <1>5. f = [i \in 0 .. l |-> IF i = 0 THEN r ELSE f[i - 1] \o mem[q[i].id]]
    <2>1. f = [i \in 0 .. l |-> f[i]]  BY <1>3
    <2> QED BY <2>1, <1>4
  <1> QED BY <1>1, <1>5 DEF UpTo

LEMMA UpToValue ==
  ASSUME NEW h \in Handles, NEW s \in Streams, NEW q \in Seq(Delivered), NEW r, NEW mem, NEW g,
         Cuts(g, h, s, q, r, mem), NEW f, UpTo(f, q, r, mem)
  PROVE  f[Len(q)] = Output(h, s, 1, g[Len(q)])
  <1>1. PICK l : l = Len(q)  OBVIOUS
  <1>2. /\ l \in Nat /\ g \in [0 .. l -> Nat] /\ r = Output(h, s, 1, g[0])
        /\ \A i \in 1 .. l : g[i - 1] <= g[i] /\ mem[q[i].id] = Output(h, s, g[i - 1] + 1, g[i])
    BY <1>1 DEF Cuts
  <1>3. f = [i \in 0 .. l |-> IF i = 0 THEN r ELSE f[i - 1] \o mem[q[i].id]]  BY <1>1 DEF UpTo
  <1>4. \A i \in 0 .. l : f[i] = (IF i = 0 THEN r ELSE f[i - 1] \o mem[q[i].id])  BY <1>3
  <1>5. PICK S : S = {i \in Nat : i <= l => f[i] = Output(h, s, 1, g[i])}  OBVIOUS
  <1>6. 0 \in S  BY <1>2, <1>4, <1>5
  <1>7. ASSUME NEW n \in Nat, n \in S PROVE n + 1 \in S
    <2>1. ASSUME n + 1 <= l PROVE f[n + 1] = Output(h, s, 1, g[n + 1])
      <3>1. n + 1 \in 1 .. l /\ (n + 1) - 1 = n /\ n \in 0 .. l /\ n + 1 \in 0 .. l /\ n <= l /\ n + 1 # 0
        BY <2>1, <1>2
      <3>2. f[n] = Output(h, s, 1, g[n])  BY <3>1, <1>5, <1>7
      <3>3. f[n + 1] = f[n] \o mem[q[n + 1].id]  BY <3>1, <1>4
      <3>4. g[n] \in Nat /\ g[n + 1] \in Nat /\ g[n] <= g[n + 1] /\ mem[q[n + 1].id] = Output(h, s, g[n] + 1, g[n + 1])
        BY <3>1, <1>2
      <3>5. PICK c, d : c = g[n] /\ d = g[n + 1]  OBVIOUS
      <3>6. Output(h, s, 1, c) \o Output(h, s, c + 1, d) = Output(h, s, 1, d)
        BY <3>4, <3>5, OutputJoins
      <3> QED BY <3>2, <3>3, <3>4, <3>5, <3>6
    <2> QED BY <2>1, <1>5
  <1>8. l \in S  BY <1>2, <1>6, <1>7, SetInduction
  <1> QED BY <1>1, <1>2, <1>5, <1>8

LEMMA HoldsReturned ==
  ASSUME NEW h \in Handles, NEW s \in Streams, NEW m, output_buffers[h][s] \in Seq(Delivered),
         Holds(h, s, output_buffers[h][s], received[h][s], memory, m)
  PROVE  Returned(h, s) = Output(h, s, 1, m)
  <1>1. PICK q, r, mem : q = output_buffers[h][s] /\ r = received[h][s] /\ mem = memory  OBVIOUS
  <1>2. q \in Seq(Delivered)  BY <1>1
  <1>3. PICK g : Cuts(g, h, s, q, r, mem) /\ g[Len(q)] = m  BY <1>1 DEF Holds
  <1>4. \E f : UpTo(f, q, r, mem)  BY <1>2, <1>3, HoldsUpTo
  <1>5. PICK f : f = CHOOSE e : UpTo(e, q, r, mem)  OBVIOUS
  <1>6. UpTo(f, q, r, mem)  BY <1>4, <1>5
  <1>7. f[Len(q)] = Output(h, s, 1, m)  BY <1>2, <1>3, <1>6, UpToValue
  <1>8. Returned(h, s) = f[Len(q)]  BY <1>1, <1>5, ReturnedIs
  <1> QED BY <1>7, <1>8

----
(* What a stream has ahead of it: the handles that wait, the buffers, and    *)
(* how much of the first handle's output is out. An interrupt moves on.     *)

Cursor == [handles : Seq(Handles), buffers : Seq(Buffer), at : Nat]

Uses(x, cons) == x.bytes > 0 \/ cons

Passed(c, x, cons) ==
  [handles |-> IF x.last THEN Tail(c.handles) ELSE c.handles,
   buffers |-> IF Uses(x, cons) THEN Tail(c.buffers) ELSE c.buffers,
   at |-> IF x.last THEN 0 ELSE c.at + x.bytes]

(* The interrupt is about the first handle and the first buffer. N are the   *)
(* handles without an output yet, W the buffers the FPGA will write, G is    *)
(* how long the output of each handle is.                                   *)
Filled(s, c, x, W, mem) ==
  /\ Head(c.buffers).id \notin W
  /\ mem[Head(c.buffers).id] = Output(Head(c.handles), s, c.at + 1, c.at + x.bytes)
Fits(c, x, N, G) ==
  /\ Head(c.handles) \notin N
  /\ c.at + x.bytes <= G[Head(c.handles)]
  /\ x.last => c.at + x.bytes = G[Head(c.handles)]
Delivers(s, c, x, N, W, G, mem, cons) ==
  /\ c.handles # <<>>
  /\ Uses(x, cons) => c.buffers # <<>>
  /\ Fits(c, x, N, G)
  /\ x.bytes > 0 => Filled(s, c, x, W, mem)

Moves(s, c, x, d, N, W, G, mem, cons) ==
  IF x.stream = s THEN Delivers(s, c, x, N, W, G, mem, cons) /\ d = Passed(c, x, cons) ELSE d = c

Steps(s, N, W, G, mem, cons) ==
  {t \in Cursor \X Notification \X Cursor : Moves(s, t[1], t[2], t[3], N, W, G, mem, cons)}

LEMMA InSteps ==
  ASSUME NEW s, NEW N, NEW W, NEW G, NEW mem, NEW cons, NEW c, NEW x, NEW d
  PROVE  <<c, x, d>> \in Steps(s, N, W, G, mem, cons) <=>
           c \in Cursor /\ x \in Notification /\ d \in Cursor /\ Moves(s, c, x, d, N, W, G, mem, cons)
  <1>1. ASSUME <<c, x, d>> \in Steps(s, N, W, G, mem, cons)
        PROVE  c \in Cursor /\ x \in Notification /\ d \in Cursor /\ Moves(s, c, x, d, N, W, G, mem, cons)
    <2>1. PICK t : t = <<c, x, d>>  OBVIOUS
    <2>2. t \in Cursor \X Notification \X Cursor /\ Moves(s, t[1], t[2], t[3], N, W, G, mem, cons)
      BY <1>1, <2>1 DEF Steps
    <2>3. t[1] = c /\ t[2] = x /\ t[3] = d  BY <2>1
    <2>4. t[1] \in Cursor /\ t[2] \in Notification /\ t[3] \in Cursor  BY <2>2
    <2> QED BY <2>2, <2>3, <2>4
  <1>2. ASSUME c \in Cursor, x \in Notification, d \in Cursor, Moves(s, c, x, d, N, W, G, mem, cons)
        PROVE  <<c, x, d>> \in Steps(s, N, W, G, mem, cons)
    <2>1. PICK t : t = <<c, x, d>>  OBVIOUS
    <2>2. t[1] = c /\ t[2] = x /\ t[3] = d  BY <2>1
    <2>3. t \in Cursor \X Notification \X Cursor  BY <1>2, <2>1
    <2>4. Moves(s, t[1], t[2], t[3], N, W, G, mem, cons)  BY <1>2, <2>2
    <2> QED BY <2>1, <2>3, <2>4 DEF Steps
  <1> QED BY <1>1, <1>2

(* The interrupts I lead from c to d by steps of R. *)
Linked(c, I, d, R) ==
  \E f : /\ f \in [0 .. Len(I) -> Cursor]
         /\ f[0] = c /\ f[Len(I)] = d
         /\ \A k \in 1 .. Len(I) : <<f[k - 1], I[k], f[k]>> \in R

LEMMA LinkEnds ==
  ASSUME NEW X, NEW I \in Seq(X), NEW c, NEW d, NEW R, Linked(c, I, d, R)
  PROVE  c \in Cursor /\ d \in Cursor /\ (I = <<>> => c = d)
  <1>1. PICK f : f \in [0 .. Len(I) -> Cursor] /\ f[0] = c /\ f[Len(I)] = d  BY DEF Linked
  <1>2. 0 \in 0 .. Len(I) /\ Len(I) \in 0 .. Len(I) /\ (I = <<>> => Len(I) = 0)  OBVIOUS
  <1> QED BY <1>1, <1>2

LEMMA LinkNone ==
  ASSUME NEW I, I = <<>>, NEW c \in Cursor, NEW R
  PROVE  Linked(c, I, c, R)
  <1>1. PICK f : f = [k \in 0 .. 0 |-> c]  OBVIOUS
  <1>2. f \in [0 .. 0 -> Cursor] /\ f[0] = c  BY <1>1
  <1>3. Len(I) = 0 /\ \A k \in 1 .. Len(I) : FALSE  OBVIOUS
  <1> QED BY <1>2, <1>3 DEF Linked

\* Another interrupt.
LEMMA LinkAppend ==
  ASSUME NEW X, NEW I \in Seq(X), NEW x \in X, NEW c, NEW d, NEW e \in Cursor, NEW R,
         Linked(c, I, d, R), <<d, x, e>> \in R
  PROVE  Linked(c, Append(I, x), e, R)
  <1>1. PICK f : /\ f \in [0 .. Len(I) -> Cursor] /\ f[0] = c /\ f[Len(I)] = d
                 /\ \A k \in 1 .. Len(I) : <<f[k - 1], I[k], f[k]>> \in R
    BY DEF Linked
  <1>2. PICK n, J : n = Len(I) /\ J = Append(I, x)  OBVIOUS
  <1>3. n \in Nat /\ Len(J) = n + 1 /\ J[n + 1] = x /\ \A k \in 1 .. n : J[k] = I[k]  BY <1>2
  <1>4. PICK g : g = [k \in 0 .. n + 1 |-> IF k = n + 1 THEN e ELSE f[k]]  OBVIOUS
  <1>5. g \in [0 .. n + 1 -> Cursor] /\ g[n + 1] = e /\ \A k \in 0 .. n : g[k] = f[k]
    <2>1. \A k \in 0 .. n + 1 : k # n + 1 => k \in 0 .. n  BY <1>3
    <2>2. \A k \in 0 .. n : k \in 0 .. n + 1 /\ k # n + 1  BY <1>3
    <2>3. n + 1 \in 0 .. n + 1  BY <1>3
    <2> QED BY <2>1, <2>2, <2>3, <1>1, <1>2, <1>4
  <1>6. ASSUME NEW k \in 1 .. n + 1 PROVE <<g[k - 1], J[k], g[k]>> \in R
    <2>1. CASE k = n + 1
      <3>1. k - 1 = n /\ n \in 0 .. n  BY <2>1, <1>3
      <3> QED BY <2>1, <3>1, <1>1, <1>2, <1>3, <1>5
    <2>2. CASE k # n + 1
      <3>1. k \in 1 .. n /\ k - 1 \in 0 .. n /\ k \in 0 .. n  BY <2>2, <1>3
      <3>2. g[k - 1] = f[k - 1] /\ g[k] = f[k] /\ J[k] = I[k]  BY <3>1, <1>3, <1>5
      <3> QED BY <3>1, <3>2, <1>1, <1>2
    <2> QED BY <2>1, <2>2
  <1>7. g[0] = c
    <2>1. 0 \in 0 .. n  BY <1>3
    <2> QED BY <2>1, <1>1, <1>5
  <1> QED BY <1>2, <1>3, <1>5, <1>6, <1>7 DEF Linked

\* The first interrupt is handled.
LEMMA LinkTail ==
  ASSUME NEW X, NEW I \in Seq(X), I # <<>>, NEW c, NEW d, NEW R, Linked(c, I, d, R)
  PROVE  \E e \in Cursor : <<c, Head(I), e>> \in R /\ Linked(e, Tail(I), d, R)
  <1>1. PICK f : /\ f \in [0 .. Len(I) -> Cursor] /\ f[0] = c /\ f[Len(I)] = d
                 /\ \A k \in 1 .. Len(I) : <<f[k - 1], I[k], f[k]>> \in R
    BY DEF Linked
  <1>2. PICK n, J : n = Len(I) - 1 /\ J = Tail(I)  OBVIOUS
  <1>3. n \in Nat /\ Len(I) = n + 1 /\ Len(J) = n /\ Head(I) = I[1] /\ \A k \in 1 .. n : J[k] = I[k + 1]
    BY <1>2
  <1>4. PICK g : g = [k \in 0 .. n |-> f[k + 1]]  OBVIOUS
  <1>5. g \in [0 .. n -> Cursor] /\ \A k \in 0 .. n : g[k] = f[k + 1]
    <2>1. \A k \in 0 .. n : k + 1 \in 0 .. Len(I)  BY <1>3
    <2> QED BY <2>1, <1>1, <1>4
  <1>6. ASSUME NEW k \in 1 .. n PROVE <<g[k - 1], J[k], g[k]>> \in R
    <2>1. k - 1 \in 0 .. n /\ k \in 0 .. n /\ (k - 1) + 1 = k /\ k + 1 \in 1 .. Len(I) /\ (k + 1) - 1 = k
      BY <1>3
    <2>2. g[k - 1] = f[k] /\ g[k] = f[k + 1] /\ J[k] = I[k + 1]  BY <2>1, <1>3, <1>5
    <2>3. <<f[k], I[k + 1], f[k + 1]>> \in R  BY <2>1, <1>1
    <2> QED BY <2>2, <2>3
  <1>7. g[0] = f[1] /\ g[n] = d /\ f[1] \in Cursor
    <2>1. 0 \in 0 .. n /\ n \in 0 .. n /\ 0 + 1 = 1 /\ 1 \in 0 .. Len(I)  BY <1>3
    <2> QED BY <2>1, <1>1, <1>3, <1>5
  <1>8. <<c, I[1], f[1]>> \in R
    <2>1. 1 \in 1 .. Len(I) /\ 1 - 1 = 0  BY <1>3
    <2> QED BY <2>1, <1>1
  <1>9. Linked(f[1], J, d, R)  BY <1>3, <1>5, <1>6, <1>7 DEF Linked
  <1> QED BY <1>2, <1>3, <1>7, <1>8, <1>9

\* Every cursor changes by T. S holds of the first one and of what follows on one of S.
Carries(X, R, S, T, R2) ==
  \A a \in S : \A x \in X : \A e : <<a, x, e>> \in R => e \in S /\ <<T[a], x, T[e]>> \in R2

LEMMA LinkMap ==
  ASSUME NEW X, NEW I \in Seq(X), NEW c, NEW d, NEW R, NEW R2, NEW S, NEW T,
         T \in [Cursor -> Cursor], Linked(c, I, d, R), c \in S, Carries(X, R, S, T, R2)
  PROVE  Linked(T[c], I, T[d], R2) /\ d \in S
  <1>1. PICK f : /\ f \in [0 .. Len(I) -> Cursor] /\ f[0] = c /\ f[Len(I)] = d
                 /\ \A k \in 1 .. Len(I) : <<f[k - 1], I[k], f[k]>> \in R
    BY DEF Linked
  <1>2. PICK n \in Nat : n = Len(I)  OBVIOUS
  <1>3. PICK Z : Z = {k \in Nat : k <= n => f[k] \in S}  OBVIOUS
  <1>4. 0 \in Z  BY <1>1, <1>3
  <1>5. ASSUME NEW k \in Nat, k \in Z PROVE k + 1 \in Z
    <2>1. ASSUME k + 1 <= n PROVE f[k + 1] \in S
      <3>1. k + 1 \in 1 .. n /\ (k + 1) - 1 = k /\ k <= n  BY <2>1
      <3>2. <<f[k], I[k + 1], f[k + 1]>> \in R /\ I[k + 1] \in X  BY <3>1, <1>1, <1>2
      <3>3. f[k] \in S  BY <3>1, <1>3, <1>5
      <3> QED BY <3>2, <3>3 DEF Carries
    <2> QED BY <2>1, <1>3
  <1>6. \A k \in Nat : k \in Z  BY <1>4, <1>5, SetInduction
  <1>7. \A k \in 0 .. n : f[k] \in S  BY <1>3, <1>6
  <1>8. PICK g : g = [k \in 0 .. n |-> T[f[k]]]  OBVIOUS
  <1>9. g \in [0 .. n -> Cursor] /\ \A k \in 0 .. n : g[k] = T[f[k]]  BY <1>1, <1>2, <1>8
  <1>10. ASSUME NEW k \in 1 .. n PROVE <<g[k - 1], I[k], g[k]>> \in R2
    <2>1. k - 1 \in 0 .. n /\ k \in 0 .. n  OBVIOUS
    <2>2. <<f[k - 1], I[k], f[k]>> \in R /\ I[k] \in X /\ f[k - 1] \in S  BY <2>1, <1>1, <1>2, <1>7
    <2>3. <<T[f[k - 1]], I[k], T[f[k]]>> \in R2  BY <2>2 DEF Carries
    <2> QED BY <2>1, <2>3, <1>9
  <1>11. 0 \in 0 .. n /\ n \in 0 .. n  OBVIOUS
  <1>12. g[0] = T[c] /\ g[n] = T[d] /\ d \in S  BY <1>1, <1>2, <1>7, <1>9, <1>11
  <1> QED BY <1>2, <1>9, <1>10, <1>12 DEF Linked

LEMMA PassedType ==
  ASSUME NEW c \in Cursor, NEW x \in Notification, NEW cons,
         x.last => c.handles # <<>>, Uses(x, cons) => c.buffers # <<>>
  PROVE  Passed(c, x, cons) \in Cursor
  <1>1. c.handles \in Seq(Handles) /\ c.buffers \in Seq(Buffer) /\ c.at \in Nat /\ x.bytes \in Nat /\ x.last \in BOOLEAN
    BY DEF Cursor, Notification
  <1>2. PICK H, B, a : /\ H = (IF x.last THEN Tail(c.handles) ELSE c.handles)
                       /\ B = (IF Uses(x, cons) THEN Tail(c.buffers) ELSE c.buffers)
                       /\ a = (IF x.last THEN 0 ELSE c.at + x.bytes)
    OBVIOUS
  <1>3. H \in Seq(Handles)  BY <1>1, <1>2
  <1>4. B \in Seq(Buffer)  BY <1>1, <1>2
  <1>5. a \in Nat  BY <1>1, <1>2
  <1>6. [handles |-> H, buffers |-> B, at |-> a] \in Cursor  BY <1>3, <1>4, <1>5 DEF Cursor
  <1> QED BY <1>2, <1>6 DEF Passed

LEMMA LinkKeep ==
  ASSUME NEW X, NEW I \in Seq(X), NEW c, NEW d, NEW R, NEW R2, NEW S,
         Linked(c, I, d, R), c \in S,
         \A a \in S : \A x \in X : \A e : <<a, x, e>> \in R => e \in S /\ a \in Cursor /\ e \in Cursor /\ <<a, x, e>> \in R2
  PROVE  Linked(c, I, d, R2) /\ d \in S
  <1>1. PICK T : T = [a \in Cursor |-> a]  OBVIOUS
  <1>2. T \in [Cursor -> Cursor] /\ \A a \in Cursor : T[a] = a  BY <1>1
  <1>3. c \in Cursor /\ d \in Cursor  BY LinkEnds
  <1>4. ASSUME NEW a \in S, NEW x \in X, NEW e, <<a, x, e>> \in R
        PROVE  e \in S /\ <<T[a], x, T[e]>> \in R2
    <2>1. e \in S /\ a \in Cursor /\ e \in Cursor /\ <<a, x, e>> \in R2  BY <1>4
    <2>2. T[a] = a /\ T[e] = e  BY <2>1, <1>2
    <2> QED BY <2>1, <2>2
  <1>5. Linked(T[c], I, T[d], R2) /\ d \in S
    <2>1. Carries(X, R, S, T, R2)  BY <1>4 DEF Carries
    <2>2. T \in [Cursor -> Cursor] /\ Linked(c, I, d, R) /\ c \in S  BY <1>2
    <2> QED BY <2>1, <2>2, LinkMap
  <1> QED BY <1>2, <1>3, <1>5

Within(D) == {c \in Cursor : \A i \in 1 .. Len(c.buffers) : c.buffers[i].id \in D}

LEMMA PassedWithin ==
  ASSUME NEW D, NEW c \in Within(D), NEW x, NEW cons, Uses(x, cons) => c.buffers # <<>>, Passed(c, x, cons) \in Cursor
  PROVE  Passed(c, x, cons) \in Within(D)
  <1>1. PICK B, B2 : B = c.buffers /\ B2 = Passed(c, x, cons).buffers  OBVIOUS
  <1>2. B \in Seq(Buffer) /\ \A i \in 1 .. Len(B) : B[i].id \in D  BY <1>1 DEF Within, Cursor
  <1>3. B2 = IF Uses(x, cons) THEN Tail(B) ELSE B  BY <1>1 DEF Passed
  <1>4. \A i \in 1 .. Len(B2) : B2[i].id \in D
    <2>1. ASSUME Uses(x, cons) PROVE \A i \in 1 .. Len(B2) : B2[i].id \in D
      <3>1. B # <<>> /\ B2 = Tail(B)  BY <2>1, <1>1, <1>3
      <3>2. Len(B2) = Len(B) - 1 /\ \A i \in 1 .. Len(B2) : B2[i] = B[i + 1]  BY <3>1, <1>2
      <3>3. \A i \in 1 .. Len(B2) : i + 1 \in 1 .. Len(B)  BY <3>2, <1>2
      <3> QED BY <3>2, <3>3, <1>2
    <2>2. ASSUME ~ Uses(x, cons) PROVE \A i \in 1 .. Len(B2) : B2[i].id \in D  BY <2>2, <1>2, <1>3
    <2> QED BY <2>1, <2>2
  <1> QED BY <1>1, <1>4 DEF Within

\* A step stays one when only handles without an output, and memory that is not in
\* D or that the FPGA still writes, change.
Keeps(D, N, W, G, mem, N2, W2, G2, mem2) ==
  /\ N2 \subseteq N
  /\ \A b \in D : b \notin W => b \notin W2 /\ mem2[b] = mem[b]
  /\ \A h \in Handles \ N : G2[h] = G[h]

LEMMA StepKept ==
  ASSUME NEW s, NEW N, NEW W, NEW G, NEW mem, NEW N2, NEW W2, NEW G2, NEW mem2, NEW cons, NEW D,
         Keeps(D, N, W, G, mem, N2, W2, G2, mem2),
         NEW c \in Within(D), NEW x, NEW d, <<c, x, d>> \in Steps(s, N, W, G, mem, cons)
  PROVE  /\ d \in Within(D) /\ c \in Cursor /\ d \in Cursor
         /\ <<c, x, d>> \in Steps(s, N2, W2, G2, mem2, cons)
  <1>1. c \in Cursor /\ x \in Notification /\ d \in Cursor /\ Moves(s, c, x, d, N, W, G, mem, cons)
    BY InSteps
  <1>2. ASSUME x.stream = s
        PROVE  d \in Within(D) /\ Moves(s, c, x, d, N2, W2, G2, mem2, cons)
    <2>1. Delivers(s, c, x, N, W, G, mem, cons) /\ d = Passed(c, x, cons)  BY <1>1, <1>2 DEF Moves
    <2>2. d \in Within(D)  BY <2>1, <1>1, PassedWithin DEF Delivers
    <2>3. c.handles # <<>> /\ (Uses(x, cons) => c.buffers # <<>>) /\ Fits(c, x, N, G)
          /\ (x.bytes > 0 => Filled(s, c, x, W, mem))
      BY <2>1 DEF Delivers
    <2>4. Head(c.handles) \in Handles  BY <2>3, <1>1 DEF Cursor
    <2>5. Head(c.handles) \notin N /\ Head(c.handles) \notin N2 /\ G2[Head(c.handles)] = G[Head(c.handles)]
      BY <2>3, <2>4 DEF Fits, Keeps
    <2>6. Fits(c, x, N2, G2)  BY <2>3, <2>5 DEF Fits
    <2>7. ASSUME x.bytes > 0 PROVE Filled(s, c, x, W2, mem2)
      <3>1. c.buffers # <<>> /\ Filled(s, c, x, W, mem)  BY <2>3, <2>7 DEF Uses
      <3>2. PICK B : B = c.buffers  OBVIOUS
      <3>3. B \in Seq(Buffer) /\ B # <<>> /\ \A i \in 1 .. Len(B) : B[i].id \in D
        BY <3>1, <3>2 DEF Within, Cursor
      <3>4. Head(B) = B[1] /\ 1 \in 1 .. Len(B)  BY <3>3
      <3>5. Head(c.buffers).id \in D  BY <3>2, <3>3, <3>4
      <3> QED BY <3>1, <3>5 DEF Filled, Keeps
    <2>8. Delivers(s, c, x, N2, W2, G2, mem2, cons)  BY <2>3, <2>6, <2>7 DEF Delivers
    <2> QED BY <2>1, <2>2, <2>8, <1>2 DEF Moves
  <1>3. ASSUME x.stream # s
        PROVE  d \in Within(D) /\ Moves(s, c, x, d, N2, W2, G2, mem2, cons)
    BY <1>1, <1>3 DEF Moves
  <1>4. d \in Within(D) /\ Moves(s, c, x, d, N2, W2, G2, mem2, cons)  BY <1>2, <1>3
  <1> QED BY <1>1, <1>4, InSteps

LEMMA LinkKept ==
  ASSUME NEW s, NEW N, NEW W, NEW G, NEW mem, NEW N2, NEW W2, NEW G2, NEW mem2, NEW cons, NEW D,
         Keeps(D, N, W, G, mem, N2, W2, G2, mem2),
         NEW I \in Seq(Notification), NEW c \in Within(D), NEW d, Linked(c, I, d, Steps(s, N, W, G, mem, cons))
  PROVE  Linked(c, I, d, Steps(s, N2, W2, G2, mem2, cons))
  <1>1. PICK R, R2, S : R = Steps(s, N, W, G, mem, cons) /\ R2 = Steps(s, N2, W2, G2, mem2, cons) /\ S = Within(D)
    OBVIOUS
  <1>2. ASSUME NEW a \in S, NEW x \in Notification, NEW e, <<a, x, e>> \in R
        PROVE  e \in S /\ a \in Cursor /\ e \in Cursor /\ <<a, x, e>> \in R2
    BY <1>1, <1>2, StepKept
  <1>3. c \in S /\ Linked(c, I, d, R)  BY <1>1
  <1>4. Linked(c, I, d, R2)  BY <1>2, <1>3, LinkKeep
  <1> QED BY <1>1, <1>4

----
(* Where the interrupts under way lead: the outputs to come are those of the *)
(* handles that are left, and P is the handle that waits for its output      *)
(* to be started, 0 if there is none.                                       *)

Ends(d, J, N, G) ==
  /\ Len(J) <= Len(d.handles)
  /\ \A j \in 1 .. Len(J) :
       /\ J[j].handle = d.handles[j] /\ J[j].handle \notin N
       /\ J[j].len = G[J[j].handle]
       /\ J[j].done = IF j = 1 THEN d.at ELSE 0
  /\ J # <<>> => d.at <= J[1].len
  /\ J = <<>> => d.at = 0
Follows(d, J, P) ==
  /\ Len(d.handles) = Len(J) + (IF P = 0 THEN 0 ELSE 1)
  /\ P # 0 => d.handles[Len(J) + 1] = P
Feeds(d, J, P, B, st) ==
  /\ st = "running" => Follows(d, J, P)
  /\ st # "stale" => d.buffers = B

IdSet(B) == {B[i].id : i \in DOMAIN B}
At(H, E, a) == [handles |-> H, buffers |-> E, at |-> a]

Pipe(s, I, H, E, a, B, J, P, N, G, mem, cons, st) ==
  \E d : /\ Linked(At(H, E, a), I, d, Steps(s, N, IdSet(B), G, mem, cons))
         /\ Ends(d, J, N, G) /\ Feeds(d, J, P, B, st)

LEMMA AtWithin ==
  ASSUME NEW H, NEW E \in Seq(Buffer), NEW a, At(H, E, a) \in Cursor
  PROVE  At(H, E, a) \in Within(IdSet(E))
  <1>1. \A i \in 1 .. Len(E) : E[i].id \in IdSet(E)  BY DEF IdSet
  <1> QED BY <1>1 DEF Within, At

LEMMA EndsKept ==
  ASSUME NEW d \in Cursor, NEW J \in Seq(Job), NEW N, NEW G, NEW N2, NEW G2, Ends(d, J, N, G),
         N2 \subseteq N, \A h \in Handles \ N : G2[h] = G[h]
  PROVE  Ends(d, J, N2, G2)
  <1>1. ASSUME NEW j \in 1 .. Len(J)
        PROVE  /\ J[j].handle = d.handles[j] /\ J[j].handle \notin N2
               /\ J[j].len = G2[J[j].handle]
               /\ J[j].done = IF j = 1 THEN d.at ELSE 0
    <2>1. J[j] \in Job  OBVIOUS
    <2>2. J[j].handle \in Handles  BY <2>1 DEF Job
    <2>3. /\ J[j].handle = d.handles[j] /\ J[j].handle \notin N
          /\ J[j].len = G[J[j].handle]
          /\ J[j].done = IF j = 1 THEN d.at ELSE 0
      BY DEF Ends
    <2> QED BY <2>2, <2>3
  <1> QED BY <1>1 DEF Ends

\* What does not concern the stream.
LEMMA PipeKept ==
  ASSUME NEW s, NEW I \in Seq(Notification), NEW H, NEW E \in Seq(Buffer), NEW a, NEW B, NEW J \in Seq(Job),
         NEW P, NEW N, NEW G, NEW mem, NEW cons, NEW st, Pipe(s, I, H, E, a, B, J, P, N, G, mem, cons, st),
         NEW P2, NEW N2, NEW G2, NEW mem2, NEW st2,
         N2 \subseteq N, \A b \in IdSet(E) : mem2[b] = mem[b], \A h \in Handles \ N : G2[h] = G[h],
         st2 = "running" => st = "running" /\ P2 = P, st2 # "stale" => st # "stale"
  PROVE  Pipe(s, I, H, E, a, B, J, P2, N2, G2, mem2, cons, st2)
  <1>1. PICK d : /\ Linked(At(H, E, a), I, d, Steps(s, N, IdSet(B), G, mem, cons))
                 /\ Ends(d, J, N, G) /\ Feeds(d, J, P, B, st)
    BY DEF Pipe
  <1>2. PICK W, D : W = IdSet(B) /\ D = IdSet(E)  OBVIOUS
  <1>3. Keeps(D, N, W, G, mem, N2, W, G2, mem2)  BY <1>2 DEF Keeps
  <1>4. At(H, E, a) \in Within(D) /\ d \in Cursor  BY <1>1, <1>2, LinkEnds, AtWithin
  <1>5. Linked(At(H, E, a), I, d, Steps(s, N2, W, G2, mem2, cons))
    BY <1>1, <1>2, <1>3, <1>4, LinkKept
  <1>6. Ends(d, J, N2, G2)  BY <1>1, <1>4, EndsKept
  <1>7. Feeds(d, J, P2, B, st2)  BY <1>1 DEF Feeds
  <1> QED BY <1>2, <1>5, <1>6, <1>7 DEF Pipe

LEMMA TailAppended ==
  ASSUME NEW R, NEW q \in Seq(R), q # <<>>, NEW x \in R
  PROVE  Tail(Append(q, x)) = Append(Tail(q), x) /\ Head(Append(q, x)) = Head(q)
  <1>1. PICK n, p, y, z : n = Len(q) /\ p = Append(q, x) /\ y = Tail(p) /\ z = Append(Tail(q), x)
    OBVIOUS
  <1>2. n \in Nat \ {0} /\ p \in Seq(R) /\ Len(p) = n + 1 /\ p[n + 1] = x /\ \A i \in 1 .. n : p[i] = q[i]
    BY <1>1
  <1>3. y \in Seq(R) /\ Len(y) = n /\ \A i \in 1 .. n : y[i] = p[i + 1]  BY <1>1, <1>2
  <1>4. PICK t : t = Tail(q)  OBVIOUS
  <1>5. t \in Seq(R) /\ Len(t) = n - 1 /\ \A i \in 1 .. n - 1 : t[i] = q[i + 1]  BY <1>1, <1>2, <1>4
  <1>6. z \in Seq(R) /\ Len(z) = n /\ z[n] = x /\ \A i \in 1 .. n - 1 : z[i] = t[i]
    BY <1>1, <1>2, <1>4, <1>5
  <1>7. ASSUME NEW i \in 1 .. n PROVE y[i] = z[i]
    <2>1. CASE i = n  BY <2>1, <1>2, <1>3, <1>6
    <2>2. CASE i # n
      <3>1. i \in 1 .. n - 1 /\ i + 1 \in 1 .. n  BY <2>2, <1>2
      <3> QED BY <3>1, <1>2, <1>3, <1>5, <1>6
    <2> QED BY <2>1, <2>2
  <1>8. y = z  BY <1>3, <1>6, <1>7, SameSeq
  <1>9. Head(p) = p[1] /\ Head(q) = q[1] /\ 1 \in 1 .. n  BY <1>1, <1>2
  <1> QED BY <1>1, <1>2, <1>8, <1>9

----
(* A buffer is enqueued.                                                    *)

More(c, b) == At(c.handles, Append(c.buffers, b), c.at)

LEMMA MoreType ==
  ASSUME NEW c \in Cursor, NEW b \in Buffer
  PROVE  More(c, b) \in Cursor
  <1>1. c.handles \in Seq(Handles) /\ Append(c.buffers, b) \in Seq(Buffer) /\ c.at \in Nat
    BY DEF Cursor
  <1>2. PICK H, B, a : H = c.handles /\ B = Append(c.buffers, b) /\ a = c.at  OBVIOUS
  <1>3. [handles |-> H, buffers |-> B, at |-> a] \in Cursor  BY <1>1, <1>2 DEF Cursor
  <1> QED BY <1>2, <1>3 DEF More, At

LEMMA MoreFields ==
  ASSUME NEW c, NEW b
  PROVE  More(c, b).handles = c.handles /\ More(c, b).buffers = Append(c.buffers, b) /\ More(c, b).at = c.at
  BY DEF More, At

LEMMA PassedFields ==
  ASSUME NEW c, NEW x, NEW cons
  PROVE  /\ Passed(c, x, cons).handles = (IF x.last THEN Tail(c.handles) ELSE c.handles)
         /\ Passed(c, x, cons).buffers = (IF Uses(x, cons) THEN Tail(c.buffers) ELSE c.buffers)
         /\ Passed(c, x, cons).at = (IF x.last THEN 0 ELSE c.at + x.bytes)
  BY DEF Passed

LEMMA PassedMore ==
  ASSUME NEW c \in Cursor, NEW b \in Buffer, NEW x, NEW cons, Uses(x, cons) => c.buffers # <<>>
  PROVE  Passed(More(c, b), x, cons) = More(Passed(c, x, cons), b)
  <1>1. PICK B : B = c.buffers  OBVIOUS
  <1>2. B \in Seq(Buffer)  BY <1>1 DEF Cursor
  <1>3. (IF Uses(x, cons) THEN Tail(Append(B, b)) ELSE Append(B, b)) = Append(IF Uses(x, cons) THEN Tail(B) ELSE B, b)
    <2>1. ASSUME Uses(x, cons) PROVE Tail(Append(B, b)) = Append(Tail(B), b)
      BY <2>1, <1>1, <1>2, TailAppended
    <2> QED BY <2>1
  <1> QED BY <1>1, <1>3 DEF Passed, More, At

LEMMA StepMore ==
  ASSUME NEW s, NEW N, NEW W, NEW G, NEW mem, NEW cons, NEW D, NEW b \in Buffer, b.id \notin D,
         NEW c \in Within(D), NEW x, NEW d, <<c, x, d>> \in Steps(s, N, W, G, mem, cons)
  PROVE  d \in Within(D) /\ <<More(c, b), x, More(d, b)>> \in Steps(s, N, W \cup {b.id}, G, mem, cons)
  <1>1. c \in Cursor /\ x \in Notification /\ d \in Cursor /\ Moves(s, c, x, d, N, W, G, mem, cons)
    BY InSteps
  <1>2. ASSUME x.stream = s
        PROVE  d \in Within(D) /\ Moves(s, More(c, b), x, More(d, b), N, W \cup {b.id}, G, mem, cons)
    <2>1. Delivers(s, c, x, N, W, G, mem, cons) /\ d = Passed(c, x, cons)  BY <1>1, <1>2 DEF Moves
    <2>2. d \in Within(D)  BY <2>1, <1>1, PassedWithin DEF Delivers
    <2>3. c.handles # <<>> /\ (Uses(x, cons) => c.buffers # <<>>) /\ Fits(c, x, N, G)
          /\ (x.bytes > 0 => Filled(s, c, x, W, mem))
      BY <2>1 DEF Delivers
    <2>4. PICK m : m = More(c, b)  OBVIOUS
    <2>5. m.handles = c.handles /\ m.buffers = Append(c.buffers, b) /\ m.at = c.at
      BY <2>4, MoreFields
    <2>6. Fits(m, x, N, G)  BY <2>3, <2>5 DEF Fits
    <2>7. ASSUME x.bytes > 0 PROVE Filled(s, m, x, W \cup {b.id}, mem)
      <3>1. c.buffers # <<>> /\ Filled(s, c, x, W, mem)  BY <2>3, <2>7 DEF Uses
      <3>2. PICK B : B = c.buffers  OBVIOUS
      <3>3. B \in Seq(Buffer) /\ B # <<>> /\ \A i \in 1 .. Len(B) : B[i].id \in D
        BY <3>1, <3>2 DEF Within, Cursor
      <3>4. Head(B) = B[1] /\ 1 \in 1 .. Len(B)  BY <3>3
      <3>5. Head(c.buffers).id \in D  BY <3>2, <3>3, <3>4
      <3>6. Head(m.buffers) = Head(c.buffers)  BY <3>2, <3>3, <2>5, TailAppended
      <3> QED BY <3>1, <3>5, <3>6, <2>5 DEF Filled
    <2>8. Uses(x, cons) => m.buffers # <<>>
      <3>1. c.buffers \in Seq(Buffer)  BY <1>1 DEF Cursor
      <3> QED BY <3>1, <2>5
    <2>9. Delivers(s, m, x, N, W \cup {b.id}, G, mem, cons)
      BY <2>3, <2>5, <2>6, <2>7, <2>8 DEF Delivers
    <2>10. More(d, b) = Passed(m, x, cons)  BY <2>1, <2>3, <2>4, <1>1, PassedMore
    <2> QED BY <2>2, <2>4, <2>9, <2>10, <1>2 DEF Moves
  <1>3. ASSUME x.stream # s
        PROVE  d \in Within(D) /\ Moves(s, More(c, b), x, More(d, b), N, W \cup {b.id}, G, mem, cons)
    BY <1>1, <1>3 DEF Moves
  <1>4. d \in Within(D) /\ Moves(s, More(c, b), x, More(d, b), N, W \cup {b.id}, G, mem, cons)
    BY <1>2, <1>3
  <1>5. More(c, b) \in Cursor /\ More(d, b) \in Cursor  BY <1>1, MoreType
  <1> QED BY <1>1, <1>4, <1>5, InSteps

LEMMA IdsAppended ==
  ASSUME NEW B \in Seq(Buffer), NEW b \in Buffer
  PROVE  IdSet(Append(B, b)) = IdSet(B) \cup {b.id}
  <1>1. PICK n, p : n = Len(B) /\ p = Append(B, b)  OBVIOUS
  <1>2. n \in Nat /\ DOMAIN B = 1 .. n /\ DOMAIN p = 1 .. n + 1 /\ p[n + 1] = b /\ \A i \in 1 .. n : p[i] = B[i]
    BY <1>1
  <1>3. 1 .. n + 1 = (1 .. n) \cup {n + 1}  BY <1>2
  <1>4. {p[i].id : i \in 1 .. n + 1} = {B[i].id : i \in 1 .. n} \cup {b.id}  BY <1>2, <1>3
  <1> QED BY <1>1, <1>2, <1>4 DEF IdSet

LEMMA PipeMore ==
  ASSUME NEW s, NEW I \in Seq(Notification), NEW H \in Seq(Handles), NEW E \in Seq(Buffer), NEW a \in Nat,
         NEW B \in Seq(Buffer), NEW J \in Seq(Job),
         NEW P, NEW N, NEW G, NEW mem, NEW cons, NEW st, Pipe(s, I, H, E, a, B, J, P, N, G, mem, cons, st),
         NEW b \in Buffer, b.id \notin IdSet(E)
  PROVE  Pipe(s, I, H, Append(E, b), a, Append(B, b), J, P, N, G, mem, cons, st)
  <1>1. PICK d : /\ Linked(At(H, E, a), I, d, Steps(s, N, IdSet(B), G, mem, cons))
                 /\ Ends(d, J, N, G) /\ Feeds(d, J, P, B, st)
    BY DEF Pipe
  <1>2. PICK c, D, R, R2, S :
          /\ c = At(H, E, a) /\ D = IdSet(E) /\ S = Within(D)
          /\ R = Steps(s, N, IdSet(B), G, mem, cons)
          /\ R2 = Steps(s, N, IdSet(B) \cup {b.id}, G, mem, cons)
    OBVIOUS
  <1>3. c \in S /\ c \in Cursor /\ d \in Cursor /\ Linked(c, I, d, R)
    BY <1>1, <1>2, LinkEnds, AtWithin
  <1>4. PICK T : T = [e \in Cursor |-> More(e, b)]  OBVIOUS
  <1>5. T \in [Cursor -> Cursor] /\ \A e \in Cursor : T[e] = More(e, b)  BY <1>4, MoreType
  <1>6. Carries(Notification, R, S, T, R2)
    <2>1. ASSUME NEW e \in S, NEW x \in Notification, NEW f, <<e, x, f>> \in R
          PROVE  f \in S /\ <<T[e], x, T[f]>> \in R2
      <3>1. b.id \notin D /\ e \in Within(D) /\ <<e, x, f>> \in Steps(s, N, IdSet(B), G, mem, cons)
        BY <2>1, <1>2
      <3>2. f \in Within(D) /\ <<More(e, b), x, More(f, b)>> \in Steps(s, N, IdSet(B) \cup {b.id}, G, mem, cons)
        BY <3>1, StepMore
      <3>3. e \in Cursor /\ f \in Cursor  BY <3>1, InSteps
      <3> QED BY <3>2, <3>3, <1>2, <1>5
    <2> QED BY <2>1 DEF Carries
  <1>7. Linked(T[c], I, T[d], R2)  BY <1>3, <1>5, <1>6, LinkMap
  <1>8. T[c] = At(H, Append(E, b), a)  BY <1>2, <1>3, <1>5 DEF More, At
  <1>9. R2 = Steps(s, N, IdSet(Append(B, b)), G, mem, cons)  BY <1>2, IdsAppended
  <1>10. PICK e : e = T[d]  OBVIOUS
  <1>11. e.handles = d.handles /\ e.buffers = Append(d.buffers, b) /\ e.at = d.at
    BY <1>3, <1>5, <1>10, MoreFields
  <1>12. Ends(e, J, N, G)  BY <1>1, <1>11 DEF Ends
  <1>13. Feeds(e, J, P, Append(B, b), st)  BY <1>1, <1>11 DEF Feeds, Follows
  <1> QED BY <1>7, <1>8, <1>9, <1>10, <1>12, <1>13 DEF Pipe

----
(* A handle is enqueued; its output is still to be started.                  *)

Waits(c, h) == At(Append(c.handles, h), c.buffers, c.at)

LEMMA WaitsType ==
  ASSUME NEW c \in Cursor, NEW h \in Handles
  PROVE  Waits(c, h) \in Cursor
  <1>1. Append(c.handles, h) \in Seq(Handles) /\ c.buffers \in Seq(Buffer) /\ c.at \in Nat
    BY DEF Cursor
  <1>2. PICK H, B, a : H = Append(c.handles, h) /\ B = c.buffers /\ a = c.at  OBVIOUS
  <1>3. [handles |-> H, buffers |-> B, at |-> a] \in Cursor  BY <1>1, <1>2 DEF Cursor
  <1> QED BY <1>2, <1>3 DEF Waits, At

LEMMA WaitsFields ==
  ASSUME NEW c, NEW h
  PROVE  Waits(c, h).handles = Append(c.handles, h) /\ Waits(c, h).buffers = c.buffers /\ Waits(c, h).at = c.at
  BY DEF Waits, At

LEMMA PassedWaits ==
  ASSUME NEW c \in Cursor, NEW h \in Handles, NEW x, NEW cons, c.handles # <<>>
  PROVE  Passed(Waits(c, h), x, cons) = Waits(Passed(c, x, cons), h)
  <1>1. PICK B : B = c.handles  OBVIOUS
  <1>2. B \in Seq(Handles)  BY <1>1 DEF Cursor
  <1>3. (IF x.last THEN Tail(Append(B, h)) ELSE Append(B, h)) = Append(IF x.last THEN Tail(B) ELSE B, h)
    <2>1. Tail(Append(B, h)) = Append(Tail(B), h)  BY <1>1, <1>2, TailAppended
    <2> QED BY <2>1
  <1> QED BY <1>1, <1>3 DEF Passed, Waits, At

LEMMA StepWaits ==
  ASSUME NEW s, NEW N, NEW W, NEW G, NEW mem, NEW cons, NEW h \in Handles,
         NEW c, NEW x, NEW d, <<c, x, d>> \in Steps(s, N, W, G, mem, cons)
  PROVE  <<Waits(c, h), x, Waits(d, h)>> \in Steps(s, N, W, G, mem, cons)
  <1>1. c \in Cursor /\ x \in Notification /\ d \in Cursor /\ Moves(s, c, x, d, N, W, G, mem, cons)
    BY InSteps
  <1>2. ASSUME x.stream = s
        PROVE  Moves(s, Waits(c, h), x, Waits(d, h), N, W, G, mem, cons)
    <2>1. Delivers(s, c, x, N, W, G, mem, cons) /\ d = Passed(c, x, cons)  BY <1>1, <1>2 DEF Moves
    <2>2. c.handles # <<>> /\ (Uses(x, cons) => c.buffers # <<>>) /\ Fits(c, x, N, G)
          /\ (x.bytes > 0 => Filled(s, c, x, W, mem))
      BY <2>1 DEF Delivers
    <2>3. PICK m : m = Waits(c, h)  OBVIOUS
    <2>4. m.handles = Append(c.handles, h) /\ m.buffers = c.buffers /\ m.at = c.at
      BY <2>3, WaitsFields
    <2>5. c.handles \in Seq(Handles)  BY <1>1 DEF Cursor
    <2>6. Head(m.handles) = Head(c.handles) /\ m.handles # <<>>  BY <2>2, <2>4, <2>5, TailAppended
    <2>7. Fits(m, x, N, G)  BY <2>2, <2>4, <2>6 DEF Fits
    <2>8. x.bytes > 0 => Filled(s, m, x, W, mem)  BY <2>2, <2>4, <2>6 DEF Filled
    <2>9. Delivers(s, m, x, N, W, G, mem, cons)  BY <2>2, <2>4, <2>6, <2>7, <2>8 DEF Delivers
    <2>10. Waits(d, h) = Passed(m, x, cons)  BY <2>1, <2>2, <2>3, <1>1, PassedWaits
    <2> QED BY <2>3, <2>9, <2>10, <1>2 DEF Moves
  <1>3. ASSUME x.stream # s
        PROVE  Moves(s, Waits(c, h), x, Waits(d, h), N, W, G, mem, cons)
    BY <1>1, <1>3 DEF Moves
  <1>4. Moves(s, Waits(c, h), x, Waits(d, h), N, W, G, mem, cons)  BY <1>2, <1>3
  <1>5. Waits(c, h) \in Cursor /\ Waits(d, h) \in Cursor  BY <1>1, WaitsType
  <1> QED BY <1>1, <1>4, <1>5, InSteps

LEMMA PipeWaits ==
  ASSUME NEW s, NEW I \in Seq(Notification), NEW H \in Seq(Handles), NEW E \in Seq(Buffer), NEW a \in Nat,
         NEW B, NEW J \in Seq(Job),
         NEW P, NEW N, NEW G, NEW mem, NEW cons, NEW st, Pipe(s, I, H, E, a, B, J, P, N, G, mem, cons, st),
         NEW h \in Handles, P = 0
  PROVE  Pipe(s, I, Append(H, h), E, a, B, J, h, N, G, mem, cons, st)
  <1>1. PICK d : /\ Linked(At(H, E, a), I, d, Steps(s, N, IdSet(B), G, mem, cons))
                 /\ Ends(d, J, N, G) /\ Feeds(d, J, P, B, st)
    BY DEF Pipe
  <1>2. PICK c, R : c = At(H, E, a) /\ R = Steps(s, N, IdSet(B), G, mem, cons)  OBVIOUS
  <1>3. c \in Cursor /\ d \in Cursor /\ Linked(c, I, d, R)  BY <1>1, <1>2, LinkEnds
  <1>4. PICK T : T = [e \in Cursor |-> Waits(e, h)]  OBVIOUS
  <1>5. T \in [Cursor -> Cursor] /\ \A e \in Cursor : T[e] = Waits(e, h)  BY <1>4, WaitsType
  <1>6. Carries(Notification, R, Cursor, T, R)
    <2>1. ASSUME NEW e \in Cursor, NEW x \in Notification, NEW f, <<e, x, f>> \in R
          PROVE  f \in Cursor /\ <<T[e], x, T[f]>> \in R
      <3>1. <<e, x, f>> \in Steps(s, N, IdSet(B), G, mem, cons)  BY <2>1, <1>2
      <3>2. <<Waits(e, h), x, Waits(f, h)>> \in Steps(s, N, IdSet(B), G, mem, cons)
        BY <3>1, StepWaits
      <3>3. e \in Cursor /\ f \in Cursor  BY <3>1, InSteps
      <3> QED BY <3>2, <3>3, <1>2, <1>5
    <2> QED BY <2>1 DEF Carries
  <1>7. Linked(T[c], I, T[d], R)  BY <1>3, <1>5, <1>6, LinkMap
  <1>8. T[c] = At(Append(H, h), E, a)  BY <1>2, <1>3, <1>5 DEF Waits, At
  <1>9. PICK e, n : e = T[d] /\ n = Len(d.handles)  OBVIOUS
  <1>10. e.handles = Append(d.handles, h) /\ e.buffers = d.buffers /\ e.at = d.at /\ d.handles \in Seq(Handles)
    <2>1. e = Waits(d, h)  BY <1>3, <1>5, <1>9
    <2>2. d.handles \in Seq(Handles)  BY <1>3 DEF Cursor
    <2> QED BY <2>1, <2>2, WaitsFields
  <1>11. n \in Nat /\ Len(e.handles) = n + 1 /\ e.handles[n + 1] = h /\ \A i \in 1 .. n : e.handles[i] = d.handles[i]
    BY <1>9, <1>10
  <1>12. Ends(e, J, N, G)
    <2>1. Len(J) <= n /\ Len(J) \in Nat  BY <1>1, <1>9 DEF Ends
    <2>2. \A j \in 1 .. Len(J) : j \in 1 .. n  BY <2>1, <1>11
    <2>3. Len(J) <= Len(e.handles)  BY <2>1, <1>11
    <2>4. \A j \in 1 .. Len(J) : e.handles[j] = d.handles[j]  BY <2>2, <1>11
    <2> QED BY <2>3, <2>4, <1>1, <1>10 DEF Ends
  <1>13. Feeds(e, J, h, B, st)
    <2>1. ASSUME st = "running" PROVE Follows(e, J, h)
      <3>1. n = Len(J) + 0 /\ Len(J) \in Nat  BY <2>1, <1>1, <1>9 DEF Feeds, Follows
      <3>2. h # 0  BY ManagerAssumption DEF Handles
      <3> QED BY <3>1, <3>2, <1>11 DEF Follows
    <2>2. st # "stale" => e.buffers = B  BY <1>1, <1>10 DEF Feeds
    <2> QED BY <2>1, <2>2 DEF Feeds
  <1> QED BY <1>2, <1>7, <1>8, <1>9, <1>12, <1>13 DEF Pipe

\* Its output is started.
LEMMA PipeStarts ==
  ASSUME NEW s, NEW I \in Seq(Notification), NEW H, NEW E, NEW a, NEW B, NEW J \in Seq(Job),
         NEW P, NEW N, NEW G, NEW mem, NEW cons, NEW st, Pipe(s, I, H, E, a, B, J, P, N, G, mem, cons, st),
         P # 0, P \notin N, st = "running", NEW job \in Job, job.handle = P, job.len = G[P], job.done = 0
  PROVE  Pipe(s, I, H, E, a, B, Append(J, job), 0, N, G, mem, cons, st)
  <1>1. PICK d : /\ Linked(At(H, E, a), I, d, Steps(s, N, IdSet(B), G, mem, cons))
                 /\ Ends(d, J, N, G) /\ Feeds(d, J, P, B, st)
    BY DEF Pipe
  <1>2. d \in Cursor  BY <1>1, LinkEnds
  <1>3. d.handles \in Seq(Handles) /\ d.at \in Nat  BY <1>2 DEF Cursor
  <1>4. PICK n, K : n = Len(J) /\ K = Append(J, job)  OBVIOUS
  <1>5. n \in Nat /\ K \in Seq(Job) /\ Len(K) = n + 1 /\ K[n + 1] = job /\ \A j \in 1 .. n : K[j] = J[j]
    BY <1>4
  <1>6. Len(d.handles) = n + 1 /\ d.handles[n + 1] = P  BY <1>1, <1>4 DEF Feeds, Follows
  <1>7. ASSUME NEW j \in 1 .. Len(K)
        PROVE  /\ K[j].handle = d.handles[j] /\ K[j].handle \notin N
               /\ K[j].len = G[K[j].handle]
               /\ K[j].done = IF j = 1 THEN d.at ELSE 0
    <2>1. CASE j = n + 1
      <3>1. K[j] = job  BY <2>1, <1>5
      <3>2. j = 1 => d.at = 0
        <4>1. j = 1 => J = <<>>  BY <2>1, <1>4, <1>5
        <4> QED BY <4>1, <1>1 DEF Ends
      <3> QED BY <2>1, <3>1, <3>2, <1>6
    <2>2. CASE j # n + 1
      <3>1. j \in 1 .. n  BY <2>2, <1>5
      <3>2. K[j] = J[j]  BY <3>1, <1>5
      <3> QED BY <3>1, <3>2, <1>1, <1>4 DEF Ends
    <2> QED BY <2>1, <2>2
  <1>8. d.at <= K[1].len
    <2>1. CASE J = <<>>
      <3>1. K[1] = job /\ d.at = 0 /\ job.len \in Nat  BY <2>1, <1>1, <1>4, <1>5 DEF Ends, Job
      <3> QED BY <3>1
    <2>2. CASE J # <<>>
      <3>1. K[1] = J[1]  BY <2>2, <1>4, <1>5
      <3> QED BY <2>2, <3>1, <1>1 DEF Ends
    <2> QED BY <2>1, <2>2
  <1>9. Ends(d, K, N, G)  BY <1>5, <1>6, <1>7, <1>8 DEF Ends
  <1>10. Feeds(d, K, 0, B, st)
    <2>1. Follows(d, K, 0)  BY <1>5, <1>6 DEF Follows
    <2> QED BY <2>1, <1>1 DEF Feeds
  <1> QED BY <1>1, <1>4, <1>9, <1>10 DEF Pipe

----
(* The FPGA sends an interrupt.                                             *)

Distinct(B) == \A i, j \in 1 .. Len(B) : B[i].id = B[j].id => i = j

LEMMA TailIds ==
  ASSUME NEW B \in Seq(Buffer), B # <<>>, Distinct(B)
  PROVE  /\ Head(B).id \notin IdSet(Tail(B)) /\ IdSet(Tail(B)) \subseteq IdSet(B)
         /\ Head(B).id \in IdSet(B)
  <1>1. PICK n, t : n = Len(B) /\ t = Tail(B)  OBVIOUS
  <1>2. n \in Nat \ {0} /\ DOMAIN B = 1 .. n /\ DOMAIN t = 1 .. n - 1 /\ \A i \in 1 .. n - 1 : t[i] = B[i + 1]
    BY <1>1
  <1>3. Head(B) = B[1] /\ 1 \in 1 .. n  BY <1>2
  <1>4. ASSUME NEW i \in 1 .. n - 1 PROVE t[i].id # B[1].id /\ t[i].id \in IdSet(B)
    <2>1. i + 1 \in 1 .. n /\ i + 1 # 1  BY <1>2
    <2>2. B[i + 1].id # B[1].id  BY <2>1, <1>1, <1>3 DEF Distinct
    <2>3. B[i + 1].id \in IdSet(B)  BY <2>1, <1>2 DEF IdSet
    <2> QED BY <2>2, <2>3, <1>2
  <1>5. IdSet(t) = {t[i].id : i \in 1 .. n - 1}  BY <1>2 DEF IdSet
  <1>6. B[1].id \in IdSet(B)  BY <1>2, <1>3 DEF IdSet
  <1> QED BY <1>1, <1>3, <1>4, <1>5, <1>6

\* The jobs after x.
JobsAfter(J, x, K) ==
  IF x.last THEN K = Tail(J)
  ELSE /\ Len(K) = Len(J) /\ \A j \in 2 .. Len(J) : K[j] = J[j]
       /\ K[1].handle = J[1].handle /\ K[1].len = J[1].len /\ K[1].done = J[1].done + x.bytes

LEMMA EndsSent ==
  ASSUME NEW d \in Cursor, NEW J \in Seq(Job), J # <<>>, NEW K \in Seq(Job), NEW N, NEW G, Ends(d, J, N, G),
         NEW x \in Notification, NEW cons, JobsAfter(J, x, K), J[1].done + x.bytes <= J[1].len,
         NEW e, e = Passed(d, x, cons)
  PROVE  Ends(e, K, N, G)
  <1>1. PICK n, H : n = Len(J) /\ H = d.handles  OBVIOUS
  <1>2. n \in Nat \ {0} /\ H \in Seq(Handles) /\ d.at \in Nat /\ x.last \in BOOLEAN /\ x.bytes \in Nat
    BY <1>1 DEF Cursor, Notification
  <1>3. n <= Len(H) /\ \A j \in 1 .. n : /\ J[j].handle = H[j] /\ J[j].handle \notin N
                                        /\ J[j].len = G[J[j].handle]
                                        /\ J[j].done = IF j = 1 THEN d.at ELSE 0
    BY <1>1 DEF Ends
  <1>4. J[1].done = d.at  BY <1>2, <1>3
  <1>5. ASSUME x.last PROVE Ends(e, K, N, G)
    <2>1. K = Tail(J) /\ e.handles = Tail(H) /\ e.at = 0  BY <1>1, <1>5, PassedFields DEF JobsAfter
    <2>2. Len(K) = n - 1 /\ \A j \in 1 .. n - 1 : K[j] = J[j + 1]  BY <2>1, <1>1, <1>2
    <2>3. Len(e.handles) = Len(H) - 1 /\ \A j \in 1 .. Len(H) - 1 : e.handles[j] = H[j + 1]
      BY <2>1, <1>2, <1>3
    <2>4. ASSUME NEW j \in 1 .. Len(K)
          PROVE  /\ K[j].handle = e.handles[j] /\ K[j].handle \notin N
                 /\ K[j].len = G[K[j].handle]
                 /\ K[j].done = IF j = 1 THEN e.at ELSE 0
      <3>1. j \in 1 .. n - 1 /\ j + 1 \in 1 .. n /\ j \in 1 .. Len(H) - 1 /\ j + 1 # 1
        BY <2>2, <1>2, <1>3
      <3>2. K[j] = J[j + 1] /\ e.handles[j] = H[j + 1]  BY <3>1, <2>2, <2>3
      <3> QED BY <3>1, <3>2, <2>1, <1>3
    <2>5. K # <<>> => e.at <= K[1].len
      <3>1. ASSUME K # <<>> PROVE K[1].len \in Nat
        <4>1. K[1] \in Job  BY <3>1
        <4> QED BY <4>1 DEF Job
      <3> QED BY <3>1, <2>1
    <2>6. Len(K) <= Len(e.handles)  BY <2>2, <2>3, <1>2, <1>3
    <2> QED BY <2>1, <2>4, <2>5, <2>6 DEF Ends
  <1>6. ASSUME ~ x.last PROVE Ends(e, K, N, G)
    <2>1. e.handles = H /\ e.at = d.at + x.bytes  BY <1>1, <1>6, PassedFields
    <2>2. Len(K) = n /\ (\A j \in 2 .. n : K[j] = J[j])
          /\ K[1].handle = J[1].handle /\ K[1].len = J[1].len /\ K[1].done = J[1].done + x.bytes
      BY <1>1, <1>6 DEF JobsAfter
    <2>3. ASSUME NEW j \in 1 .. Len(K)
          PROVE  /\ K[j].handle = e.handles[j] /\ K[j].handle \notin N
                 /\ K[j].len = G[K[j].handle]
                 /\ K[j].done = IF j = 1 THEN e.at ELSE 0
      <3>1. CASE j = 1  BY <3>1, <2>1, <2>2, <1>2, <1>3, <1>4
      <3>2. CASE j # 1
        <4>1. j \in 2 .. n /\ j \in 1 .. n  BY <3>2, <2>2, <1>2
        <4>2. K[j] = J[j]  BY <4>1, <2>2
        <4> QED BY <3>2, <4>1, <4>2, <2>1, <1>3
      <3> QED BY <3>1, <3>2
    <2>4. e.at <= K[1].len  BY <2>1, <2>2, <1>4
    <2>5. K # <<>> /\ Len(K) <= Len(e.handles)  BY <2>1, <2>2, <1>2, <1>3
    <2> QED BY <2>3, <2>4, <2>5 DEF Ends
  <1> QED BY <1>5, <1>6

LEMMA FollowsSent ==
  ASSUME NEW d \in Cursor, NEW J \in Seq(Job), J # <<>>, NEW K \in Seq(Job), NEW P,
         NEW x \in Notification, NEW cons, JobsAfter(J, x, K), Follows(d, J, P),
         NEW e, e = Passed(d, x, cons)
  PROVE  Follows(e, K, P)
  <1>1. PICK n, H, p : n = Len(J) /\ H = d.handles /\ p = (IF P = 0 THEN 0 ELSE 1)  OBVIOUS
  <1>2. n \in Nat \ {0} /\ H \in Seq(Handles) /\ x.last \in BOOLEAN /\ p \in {0, 1} /\ (P # 0 => p = 1)
    BY <1>1 DEF Cursor, Notification
  <1>3. Len(H) = n + p /\ (P # 0 => H[n + 1] = P)  BY <1>1 DEF Follows
  <1>4. ASSUME x.last PROVE Follows(e, K, P)
    <2>1. K = Tail(J) /\ e.handles = Tail(H)  BY <1>1, <1>4, PassedFields DEF JobsAfter
    <2>2. Len(K) = n - 1  BY <2>1, <1>1, <1>2
    <2>3. Len(e.handles) = (n - 1) + p  BY <2>1, <1>2, <1>3
    <2>4. ASSUME P # 0 PROVE e.handles[(n - 1) + 1] = P
      <3>1. H # <<>> /\ n \in 1 .. Len(H) - 1 /\ (n - 1) + 1 = n  BY <2>4, <1>2, <1>3
      <3>2. e.handles[n] = H[n + 1]  BY <3>1, <2>1, <1>2
      <3> QED BY <2>4, <3>1, <3>2, <1>3
    <2> QED BY <2>2, <2>3, <2>4, <1>1 DEF Follows
  <1>5. ASSUME ~ x.last PROVE Follows(e, K, P)
    <2>1. e.handles = H /\ Len(K) = n  BY <1>1, <1>5, PassedFields DEF JobsAfter
    <2> QED BY <2>1, <1>1, <1>3 DEF Follows
  <1> QED BY <1>4, <1>5

\* The first job of J and the first buffer of B lead to x, K and B2, and to what is in the buffers E.
Emits(J, x, K, B, B2, cons) ==
  /\ J # <<>> /\ B # <<>> /\ Distinct(B)
  /\ J[1].done + x.bytes <= J[1].len /\ (x.last => J[1].done + x.bytes = J[1].len)
  /\ JobsAfter(J, x, K)
  /\ B2 = (IF Uses(x, cons) THEN Tail(B) ELSE B)
Written(s, B, x, J, mem, mem2, E) ==
  /\ x.bytes > 0 => mem2[Head(B).id] = Output(J[1].handle, s, J[1].done + 1, J[1].done + x.bytes)
  /\ \A b \in IdSet(E) : b # Head(B).id \/ x.bytes = 0 => mem2[b] = mem[b]

LEMMA PipeSends ==
  ASSUME NEW s, NEW I \in Seq(Notification), NEW H, NEW E \in Seq(Buffer), NEW a, NEW B \in Seq(Buffer),
         NEW J \in Seq(Job),
         NEW P, NEW N, NEW G, NEW mem, NEW cons, NEW st, Pipe(s, I, H, E, a, B, J, P, N, G, mem, cons, st),
         NEW x \in Notification, x.stream = s, st # "stale", NEW K \in Seq(Job), NEW B2, Emits(J, x, K, B, B2, cons),
         NEW mem2, Written(s, B, x, J, mem, mem2, E)
  PROVE  Pipe(s, Append(I, x), H, E, a, B2, K, P, N, G, mem2, cons, st)
  <1>1. PICK d : /\ Linked(At(H, E, a), I, d, Steps(s, N, IdSet(B), G, mem, cons))
                 /\ Ends(d, J, N, G) /\ Feeds(d, J, P, B, st)
    BY DEF Pipe
  <1>0. /\ J # <<>> /\ B # <<>> /\ Distinct(B) /\ JobsAfter(J, x, K)
        /\ J[1].done + x.bytes <= J[1].len /\ (x.last => J[1].done + x.bytes = J[1].len)
        /\ B2 = (IF Uses(x, cons) THEN Tail(B) ELSE B)
    BY DEF Emits
  <1>2. PICK c, D, W, W2 : c = At(H, E, a) /\ D = IdSet(E) /\ W = IdSet(B) /\ W2 = IdSet(B2)
    OBVIOUS
  <1>3. c \in Within(D) /\ d \in Cursor  BY <1>1, <1>2, LinkEnds, AtWithin
  <1>4. Head(B).id \in W /\ W2 \subseteq W /\ (Uses(x, cons) => Head(B).id \notin W2)
    BY <1>0, <1>2, TailIds
  <1>5. Keeps(D, N, W, G, mem, N, W2, G, mem2)
    <2>1. ASSUME NEW b \in D, b \notin W PROVE b \notin W2 /\ mem2[b] = mem[b]
      BY <2>1, <1>2, <1>4 DEF Written
    <2> QED BY <2>1 DEF Keeps
  <1>6. Linked(c, I, d, Steps(s, N, W2, G, mem2, cons))  BY <1>1, <1>2, <1>3, <1>5, LinkKept
  <1>7. d.buffers = B  BY <1>1 DEF Feeds
  <1>8. 1 \in 1 .. Len(J) /\ Len(J) \in Nat  BY <1>0
  <1>9. /\ Len(J) <= Len(d.handles) /\ J[1].handle = d.handles[1] /\ J[1].handle \notin N
        /\ J[1].len = G[J[1].handle] /\ J[1].done = d.at
    BY <1>1, <1>8 DEF Ends
  <1>10. d.handles # <<>> /\ Head(d.handles) = J[1].handle
    <2>1. d.handles \in Seq(Handles)  BY <1>3 DEF Cursor
    <2>2. PICK Q : Q = d.handles  OBVIOUS
    <2>3. Q \in Seq(Handles) /\ Len(Q) >= 1  BY <2>1, <2>2, <1>8, <1>9
    <2>4. Q # <<>> /\ Head(Q) = Q[1]  BY <2>3
    <2> QED BY <2>2, <2>4, <1>9
  <1>11. Fits(d, x, N, G)  BY <1>0, <1>9, <1>10 DEF Fits
  <1>12. ASSUME x.bytes > 0 PROVE Filled(s, d, x, W2, mem2)
    <2>1. Head(B).id \notin W2 /\ mem2[Head(B).id] = Output(J[1].handle, s, J[1].done + 1, J[1].done + x.bytes)
      BY <1>4, <1>12 DEF Uses, Written
    <2> QED BY <2>1, <1>7, <1>9, <1>10 DEF Filled
  <1>13. Delivers(s, d, x, N, W2, G, mem2, cons)  BY <1>0, <1>7, <1>10, <1>11, <1>12 DEF Delivers
  <1>14. PICK e : e = Passed(d, x, cons)  OBVIOUS
  <1>15. e \in Cursor  BY <1>0, <1>3, <1>7, <1>10, <1>14, PassedType
  <1>16. <<d, x, e>> \in Steps(s, N, W2, G, mem2, cons)
    <2>1. Moves(s, d, x, e, N, W2, G, mem2, cons)  BY <1>13, <1>14 DEF Moves
    <2> QED BY <2>1, <1>3, <1>15, InSteps
  <1>17. Linked(c, Append(I, x), e, Steps(s, N, W2, G, mem2, cons))
    BY <1>6, <1>15, <1>16, LinkAppend
  <1>18. Ends(e, K, N, G)  BY <1>0, <1>1, <1>3, <1>14, EndsSent
  <1>19. Feeds(e, K, P, B2, st)
    <2>1. ASSUME st = "running" PROVE Follows(e, K, P)
      <3>1. Follows(d, J, P)  BY <2>1, <1>1 DEF Feeds
      <3> QED BY <3>1, <1>0, <1>3, <1>14, FollowsSent
    <2>2. e.buffers = B2  BY <1>0, <1>7, <1>14, PassedFields
    <2> QED BY <2>1, <2>2 DEF Feeds
  <1> QED BY <1>2, <1>17, <1>18, <1>19 DEF Pipe

\* Of another stream.
LEMMA PipeElsewhere ==
  ASSUME NEW s, NEW I \in Seq(Notification), NEW H, NEW E, NEW a, NEW B, NEW J,
         NEW P, NEW N, NEW G, NEW mem, NEW cons, NEW st, Pipe(s, I, H, E, a, B, J, P, N, G, mem, cons, st),
         NEW x \in Notification, x.stream # s
  PROVE  Pipe(s, Append(I, x), H, E, a, B, J, P, N, G, mem, cons, st)
  <1>1. PICK d : /\ Linked(At(H, E, a), I, d, Steps(s, N, IdSet(B), G, mem, cons))
                 /\ Ends(d, J, N, G) /\ Feeds(d, J, P, B, st)
    BY DEF Pipe
  <1>2. d \in Cursor  BY <1>1, LinkEnds
  <1>3. <<d, x, d>> \in Steps(s, N, IdSet(B), G, mem, cons)
    <2>1. Moves(s, d, x, d, N, IdSet(B), G, mem, cons)  BY DEF Moves
    <2> QED BY <2>1, <1>2, InSteps
  <1>4. Linked(At(H, E, a), Append(I, x), d, Steps(s, N, IdSet(B), G, mem, cons))
    BY <1>1, <1>2, <1>3, LinkAppend
  <1> QED BY <1>1, <1>4 DEF Pipe

----
(* The manager handles one.                                                 *)

LEMMA PipePassesBy ==
  ASSUME NEW s, NEW I \in Seq(Notification), NEW H, NEW E, NEW a, NEW B, NEW J,
         NEW P, NEW N, NEW G, NEW mem, NEW cons, NEW st, Pipe(s, I, H, E, a, B, J, P, N, G, mem, cons, st),
         I # <<>>, NEW x, x = Head(I), x.stream # s
  PROVE  Pipe(s, Tail(I), H, E, a, B, J, P, N, G, mem, cons, st)
  <1>1. PICK d : /\ Linked(At(H, E, a), I, d, Steps(s, N, IdSet(B), G, mem, cons))
                 /\ Ends(d, J, N, G) /\ Feeds(d, J, P, B, st)
    BY DEF Pipe
  <1>2. PICK c, R : c = At(H, E, a) /\ R = Steps(s, N, IdSet(B), G, mem, cons)  OBVIOUS
  <1>3. Linked(c, I, d, R)  BY <1>1, <1>2
  <1>4. PICK e \in Cursor : <<c, Head(I), e>> \in R /\ Linked(e, Tail(I), d, R)  BY <1>3, LinkTail
  <1>5. Moves(s, c, x, e, N, IdSet(B), G, mem, cons)  BY <1>2, <1>4, InSteps
  <1>6. e = c  BY <1>5 DEF Moves
  <1> QED BY <1>1, <1>2, <1>4, <1>6 DEF Pipe

\* From (H, E, a) the interrupt x leads to (A, F, b).
Leads(x, cons, H, E, a, A, F, b) ==
  /\ A = (IF x.last THEN Tail(H) ELSE H)
  /\ F = (IF Uses(x, cons) THEN Tail(E) ELSE E)
  /\ b = (IF x.last THEN 0 ELSE a + x.bytes)

LEMMA PipePops ==
  ASSUME NEW s, NEW I \in Seq(Notification), NEW H, NEW E, NEW a, NEW B, NEW J,
         NEW P, NEW N, NEW G, NEW mem, NEW cons, NEW st, Pipe(s, I, H, E, a, B, J, P, N, G, mem, cons, st),
         I # <<>>, NEW x, x = Head(I), x.stream = s, NEW A, NEW F, NEW b, Leads(x, cons, H, E, a, A, F, b)
  PROVE  /\ Delivers(s, At(H, E, a), x, N, IdSet(B), G, mem, cons)
         /\ Pipe(s, Tail(I), A, F, b, B, J, P, N, G, mem, cons, st)
  <1>1. PICK d : /\ Linked(At(H, E, a), I, d, Steps(s, N, IdSet(B), G, mem, cons))
                 /\ Ends(d, J, N, G) /\ Feeds(d, J, P, B, st)
    BY DEF Pipe
  <1>2. PICK c, R : c = At(H, E, a) /\ R = Steps(s, N, IdSet(B), G, mem, cons)  OBVIOUS
  <1>3. Linked(c, I, d, R)  BY <1>1, <1>2
  <1>4. PICK e \in Cursor : <<c, Head(I), e>> \in R /\ Linked(e, Tail(I), d, R)  BY <1>3, LinkTail
  <1>5. Moves(s, c, x, e, N, IdSet(B), G, mem, cons)  BY <1>2, <1>4, InSteps
  <1>6. Delivers(s, c, x, N, IdSet(B), G, mem, cons) /\ e = Passed(c, x, cons)  BY <1>5 DEF Moves
  <1>7. c.handles = H /\ c.buffers = E /\ c.at = a  BY <1>2 DEF At
  <1>8. e = At(A, F, b)  BY <1>6, <1>7 DEF Passed, At, Leads
  <1> QED BY <1>1, <1>2, <1>4, <1>6, <1>8 DEF Pipe

\* Nothing is under way.
LEMMA PipeIdle ==
  ASSUME NEW s, NEW B, NEW P, NEW N, NEW G, NEW mem, NEW cons, NEW st,
         st = "running" => P = 0, st # "stale" => B = <<>>
  PROVE  Pipe(s, <<>>, <<>>, <<>>, 0, B, <<>>, P, N, G, mem, cons, st)
  <1>1. PICK z, d : z = <<>> /\ d = At(z, z, 0)  OBVIOUS
  <1>2. z \in Seq(Handles) /\ z \in Seq(Buffer) /\ z \in Seq(Job) /\ Len(z) = 0  BY <1>1
  <1>3. d \in Cursor /\ d.handles = z /\ d.buffers = z /\ d.at = 0  BY <1>1, <1>2 DEF At, Cursor
  <1>4. Linked(d, z, d, Steps(s, N, IdSet(B), G, mem, cons))  BY <1>1, <1>3, LinkNone
  <1>5. Ends(d, z, N, G)  BY <1>1, <1>2, <1>3 DEF Ends
  <1>6. Feeds(d, z, P, B, st)  BY <1>1, <1>2, <1>3 DEF Feeds, Follows
  <1>7. Pipe(s, z, z, z, 0, B, z, P, N, G, mem, cons, st)  BY <1>1, <1>4, <1>5, <1>6 DEF Pipe
  <1> QED BY <1>1, <1>7

----
(* The invariant.                                                           *)

FlowTypes ==
  /\ memory \in [BufferIds -> Seq(Part)]
  /\ received \in [Handles -> [Streams -> Seq(Part)]]
  /\ produced \in [Handles -> [Streams -> Seq(Part)]]
  /\ \A h \in Handles : \A s \in Streams : produced[h][s] = Output(h, s, 1, Len(produced[h][s]))

Absent(h, q) == \A i \in 1 .. Len(q) : q[i] # h
Once(q) == \A i, j \in 1 .. Len(q) : q[i] = q[j] => i = j

(* A handle waits once on a stream, and not once the stream is marked done.  *)
HandlesOnce ==
  \A s \in Streams : /\ Once(enqueued_handles[s])
                     /\ \A i \in 1 .. Len(enqueued_handles[s]) : s \notin finished_streams[enqueued_handles[s][i]]
(* Who acquires has the newest handle, and is not yet in the queues ahead.   *)
Newest ==
  cs.who \in {"acquire", "acquire_size"} =>
    cs.handle = num_handles /\ state = "running" /\ finished_streams[cs.handle] = {}
NotYet ==
  /\ cs.who = "acquire" => \A s \in cs.left : Absent(cs.handle, enqueued_handles[s])
  /\ cs.who = "acquire_size" => /\ Absent(cs.handle, enqueued_handles[cs.stream])
                                /\ cs.remaining = cs.size /\ cs.size <= MAX_CAPACITY
  /\ cs.who = "interrupt" => cs.destroy = 0 \/ cs.destroy \in dropped
OrderInv == HandlesOnce /\ Newest /\ NotYet

\* The last interrupt of an output was handled, its handle is still to be marked done.
Marking(s) == cs.who = "interrupt" /\ cs.stream = s /\ cs.last
Ahead(s) == IF Marking(s) THEN Tail(enqueued_handles[s]) ELSE enqueued_handles[s]
Coming(s) == IF cs.who = "acquire" /\ s \in active_streams[cs.handle] \ cs.left THEN cs.handle ELSE 0
Fresh == {h \in Handles : h > num_handles \/ (cs.who \in {"acquire", "acquire_size"} /\ cs.handle = h)}
Goal(s) == [h \in Handles |-> Len(produced[h][s])]
Full(h, s) == s \in finished_streams[h] \/ (Marking(s) /\ h = Head(enqueued_handles[s]))

(* How much of its output a handle got. *)
Reached(m, h, H, a, g, full, fresh) ==
  /\ m <= g
  /\ full => m = g
  /\ \A i \in 1 .. Len(H) : H[i] = h => m = (IF i = 1 THEN a ELSE 0)
  /\ fresh => m = 0 /\ g = 0
Level(h, s, a) ==
  \E m \in Nat : /\ Holds(h, s, output_buffers[h][s], received[h][s], memory, m)
                 /\ Reached(m, h, Ahead(s), a, Len(produced[h][s]), Full(h, s), h \in Fresh)

(* A handle the application has and that is not misled. *)
Clean(h, s) == h \notin dropped /\ s \notin misled[h]

(* V are the handles the outputs of the stream are meant for, in the order in *)
(* which the FPGA produces them. The ones that wait are the same, and the one *)
(* whose design is still to be started; unless a failed acquire left its      *)
(* handle there, and even then the ones before it are in their place.         *)
InPlace(s, V) == \A i \in 1 .. Len(Ahead(s)) : Clean(Ahead(s)[i], s) => i <= Len(V) /\ V[i] = Ahead(s)[i]
Expected(s, V) == Ahead(s) = IF Coming(s) = 0 THEN V ELSE Append(V, Coming(s))
Rightful(s, V) == IF s \in spoilt THEN InPlace(s, V) ELSE Expected(s, V)

Flowing(s, V, a) ==
  Pipe(s, interrupts, V, enqueued_buffers[s], a, fpga_buffers[s], jobs[s], 0, Fresh, Goal(s), memory, consumes, state)

StreamFlows(s) ==
  \E a \in Nat, V \in Seq(Handles) :
    /\ Flowing(s, V, a)
    /\ V = <<>> => a = 0
    /\ Rightful(s, V)
    /\ \A h \in Handles : Clean(h, s) => Level(h, s, a)

(* Who acquires is misled on the streams that are spoilt. *)
Warned ==
  /\ \A h \in Handles : h > num_handles => misled[h] = {}
  /\ cs.who \in {"acquire", "acquire_size"} => misled[cs.handle] = active_streams[cs.handle] \cap spoilt

FlowInv == FlowTypes /\ OrderInv /\ Warned /\ \A s \in Streams : StreamFlows(s)

----
(* Buffers of different places are different.                               *)

LEMMA StorePlaces ==
  ASSUME BufferTypes, Accounted, NEW F, F = Store(enqueued_buffers, output_buffers)
  PROVE  /\ Inj(F) /\ Ids(F) \cap free = {} /\ DOMAIN F = SlotSet
         /\ \A s \in Streams : <<0, s>> \in SlotSet /\ F[<<0, s>>] = enqueued_buffers[s]
         /\ \A h \in Handles, s \in Streams : <<h, s>> \in SlotSet /\ F[<<h, s>>] = output_buffers[h][s]
  <1>1. Inj(F) /\ Ids(F) \cap free = {}  BY DEF Accounted, Placed
  <1>2. DOMAIN F = SlotSet  BY DEF Store
  <1>3. \A s \in Streams : <<0, s>> \in SlotSet  BY ManagerAssumption DEF SlotSet
  <1>4. \A h \in Handles, s \in Streams : <<h, s>> \in SlotSet /\ h # 0
    BY ManagerAssumption DEF SlotSet, Handles
  <1>5. \A s \in Streams : F[<<0, s>>] = enqueued_buffers[s]  BY <1>3 DEF Store
  <1>6. \A h \in Handles, s \in Streams : F[<<h, s>>] = output_buffers[h][s]  BY <1>4 DEF Store
  <1> QED BY <1>1, <1>2, <1>3, <1>4, <1>5, <1>6

LEMMA SlotsApart ==
  ASSUME NEW F, Inj(F), NEW p \in DOMAIN F, NEW q \in DOMAIN F
  PROVE  (p # q => IdSet(F[p]) \cap IdSet(F[q]) = {})
  <1>1. ASSUME p # q, NEW b \in IdSet(F[p]), b \in IdSet(F[q]) PROVE FALSE
    <2>1. PICK i \in DOMAIN F[p] : b = F[p][i].id  BY <1>1 DEF IdSet
    <2>2. PICK j \in DOMAIN F[q] : b = F[q][j].id  BY <1>1 DEF IdSet
    <2> QED BY <2>1, <2>2, <1>1 DEF Inj
  <1> QED BY <1>1

LEMMA IdsApart ==
  ASSUME BufferTypes, Accounted
  PROVE  /\ \A s, t \in Streams : s # t => IdSet(enqueued_buffers[s]) \cap IdSet(enqueued_buffers[t]) = {}
         /\ \A h \in Handles, s, t \in Streams : IdSet(enqueued_buffers[t]) \cap IdSet(output_buffers[h][s]) = {}
         /\ \A h, k \in Handles, s, t \in Streams :
              h # k \/ s # t => IdSet(output_buffers[h][s]) \cap IdSet(output_buffers[k][t]) = {}
         /\ \A s \in Streams : IdSet(enqueued_buffers[s]) \cap free = {}
         /\ \A s \in Streams : Distinct(enqueued_buffers[s])
         /\ \A h \in Handles, s \in Streams : Distinct(output_buffers[h][s])
  <1>1. PICK F : F = Store(enqueued_buffers, output_buffers)  OBVIOUS
  <1>2. /\ Inj(F) /\ Ids(F) \cap free = {} /\ DOMAIN F = SlotSet
        /\ \A s \in Streams : <<0, s>> \in SlotSet /\ F[<<0, s>>] = enqueued_buffers[s]
        /\ \A h \in Handles, s \in Streams : <<h, s>> \in SlotSet /\ F[<<h, s>>] = output_buffers[h][s]
    BY <1>1, StorePlaces
  <1>3. ASSUME NEW s \in Streams, NEW t \in Streams, s # t
        PROVE  IdSet(enqueued_buffers[s]) \cap IdSet(enqueued_buffers[t]) = {}
    <2>1. PICK p, q : p = <<0, s>> /\ q = <<0, t>>  OBVIOUS
    <2>2. p # q /\ p \in DOMAIN F /\ q \in DOMAIN F /\ F[p] = enqueued_buffers[s] /\ F[q] = enqueued_buffers[t]
      BY <2>1, <1>2, <1>3
    <2>3. IdSet(F[p]) \cap IdSet(F[q]) = {}  BY <2>2, <1>2, SlotsApart
    <2> QED BY <2>2, <2>3
  <1>4. ASSUME NEW h \in Handles, NEW s \in Streams, NEW t \in Streams
        PROVE  IdSet(enqueued_buffers[t]) \cap IdSet(output_buffers[h][s]) = {}
    <2>1. PICK p, q : p = <<0, t>> /\ q = <<h, s>>  OBVIOUS
    <2>2. p # q  BY <2>1, ManagerAssumption DEF Handles
    <2>3. p \in DOMAIN F /\ q \in DOMAIN F /\ F[p] = enqueued_buffers[t] /\ F[q] = output_buffers[h][s]
      BY <2>1, <1>2
    <2>4. IdSet(F[p]) \cap IdSet(F[q]) = {}  BY <2>2, <2>3, <1>2, SlotsApart
    <2> QED BY <2>3, <2>4
  <1>5. ASSUME NEW h \in Handles, NEW k \in Handles, NEW s \in Streams, NEW t \in Streams, h # k \/ s # t
        PROVE  IdSet(output_buffers[h][s]) \cap IdSet(output_buffers[k][t]) = {}
    <2>1. PICK p, q : p = <<h, s>> /\ q = <<k, t>>  OBVIOUS
    <2>2. p # q  BY <2>1, <1>5
    <2>3. p \in DOMAIN F /\ q \in DOMAIN F /\ F[p] = output_buffers[h][s] /\ F[q] = output_buffers[k][t]
      BY <2>1, <1>2
    <2>4. IdSet(F[p]) \cap IdSet(F[q]) = {}  BY <2>2, <2>3, <1>2, SlotsApart
    <2> QED BY <2>3, <2>4
  <1>6. ASSUME NEW s \in Streams PROVE IdSet(enqueued_buffers[s]) \cap free = {}
    <2>1. PICK p : p = <<0, s>>  OBVIOUS
    <2>2. p \in DOMAIN F /\ F[p] = enqueued_buffers[s]  BY <2>1, <1>2
    <2>3. IdSet(F[p]) \subseteq Ids(F)  BY <2>2 DEF Ids, IdSet
    <2> QED BY <2>2, <2>3, <1>2
  <1>7. ASSUME NEW p \in DOMAIN F, DOMAIN F[p] = 1 .. Len(F[p]) PROVE Distinct(F[p])
    BY <1>2, <1>7 DEF Inj, Distinct
  <1>8. ASSUME NEW s \in Streams PROVE Distinct(enqueued_buffers[s])
    <2>1. PICK p : p = <<0, s>>  OBVIOUS
    <2>2. p \in DOMAIN F /\ F[p] = enqueued_buffers[s]  BY <2>1, <1>2
    <2>3. enqueued_buffers[s] \in Seq(Buffer)  BY DEF BufferTypes
    <2>4. DOMAIN F[p] = 1 .. Len(F[p])  BY <2>2, <2>3
    <2> QED BY <2>2, <2>4, <1>7
  <1>9. ASSUME NEW h \in Handles, NEW s \in Streams PROVE Distinct(output_buffers[h][s])
    <2>1. PICK p : p = <<h, s>>  OBVIOUS
    <2>2. p \in DOMAIN F /\ F[p] = output_buffers[h][s]  BY <2>1, <1>2
    <2>3. output_buffers[h][s] \in Seq(Delivered)  BY DEF BufferTypes
    <2>4. DOMAIN F[p] = 1 .. Len(F[p])  BY <2>2, <2>3
    <2> QED BY <2>2, <2>4, <1>7
  <1> QED BY <1>3, <1>4, <1>5, <1>6, <1>8, <1>9

\* What the FPGA has is part of what the manager enqueued.
LEMMA FpgaIds ==
  ASSUME Types, Accounted, BuffersAgree, state # "stale", NEW s \in Streams
  PROVE  IdSet(fpga_buffers[s]) \subseteq IdSet(enqueued_buffers[s]) /\ Distinct(fpga_buffers[s])
  <1>1. PICK E, B, u : E = enqueued_buffers[s] /\ B = fpga_buffers[s] /\ u = Total(interrupts, Using(s))
    OBVIOUS
  <1>2. E \in Seq(Buffer) /\ B \in Seq(Buffer)  BY <1>1 DEF Types, BufferTypes, FpgaTypes
  <1>3. u \in Nat
    <2>1. interrupts \in Seq(Notification)  BY DEF Types, FpgaTypes
    <2> QED BY <2>1, <1>1, TotalType
  <1>4. Matches(E, B, u)  BY <1>1 DEF BuffersAgree, Synced
  <1>5. Distinct(E)  BY <1>1, IdsApart DEF Types
  <1>6. Len(E) = u + Len(B) /\ \A j \in 1 .. Len(B) : E[u + j] = B[j]  BY <1>2, <1>4 DEF Matches
  <1>7. ASSUME NEW j \in 1 .. Len(B) PROVE u + j \in 1 .. Len(E) /\ B[j].id = E[u + j].id
    BY <1>2, <1>3, <1>6
  <1>8. IdSet(B) \subseteq IdSet(E)
    <2>1. DOMAIN B = 1 .. Len(B) /\ DOMAIN E = 1 .. Len(E)  BY <1>2
    <2> QED BY <2>1, <1>7 DEF IdSet
  <1>9. Distinct(B)
    <2>1. ASSUME NEW i \in 1 .. Len(B), NEW j \in 1 .. Len(B), B[i].id = B[j].id PROVE i = j
      <3>1. u + i \in 1 .. Len(E) /\ u + j \in 1 .. Len(E) /\ E[u + i].id = E[u + j].id
        BY <2>1, <1>7
      <3>2. u + i = u + j  BY <3>1, <1>5 DEF Distinct
      <3> QED BY <3>2, <1>3
    <2> QED BY <2>1 DEF Distinct
  <1> QED BY <1>1, <1>8, <1>9

----
(* What an action leaves alone.                                             *)

LEMMA HoldsKept ==
  ASSUME NEW h, NEW s, NEW q \in Seq(Delivered), NEW r, NEW mem, NEW kept, NEW m, Holds(h, s, q, r, mem, m),
         \A b \in IdSet(q) : kept[b] = mem[b]
  PROVE  Holds(h, s, q, r, kept, m)
  <1>1. \A i \in 1 .. Len(q) : q[i].id \in IdSet(q)  BY DEF IdSet
  <1> QED BY <1>1, HoldsSame

LEMMA LevelKept ==
  ASSUME NEW h \in Handles, NEW s \in Streams, NEW a \in Nat, Level(h, s, a),
         output_buffers[h][s] \in Seq(Delivered),
         output_buffers'[h][s] = output_buffers[h][s], received'[h][s] = received[h][s],
         \A b \in IdSet(output_buffers[h][s]) : memory'[b] = memory[b],
         Ahead(s)' = Ahead(s), produced'[h][s] = produced[h][s],
         Full(h, s)' => Full(h, s), h \in Fresh' => h \in Fresh
  PROVE  Level(h, s, a)'
  <1>1. PICK m \in Nat : /\ Holds(h, s, output_buffers[h][s], received[h][s], memory, m)
                         /\ Reached(m, h, Ahead(s), a, Len(produced[h][s]), Full(h, s), h \in Fresh)
    BY DEF Level
  <1>2. Holds(h, s, output_buffers'[h][s], received'[h][s], memory', m)
    <2>1. PICK q, r, mem, kept : /\ q = output_buffers[h][s] /\ r = received[h][s]
                                 /\ mem = memory /\ kept = memory'
      OBVIOUS
    <2>2. Holds(h, s, q, r, mem, m) /\ q \in Seq(Delivered) /\ \A b \in IdSet(q) : kept[b] = mem[b]
      BY <2>1, <1>1
    <2>3. Holds(h, s, q, r, kept, m)  BY <2>2, HoldsKept
    <2> QED BY <2>1, <2>3
  <1>3. Reached(m, h, Ahead(s)', a, Len(produced'[h][s]), Full(h, s)', h \in Fresh')
    BY <1>1 DEF Reached
  <1> QED BY <1>2, <1>3 DEF Level

LEMMA AheadType ==
  ASSUME Types, NEW s \in Streams
  PROVE  Ahead(s) \in Seq(Handles)
  <1>1. enqueued_handles[s] \in Seq(Handles)  BY DEF Types, HandleTypes
  <1>2. ASSUME Marking(s) PROVE enqueued_handles[s] # <<>>
    BY <1>2, InterruptFacts DEF Types, Marking
  <1>3. PICK q \in Seq(Handles) : q = enqueued_handles[s]  BY <1>1
  <1>4. q # <<>> => Tail(q) \in Seq(Handles)  OBVIOUS
  <1> QED BY <1>2, <1>3, <1>4 DEF Ahead

LEMMA RightfulKept ==
  ASSUME NEW s, NEW V, Rightful(s, V), Ahead(s) \in Seq(Handles),
         Ahead(s)' = Ahead(s), Coming(s)' = Coming(s), s \in spoilt' <=> s \in spoilt,
         \A h \in Handles : Clean(h, s)' => Clean(h, s)
  PROVE  Rightful(s, V)'
  <1>1. CASE s \in spoilt
    <2>1. InPlace(s, V)  BY <1>1 DEF Rightful
    <2>2. ASSUME NEW i \in 1 .. Len(Ahead(s)), Clean(Ahead(s)[i], s)' PROVE i <= Len(V) /\ V[i] = Ahead(s)[i]
      <3>1. PICK h \in Handles : h = Ahead(s)[i]  OBVIOUS
      <3>2. Clean(h, s)'  BY <2>2, <3>1 DEF Clean
      <3>3. Clean(h, s)  BY <3>2
      <3> QED BY <2>1, <3>1, <3>3 DEF InPlace
    <2>3. InPlace(s, V)'  BY <2>2 DEF InPlace, Clean
    <2> QED BY <2>3, <1>1 DEF Rightful
  <1>2. CASE s \notin spoilt
    <2>1. Expected(s, V)  BY <1>2 DEF Rightful
    <2>2. Expected(s, V)'  BY <2>1 DEF Expected
    <2> QED BY <2>2, <1>2 DEF Rightful
  <1> QED BY <1>1, <1>2

LEMMA FlowKept ==
  ASSUME Types, NEW s \in Streams, StreamFlows(s),
         interrupts' = interrupts, enqueued_buffers'[s] = enqueued_buffers[s], fpga_buffers'[s] = fpga_buffers[s],
         jobs'[s] = jobs[s], consumes' = consumes,
         Fresh' \subseteq Fresh, \A b \in IdSet(enqueued_buffers[s]) : memory'[b] = memory[b],
         \A h \in Handles \ Fresh : Goal(s)'[h] = Goal(s)[h],
         state' = "running" => state = "running", state' # "stale" => state # "stale",
         \A V \in Seq(Handles) : Rightful(s, V) => Rightful(s, V)',
         \A h \in Handles : Clean(h, s)' => Clean(h, s),
         \A a \in Nat : \A h \in Handles : Clean(h, s)' => (Level(h, s, a) => Level(h, s, a)')
  PROVE  StreamFlows(s)'
  <1>1. PICK a \in Nat, V \in Seq(Handles) :
          /\ Flowing(s, V, a)
          /\ V = <<>> => a = 0
          /\ Rightful(s, V)
          /\ \A h \in Handles : Clean(h, s) => Level(h, s, a)
    BY DEF StreamFlows
  <1>2. PICK I, E, B, J, cons :
          /\ I = interrupts /\ E = enqueued_buffers[s] /\ B = fpga_buffers[s] /\ J = jobs[s]
          /\ cons = consumes
    OBVIOUS
  <1>3. PICK N, G, mem, st :
          N = Fresh /\ G = Goal(s) /\ mem = memory /\ st = state
    OBVIOUS
  <1>4. PICK N2, G2, mem2, st2 :
          N2 = Fresh' /\ G2 = Goal(s)' /\ mem2 = memory' /\ st2 = state'
    OBVIOUS
  <1>5. I \in Seq(Notification) /\ E \in Seq(Buffer) /\ J \in Seq(Job)
    BY <1>2 DEF Types, BufferTypes, FpgaTypes
  <1>6. Pipe(s, I, V, E, a, B, J, 0, N, G, mem, cons, st)  BY <1>1, <1>2, <1>3 DEF Flowing
  <1>7. /\ N2 \subseteq N /\ \A b \in IdSet(E) : mem2[b] = mem[b]
        /\ \A h \in Handles \ N : G2[h] = G[h]
        /\ st2 = "running" => st = "running"
        /\ st2 # "stale" => st # "stale"
    BY <1>2, <1>3, <1>4
  <1>8. Pipe(s, I, V, E, a, B, J, 0, N2, G2, mem2, cons, st2)  BY <1>5, <1>6, <1>7, PipeKept
  <1>9. Flowing(s, V, a)'  BY <1>2, <1>4, <1>8 DEF Flowing
  <1>10. \A h \in Handles : Clean(h, s)' => Level(h, s, a)'  BY <1>1
  <1>11. Rightful(s, V)'  BY <1>1
  <1> QED BY <1>1, <1>9, <1>10, <1>11 DEF StreamFlows

(* An output of an unmanaged stream fits in one buffer.                      *)
SingleChunk == \A n \in Sizes : n <= MAX_CAPACITY

----
(* Every step keeps the order of the handles.                               *)

LEMMA SameOrder ==
  ASSUME OrderInv, UNCHANGED <<enqueued_handles, finished_streams, cs, num_handles>>,
         state' = state \/ state' = "running", dropped \subseteq dropped'
  PROVE  OrderInv'
  <1>1. HandlesOnce'  BY DEF OrderInv, HandlesOnce
  <1>2. Newest'  BY DEF OrderInv, Newest
  <1>3. NotYet'  BY DEF OrderInv, NotYet
  <1> QED BY <1>1, <1>2, <1>3 DEF OrderInv

LEMMA LeavesOrder ==
  ASSUME HandlesOnce', cs' = Nobody
  PROVE  OrderInv'
  BY DEF OrderInv, Newest, NotYet, Nobody

LEMMA SameOnce ==
  ASSUME HandlesOnce, UNCHANGED <<enqueued_handles, finished_streams>>
  PROVE  HandlesOnce'
  BY DEF HandlesOnce

LEMMA OnceAppend ==
  ASSUME NEW q \in Seq(Handles), NEW h \in Handles, Once(q), Absent(h, q)
  PROVE  Once(Append(q, h))
  <1>1. PICK n, p : n = Len(q) /\ p = Append(q, h)  OBVIOUS
  <1>2. n \in Nat /\ Len(p) = n + 1 /\ p[n + 1] = h /\ \A i \in 1 .. n : p[i] = q[i]  BY <1>1
  <1>3. \A i \in 1 .. n : q[i] # h  BY <1>1 DEF Absent
  <1>4. ASSUME NEW i \in 1 .. n + 1, NEW j \in 1 .. n + 1, p[i] = p[j] PROVE i = j
    <2>1. CASE i = n + 1
      <3>1. ASSUME j # n + 1 PROVE FALSE
        <4>1. j \in 1 .. n  BY <3>1, <1>2
        <4> QED BY <4>1, <2>1, <1>2, <1>3, <1>4
      <3> QED BY <2>1, <3>1
    <2>2. CASE i # n + 1
      <3>1. i \in 1 .. n  BY <2>2, <1>2
      <3>2. ASSUME j = n + 1 PROVE FALSE  BY <3>1, <3>2, <1>2, <1>3, <1>4
      <3>3. j \in 1 .. n  BY <3>2, <1>2
      <3>4. q[i] = q[j]  BY <3>1, <3>3, <1>2, <1>4
      <3> QED BY <3>1, <3>3, <3>4, <1>1 DEF Once
    <2> QED BY <2>1, <2>2
  <1> QED BY <1>1, <1>2, <1>4 DEF Once

LEMMA OnceTail ==
  ASSUME NEW q \in Seq(Handles), q # <<>>, Once(q)
  PROVE  Once(Tail(q)) /\ Absent(Head(q), Tail(q))
  <1>1. PICK n, t : n = Len(q) /\ t = Tail(q)  OBVIOUS
  <1>2. n \in Nat \ {0} /\ Len(t) = n - 1 /\ \A i \in 1 .. n - 1 : t[i] = q[i + 1]  BY <1>1
  <1>3. Head(q) = q[1] /\ 1 \in 1 .. n  BY <1>1, <1>2
  <1>4. ASSUME NEW i \in 1 .. n - 1, NEW j \in 1 .. n - 1, t[i] = t[j] PROVE i = j
    <2>1. i + 1 \in 1 .. n /\ j + 1 \in 1 .. n /\ q[i + 1] = q[j + 1]  BY <1>2, <1>4
    <2>2. i + 1 = j + 1  BY <2>1, <1>1 DEF Once
    <2> QED BY <2>2
  <1>5. ASSUME NEW i \in 1 .. n - 1 PROVE t[i] # q[1]
    <2>1. i + 1 \in 1 .. n /\ i + 1 # 1  BY <1>2
    <2>2. q[i + 1] # q[1]  BY <2>1, <1>1, <1>3 DEF Once
    <2> QED BY <2>2, <1>2
  <1> QED BY <1>1, <1>2, <1>3, <1>4, <1>5 DEF Once, Absent

\* A new handle that waits on s keeps the others apart.
LEMMA AppendOnce ==
  ASSUME HandleTypes, HandlesOnce, NEW s \in Streams, NEW h \in Handles, Absent(h, enqueued_handles[s]),
         finished_streams[h] = {}, UNCHANGED finished_streams,
         enqueued_handles' = [enqueued_handles EXCEPT ![s] = Append(@, h)]
  PROVE  HandlesOnce'
  <1>1. enqueued_handles \in [Streams -> Seq(Handles)]  BY DEF HandleTypes
  <1>2. ASSUME NEW t \in Streams
        PROVE  /\ Once(enqueued_handles'[t])
               /\ \A i \in 1 .. Len(enqueued_handles'[t]) : t \notin finished_streams[enqueued_handles'[t][i]]
    <2>1. PICK q, p : q = enqueued_handles[t] /\ p = enqueued_handles'[t]  OBVIOUS
    <2>2. q \in Seq(Handles) /\ Once(q) /\ \A i \in 1 .. Len(q) : t \notin finished_streams[q[i]]
      BY <2>1, <1>1 DEF HandlesOnce
    <2>3. CASE t = s
      <3>1. p = Append(q, h) /\ Absent(h, q)  BY <2>1, <2>3, <1>1
      <3>2. Once(p)  BY <3>1, <2>2, OnceAppend
      <3>3. Len(p) = Len(q) + 1 /\ p[Len(q) + 1] = h /\ \A i \in 1 .. Len(q) : p[i] = q[i]
        BY <3>1, <2>2
      <3>4. ASSUME NEW i \in 1 .. Len(p) PROVE t \notin finished_streams[p[i]]
        <4>1. i = Len(q) + 1 \/ i \in 1 .. Len(q)  BY <3>3, <2>2
        <4> QED BY <4>1, <3>3, <2>2
      <3> QED BY <3>2, <3>4, <2>1
    <2>4. CASE t # s
      <3>1. p = q  BY <2>1, <2>4, <1>1
      <3> QED BY <3>1, <2>1, <2>2
    <2> QED BY <2>3, <2>4
  <1> QED BY <1>2 DEF HandlesOnce

\* A handle is marked done.
LEMMA MarkOnce ==
  ASSUME HandleTypes, HandlesOnce, NEW s \in Streams, enqueued_handles[s] # <<>>, NEW h, h = Head(enqueued_handles[s]),
         finished_streams' = [finished_streams EXCEPT ![h] = @ \cup {s}],
         enqueued_handles' = [enqueued_handles EXCEPT ![s] = Tail(@)]
  PROVE  HandlesOnce'
  <1>1. enqueued_handles \in [Streams -> Seq(Handles)] /\ finished_streams \in [Handles -> SUBSET Streams]
    BY DEF HandleTypes
  <1>2. ASSUME NEW t \in Streams
        PROVE  /\ Once(enqueued_handles'[t])
               /\ \A i \in 1 .. Len(enqueued_handles'[t]) : t \notin finished_streams'[enqueued_handles'[t][i]]
    <2>1. PICK q, p : q = enqueued_handles[t] /\ p = enqueued_handles'[t]  OBVIOUS
    <2>2. q \in Seq(Handles) /\ Once(q) /\ \A i \in 1 .. Len(q) : t \notin finished_streams[q[i]]
      BY <2>1, <1>1 DEF HandlesOnce
    <2>3. CASE t = s
      <3>1. p = Tail(q) /\ q # <<>> /\ h = Head(q)  BY <2>1, <2>3, <1>1
      <3>2. Once(p) /\ Absent(h, p)  BY <3>1, <2>2, OnceTail
      <3>3. Len(p) = Len(q) - 1 /\ \A i \in 1 .. Len(p) : p[i] = q[i + 1] /\ i + 1 \in 1 .. Len(q)
        BY <3>1, <2>2
      <3>4. ASSUME NEW i \in 1 .. Len(p) PROVE t \notin finished_streams'[p[i]]
        <4>1. p[i] # h /\ p[i] \in Handles /\ t \notin finished_streams[p[i]]
          <5>1. p[i] # h  BY <3>2 DEF Absent
          <5>2. p[i] = q[i + 1] /\ i + 1 \in 1 .. Len(q)  BY <3>3
          <5> QED BY <5>1, <5>2, <2>2
        <4>2. finished_streams'[p[i]] = finished_streams[p[i]]  BY <4>1, <1>1
        <4> QED BY <4>1, <4>2
      <3> QED BY <3>2, <3>4, <2>1
    <2>4. CASE t # s
      <3>1. p = q  BY <2>1, <2>4, <1>1
      <3>2. ASSUME NEW i \in 1 .. Len(q) PROVE t \notin finished_streams'[q[i]]
        <4>1. q[i] \in Handles  BY <2>2
        <4>2. PICK k \in Handles : k = q[i]  BY <4>1
        <4>3. finished_streams'[k] = IF k = h THEN finished_streams[k] \cup {s} ELSE finished_streams[k]
          BY <1>1
        <4> QED BY <4>2, <4>3, <2>2, <2>4
      <3> QED BY <3>1, <3>2, <2>1, <2>2
    <2> QED BY <2>3, <2>4
  <1> QED BY <1>2 DEF HandlesOnce

\* The handle that is acquired next is nowhere yet.
LEMMA NextHandle ==
  ASSUME HandleTypes, HandlesActive, num_handles < MAX_HANDLES
  PROVE  /\ num_handles + 1 \in Handles /\ finished_streams[num_handles + 1] = {}
         /\ \A s \in Streams : Absent(num_handles + 1, enqueued_handles[s])
  <1>1. PICK n \in Nat : n = num_handles  BY DEF HandleTypes
  <1>2. n + 1 \in Handles /\ n + 1 > n  BY <1>1, ManagerAssumption DEF Handles
  <1>3. finished_streams[n + 1] = {}  BY <1>1, <1>2 DEF HandlesActive
  <1>4. ASSUME NEW s \in Streams PROVE Absent(n + 1, enqueued_handles[s])
    <2>1. PICK q \in Seq(Handles) : q = enqueued_handles[s]  BY DEF HandleTypes
    <2>2. ASSUME NEW i \in 1 .. Len(q) PROVE q[i] \in Nat /\ q[i] <= n
      <3>1. q[i] \in Handles  OBVIOUS
      <3>2. i \in DOMAIN q  OBVIOUS
      <3>3. q[i] <= n  BY <3>2, <2>1, <1>1 DEF HandlesActive
      <3> QED BY <3>1, <3>3, ManagerAssumption DEF Handles
    <2>3. \A i \in 1 .. Len(q) : q[i] # n + 1  BY <2>2
    <2> QED BY <2>1, <2>3 DEF Absent
  <1> QED BY <1>1, <1>2, <1>3, <1>4

\* A chunk is all of the output.
LEMMA ChunkIs ==
  ASSUME Types, NotYet, AcquireChunk
  PROVE  /\ cs' = Nobody
         /\ EnqueueBuffer(cs.stream, cs.size)
         /\ enqueued_handles' = [enqueued_handles EXCEPT ![cs.stream] = Append(@, cs.handle)]
         /\ StartDesign(cs.handle, [s \in {cs.stream} |-> cs.size])
         /\ UNCHANGED <<num_handles, active_streams, output_buffers, finished_streams, dropped, state, interrupts,
                        memory, consumes, received, spoilt, misled>>
         /\ cs.who = "acquire_size"
  <1>1. cs.who = "acquire_size"  BY DEF AcquireChunk
  <1>2. cs.remaining = cs.size /\ cs.size <= MAX_CAPACITY  BY <1>1 DEF NotYet
  <1>3. cs.size \in Nat  BY <1>1, SizeFacts DEF Types
  <1>4. (IF cs.remaining < MAX_CAPACITY THEN cs.remaining ELSE MAX_CAPACITY) = cs.size
    BY <1>2, <1>3, ManagerAssumption
  <1>5. ~ (cs.size < cs.remaining)  BY <1>2, <1>3
  <1> QED BY <1>1, <1>4, <1>5 DEF AcquireChunk, failVars

LEMMA BeginOrder ==
  ASSUME HandleTypes, HandlesActive, OrderInv, NEW mask, mask \subseteq Streams, NEW by, BeginAcquire(mask, by)
  PROVE  OrderInv'
  <1>1. /\ num_handles < MAX_HANDLES /\ num_handles' = num_handles + 1 /\ state' = "running"
        /\ cs' = [who |-> "acquire", handle |-> num_handles + 1, left |-> mask, by |-> by]
        /\ UNCHANGED <<enqueued_handles, finished_streams>>
    BY DEF BeginAcquire
  <1>2. /\ finished_streams[num_handles + 1] = {}
        /\ \A s \in Streams : Absent(num_handles + 1, enqueued_handles[s])
    BY <1>1, NextHandle
  <1>3. cs'.who = "acquire" /\ cs'.handle = num_handles + 1 /\ cs'.left = mask  BY <1>1
  <1>4. HandlesOnce'  BY <1>1, SameOnce DEF OrderInv
  <1>5. Newest'  BY <1>1, <1>2, <1>3 DEF Newest
  <1>6. NotYet'  BY <1>1, <1>2, <1>3 DEF NotYet
  <1> QED BY <1>4, <1>5, <1>6 DEF OrderInv

LEMMA BeginSizeOrder ==
  ASSUME HandleTypes, HandlesActive, OrderInv, NEW s \in Streams, NEW size, size <= MAX_CAPACITY, BeginAcquireSize(s, size)
  PROVE  OrderInv'
  <1>1. /\ num_handles < MAX_HANDLES /\ num_handles' = num_handles + 1 /\ state' = "running"
        /\ cs' = [who |-> "acquire_size", handle |-> num_handles + 1, stream |-> s, size |-> size, remaining |-> size]
        /\ UNCHANGED <<enqueued_handles, finished_streams>>
    BY DEF BeginAcquireSize
  <1>2. /\ finished_streams[num_handles + 1] = {}
        /\ \A t \in Streams : Absent(num_handles + 1, enqueued_handles[t])
    BY <1>1, NextHandle
  <1>3. cs'.who = "acquire_size" /\ cs'.handle = num_handles + 1 /\ cs'.stream = s /\ cs'.size = size /\ cs'.remaining = size
    BY <1>1
  <1>4. HandlesOnce'  BY <1>1, SameOnce DEF OrderInv
  <1>5. Newest'  BY <1>1, <1>2, <1>3 DEF Newest
  <1>6. NotYet'  BY <1>1, <1>2, <1>3 DEF NotYet
  <1> QED BY <1>4, <1>5, <1>6 DEF OrderInv

\* The facts about a stream whose buffers are there.
LEMMA EnqueueIs ==
  ASSUME HandleTypes, CsTypes, OrderInv, AcquireStream, NEW s, s = Lowest(cs.left), NEW h, h = cs.handle, HasBuffers(s)
  PROVE  /\ s \in Streams /\ s \in cs.left /\ h \in Handles /\ cs.who = "acquire"
         /\ enqueued_handles' = [enqueued_handles EXCEPT ![s] = Append(@, h)]
         /\ UNCHANGED <<enqueued_buffers, free, fpga_buffers>>
         /\ UNCHANGED <<num_handles, active_streams, output_buffers, finished_streams, dropped, state,
                        interrupts, memory, consumes, received, spoilt, misled>>
         /\ Absent(h, enqueued_handles[s]) /\ finished_streams[h] = {}
         /\ h = num_handles /\ state = "running" /\ s \in active_streams[h]
         /\ \/ cs.left \ {s} # {} /\ cs' = [cs EXCEPT !.left = cs.left \ {s}] /\ UNCHANGED <<callback_thread, jobs, produced>>
            \/ /\ cs.left \ {s} = {} /\ cs' = Nobody
               /\ \E lengths \in [active_streams[h] -> Lengths] : StartDesign(h, lengths)
  <1>1. cs.who = "acquire"  BY DEF AcquireStream
  <1>2. s \in Streams /\ s \in cs.left /\ h \in Handles /\ s \in active_streams[h]
    BY <1>1, AcquireFacts
  <1>3. Absent(h, enqueued_handles[s]) /\ finished_streams[h] = {} /\ h = num_handles /\ state = "running"
    BY <1>1, <1>2 DEF OrderInv, NotYet, Newest
  <1>4. /\ enqueued_handles' = [enqueued_handles EXCEPT ![s] = Append(@, h)]
        /\ UNCHANGED <<enqueued_buffers, free, fpga_buffers>>
    BY DEF AcquireStream
  <1>5. UNCHANGED <<num_handles, active_streams, output_buffers, finished_streams, dropped, state,
                    interrupts, memory, consumes, received, spoilt, misled>>
    BY DEF AcquireStream, failVars
  <1>6. \/ cs.left \ {s} # {} /\ cs' = [cs EXCEPT !.left = cs.left \ {s}] /\ UNCHANGED <<callback_thread, jobs, produced>>
        \/ /\ cs.left \ {s} = {} /\ cs' = Nobody
           /\ \E lengths \in [active_streams[h] -> Lengths] : StartDesign(h, lengths)
    BY DEF AcquireStream
  <1> QED BY <1>1, <1>2, <1>3, <1>4, <1>5, <1>6

LEMMA AcquireOrder ==
  ASSUME HandleTypes, CsTypes, OrderInv, AcquireStream
  PROVE  OrderInv'
  <1>1. PICK s, h : s = Lowest(cs.left) /\ h = cs.handle  OBVIOUS
  <1>2. CASE ~ HasBuffers(s)
    <2>1. UNCHANGED <<enqueued_handles, cs>>  BY <1>1, <1>2 DEF AcquireStream
    <2>2. UNCHANGED <<finished_streams, num_handles, state, dropped>>  BY DEF AcquireStream
    <2> QED BY <2>1, <2>2, SameOrder
  <1>3. CASE HasBuffers(s)
    <2>1. /\ s \in Streams /\ s \in cs.left /\ h \in Handles /\ cs.who = "acquire"
          /\ enqueued_handles' = [enqueued_handles EXCEPT ![s] = Append(@, h)]
          /\ UNCHANGED <<num_handles, finished_streams, state>>
          /\ Absent(h, enqueued_handles[s]) /\ finished_streams[h] = {}
          /\ (cs' = [cs EXCEPT !.left = cs.left \ {s}]) \/ cs' = Nobody
      BY <1>1, <1>3, EnqueueIs
    <2>2. HandlesOnce'  BY <2>1, AppendOnce DEF OrderInv
    <2>3. ASSUME cs' = [cs EXCEPT !.left = cs.left \ {s}] PROVE OrderInv'
      <3>1. Acquiring  BY <2>1, CsWho
      <3>2. cs'.who = "acquire" /\ cs'.handle = h /\ cs'.left = cs.left \ {s} /\ cs.left \subseteq Streams
        BY <2>1, <2>3, <3>1, <1>1 DEF Acquiring
      <3>3. Newest'  BY <2>1, <3>2, <1>1 DEF OrderInv, Newest
      <3>4. ASSUME NEW t \in cs.left \ {s} PROVE Absent(h, enqueued_handles'[t])
        <4>1. Absent(h, enqueued_handles[t])  BY <2>1, <1>1 DEF OrderInv, NotYet
        <4>2. enqueued_handles'[t] = enqueued_handles[t]  BY <2>1, <3>2 DEF HandleTypes
        <4> QED BY <4>1, <4>2
      <3>5. NotYet'  BY <3>2, <3>4 DEF NotYet
      <3> QED BY <2>2, <3>3, <3>5 DEF OrderInv
    <2>4. ASSUME cs' = Nobody PROVE OrderInv'  BY <2>2, <2>4, LeavesOrder
    <2> QED BY <2>1, <2>3, <2>4
  <1> QED BY <1>2, <1>3

LEMMA OrderStep ==
  ASSUME Types, OrderInv, SingleChunk, [Next]_vars
  PROVE  OrderInv'
  <1>0. HandleTypes /\ HandlesActive /\ CsTypes  BY DEF Types
  <1>1. CASE FlushBuffers  BY <1>1, SameOrder DEF FlushBuffers, handleVars
  <1>2. CASE Acquire
    <2>1. PICK mask \in (SUBSET Managed) \ {{}} : BeginAcquire(mask, 0)  BY <1>2 DEF Acquire
    <2>2. mask \subseteq Streams  BY <2>1, ManagerAssumption
    <2> QED BY <1>0, <2>1, <2>2, BeginOrder
  <1>3. CASE AcquireStream  BY <1>0, <1>3, AcquireOrder
  <1>4. CASE AcquireSize
    <2>1. PICK s \in Streams \ Managed, size \in Sizes : BeginAcquireSize(s, size)
      BY <1>4 DEF AcquireSize
    <2>2. size <= MAX_CAPACITY /\ s \in Streams  BY <2>1 DEF SingleChunk
    <2> QED BY <1>0, <2>1, <2>2, BeginSizeOrder
  <1>5. CASE AcquireChunk
    <2>1. NotYet  BY DEF OrderInv
    <2>2. /\ cs' = Nobody /\ enqueued_handles' = [enqueued_handles EXCEPT ![cs.stream] = Append(@, cs.handle)]
          /\ UNCHANGED finished_streams /\ cs.who = "acquire_size"
      BY <1>5, <2>1, ChunkIs
    <2>3. cs.handle \in Handles /\ cs.stream \in Streams  BY <1>0, <2>2, SizeFacts
    <2>4. Absent(cs.handle, enqueued_handles[cs.stream]) /\ finished_streams[cs.handle] = {}
      BY <2>1, <2>2 DEF OrderInv, NotYet, Newest
    <2>5. PICK s, h : s = cs.stream /\ h = cs.handle  OBVIOUS
    <2>6. UNCHANGED finished_streams  BY <2>2
    <2>7. HandlesOnce'  BY <1>0, <2>2, <2>3, <2>4, <2>5, <2>6, AppendOnce DEF OrderInv
    <2> QED BY <2>2, <2>7, LeavesOrder
  <1>6. CASE HandleInterrupt
    <2>1. cs'.who = "interrupt" /\ cs'.destroy = 0 /\ UNCHANGED <<enqueued_handles, finished_streams>>
      BY <1>6 DEF HandleInterrupt
    <2>2. HandlesOnce'  BY <2>1, SameOnce DEF OrderInv
    <2> QED BY <2>1, <2>2 DEF OrderInv, Newest, NotYet
  <1>7. CASE MarkDone
    <2>1. PICK s, h : s = cs.stream /\ h = Head(enqueued_handles[s])  OBVIOUS
    <2>2. s \in Streams /\ enqueued_handles[s] # <<>> /\ Interrupted
      BY <1>0, <1>7, <2>1, InterruptFacts, CsWho DEF MarkDone
    <2>3. /\ finished_streams' = [finished_streams EXCEPT ![h] = @ \cup {s}]
          /\ enqueued_handles' = [enqueued_handles EXCEPT ![s] = Tail(@)]
          /\ UNCHANGED dropped
      BY <1>7, <2>1 DEF MarkDone, PopHandle
    <2>4. HandlesOnce'  BY <1>0, <2>1, <2>2, <2>3, MarkOnce DEF OrderInv
    <2>5. PICK d : d = IF h \in dropped /\ ~Waiting(h, enqueued_handles') THEN h ELSE 0  OBVIOUS
    <2>6. cs' = [cs EXCEPT !.last = FALSE, !.destroy = d]  BY <1>7, <2>1, <2>5 DEF MarkDone
    <2>7. cs \in [who : {"interrupt"}, stream : Streams, last : BOOLEAN, destroy : 0 .. MAX_HANDLES]
      BY <2>2 DEF Interrupted
    <2>8. cs'.who = "interrupt" /\ cs'.destroy = d  BY <2>6, <2>7
    <2>9. d = 0 \/ d \in dropped'  BY <2>3, <2>5
    <2> QED BY <2>4, <2>8, <2>9 DEF OrderInv, Newest, NotYet
  <1>8. CASE DestroyHandle
    <2>1. cs' = [cs EXCEPT !.destroy = 0] /\ UNCHANGED <<enqueued_handles, finished_streams>>
      BY <1>8 DEF DestroyHandle
    <2>2. Interrupted  BY <1>0, <1>8, CsWho DEF DestroyHandle
    <2>3. cs \in [who : {"interrupt"}, stream : Streams, last : BOOLEAN, destroy : 0 .. MAX_HANDLES]
      BY <2>2 DEF Interrupted
    <2>4. cs'.who = "interrupt" /\ cs'.destroy = 0  BY <2>1, <2>3
    <2>5. HandlesOnce'  BY <2>1, SameOnce DEF OrderInv
    <2> QED BY <2>4, <2>5 DEF OrderInv, Newest, NotYet
  <1>9. CASE TopUp
    <2>1. UNCHANGED <<enqueued_handles, finished_streams, num_handles, state, dropped>>
      BY <1>9 DEF TopUp, handleVars
    <2>2. UNCHANGED cs \/ cs' = Nobody  BY <1>9 DEF TopUp
    <2>3. ASSUME cs' = Nobody PROVE OrderInv'  BY <2>1, <2>3, SameOnce, LeavesOrder DEF OrderInv
    <2>4. ASSUME UNCHANGED cs PROVE OrderInv'  BY <2>1, <2>4, SameOrder
    <2> QED BY <2>2, <2>3, <2>4
  <1>10. CASE AllocationFails
    <2>1. cs' = Nobody /\ UNCHANGED <<enqueued_handles, finished_streams>>
      BY <1>10 DEF AllocationFails, Unlock
    <2> QED BY <2>1, SameOnce, LeavesOrder DEF OrderInv
  <1>11. CASE CallbackAcquires
    <2>1. PICK h \in Handles : BeginAcquire(Managed, h)  BY <1>11 DEF CallbackAcquires
    <2>2. Managed \subseteq Streams  BY ManagerAssumption
    <2> QED BY <1>0, <2>1, <2>2, BeginOrder
  <1>12. CASE CallbackEnds  BY <1>12, SameOrder DEF CallbackEnds, Callback
  <1>13. CASE ReadOutput  BY <1>13, SameOrder DEF ReadOutput, Read
  <1>14. CASE Drop  BY <1>14, SameOrder DEF Drop, DropHandle
  <1>15. CASE Restart
    <2>1. cs' = Nobody /\ \A s \in Streams : enqueued_handles'[s] = <<>>  BY <1>15 DEF Restart
    <2>2. HandlesOnce'  BY <2>1 DEF HandlesOnce, Once
    <2> QED BY <2>1, <2>2, LeavesOrder
  <1>16. CASE Fpga  BY <1>16, SameOrder DEF Fpga, FpgaOutput, FpgaEmptyOutput, handleVars
  <1>17. CASE UNCHANGED vars  BY <1>17, SameOrder DEF vars, handleVars
  <1> QED
    BY <1>1, <1>2, <1>3, <1>4, <1>5, <1>6, <1>7, <1>8, <1>9, <1>10, <1>11, <1>12, <1>13,
       <1>14, <1>15, <1>16, <1>17 DEF Next

----
(* The FPGA fills a buffer, or ends an empty output.                        *)

Produces(s, x, J, B) ==
  /\ x \in Notification /\ x.stream = s
  /\ interrupts' = Append(interrupts, x)
  /\ B # <<>> /\ J # <<>>
  /\ fpga_buffers' = IF Uses(x, consumes) THEN [fpga_buffers EXCEPT ![s] = Tail(B)] ELSE fpga_buffers
  /\ JobsAfter(J, x, jobs'[s]) /\ \A t \in Streams \ {s} : jobs'[t] = jobs[t]
  /\ J[1].done + x.bytes <= J[1].len
  /\ x.last => J[1].done + x.bytes = J[1].len
  /\ x.bytes = 0 => memory' = memory
  /\ x.bytes > 0 => memory' = [memory EXCEPT ![Head(B).id] =
                                 Output(J[1].handle, s, J[1].done + 1, J[1].done + x.bytes)]
  /\ UNCHANGED <<enqueued_buffers, enqueued_handles, free, cs, num_handles, handleVars, state, consumes, histVars>>

LEMMA ReplacesHead ==
  ASSUME NEW J \in Seq(Job), J # <<>>, NEW job, NEW x, ~ x.last, job.handle = J[1].handle, job.len = J[1].len,
         job.done = J[1].done + x.bytes
  PROVE  JobsAfter(J, x, <<job>> \o Tail(J))
  <1>1. PICK n, t, K, y : n = Len(J) /\ t = Tail(J) /\ y = <<job>> /\ K = y \o t  OBVIOUS
  <1>2. n \in Nat \ {0} /\ t \in Seq(Job) /\ Len(t) = n - 1 /\ \A i \in 1 .. n - 1 : t[i] = J[i + 1]
    BY <1>1
  <1>3. y \in Seq({job}) /\ Len(y) = 1 /\ y[1] = job  BY <1>1
  <1>4. K \in Seq(Job \cup {job}) /\ Len(K) = 1 + (n - 1)
    <2>1. y \in Seq(Job \cup {job}) /\ t \in Seq(Job \cup {job})  BY <1>2, <1>3
    <2> QED BY <2>1, <1>1, <1>2, <1>3
  <1>5. K[1] = job  BY <1>1, <1>2, <1>3
  <1>6. ASSUME NEW j \in 2 .. n PROVE K[j] = J[j]
    <2>1. j \in 1 .. 1 + (n - 1) /\ j > 1 /\ j - 1 \in 1 .. n - 1 /\ (j - 1) + 1 = j  BY <1>2
    <2>2. K[j] = t[j - 1]  BY <2>1, <1>1, <1>2, <1>3
    <2>3. t[j - 1] = J[(j - 1) + 1]  BY <2>1, <1>2
    <2> QED BY <2>1, <2>2, <2>3
  <1>7. Len(K) = n  BY <1>2, <1>4
  <1> QED BY <1>1, <1>5, <1>6, <1>7 DEF JobsAfter

LEMMA OutputProduces ==
  ASSUME Types, Room, NEW s \in Streams, FpgaOutput(s)
  PROVE  \E x : Produces(s, x, jobs[s], fpga_buffers[s])
  <1>1. PICK J, B : J = jobs[s] /\ B = fpga_buffers[s]  OBVIOUS
  <1>2. jobs \in [Streams -> Seq(Job)] /\ fpga_buffers \in [Streams -> Seq(Buffer)] /\ J \in Seq(Job) /\ B \in Seq(Buffer)
    BY <1>1 DEF Types, FpgaTypes
  <1>3. J # <<>> /\ B # <<>> /\ Head(J).len > 0  BY <1>1 DEF FpgaOutput
  <1>4. PICK job, buffer : job = J[1] /\ buffer = B[1]  OBVIOUS
  <1>5. Head(J) = job /\ Head(B) = buffer /\ job \in Job /\ buffer \in Buffer /\ 1 \in DOMAIN B
    BY <1>2, <1>3, <1>4
  <1>6. buffer.capacity # 0  BY <1>1, <1>4, <1>5 DEF Room
  <1>7. job.len \in Nat /\ job.done \in Nat /\ job.done < job.len /\ buffer.capacity \in Nat \ {0} /\ job.handle \in Handles
    BY <1>3, <1>5, <1>6 DEF Job, Buffer
  <1>8. PICK left, bytes : left = job.len - job.done /\ bytes = IF left < buffer.capacity THEN left ELSE buffer.capacity
    OBVIOUS
  <1>9. left \in Nat /\ bytes \in Nat /\ bytes > 0 /\ bytes <= left /\ job.done + left = job.len
    BY <1>7, <1>8
  <1>10. PICK x, job2 : x = [stream |-> s, bytes |-> bytes, last |-> (bytes = left)] /\ job2 = [job EXCEPT !.done = @ + bytes]
    OBVIOUS
  <1>11. x \in Notification /\ x.stream = s /\ x.bytes = bytes /\ (x.last <=> bytes = left)
    BY <1>9, <1>10 DEF Notification
  <1>12. /\ memory' = [memory EXCEPT ![buffer.id] = Output(job.handle, s, job.done + 1, job.done + bytes)]
         /\ jobs' = [jobs EXCEPT ![s] = IF bytes = left THEN Tail(J) ELSE <<job2>> \o Tail(J)]
         /\ interrupts' = Append(interrupts, x)
         /\ fpga_buffers' = [fpga_buffers EXCEPT ![s] = Tail(B)]
         /\ UNCHANGED <<enqueued_buffers, enqueued_handles, free, cs, num_handles, handleVars, state, consumes, histVars>>
    BY <1>1, <1>5, <1>8, <1>10 DEF FpgaOutput, Interrupt
  <1>13. jobs'[s] = (IF bytes = left THEN Tail(J) ELSE <<job2>> \o Tail(J)) /\ \A t \in Streams \ {s} : jobs'[t] = jobs[t]
    BY <1>2, <1>12
  <1>14. JobsAfter(J, x, jobs'[s])
    <2>1. CASE x.last  BY <2>1, <1>11, <1>13 DEF JobsAfter
    <2>2. CASE ~ x.last
      <3>1. job2.handle = job.handle /\ job2.len = job.len /\ job2.done = job.done + bytes
        BY <1>5, <1>10 DEF Job
      <3>2. jobs'[s] = <<job2>> \o Tail(J)  BY <2>2, <1>11, <1>13
      <3> QED BY <2>2, <3>1, <3>2, <1>2, <1>3, <1>4, <1>11, ReplacesHead
    <2> QED BY <2>1, <2>2
  <1>15. J[1].done + x.bytes <= J[1].len /\ (x.last => J[1].done + x.bytes = J[1].len)
    BY <1>4, <1>7, <1>9, <1>11
  <1>16. Uses(x, consumes)  BY <1>9, <1>11 DEF Uses
  <1>17. Produces(s, x, J, B)
    BY <1>3, <1>4, <1>5, <1>9, <1>11, <1>12, <1>13, <1>14, <1>15, <1>16 DEF Produces
  <1> QED BY <1>1, <1>17

LEMMA FirstJob ==
  ASSUME Types, NEW s \in Streams, StreamFlows(s), jobs[s] # <<>>
  PROVE  jobs[s][1].done <= jobs[s][1].len
  <1>1. PICK a, d : Ends(d, jobs[s], Fresh, Goal(s))  BY DEF StreamFlows, Flowing, Pipe
  <1>2. PICK J \in Seq(Job) : J = jobs[s]  BY DEF Types, FpgaTypes
  <1>3. 1 \in 1 .. Len(J)  BY <1>2
  <1> QED BY <1>1, <1>2, <1>3 DEF Ends

LEMMA EmptyProduces ==
  ASSUME Types, NEW s \in Streams, StreamFlows(s), FpgaEmptyOutput(s)
  PROVE  \E x : Produces(s, x, jobs[s], fpga_buffers[s])
  <1>1. PICK J, B : J = jobs[s] /\ B = fpga_buffers[s]  OBVIOUS
  <1>2. jobs \in [Streams -> Seq(Job)] /\ J \in Seq(Job)  BY <1>1 DEF Types, FpgaTypes
  <1>3. PICK x : x = [stream |-> s, bytes |-> 0, last |-> TRUE]  OBVIOUS
  <1>4. x \in Notification /\ x.stream = s /\ x.bytes = 0 /\ x.last = TRUE  BY <1>3 DEF Notification
  <1>5. /\ J # <<>> /\ B # <<>> /\ Head(J).len = 0
        /\ jobs' = [jobs EXCEPT ![s] = Tail(J)]
        /\ interrupts' = Append(interrupts, x)
        /\ fpga_buffers' = IF consumes THEN [fpga_buffers EXCEPT ![s] = Tail(B)] ELSE fpga_buffers
        /\ memory' = memory
        /\ UNCHANGED <<enqueued_buffers, enqueued_handles, free, cs, num_handles, handleVars, state, consumes, histVars>>
    BY <1>1, <1>3 DEF FpgaEmptyOutput, Interrupt
  <1>6. jobs'[s] = Tail(J) /\ \A t \in Streams \ {s} : jobs'[t] = jobs[t]  BY <1>2, <1>5
  <1>7. J[1] = Head(J) /\ J[1] \in Job  BY <1>2, <1>5
  <1>8. J[1].done \in Nat /\ J[1].len = 0 /\ J[1].done <= J[1].len
    BY <1>1, <1>5, <1>7, FirstJob DEF Job
  <1>9. J[1].done + x.bytes <= J[1].len /\ J[1].done + x.bytes = J[1].len /\ ~ (x.bytes > 0)
    BY <1>4, <1>8
  <1>10. JobsAfter(J, x, jobs'[s])  BY <1>4, <1>6 DEF JobsAfter
  <1>11. Uses(x, consumes) <=> consumes  BY <1>4 DEF Uses
  <1>12. Produces(s, x, J, B)  BY <1>4, <1>5, <1>6, <1>9, <1>10, <1>11 DEF Produces
  <1> QED BY <1>1, <1>12

----
(* Every step keeps what the buffers hold parts of outputs.                  *)

LEMMA SameFlowTypes ==
  ASSUME FlowTypes, UNCHANGED <<memory, received, produced>>
  PROVE  FlowTypes'
  BY DEF FlowTypes

LEMMA FreeFlowTypes ==
  ASSUME FlowTypes, NEW ids, Free(ids), UNCHANGED <<received, produced>>
  PROVE  FlowTypes'
  <1>1. memory \in [BufferIds -> Seq(Part)] /\ memory' = [b \in BufferIds |-> IF b \in ids THEN <<>> ELSE memory[b]]
    BY DEF FlowTypes, Free
  <1>2. memory' \in [BufferIds -> Seq(Part)]  BY <1>1
  <1> QED BY <1>2 DEF FlowTypes

LEMMA StartFlowTypes ==
  ASSUME FlowTypes, NEW h \in Handles, NEW lengths, \A s \in Streams : s \in active_streams[h] => lengths[s] \in Nat,
         StartDesign(h, lengths), UNCHANGED <<memory, received>>
  PROVE  /\ FlowTypes'
         /\ \A s \in Streams : Len(produced'[h][s]) = IF s \in active_streams[h] THEN lengths[s] ELSE 0
         /\ \A k \in Handles : k # h => produced'[k] = produced[k]
  <1>1. PICK A : A = active_streams[h]  OBVIOUS
  <1>2. PICK row : row = [s \in Streams |-> IF s \in A THEN Output(h, s, 1, lengths[s]) ELSE <<>>]
    OBVIOUS
  <1>3. produced' = [produced EXCEPT ![h] = row] /\ produced \in [Handles -> [Streams -> Seq(Part)]]
    BY <1>1, <1>2 DEF StartDesign, FlowTypes
  <1>4. ASSUME NEW s \in Streams
        PROVE  row[s] \in Seq(Part) /\ Len(row[s]) = (IF s \in A THEN lengths[s] ELSE 0) /\ row[s] = Output(h, s, 1, Len(row[s]))
    <2>1. CASE s \in A
      <3>1. PICK n \in Nat : n = lengths[s]  BY <2>1, <1>1
      <3>2. Output(h, s, 1, n) \in Seq(Part) /\ Len(Output(h, s, 1, n)) = n  BY OutputStart
      <3>3. row[s] = Output(h, s, 1, n)  BY <2>1, <3>1, <1>2
      <3> QED BY <2>1, <3>1, <3>2, <3>3
    <2>2. CASE s \notin A
      <3>1. row[s] = <<>> /\ Len(row[s]) = 0  BY <2>2, <1>2
      <3>2. Output(h, s, 1, 0) = <<>>  BY NoOutput
      <3> QED BY <2>2, <3>1, <3>2
    <2> QED BY <2>1, <2>2
  <1>5. row \in [Streams -> Seq(Part)]  BY <1>2, <1>4
  <1>6. produced' \in [Handles -> [Streams -> Seq(Part)]] /\ produced'[h] = row /\ \A k \in Handles : k # h => produced'[k] = produced[k]
    BY <1>3, <1>5
  <1>7. ASSUME NEW k \in Handles, NEW s \in Streams PROVE produced'[k][s] = Output(k, s, 1, Len(produced'[k][s]))
    <2>1. CASE k = h  BY <2>1, <1>4, <1>6
    <2>2. CASE k # h
      <3>1. produced'[k] = produced[k]  BY <2>2, <1>6
      <3> QED BY <3>1 DEF FlowTypes
    <2> QED BY <2>1, <2>2
  <1>8. FlowTypes'  BY <1>6, <1>7 DEF FlowTypes
  <1> QED BY <1>1, <1>4, <1>6, <1>8

LEMMA ProducesTypes ==
  ASSUME Types, FlowTypes, NEW s \in Streams, NEW x, Produces(s, x, jobs[s], fpga_buffers[s])
  PROVE  FlowTypes'
  <1>1. PICK J, B : J = jobs[s] /\ B = fpga_buffers[s]  OBVIOUS
  <1>2. J \in Seq(Job) /\ B \in Seq(Buffer)  BY <1>1 DEF Types, FpgaTypes
  <1>3. /\ x \in Notification /\ J # <<>> /\ B # <<>>
        /\ x.bytes = 0 => memory' = memory
        /\ x.bytes > 0 => memory' = [memory EXCEPT ![Head(B).id] = Output(J[1].handle, s, J[1].done + 1, J[1].done + x.bytes)]
        /\ UNCHANGED <<received, produced>>
    BY <1>1 DEF Produces, histVars
  <1>4. memory \in [BufferIds -> Seq(Part)] /\ x.bytes \in Nat  BY <1>3 DEF FlowTypes, Notification
  <1>5. memory' \in [BufferIds -> Seq(Part)]
    <2>1. CASE x.bytes = 0  BY <2>1, <1>3, <1>4
    <2>2. CASE x.bytes > 0
      <3>1. J[1] \in Job  BY <1>2, <1>3
      <3>2. PICK h \in Handles, i \in Nat : h = J[1].handle /\ i = J[1].done  BY <3>1 DEF Job
      <3>3. PICK j \in Nat : j = i + x.bytes /\ i <= j  BY <1>4
      <3>4. Output(h, s, i + 1, j) \in Seq(Part)  BY <3>3, OutputPiece
      <3>5. memory' = [memory EXCEPT ![Head(B).id] = Output(h, s, i + 1, j)]
        BY <2>2, <3>2, <3>3, <1>3
      <3> QED BY <3>4, <3>5, <1>4
    <2> QED BY <2>1, <2>2, <1>4
  <1> QED BY <1>3, <1>5 DEF FlowTypes

LEMMA ReadFlowTypes ==
  ASSUME Types, FlowTypes, NEW h \in Handles, NEW s \in Streams, Read(h, s)
  PROVE  FlowTypes'
  <1>1. PICK q \in Seq(Delivered) : q = output_buffers[h][s]  BY DEF Types, BufferTypes
  <1>2. PICK b : b = Head(q).id  OBVIOUS
  <1>3. /\ q # <<>> /\ received' = [received EXCEPT ![h][s] = received[h][s] \o memory[b]]
        /\ Free({b}) /\ UNCHANGED produced
    BY <1>1, <1>2 DEF Read
  <1>4. b \in BufferIds
    <2>1. Head(q) \in Delivered  BY <1>1, <1>3
    <2> QED BY <2>1, <1>2 DEF Delivered
  <1>5. PICK v : v = received[h][s] \o memory[b]  OBVIOUS
  <1>6. v \in Seq(Part)
    <2>1. received[h][s] \in Seq(Part) /\ memory[b] \in Seq(Part)  BY <1>4 DEF FlowTypes
    <2> QED BY <2>1, <1>5
  <1>7. received' \in [Handles -> [Streams -> Seq(Part)]]
    <2>1. received \in [Handles -> [Streams -> Seq(Part)]]  BY DEF FlowTypes
    <2>2. received' = [received EXCEPT ![h][s] = v]  BY <1>3, <1>5
    <2> QED BY <2>1, <2>2, <1>6
  <1>8. memory' \in [BufferIds -> Seq(Part)]
    <2>1. memory \in [BufferIds -> Seq(Part)] /\ memory' = [c \in BufferIds |-> IF c \in {b} THEN <<>> ELSE memory[c]]
      BY <1>3 DEF FlowTypes, Free
    <2> QED BY <2>1
  <1> QED BY <1>3, <1>7, <1>8 DEF FlowTypes

LEMMA FlowTypesStep ==
  ASSUME Types, Room, OrderInv, FlowTypes, \A s \in Streams : StreamFlows(s), [Next]_vars
  PROVE  FlowTypes'
  <1>0. HandleTypes /\ CsTypes /\ NotYet  BY DEF Types, OrderInv
  <1>1. CASE AcquireStream
    <2>1. UNCHANGED <<memory, received>>  BY <1>1 DEF AcquireStream
    <2>2. ASSUME NEW lengths \in [active_streams[cs.handle] -> Lengths], StartDesign(cs.handle, lengths)
          PROVE  FlowTypes'
      <3>1. PICK h \in Handles : h = cs.handle  BY <1>0, <1>1, AcquireFacts DEF AcquireStream
      <3>2. ASSUME NEW s \in Streams, s \in active_streams[h] PROVE lengths[s] \in Nat
        <4>1. lengths[s] \in Lengths  BY <3>1, <3>2
        <4> QED BY <4>1, ManagerAssumption
      <3>3. StartDesign(h, lengths)  BY <2>2, <3>1
      <3> QED BY <2>1, <3>2, <3>3, StartFlowTypes
    <2>3. \/ UNCHANGED produced
          \/ \E lengths \in [active_streams[cs.handle] -> Lengths] : StartDesign(cs.handle, lengths)
      BY <1>1 DEF AcquireStream
    <2>4. ASSUME UNCHANGED produced PROVE FlowTypes'  BY <2>1, <2>4, SameFlowTypes
    <2> QED BY <2>2, <2>3, <2>4
  <1>2. CASE AcquireChunk
    <2>1. PICK h, t, n, lengths : h = cs.handle /\ t = cs.stream /\ n = cs.size /\ lengths = [s \in {t} |-> n]
      OBVIOUS
    <2>2. StartDesign(h, lengths) /\ UNCHANGED <<memory, received>> /\ cs.who = "acquire_size"
      BY <1>2, <1>0, <2>1, ChunkIs
    <2>3. h \in Handles /\ active_streams[h] = {t} /\ n \in Nat  BY <1>0, <2>1, <2>2, SizeFacts
    <2>4. \A s \in Streams : s \in active_streams[h] => lengths[s] \in Nat  BY <2>1, <2>3
    <2> QED BY <2>2, <2>3, <2>4, StartFlowTypes
  <1>3. CASE HandleInterrupt
    <2>1. UNCHANGED <<received, produced>>  BY <1>3 DEF HandleInterrupt, histVars
    <2>2. UNCHANGED memory \/ \E ids : Free(ids)  BY <1>3 DEF HandleInterrupt, MoveCurrentBuffer
    <2> QED BY <2>1, <2>2, SameFlowTypes, FreeFlowTypes
  <1>4. CASE DestroyHandle
    <2>1. UNCHANGED <<received, produced>> /\ \E ids : Free(ids)
      BY <1>4 DEF DestroyHandle, FreeOutput, histVars
    <2> QED BY <2>1, FreeFlowTypes
  <1>5. CASE ReadOutput  BY <1>5, ReadFlowTypes DEF ReadOutput
  <1>6. CASE Drop
    <2>1. UNCHANGED <<received, produced>>  BY <1>6 DEF Drop, DropHandle, histVars
    <2>2. UNCHANGED memory \/ \E ids : Free(ids)  BY <1>6 DEF Drop, DropHandle, FreeOutput
    <2> QED BY <2>1, <2>2, SameFlowTypes, FreeFlowTypes
  <1>7. CASE Restart
    <2>1. UNCHANGED <<received, produced>> /\ \E ids : Free(ids)  BY <1>7 DEF Restart, histVars
    <2> QED BY <2>1, FreeFlowTypes
  <1>8. CASE Fpga
    <2>1. PICK s \in Streams : FpgaOutput(s) \/ FpgaEmptyOutput(s)  BY <1>8 DEF Fpga
    <2>2. \E x : Produces(s, x, jobs[s], fpga_buffers[s])  BY <2>1, OutputProduces, EmptyProduces
    <2> QED BY <2>2, ProducesTypes
  <1>9. CASE FlushBuffers \/ Acquire \/ AcquireSize \/ MarkDone \/ TopUp \/ AllocationFails
    <2>1. UNCHANGED <<memory, received, produced>>
      BY <1>9 DEF FlushBuffers, Acquire, BeginAcquire, AcquireSize, BeginAcquireSize, MarkDone, TopUp,
                  AllocationFails, fpgaVars, histVars
    <2> QED BY <2>1, SameFlowTypes
  <1>10. CASE CallbackAcquires \/ CallbackEnds \/ UNCHANGED vars
    <2>1. UNCHANGED <<memory, received, produced>>
      BY <1>10 DEF CallbackAcquires, BeginAcquire, CallbackEnds, Callback, vars, fpgaVars, histVars
    <2> QED BY <2>1, SameFlowTypes
  <1> QED BY <1>1, <1>2, <1>3, <1>4, <1>5, <1>6, <1>7, <1>8, <1>9, <1>10 DEF Next

----
(* Actions that leave the pipe of a stream, and what handles have, alone.    *)

Quiet(s) ==
  /\ interrupts' = interrupts /\ enqueued_buffers'[s] = enqueued_buffers[s] /\ fpga_buffers'[s] = fpga_buffers[s]
  /\ jobs'[s] = jobs[s] /\ consumes' = consumes /\ Ahead(s)' = Ahead(s) /\ Fresh' \subseteq Fresh
  /\ state' = "running" => state = "running"
  /\ state' # "stale" => state # "stale"
  /\ \A b \in IdSet(enqueued_buffers[s]) : memory'[b] = memory[b]
  /\ \A h \in Handles : produced'[h][s] = produced[h][s]
  /\ \A V \in Seq(Handles) : Rightful(s, V) => Rightful(s, V)'
  /\ \A h \in Handles : Clean(h, s)' =>
       /\ Clean(h, s)
       /\ output_buffers'[h][s] = output_buffers[h][s] /\ received'[h][s] = received[h][s]
       /\ \A b \in IdSet(output_buffers[h][s]) : memory'[b] = memory[b]
       /\ Full(h, s)' => Full(h, s)

LEMMA QuietFlows ==
  ASSUME Types, NEW s \in Streams, StreamFlows(s), Quiet(s)
  PROVE  StreamFlows(s)'
  <1>1. ASSUME NEW a \in Nat, NEW h \in Handles, Clean(h, s)', Level(h, s, a) PROVE Level(h, s, a)'
    <2>1. output_buffers[h][s] \in Seq(Delivered)  BY DEF Types, BufferTypes
    <2>2. /\ output_buffers'[h][s] = output_buffers[h][s] /\ received'[h][s] = received[h][s]
          /\ \A b \in IdSet(output_buffers[h][s]) : memory'[b] = memory[b]
          /\ Full(h, s)' => Full(h, s)
      BY <1>1 DEF Quiet
    <2>3. Ahead(s)' = Ahead(s) /\ produced'[h][s] = produced[h][s] /\ (h \in Fresh' => h \in Fresh)
      BY DEF Quiet
    <2> QED BY <1>1, <2>1, <2>2, <2>3, LevelKept
  <1>2. \A h \in Handles \ Fresh : Goal(s)'[h] = Goal(s)[h]  BY DEF Quiet, Goal
  <1>3. /\ interrupts' = interrupts /\ enqueued_buffers'[s] = enqueued_buffers[s] /\ fpga_buffers'[s] = fpga_buffers[s]
        /\ jobs'[s] = jobs[s] /\ consumes' = consumes /\ Fresh' \subseteq Fresh
        /\ state' = "running" => state = "running"
        /\ state' # "stale" => state # "stale"
        /\ \A b \in IdSet(enqueued_buffers[s]) : memory'[b] = memory[b]
    BY DEF Quiet
  <1>4. \A V \in Seq(Handles) : Rightful(s, V) => Rightful(s, V)'  BY DEF Quiet
  <1>5. \A h \in Handles : Clean(h, s)' => Clean(h, s)  BY DEF Quiet
  <1> QED BY <1>1, <1>2, <1>3, <1>4, <1>5, FlowKept

\* Nothing in the critical section concerns a handle or its marking.
Calm == cs.who # "acquire" /\ \A s \in Streams : ~ Marking(s)

LEMMA CalmFacts ==
  ASSUME Calm, NEW s \in Streams
  PROVE  Ahead(s) = enqueued_handles[s] /\ Coming(s) = 0 /\ \A h : Full(h, s) <=> s \in finished_streams[h]
  BY DEF Calm, Ahead, Coming, Full

LEMMA BeginFlows ==
  ASSUME Types, Warned, NEW s \in Streams, StreamFlows(s), cs = Nobody,
         cs'.who \in {"acquire", "acquire_size"}, cs'.handle = num_handles + 1, num_handles' = num_handles + 1,
         cs'.who = "acquire" => s \notin active_streams'[cs'.handle] \ cs'.left,
         \E W : misled' = [misled EXCEPT ![num_handles + 1] = W],
         UNCHANGED <<enqueued_buffers, enqueued_handles, output_buffers, finished_streams, dropped, state, fpga_buffers,
                     interrupts, fpgaVars, received, produced, spoilt>>
  PROVE  StreamFlows(s)'
  <1>1. Calm  BY DEF Calm, Marking, Nobody
  <1>2. ~ Marking(s)'  BY DEF Marking
  <1>3. Ahead(s)' = Ahead(s) /\ Coming(s)' = Coming(s) /\ \A h : Full(h, s)' => Full(h, s)
    <2>1. Ahead(s)' = enqueued_handles'[s] /\ \A h : Full(h, s)' => s \in finished_streams'[h]
      BY <1>2 DEF Ahead, Full
    <2>2. Coming(s)' = 0  BY DEF Coming
    <2> QED BY <2>1, <2>2, <1>1, CalmFacts
  <1>4. Fresh' \subseteq Fresh
    <2>1. PICK n \in Nat : n = num_handles  BY DEF Types, HandleTypes
    <2>2. ASSUME NEW h \in Handles, h > n + 1 \/ h = n + 1 PROVE h > n
      <3>1. h \in Nat  BY ManagerAssumption DEF Handles
      <3> QED BY <2>2, <3>1
    <2> QED BY <2>1, <2>2 DEF Fresh
  <1>5. ASSUME NEW h \in Handles, Clean(h, s)' PROVE Clean(h, s)
    <2>1. PICK n \in Nat : n = num_handles  BY DEF Types, HandleTypes
    <2>2. h \notin dropped /\ s \notin misled'[h]  BY <1>5 DEF Clean
    <2>3. CASE h = n + 1
      <3>1. h > num_handles  BY <2>1, <2>3
      <3>2. misled[h] = {}  BY <3>1 DEF Warned
      <3> QED BY <2>2, <3>2 DEF Clean
    <2>4. CASE h # n + 1
      <3>1. PICK W : misled' = [misled EXCEPT ![n + 1] = W]  BY <2>1
      <3>2. misled'[h] = misled[h]  BY <2>4, <3>1 DEF Types, FailTypes
      <3> QED BY <2>2, <3>2 DEF Clean
    <2> QED BY <2>3, <2>4
  <1>6. ASSUME NEW V \in Seq(Handles), Rightful(s, V) PROVE Rightful(s, V)'
    <2>1. Ahead(s) \in Seq(Handles)  BY AheadType
    <2>2. s \in spoilt' <=> s \in spoilt  OBVIOUS
    <2> QED BY <1>3, <1>5, <1>6, <2>1, <2>2, RightfulKept
  <1>7. Quiet(s)  BY <1>3, <1>4, <1>5, <1>6 DEF Quiet, fpgaVars
  <1> QED BY <1>7, QuietFlows

----
(* Freed memory is of no queue.                                             *)

LEMMA IdsOfPool ==
  ASSUME BufferTypes
  PROVE  /\ \A s \in Streams : IdSet(enqueued_buffers[s]) \subseteq BufferIds
         /\ \A h \in Handles, s \in Streams : IdSet(output_buffers[h][s]) \subseteq BufferIds
  <1>1. ASSUME NEW s \in Streams PROVE IdSet(enqueued_buffers[s]) \subseteq BufferIds
    <2>1. PICK q \in Seq(Buffer) : q = enqueued_buffers[s]  BY DEF BufferTypes
    <2>2. ASSUME NEW i \in DOMAIN q PROVE q[i].id \in BufferIds
      <3>1. q[i] \in Buffer  OBVIOUS
      <3> QED BY <3>1 DEF Buffer
    <2> QED BY <2>1, <2>2 DEF IdSet
  <1>2. ASSUME NEW h \in Handles, NEW s \in Streams PROVE IdSet(output_buffers[h][s]) \subseteq BufferIds
    <2>1. PICK q \in Seq(Delivered) : q = output_buffers[h][s]  BY DEF BufferTypes
    <2>2. ASSUME NEW i \in DOMAIN q PROVE q[i].id \in BufferIds
      <3>1. q[i] \in Delivered  OBVIOUS
      <3> QED BY <3>1 DEF Delivered
    <2> QED BY <2>1, <2>2 DEF IdSet
  <1> QED BY <1>1, <1>2

LEMMA FreeKeeps ==
  ASSUME NEW ids, Free(ids), NEW S, S \subseteq BufferIds, S \cap ids = {}
  PROVE  \A b \in S : memory'[b] = memory[b]
  BY DEF Free

LEMMA IdsInAre ==
  ASSUME NEW queues
  PROVE  IdsIn(queues) = UNION {IdSet(queues[s]) : s \in Streams}
  BY DEF IdsIn, IdSet

LEMMA FreesOutput ==
  ASSUME BufferTypes, Accounted, NEW k \in Handles, Free(IdsIn(output_buffers[k]))
  PROVE  /\ \A s \in Streams : \A b \in IdSet(enqueued_buffers[s]) : memory'[b] = memory[b]
         /\ \A h \in Handles, s \in Streams :
              h # k => \A b \in IdSet(output_buffers[h][s]) : memory'[b] = memory[b]
  <1>1. PICK ids : ids = IdsIn(output_buffers[k])  OBVIOUS
  <1>2. ids = UNION {IdSet(output_buffers[k][t]) : t \in Streams} /\ Free(ids)  BY <1>1, IdsInAre
  <1>3. ASSUME NEW s \in Streams PROVE \A b \in IdSet(enqueued_buffers[s]) : memory'[b] = memory[b]
    <2>1. \A t \in Streams : IdSet(enqueued_buffers[s]) \cap IdSet(output_buffers[k][t]) = {}
      BY IdsApart
    <2>2. IdSet(enqueued_buffers[s]) \cap ids = {}  BY <2>1, <1>2
    <2>3. IdSet(enqueued_buffers[s]) \subseteq BufferIds  BY IdsOfPool
    <2> QED BY <2>2, <2>3, <1>2, FreeKeeps
  <1>4. ASSUME NEW h \in Handles, NEW s \in Streams, h # k
        PROVE  \A b \in IdSet(output_buffers[h][s]) : memory'[b] = memory[b]
    <2>1. \A t \in Streams : IdSet(output_buffers[h][s]) \cap IdSet(output_buffers[k][t]) = {}
      BY <1>4, IdsApart
    <2>2. IdSet(output_buffers[h][s]) \cap ids = {}  BY <2>1, <1>2
    <2>3. IdSet(output_buffers[h][s]) \subseteq BufferIds  BY IdsOfPool
    <2> QED BY <2>2, <2>3, <1>2, FreeKeeps
  <1> QED BY <1>3, <1>4

LEMMA FreesEnqueued ==
  ASSUME BufferTypes, Accounted, NEW ids, Free(ids), ids \subseteq IdsIn(enqueued_buffers)
  PROVE  \A h \in Handles, s \in Streams : \A b \in IdSet(output_buffers[h][s]) : memory'[b] = memory[b]
  <1>1. ids \subseteq UNION {IdSet(enqueued_buffers[t]) : t \in Streams}  BY IdsInAre
  <1>2. ASSUME NEW h \in Handles, NEW s \in Streams
        PROVE  \A b \in IdSet(output_buffers[h][s]) : memory'[b] = memory[b]
    <2>1. \A t \in Streams : IdSet(enqueued_buffers[t]) \cap IdSet(output_buffers[h][s]) = {}
      BY IdsApart
    <2>2. IdSet(output_buffers[h][s]) \cap ids = {}  BY <2>1, <1>1
    <2>3. IdSet(output_buffers[h][s]) \subseteq BufferIds  BY IdsOfPool
    <2> QED BY <2>2, <2>3, FreeKeeps
  <1> QED BY <1>2

\* At the end of a manager.
LEMMA FreesAll ==
  ASSUME BufferTypes, Accounted, NEW S \in SUBSET Handles, Free(IdsIn(enqueued_buffers) \cup HeldBy(output_buffers, S)),
         NEW h \in Handles, h \notin S, NEW s \in Streams
  PROVE  \A b \in IdSet(output_buffers[h][s]) : memory'[b] = memory[b]
  <1>1. PICK ids : ids = IdsIn(enqueued_buffers) \cup HeldBy(output_buffers, S)  OBVIOUS
  <1>2. IdSet(output_buffers[h][s]) \cap IdsIn(enqueued_buffers) = {}
    <2>1. \A t \in Streams : IdSet(enqueued_buffers[t]) \cap IdSet(output_buffers[h][s]) = {}
      BY IdsApart
    <2> QED BY <2>1, IdsInAre
  <1>3. ASSUME NEW k \in S PROVE IdSet(output_buffers[h][s]) \cap IdsIn(output_buffers[k]) = {}
    <2>1. k \in Handles /\ h # k  OBVIOUS
    <2>2. \A t \in Streams : IdSet(output_buffers[h][s]) \cap IdSet(output_buffers[k][t]) = {}
      BY <2>1, IdsApart
    <2>3. IdsIn(output_buffers[k]) = UNION {IdSet(output_buffers[k][t]) : t \in Streams}
      BY IdsInAre
    <2> QED BY <2>2, <2>3
  <1>4. IdSet(output_buffers[h][s]) \cap HeldBy(output_buffers, S) = {}  BY <1>3 DEF HeldBy
  <1>5. IdSet(output_buffers[h][s]) \cap ids = {} /\ Free(ids)  BY <1>1, <1>2, <1>4
  <1>6. IdSet(output_buffers[h][s]) \subseteq BufferIds  BY IdsOfPool
  <1> QED BY <1>5, <1>6, FreeKeeps

----
(* The quiet actions.                                                       *)

LEMMA FailsRightful ==
  ASSUME Types, NEW s \in Streams, NEW V \in Seq(Handles), Rightful(s, V), ~ Marking(s), Ahead(s)' = Ahead(s), Coming(s)' = 0,
         UNCHANGED misled, NEW h, h \in Handles, Coming(s) \in {0, h}, dropped' = dropped \cup {h},
         spoilt' = spoilt \cup {u \in Streams : h \in Range(enqueued_handles[u])}
  PROVE  Rightful(s, V)'
  <1>1. Ahead(s) = enqueued_handles[s]  BY DEF Ahead
  <1>2. PICK A \in Seq(Handles) : A = Ahead(s)  BY AheadType
  <1>3. CASE s \in spoilt
    <2>1. InPlace(s, V) /\ s \in spoilt'  BY <1>3 DEF Rightful
    <2>2. ASSUME NEW i \in 1 .. Len(A), Clean(A[i], s)' PROVE i <= Len(V) /\ V[i] = A[i]
      <3>1. A[i] \notin dropped' /\ s \notin misled[A[i]]  BY <2>2 DEF Clean
      <3>2. Clean(A[i], s)  BY <3>1 DEF Clean
      <3> QED BY <3>2, <2>1, <1>2 DEF InPlace
    <2>3. InPlace(s, V)'  BY <2>2, <1>2 DEF InPlace, Clean
    <2> QED BY <2>1, <2>3 DEF Rightful
  <1>4. CASE s \notin spoilt /\ s \in spoilt'
    <2>1. A = IF Coming(s) = 0 THEN V ELSE Append(V, Coming(s))
      BY <1>2, <1>4 DEF Rightful, Expected
    <2>2. A = V \/ A = Append(V, h)  BY <2>1
    <2>3. ASSUME NEW i \in 1 .. Len(A), Clean(A[i], s)' PROVE i <= Len(V) /\ V[i] = A[i]
      <3>1. A[i] \notin dropped'  BY <2>3 DEF Clean
      <3>2. A[i] # h  BY <3>1
      <3> QED BY <2>2, <3>2
    <2>4. InPlace(s, V)'  BY <2>3, <1>2 DEF InPlace, Clean
    <2> QED BY <2>4, <1>4 DEF Rightful
  <1>5. CASE s \notin spoilt /\ s \notin spoilt'
    <2>1. A = IF Coming(s) = 0 THEN V ELSE Append(V, Coming(s))
      BY <1>2, <1>5 DEF Rightful, Expected
    <2>2. h \notin Range(A)  BY <1>1, <1>2, <1>5
    <2>3. h \in Range(Append(V, h))
      <3>1. PICK W, n : W = Append(V, h) /\ n = Len(V) + 1  OBVIOUS
      <3>2. n \in DOMAIN W /\ W[n] = h  BY <3>1
      <3>3. h \in Range(W)  BY <3>2 DEF Range
      <3> QED BY <3>1, <3>3
    <2>4. Coming(s) = 0  BY <2>1, <2>2, <2>3
    <2>5. Expected(s, V)'  BY <2>1, <2>4, <1>2 DEF Expected
    <2> QED BY <2>5, <1>5 DEF Rightful
  <1> QED BY <1>3, <1>4, <1>5

LEMMA FailsFlows ==
  ASSUME Types, BuffersAgree, OrderInv, NEW s \in Streams, StreamFlows(s), AllocationFails
  PROVE  StreamFlows(s)'
  <1>1. /\ cs' = Nobody /\ state' \in {state, "terminated"} /\ dropped \subseteq dropped'
        /\ UNCHANGED <<enqueued_buffers, enqueued_handles, free, num_handles, active_streams, output_buffers,
                       finished_streams, callback_thread, fpga_buffers, interrupts, jobs, memory, consumes,
                       received, produced, misled>>
    BY DEF AllocationFails, Unlock, fpgaVars
  <1>2. state # "stale"
    <2>1. cs.who \in {"acquire", "acquire_size", "interrupt"}  BY DEF AllocationFails
    <2> QED BY <2>1, BusyNotStale
  <1>3. ~ Marking(s) /\ ~ Marking(s)'  BY <1>1 DEF AllocationFails, Marking, Nobody
  <1>4. Ahead(s)' = Ahead(s) /\ \A h : Full(h, s)' => Full(h, s)  BY <1>1, <1>3 DEF Ahead, Full
  <1>5. Fresh' \subseteq Fresh /\ Coming(s)' = 0
    <2>1. cs'.who \notin {"acquire", "acquire_size"}  BY <1>1 DEF Nobody
    <2> QED BY <1>1, <2>1 DEF Fresh, Coming
  <1>6. \A h \in Handles : Clean(h, s)' => Clean(h, s)  BY <1>1 DEF Clean
  <1>7. ASSUME NEW V \in Seq(Handles), Rightful(s, V) PROVE Rightful(s, V)'
    <2>1. CASE cs.who = "interrupt"
      <3>1. Coming(s) = 0 /\ UNCHANGED spoilt  BY <2>1 DEF Coming, AllocationFails
      <3>2. Ahead(s) \in Seq(Handles)  BY AheadType
      <3> QED BY <3>1, <3>2, <1>4, <1>5, <1>6, <1>7, RightfulKept
    <2>2. CASE cs.who \in {"acquire", "acquire_size"}
      <3>1. PICK h : h = cs.handle  OBVIOUS
      <3>2. h \in Handles  BY <2>2, <3>1, AcquireFacts, SizeFacts DEF Types
      <3>3. dropped' = dropped \cup {h} /\ spoilt' = spoilt \cup {u \in Streams : h \in Range(enqueued_handles[u])}
        BY <2>2, <3>1 DEF AllocationFails
      <3>4. Coming(s) \in {0, h}  BY <3>1 DEF Coming
      <3> QED BY <3>2, <3>3, <3>4, <1>1, <1>3, <1>4, <1>5, <1>7, FailsRightful
    <2> QED BY <2>1, <2>2 DEF AllocationFails
  <1>8. Quiet(s)  BY <1>1, <1>2, <1>4, <1>5, <1>6, <1>7 DEF Quiet
  <1> QED BY <1>8, QuietFlows

\* The queue and who the application has are as they were, or less.
LEMMA SameRightful ==
  ASSUME Types, NEW s \in Streams, Ahead(s)' = Ahead(s), Coming(s)' = Coming(s), UNCHANGED <<spoilt, misled>>,
         dropped \subseteq dropped'
  PROVE  /\ \A V \in Seq(Handles) : Rightful(s, V) => Rightful(s, V)'
         /\ \A h \in Handles : Clean(h, s)' => Clean(h, s)
  <1>1. \A h \in Handles : Clean(h, s)' => Clean(h, s)  BY DEF Clean
  <1>2. Ahead(s) \in Seq(Handles)  BY AheadType
  <1>3. ASSUME NEW V \in Seq(Handles), Rightful(s, V) PROVE Rightful(s, V)'
    BY <1>1, <1>2, <1>3, RightfulKept
  <1> QED BY <1>1, <1>3

\* The critical section and who waits are as they were.
LEMMA SameMarks ==
  ASSUME NEW s \in Streams, UNCHANGED <<enqueued_handles, num_handles, finished_streams, active_streams, cs>>
  PROVE  /\ Ahead(s)' = Ahead(s) /\ Coming(s)' = Coming(s) /\ Fresh' = Fresh /\ \A h : Full(h, s)' <=> Full(h, s)
         /\ Marking(s)' <=> Marking(s)
  <1>1. Marking(s)' <=> Marking(s)  BY DEF Marking
  <1> QED BY <1>1 DEF Ahead, Coming, Fresh, Full

LEMMA CallbackFlows ==
  ASSUME Types, NEW s \in Streams, StreamFlows(s), CallbackEnds \/ UNCHANGED vars
  PROVE  StreamFlows(s)'
  <1>1. UNCHANGED <<enqueued_buffers, enqueued_handles, cs, num_handles, active_streams, output_buffers,
                    finished_streams, dropped, state, fpga_buffers, interrupts, jobs, memory, consumes, received, produced,
                    spoilt, misled>>
    BY DEF CallbackEnds, Callback, vars, handleVars, fpgaVars, histVars, failVars
  <1>2. Ahead(s)' = Ahead(s) /\ Coming(s)' = Coming(s) /\ Fresh' = Fresh /\ \A h : Full(h, s)' <=> Full(h, s)
    BY <1>1, SameMarks
  <1>3. /\ \A V \in Seq(Handles) : Rightful(s, V) => Rightful(s, V)'
        /\ \A h \in Handles : Clean(h, s)' => Clean(h, s)
    BY <1>1, <1>2, SameRightful
  <1>4. Quiet(s)  BY <1>1, <1>2, <1>3 DEF Quiet
  <1> QED BY <1>4, QuietFlows

LEMMA DestroyFlows ==
  ASSUME Types, Accounted, OrderInv, NEW s \in Streams, StreamFlows(s), DestroyHandle
  PROVE  StreamFlows(s)'
  <1>1. PICK k : k = cs.destroy  OBVIOUS
  <1>2. /\ k # 0 /\ k \in dropped /\ k \in Handles
        /\ Free(IdsIn(output_buffers[k]))
        /\ output_buffers' = [output_buffers EXCEPT ![k] = [t \in Streams |-> <<>>]]
        /\ cs' = [cs EXCEPT !.destroy = 0]
        /\ cs.who = "interrupt"
    <2>1. k # 0 /\ cs.who = "interrupt" /\ FreeOutput(k) /\ cs' = [cs EXCEPT !.destroy = 0]
      BY <1>1 DEF DestroyHandle
    <2>2. k \in Handles  BY <1>1, <2>1, InterruptFacts DEF Types
    <2>3. k \in dropped  BY <1>1, <2>1 DEF OrderInv, NotYet
    <2> QED BY <2>1, <2>2, <2>3 DEF FreeOutput
  <1>3. UNCHANGED <<enqueued_buffers, enqueued_handles, num_handles, active_streams, finished_streams,
                    dropped, state, fpga_buffers, interrupts, jobs, consumes, received, produced, spoilt, misled>>
    BY DEF DestroyHandle, histVars, failVars
  <1>4. cs'.who = "interrupt" /\ cs'.stream = cs.stream /\ cs'.last = cs.last
    <2>1. Interrupted  BY <1>2, CsWho DEF Types
    <2>2. cs \in [who : {"interrupt"}, stream : Streams, last : BOOLEAN, destroy : 0 .. MAX_HANDLES]
      BY <2>1 DEF Interrupted
    <2> QED BY <1>2, <2>2
  <1>5. Marking(s)' <=> Marking(s)  BY <1>2, <1>4 DEF Marking
  <1>6. Ahead(s)' = Ahead(s) /\ Fresh' = Fresh /\ Coming(s)' = Coming(s) /\ \A h : Full(h, s)' <=> Full(h, s)
    BY <1>2, <1>3, <1>4, <1>5 DEF Ahead, Fresh, Coming, Full
  <1>7. /\ \A b \in IdSet(enqueued_buffers[s]) : memory'[b] = memory[b]
        /\ \A h \in Handles : h # k => \A b \in IdSet(output_buffers[h][s]) : memory'[b] = memory[b]
    BY <1>2, FreesOutput DEF Types
  <1>8. \A h \in Handles : h # k => output_buffers'[h] = output_buffers[h]
    BY <1>2 DEF Types, BufferTypes
  <1>9. \A h \in Handles : Clean(h, s)' => h # k  BY <1>2, <1>3 DEF Clean
  <1>10. /\ \A V \in Seq(Handles) : Rightful(s, V) => Rightful(s, V)'
         /\ \A h \in Handles : Clean(h, s)' => Clean(h, s)
    BY <1>3, <1>6, SameRightful
  <1>11. Quiet(s)  BY <1>3, <1>6, <1>7, <1>8, <1>9, <1>10 DEF Quiet
  <1> QED BY <1>11, QuietFlows

LEMMA DropFlows ==
  ASSUME Types, Accounted, NEW s \in Streams, StreamFlows(s), NEW k \in Handles, DropHandle(k)
  PROVE  StreamFlows(s)'
  <1>1. /\ dropped' = dropped \cup {k}
        /\ UNCHANGED <<enqueued_buffers, enqueued_handles, cs, num_handles, active_streams, finished_streams,
                       state, fpga_buffers, interrupts, jobs, consumes, received, produced, spoilt, misled>>
    BY DEF DropHandle, histVars, failVars
  <1>2. Ahead(s)' = Ahead(s) /\ Fresh' = Fresh /\ Coming(s)' = Coming(s) /\ \A h : Full(h, s)' <=> Full(h, s)
    BY <1>1, SameMarks
  <1>3. /\ \A b \in IdSet(enqueued_buffers[s]) : memory'[b] = memory[b]
        /\ \A h \in Handles : h # k => /\ \A b \in IdSet(output_buffers[h][s]) : memory'[b] = memory[b]
                                       /\ output_buffers'[h] = output_buffers[h]
    <2>1. CASE UNCHANGED <<memory, output_buffers>>  BY <2>1
    <2>2. CASE FreeOutput(k)
      <3>1. /\ Free(IdsIn(output_buffers[k]))
            /\ output_buffers' = [output_buffers EXCEPT ![k] = [t \in Streams |-> <<>>]]
        BY <2>2 DEF FreeOutput
      <3>2. \A h \in Handles : h # k => output_buffers'[h] = output_buffers[h]
        BY <3>1 DEF Types, BufferTypes
      <3> QED BY <3>1, <3>2, FreesOutput DEF Types
    <2> QED BY <2>1, <2>2 DEF DropHandle
  <1>4. \A h \in Handles : Clean(h, s)' => h # k  BY <1>1 DEF Clean
  <1>5. /\ \A V \in Seq(Handles) : Rightful(s, V) => Rightful(s, V)'
        /\ \A h \in Handles : Clean(h, s)' => Clean(h, s)
    BY <1>1, <1>2, SameRightful
  <1>6. Quiet(s)  BY <1>1, <1>2, <1>3, <1>4, <1>5 DEF Quiet
  <1> QED BY <1>6, QuietFlows

LEMMA MarkFlows ==
  ASSUME Types, NEW s \in Streams, StreamFlows(s), MarkDone
  PROVE  StreamFlows(s)'
  <1>1. PICK t, k : t = cs.stream /\ k = Head(enqueued_handles[t])  OBVIOUS
  <1>2. /\ cs.who = "interrupt" /\ cs.last
        /\ finished_streams' = [finished_streams EXCEPT ![k] = @ \cup {t}]
        /\ enqueued_handles' = [enqueued_handles EXCEPT ![t] = Tail(enqueued_handles[t])]
        /\ \E d : cs' = [cs EXCEPT !.last = FALSE, !.destroy = d]
        /\ UNCHANGED <<enqueued_buffers, num_handles, active_streams, output_buffers, dropped, state, fpga_buffers,
                       interrupts, jobs, memory, consumes, received, produced, spoilt, misled>>
    BY <1>1 DEF MarkDone, PopHandle, fpgaVars, histVars, failVars
  <1>3. t \in Streams  BY <1>1, <1>2, InterruptFacts DEF Types
  <1>4. cs'.who = "interrupt" /\ cs'.last = FALSE
    <2>1. Interrupted  BY <1>2, CsWho DEF Types
    <2>2. cs \in [who : {"interrupt"}, stream : Streams, last : BOOLEAN, destroy : 0 .. MAX_HANDLES]
      BY <2>1 DEF Interrupted
    <2> QED BY <1>2, <2>2
  <1>5. ~ Marking(s)' /\ (Marking(s) <=> s = t)  BY <1>1, <1>2, <1>4 DEF Marking
  <1>6. Ahead(s)' = enqueued_handles'[s]  BY <1>5 DEF Ahead
  <1>7. enqueued_handles'[s] = IF s = t THEN Tail(enqueued_handles[t]) ELSE enqueued_handles[s]
    BY <1>2, <1>3 DEF Types, HandleTypes
  <1>8. Ahead(s) = IF s = t THEN Tail(enqueued_handles[t]) ELSE enqueued_handles[s]
    BY <1>5 DEF Ahead
  <1>9. Coming(s)' = Coming(s) /\ Fresh' = Fresh  BY <1>2, <1>4 DEF Coming, Fresh
  <1>10. ASSUME NEW h \in Handles, Full(h, s)' PROVE Full(h, s)
    <2>1. s \in finished_streams'[h]  BY <1>10, <1>5 DEF Full
    <2>2. finished_streams \in [Handles -> SUBSET Streams]  BY DEF Types, HandleTypes
    <2>3. s \in finished_streams[h] \/ (h = k /\ s = t)  BY <2>1, <2>2, <1>2
    <2> QED BY <2>3, <1>1, <1>5 DEF Full
  <1>11. Ahead(s)' = Ahead(s)  BY <1>6, <1>7, <1>8
  <1>12. /\ \A V \in Seq(Handles) : Rightful(s, V) => Rightful(s, V)'
         /\ \A h \in Handles : Clean(h, s)' => Clean(h, s)
    BY <1>2, <1>9, <1>11, SameRightful
  <1>13. Quiet(s)  BY <1>2, <1>9, <1>10, <1>11, <1>12 DEF Quiet
  <1> QED BY <1>13, QuietFlows

LEMMA BeginsFlow ==
  ASSUME Types, Warned, NEW s \in Streams, StreamFlows(s), Acquire \/ AcquireSize \/ CallbackAcquires
  PROVE  StreamFlows(s)'
  <1>1. ASSUME NEW mask, NEW by, BeginAcquire(mask, by) PROVE StreamFlows(s)'
    <2>1. /\ cs = Nobody /\ num_handles' = num_handles + 1
          /\ cs' = [who |-> "acquire", handle |-> num_handles + 1, left |-> mask, by |-> by]
          /\ active_streams' = [active_streams EXCEPT ![num_handles + 1] = mask]
          /\ num_handles < MAX_HANDLES
          /\ UNCHANGED <<enqueued_buffers, enqueued_handles, output_buffers, finished_streams, dropped, state, fpga_buffers,
                         interrupts, fpgaVars, received, produced, spoilt>>
          /\ \E W : misled' = [misled EXCEPT ![num_handles + 1] = W]
      BY <1>1 DEF BeginAcquire
    <2>2. cs'.who = "acquire" /\ cs'.handle = num_handles + 1 /\ cs'.left = mask  BY <2>1
    <2>3. active_streams'[num_handles + 1] = mask
      <3>1. active_streams \in [Handles -> SUBSET Streams] /\ HandleTypes /\ HandlesActive
        BY DEF Types, HandleTypes
      <3>2. num_handles + 1 \in Handles  BY <2>1, <3>1, NextHandle
      <3> QED BY <3>1, <3>2, <2>1
    <2>4. s \notin active_streams'[cs'.handle] \ cs'.left  BY <2>2, <2>3
    <2> QED BY <2>1, <2>2, <2>4, BeginFlows
  <1>2. ASSUME NEW t, NEW size, BeginAcquireSize(t, size) PROVE StreamFlows(s)'
    <2>1. /\ cs = Nobody /\ num_handles' = num_handles + 1
          /\ cs' = [who |-> "acquire_size", handle |-> num_handles + 1, stream |-> t, size |-> size, remaining |-> size]
          /\ UNCHANGED <<enqueued_buffers, enqueued_handles, output_buffers, finished_streams, dropped, state, fpga_buffers,
                         interrupts, fpgaVars, received, produced, spoilt>>
          /\ \E W : misled' = [misled EXCEPT ![num_handles + 1] = W]
      BY <1>2 DEF BeginAcquireSize
    <2>2. cs'.who = "acquire_size" /\ cs'.handle = num_handles + 1  BY <2>1
    <2> QED BY <2>1, <2>2, BeginFlows
  <1>3. CASE Acquire  BY <1>1, <1>3 DEF Acquire
  <1>4. CASE AcquireSize  BY <1>2, <1>4 DEF AcquireSize
  <1>5. CASE CallbackAcquires  BY <1>1, <1>5 DEF CallbackAcquires
  <1> QED BY <1>3, <1>4, <1>5

----
(* Before the first use, and at the end of a manager.                       *)

LEMMA RightfulIdle ==
  ASSUME NEW s, Ahead(s)' = <<>>, Coming(s)' = 0
  PROVE  Rightful(s, <<>>)'
  <1>1. \A i \in 1 .. Len(Ahead(s)') : FALSE  OBVIOUS
  <1>2. InPlace(s, <<>>)'  BY <1>1 DEF InPlace
  <1>3. Expected(s, <<>>)'  BY DEF Expected
  <1> QED BY <1>2, <1>3 DEF Rightful

LEMMA LevelIdle ==
  ASSUME NEW h, NEW s, NEW a, Level(h, s, a), Ahead(s) = <<>>, NEW b
  PROVE  Level(h, s, b)
  <1>1. \A i \in 1 .. Len(<<>>) : FALSE  OBVIOUS
  <1> QED BY <1>1 DEF Level, Reached

LEMMA FlushFlows ==
  ASSUME Types, Unused, NEW s \in Streams, StreamFlows(s), FlushBuffers
  PROVE  StreamFlows(s)'
  <1>1. /\ state = "stale" /\ state' = "running" /\ fpga_buffers'[s] = <<>>
        /\ UNCHANGED <<enqueued_buffers, enqueued_handles, cs, num_handles, handleVars, interrupts, jobs, memory, consumes,
                       received, produced, spoilt, misled>>
    BY DEF FlushBuffers, Flushed, fpgaVars, histVars, failVars
  <1>2. cs = Nobody /\ interrupts = <<>> /\ enqueued_buffers[s] = <<>> /\ enqueued_handles[s] = <<>> /\ jobs[s] = <<>>
    BY <1>1 DEF Unused
  <1>3. /\ Ahead(s)' = Ahead(s) /\ Coming(s)' = Coming(s) /\ Fresh' = Fresh /\ \A h : Full(h, s)' <=> Full(h, s)
    BY <1>1, SameMarks DEF handleVars
  <1>4. Ahead(s) = <<>> /\ Coming(s) = 0  BY <1>2 DEF Ahead, Marking, Coming, Nobody
  <1>5. PICK a \in Nat : \A h \in Handles : Clean(h, s) => Level(h, s, a)  BY DEF StreamFlows
  <1>6. ASSUME NEW h \in Handles, Clean(h, s)' PROVE Level(h, s, 0)'
    <2>1. output_buffers[h][s] \in Seq(Delivered) /\ Clean(h, s)
      BY <1>1, <1>6 DEF Types, BufferTypes, Clean, handleVars
    <2>2. Level(h, s, 0)  BY <1>4, <1>5, <2>1, LevelIdle
    <2>3. 0 \in Nat  OBVIOUS
    <2>4. UNCHANGED <<output_buffers, received, produced, memory>>  BY <1>1 DEF handleVars
    <2> QED BY <2>1, <2>2, <2>3, <2>4, <1>3, LevelKept
  <1>7. PICK V : V = <<>>  OBVIOUS
  <1>8. Flowing(s, V, 0)'
    <2>1. PICK B, N, G, mem, cons, st : B = fpga_buffers'[s] /\ N = Fresh' /\ G = Goal(s)' /\ mem = memory'
                                           /\ cons = consumes' /\ st = state'
      OBVIOUS
    <2>2. B = <<>>  BY <2>1, <1>1
    <2>3. Pipe(s, <<>>, <<>>, <<>>, 0, B, <<>>, 0, N, G, mem, cons, st)  BY <2>2, PipeIdle
    <2>4. interrupts' = <<>> /\ enqueued_buffers'[s] = <<>> /\ jobs'[s] = <<>>  BY <1>1, <1>2
    <2> QED BY <2>1, <2>3, <2>4, <1>7 DEF Flowing
  <1>9. Rightful(s, V)'  BY <1>3, <1>4, <1>7, RightfulIdle
  <1>10. 0 \in Nat /\ V \in Seq(Handles) /\ (V = <<>> => 0 = 0)  BY <1>7
  <1> QED BY <1>6, <1>8, <1>9, <1>10 DEF StreamFlows

LEMMA RestartFlows ==
  ASSUME Types, Accounted, NEW s \in Streams, StreamFlows(s), Restart
  PROVE  StreamFlows(s)'
  <1>1. /\ cs = Nobody /\ cs' = Nobody /\ state' = "stale" /\ interrupts = <<>> /\ jobs[s] = <<>>
        /\ enqueued_buffers'[s] = <<>> /\ enqueued_handles'[s] = <<>>
        /\ UNCHANGED <<num_handles, active_streams, finished_streams, dropped, fpga_buffers, interrupts, jobs, consumes,
                       received, produced, misled>>
    BY DEF Restart
  <1>2. /\ Free(IdsIn(enqueued_buffers) \cup HeldBy(output_buffers, Orphans))
        /\ \A h \in Handles \ Orphans : output_buffers'[h] = output_buffers[h]
    BY DEF Restart, HeldBy, Orphans
  <1>3. /\ Ahead(s)' = <<>> /\ Coming(s)' = 0 /\ Fresh' = Fresh
        /\ \A h : Full(h, s)' => Full(h, s)
    BY <1>1 DEF Ahead, Coming, Marking, Fresh, Full, Nobody
  <1>4. PICK a \in Nat : \A h \in Handles : Clean(h, s) => Level(h, s, a)  BY DEF StreamFlows
  <1>5. ASSUME NEW h \in Handles, Clean(h, s)' PROVE Level(h, s, 0)'
    <2>1. Clean(h, s) /\ h \notin Orphans  BY <1>1, <1>5 DEF Clean, Orphans
    <2>2. PICK m \in Nat : /\ Holds(h, s, output_buffers[h][s], received[h][s], memory, m)
                           /\ Reached(m, h, Ahead(s), a, Len(produced[h][s]), Full(h, s), h \in Fresh)
      BY <1>4, <2>1 DEF Level
    <2>3. output_buffers[h][s] \in Seq(Delivered)  BY DEF Types, BufferTypes
    <2>4. \A b \in IdSet(output_buffers[h][s]) : memory'[b] = memory[b]
      <3>1. Orphans \in SUBSET Handles  BY DEF Types, HandleTypes, Orphans
      <3>2. PICK S \in SUBSET Handles : S = Orphans  BY <3>1
      <3>3. Free(IdsIn(enqueued_buffers) \cup HeldBy(output_buffers, S)) /\ h \notin S
        BY <1>2, <2>1, <3>2
      <3> QED BY <3>3, FreesAll DEF Types
    <2>5. Holds(h, s, output_buffers[h][s], received[h][s], memory', m)
      <3>1. PICK mem, kept : mem = memory /\ kept = memory'  OBVIOUS
      <3>2. Holds(h, s, output_buffers[h][s], received[h][s], kept, m)
        BY <3>1, <2>2, <2>3, <2>4, HoldsKept
      <3> QED BY <3>1, <3>2
    <2>6. Reached(m, h, <<>>, 0, Len(produced[h][s]), Full(h, s)', h \in Fresh')
      <3>1. \A i \in 1 .. Len(<<>>) : FALSE  OBVIOUS
      <3> QED BY <2>2, <3>1, <1>3 DEF Reached
    <2>7. output_buffers'[h] = output_buffers[h]  BY <1>2, <2>1
    <2> QED BY <2>5, <2>6, <2>7, <1>1, <1>3 DEF Level
  <1>6. PICK V : V = <<>>  OBVIOUS
  <1>7. Flowing(s, V, 0)'
    <2>1. PICK B, N, G, mem, cons, st : B = fpga_buffers'[s] /\ N = Fresh' /\ G = Goal(s)' /\ mem = memory'
                                           /\ cons = consumes' /\ st = state'
      OBVIOUS
    <2>2. st = "stale"  BY <2>1, <1>1
    <2>3. Pipe(s, <<>>, <<>>, <<>>, 0, B, <<>>, 0, N, G, mem, cons, st)  BY <2>2, PipeIdle
    <2>4. interrupts' = <<>> /\ enqueued_buffers'[s] = <<>> /\ jobs'[s] = <<>>  BY <1>1
    <2> QED BY <2>1, <2>3, <2>4, <1>6 DEF Flowing
  <1>8. Rightful(s, V)'  BY <1>3, <1>6, RightfulIdle
  <1>9. 0 \in Nat /\ V \in Seq(Handles) /\ (V = <<>> => 0 = 0)  BY <1>6
  <1> QED BY <1>5, <1>7, <1>8, <1>9 DEF StreamFlows

----
(* The application reads.                                                   *)

LEMMA DeliveredTail ==
  ASSUME NEW q \in Seq(Delivered), q # <<>>, Distinct(q)
  PROVE  /\ Head(q).id \notin IdSet(Tail(q)) /\ Head(q).id \in IdSet(q) /\ Tail(q) \in Seq(Delivered)
  <1>1. PICK n, t : n = Len(q) /\ t = Tail(q)  OBVIOUS
  <1>2. n \in Nat \ {0} /\ DOMAIN q = 1 .. n /\ DOMAIN t = 1 .. n - 1 /\ (\A i \in 1 .. n - 1 : t[i] = q[i + 1]) /\ t \in Seq(Delivered)
    BY <1>1
  <1>3. Head(q) = q[1] /\ 1 \in 1 .. n  BY <1>2
  <1>4. ASSUME NEW i \in 1 .. n - 1 PROVE t[i].id # q[1].id
    <2>1. i + 1 \in 1 .. n /\ i + 1 # 1  BY <1>2
    <2>2. q[i + 1].id # q[1].id  BY <2>1, <1>1, <1>3 DEF Distinct
    <2> QED BY <2>2, <1>2
  <1>5. IdSet(t) = {t[i].id : i \in 1 .. n - 1}  BY <1>2 DEF IdSet
  <1>6. q[1].id \in IdSet(q)  BY <1>2, <1>3 DEF IdSet
  <1> QED BY <1>1, <1>2, <1>3, <1>4, <1>5, <1>6

LEMMA ReadFlows ==
  ASSUME Types, Accounted, FlowTypes, NEW s \in Streams, StreamFlows(s), NEW k \in Handles, NEW t \in Streams, Read(k, t)
  PROVE  StreamFlows(s)'
  <1>1. PICK q \in Seq(Delivered) : q = output_buffers[k][t]  BY DEF Types, BufferTypes
  <1>2. PICK b, r : b = Head(q).id /\ r = received[k][t]  OBVIOUS
  <1>3. /\ q # <<>> /\ received' = [received EXCEPT ![k][t] = r \o memory[b]]
        /\ Free({b}) /\ output_buffers' = [output_buffers EXCEPT ![k][t] = Tail(q)]
        /\ UNCHANGED <<enqueued_buffers, enqueued_handles, cs, num_handles, active_streams, finished_streams, dropped, state,
                       fpga_buffers, interrupts, jobs, consumes, produced, spoilt, misled>>
    BY <1>1, <1>2 DEF Read, failVars
  <1>4. Distinct(q) /\ b \in IdSet(q) /\ b \notin IdSet(Tail(q)) /\ Tail(q) \in Seq(Delivered)
    <2>1. Distinct(q)  BY <1>1, IdsApart DEF Types
    <2> QED BY <2>1, <1>2, <1>3, DeliveredTail
  <1>5. Ahead(s)' = Ahead(s) /\ Coming(s)' = Coming(s) /\ Fresh' = Fresh /\ \A h : Full(h, s)' <=> Full(h, s)
    BY <1>3, SameMarks
  <1>6. \A c \in IdSet(enqueued_buffers[s]) : memory'[c] = memory[c]
    <2>1. IdSet(enqueued_buffers[s]) \cap IdSet(output_buffers[k][t]) = {} /\ IdSet(enqueued_buffers[s]) \subseteq BufferIds
      BY IdsApart, IdsOfPool DEF Types
    <2>2. IdSet(enqueued_buffers[s]) \cap {b} = {}  BY <2>1, <1>1, <1>4
    <2> QED BY <2>1, <2>2, <1>3, FreeKeeps
  <1>7. ASSUME NEW h \in Handles, h # k \/ s # t
        PROVE  /\ output_buffers'[h][s] = output_buffers[h][s] /\ received'[h][s] = received[h][s]
               /\ \A c \in IdSet(output_buffers[h][s]) : memory'[c] = memory[c]
    <2>1. IdSet(output_buffers[h][s]) \cap IdSet(output_buffers[k][t]) = {} /\ IdSet(output_buffers[h][s]) \subseteq BufferIds
      BY <1>7, IdsApart, IdsOfPool DEF Types
    <2>2. IdSet(output_buffers[h][s]) \cap {b} = {}  BY <2>1, <1>1, <1>4
    <2>3. \A c \in IdSet(output_buffers[h][s]) : memory'[c] = memory[c]
      BY <2>1, <2>2, <1>3, FreeKeeps
    <2>4. output_buffers'[h][s] = output_buffers[h][s]  BY <1>3, <1>7
    <2>5. received'[h][s] = received[h][s]  BY <1>3, <1>7
    <2> QED BY <2>3, <2>4, <2>5
  <1>8. output_buffers'[k][t] = Tail(q)  BY <1>3 DEF Types, BufferTypes
  <1>9. ASSUME NEW a \in Nat, NEW h \in Handles, Level(h, s, a) PROVE Level(h, s, a)'
    <2>1. ASSUME h # k \/ s # t PROVE Level(h, s, a)'
      <3>1. output_buffers[h][s] \in Seq(Delivered)  BY DEF Types, BufferTypes
      <3>2. /\ output_buffers'[h][s] = output_buffers[h][s] /\ received'[h][s] = received[h][s]
            /\ \A c \in IdSet(output_buffers[h][s]) : memory'[c] = memory[c]
        BY <2>1, <1>7
      <3> QED BY <3>1, <3>2, <1>3, <1>5, <1>9, LevelKept
    <2>2. ASSUME h = k, s = t PROVE Level(h, s, a)'
      <3>1. PICK m \in Nat : /\ Holds(k, t, q, r, memory, m)
                             /\ Reached(m, h, Ahead(s), a, Len(produced[h][s]), Full(h, s), h \in Fresh)
        BY <2>2, <1>1, <1>2, <1>9 DEF Level
      <3>2. PICK mem, kept : mem = memory /\ kept = memory'  OBVIOUS
      <3>3. Holds(k, t, Tail(q), r \o mem[b], mem, m)  BY <3>1, <3>2, <1>2, <1>3, HoldsRead
      <3>4. \A c \in IdSet(Tail(q)) : kept[c] = mem[c]
        <4>1. IdSet(Tail(q)) \subseteq IdSet(q) /\ IdSet(q) \subseteq BufferIds
          <5>1. IdSet(q) \subseteq BufferIds  BY <1>1, IdsOfPool DEF Types
          <5>2. PICK n, p : n = Len(q) /\ p = Tail(q)  OBVIOUS
          <5>3. n \in Nat \ {0} /\ DOMAIN q = 1 .. n /\ DOMAIN p = 1 .. n - 1 /\ \A i \in 1 .. n - 1 : p[i] = q[i + 1]
            BY <5>2, <1>3
          <5>4. \A i \in 1 .. n - 1 : i + 1 \in 1 .. n  BY <5>3
          <5>5. IdSet(p) \subseteq IdSet(q)  BY <5>3, <5>4 DEF IdSet
          <5> QED BY <5>1, <5>2, <5>5
        <4>2. IdSet(Tail(q)) \cap {b} = {}  BY <1>4
        <4>3. \A c \in IdSet(Tail(q)) : memory'[c] = memory[c]  BY <4>1, <4>2, <1>3, FreeKeeps
        <4> QED BY <4>3, <3>2
      <3>5. Holds(k, t, Tail(q), r \o mem[b], kept, m)  BY <3>3, <3>4, <1>4, HoldsKept
      <3>6. received'[k][t] = r \o mem[b]
        <4>1. received' = [received EXCEPT ![k][t] = r \o memory[b]]  BY <1>3
        <4>2. k \in DOMAIN received /\ t \in DOMAIN received[k]  BY DEF FlowTypes
        <4> QED BY <4>1, <4>2, <3>2
      <3>7. Reached(m, h, Ahead(s)', a, Len(produced'[h][s]), Full(h, s)', h \in Fresh')
        BY <3>1, <1>3, <1>5 DEF Reached
      <3> QED BY <2>2, <3>2, <3>5, <3>6, <3>7, <1>8 DEF Level
    <2> QED BY <2>1, <2>2
  <1>10. /\ \A h \in Handles \ Fresh : Goal(s)'[h] = Goal(s)[h]  BY <1>3 DEF Goal
  <1>11. /\ \A V \in Seq(Handles) : Rightful(s, V) => Rightful(s, V)'
         /\ \A h \in Handles : Clean(h, s)' => Clean(h, s)
    BY <1>3, <1>5, SameRightful
  <1>12. Fresh' \subseteq Fresh /\ \A a \in Nat : \A h \in Handles : Clean(h, s)' => (Level(h, s, a) => Level(h, s, a)')
    BY <1>5, <1>9
  <1> QED BY <1>3, <1>5, <1>6, <1>10, <1>11, <1>12, FlowKept

----
(* A buffer is enqueued.                                                    *)

LEMMA EnqueuePipe ==
  ASSUME Types, Accounted, NEW s \in Streams, NEW t \in Streams, NEW n \in Nat, EnqueueBuffer(t, n),
         NEW I \in Seq(Notification), NEW H \in Seq(Handles), NEW a \in Nat, NEW J \in Seq(Job),
         NEW P, NEW N, NEW G, NEW mem, NEW cons, NEW st,
         Pipe(s, I, H, enqueued_buffers[s], a, fpga_buffers[s], J, P, N, G, mem, cons, st)
  PROVE  Pipe(s, I, H, enqueued_buffers'[s], a, fpga_buffers'[s], J, P, N, G, mem, cons, st)
  <1>1. PICK b : b = [id |-> Lowest(free), capacity |-> n]  OBVIOUS
  <1>2. /\ enqueued_buffers' = [enqueued_buffers EXCEPT ![t] = Append(@, b)]
        /\ fpga_buffers' = [fpga_buffers EXCEPT ![t] = Append(@, b)]
        /\ free # {} /\ b.id = Lowest(free)
    BY <1>1 DEF EnqueueBuffer
  <1>3. enqueued_buffers \in [Streams -> Seq(Buffer)] /\ fpga_buffers \in [Streams -> Seq(Buffer)] /\ free \subseteq BufferIds
    BY DEF Types, BufferTypes, FpgaTypes
  <1>4. b.id \in free
    <2>1. free \subseteq Nat /\ IsFiniteSet(free)  BY <1>3, ManagerAssumption, FS_Subset
    <2> QED BY <2>1, <1>2, LowestExists
  <1>5. b \in Buffer  BY <1>1, <1>2, <1>3, <1>4 DEF Buffer
  <1>6. b.id \notin IdSet(enqueued_buffers[s])
    <2>1. IdSet(enqueued_buffers[s]) \cap free = {}  BY IdsApart DEF Types
    <2> QED BY <2>1, <1>4
  <1>7. PICK E, B : E = enqueued_buffers[s] /\ B = fpga_buffers[s]  OBVIOUS
  <1>8. E \in Seq(Buffer) /\ B \in Seq(Buffer) /\ b.id \notin IdSet(E) /\ Pipe(s, I, H, E, a, B, J, P, N, G, mem, cons, st)
    BY <1>3, <1>6, <1>7
  <1>9. CASE s = t
    <2>1. enqueued_buffers'[s] = Append(E, b) /\ fpga_buffers'[s] = Append(B, b)
      BY <1>2, <1>3, <1>7, <1>9
    <2>2. Pipe(s, I, H, Append(E, b), a, Append(B, b), J, P, N, G, mem, cons, st)
      BY <1>5, <1>8, PipeMore
    <2> QED BY <2>1, <2>2
  <1>10. CASE s # t
    <2>1. enqueued_buffers'[s] = E /\ fpga_buffers'[s] = B  BY <1>2, <1>3, <1>7, <1>10
    <2> QED BY <2>1, <1>8
  <1> QED BY <1>9, <1>10

LEMMA EnqueueFlows ==
  ASSUME Types, Accounted, NEW s \in Streams, StreamFlows(s), NEW t \in Streams, NEW n \in Nat, EnqueueBuffer(t, n),
         UNCHANGED <<enqueued_handles, cs, num_handles, active_streams, output_buffers, finished_streams, dropped, state,
                     interrupts, jobs, memory, consumes, received, produced, spoilt, misled>>
  PROVE  StreamFlows(s)'
  <1>1. PICK a \in Nat, V \in Seq(Handles) :
          /\ Flowing(s, V, a)
          /\ V = <<>> => a = 0
          /\ Rightful(s, V)
          /\ \A k \in Handles : Clean(k, s) => Level(k, s, a)
    BY DEF StreamFlows
  <1>2. Ahead(s)' = Ahead(s) /\ Coming(s)' = Coming(s) /\ Fresh' = Fresh /\ \A h : Full(h, s)' <=> Full(h, s)
    BY SameMarks
  <1>3. Goal(s)' = Goal(s)  BY DEF Goal
  <1>4. PICK I, J, N, G, mem, cons, st :
          /\ I = interrupts /\ J = jobs[s] /\ N = Fresh /\ G = Goal(s)
          /\ mem = memory /\ cons = consumes /\ st = state
    OBVIOUS
  <1>5. I \in Seq(Notification) /\ J \in Seq(Job)  BY <1>4 DEF Types, FpgaTypes
  <1>6. Pipe(s, I, V, enqueued_buffers[s], a, fpga_buffers[s], J, 0, N, G, mem, cons, st)
    BY <1>1, <1>4 DEF Flowing
  <1>7. Pipe(s, I, V, enqueued_buffers'[s], a, fpga_buffers'[s], J, 0, N, G, mem, cons, st)
    BY <1>5, <1>6, EnqueuePipe
  <1>8. Flowing(s, V, a)'  BY <1>2, <1>3, <1>4, <1>7 DEF Flowing
  <1>9. /\ Rightful(s, V)'
        /\ \A h \in Handles : Clean(h, s)' => Clean(h, s)
    BY <1>1, <1>2, SameRightful
  <1>10. ASSUME NEW h \in Handles, Clean(h, s)' PROVE Level(h, s, a)'
    <2>1. output_buffers[h][s] \in Seq(Delivered)  BY DEF Types, BufferTypes
    <2>2. Level(h, s, a)  BY <1>1, <1>9, <1>10
    <2>3. \A b \in IdSet(output_buffers[h][s]) : memory'[b] = memory[b]  OBVIOUS
    <2> QED BY <2>1, <2>2, <2>3, <1>2, LevelKept
  <1> QED BY <1>1, <1>8, <1>9, <1>10 DEF StreamFlows

LEMMA TopUpFlows ==
  ASSUME Types, Accounted, NEW s \in Streams, StreamFlows(s), TopUp
  PROVE  StreamFlows(s)'
  <1>1. /\ cs.who = "interrupt" /\ ~ cs.last
        /\ UNCHANGED <<enqueued_handles, num_handles, active_streams, output_buffers, finished_streams, dropped, state,
                       interrupts, jobs, memory, consumes, received, produced, spoilt, misled>>
    BY DEF TopUp, handleVars, fpgaVars, histVars, failVars
  <1>2. PICK t \in Streams : t = cs.stream  BY <1>1, InterruptFacts DEF Types
  <1>3. ASSUME EnqueueBuffer(t, CAPACITY), UNCHANGED cs PROVE StreamFlows(s)'
    <2>1. CAPACITY \in Nat  BY ManagerAssumption
    <2> QED BY <2>1, <1>1, <1>3, EnqueueFlows
  <1>4. ASSUME cs' = Nobody, UNCHANGED <<enqueued_buffers, free, fpga_buffers>> PROVE StreamFlows(s)'
    <2>1. ~ Marking(s) /\ ~ Marking(s)'  BY <1>1, <1>4 DEF Marking, Nobody
    <2>2. Ahead(s)' = Ahead(s) /\ \A h : Full(h, s)' <=> Full(h, s)  BY <2>1, <1>1 DEF Ahead, Full
    <2>3. Coming(s)' = Coming(s) /\ Fresh' = Fresh  BY <1>1, <1>4 DEF Coming, Fresh, Nobody
    <2>4. /\ \A V \in Seq(Handles) : Rightful(s, V) => Rightful(s, V)'
          /\ \A h \in Handles : Clean(h, s)' => Clean(h, s)
      BY <1>1, <2>2, <2>3, SameRightful
    <2>5. Quiet(s)  BY <1>1, <1>4, <2>2, <2>3, <2>4 DEF Quiet
    <2> QED BY <2>5, QuietFlows
  <1> QED BY <1>2, <1>3, <1>4 DEF TopUp

----
(* The design starts.                                                       *)

LEMMA StartJob ==
  ASSUME NEW h \in Handles, NEW lengths, StartDesign(h, lengths), NEW s \in Streams, s \in active_streams[h], lengths[s] \in Nat
  PROVE  \E job \in Job : /\ job.handle = h /\ job.len = lengths[s] /\ job.done = 0
                          /\ jobs'[s] = Append(jobs[s], job)
  <1>1. PICK job : job = [handle |-> h, len |-> lengths[s], done |-> 0]  OBVIOUS
  <1>2. jobs'[s] = Append(jobs[s], job)  BY <1>1 DEF StartDesign
  <1>3. job \in [handle : Handles, len : Nat, done : Nat] /\ job.handle = h /\ job.len = lengths[s] /\ job.done = 0
    BY <1>1
  <1>4. job.done < job.len \/ job.len = 0  BY <1>3
  <1> QED BY <1>2, <1>3, <1>4 DEF Job

\* N2, G2: a handle has its outputs now.
SameGoals(N, G, G2) == \A k \in Handles \ N : G2[k] = G[k]

LEMMA PipeLater ==
  ASSUME NEW s, NEW I \in Seq(Notification), NEW H, NEW E \in Seq(Buffer), NEW a, NEW B,
         NEW J \in Seq(Job), NEW P, NEW N, NEW G, NEW mem, NEW cons, NEW st,
         Pipe(s, I, H, E, a, B, J, P, N, G, mem, cons, st), NEW N2, NEW G2, N2 \subseteq N, SameGoals(N, G, G2)
  PROVE  Pipe(s, I, H, E, a, B, J, P, N2, G2, mem, cons, st)
  BY PipeKept DEF SameGoals

----
(* A handle is enqueued, which waits for its output to be started.           *)

LEMMA ReachedWaits ==
  ASSUME NEW m, NEW k, NEW H \in Seq(Handles), NEW a, NEW g, NEW full, NEW fresh, Reached(m, k, H, a, g, full, fresh),
         NEW h \in Handles, k = h => fresh /\ (H = <<>> => a = 0)
  PROVE  Reached(m, k, Append(H, h), a, g, full, fresh)
  <1>1. PICK n, p : n = Len(H) /\ p = Append(H, h)  OBVIOUS
  <1>2. n \in Nat /\ Len(p) = n + 1 /\ p[n + 1] = h /\ (\A i \in 1 .. n : p[i] = H[i]) /\ (n = 0 => H = <<>>)
    BY <1>1
  <1>3. ASSUME NEW i \in 1 .. n + 1, p[i] = k PROVE m = (IF i = 1 THEN a ELSE 0)
    <2>1. CASE i = n + 1
      <3>1. m = 0  BY <2>1, <1>2, <1>3 DEF Reached
      <3>2. i = 1 => a = 0  BY <2>1, <1>2, <1>3
      <3> QED BY <3>1, <3>2
    <2>2. CASE i # n + 1
      <3>1. i \in 1 .. n  BY <2>2, <1>2
      <3>2. H[i] = k  BY <3>1, <1>2, <1>3
      <3> QED BY <3>1, <3>2, <1>1 DEF Reached
    <2> QED BY <2>1, <2>2
  <1>4. \A i \in 1 .. Len(p) : p[i] = k => m = (IF i = 1 THEN a ELSE 0)  BY <1>2, <1>3
  <1> QED BY <1>1, <1>4 DEF Reached

\* What the handles have when h waits on t.
LEMMA LevelWaits ==
  ASSUME Types, NEW s \in Streams, NEW t \in Streams, NEW h \in Handles, h \in Fresh, NEW a \in Nat,
         ~ Marking(s), ~ Marking(s)', enqueued_handles' = [enqueued_handles EXCEPT ![t] = Append(@, h)],
         NEW k \in Handles, Level(k, s, a), s = t /\ k = h /\ Ahead(s) = <<>> => a = 0,
         UNCHANGED <<output_buffers, received, memory, finished_streams>>
  PROVE  \E m \in Nat : /\ Holds(k, s, output_buffers'[k][s], received'[k][s], memory', m)
                        /\ Reached(m, k, Ahead(s)', a, Len(produced[k][s]), Full(k, s)', k \in Fresh)
  <1>1. PICK m \in Nat : /\ Holds(k, s, output_buffers[k][s], received[k][s], memory, m)
                         /\ Reached(m, k, Ahead(s), a, Len(produced[k][s]), Full(k, s), k \in Fresh)
    BY DEF Level
  <1>2. PICK H \in Seq(Handles) : H = enqueued_handles[s]  BY DEF Types, HandleTypes
  <1>3. Ahead(s) = H /\ Ahead(s)' = enqueued_handles'[s] /\ (Full(k, s)' <=> Full(k, s))
    BY <1>2 DEF Ahead, Full
  <1>4. Reached(m, k, Ahead(s)', a, Len(produced[k][s]), Full(k, s)', k \in Fresh)
    <2>1. PICK g, full, full2, fresh : g = Len(produced[k][s]) /\ full = Full(k, s) /\ full2 = Full(k, s)' /\ fresh = (k \in Fresh)
      OBVIOUS
    <2>2. Reached(m, k, H, a, g, full2, fresh)
      <3>1. Reached(m, k, H, a, g, full, fresh)  BY <2>1, <1>1, <1>3
      <3>2. full2 => full  BY <2>1, <1>3
      <3> QED BY <3>1, <3>2 DEF Reached
    <2>3. s = t => (k = h => fresh /\ (H = <<>> => a = 0))  BY <2>1, <1>3
    <2>4. s = t => Reached(m, k, Append(H, h), a, g, full2, fresh)  BY <2>2, <2>3, ReachedWaits
    <2>5. enqueued_handles'[s] = IF s = t THEN Append(H, h) ELSE H  BY <1>2 DEF Types, HandleTypes
    <2> QED BY <2>1, <2>2, <2>4, <2>5, <1>3
  <1> QED BY <1>1, <1>4

\* Who is not misled joins the queue where the outputs expect it.
LEMMA JoinsClean ==
  ASSUME Warned, NEW s, NEW h, h = cs.handle, cs.who \in {"acquire", "acquire_size"}, s \in active_streams[h],
         Clean(h, s), NEW V, Rightful(s, V)
  PROVE  Expected(s, V) /\ s \notin spoilt
  <1>1. misled[h] = active_streams[h] \cap spoilt  BY DEF Warned
  <1>2. s \notin spoilt  BY <1>1 DEF Clean
  <1> QED BY <1>2 DEF Rightful

\* h joins the queue of s, the outputs are for W now.
LEMMA JoinsRightful ==
  ASSUME Warned, NEW s, NEW h, h = cs.handle, cs.who \in {"acquire", "acquire_size"}, s \in active_streams[h],
         NEW A \in Seq(Handles), A = Ahead(s), Ahead(s)' = Append(A, h), NEW V \in Seq(Handles), Rightful(s, V),
         UNCHANGED <<dropped, spoilt, misled>>, NEW W, W = V \/ W = Append(V, h),
         Expected(s, V) => Expected(s, W)'
  PROVE  Rightful(s, W)'
  <1>1. CASE s \notin spoilt  BY <1>1 DEF Rightful
  <1>2. CASE s \in spoilt
    <2>1. InPlace(s, V)  BY <1>2 DEF Rightful
    <2>2. PICK A2 : A2 = Append(A, h)  OBVIOUS
    <2>3. ~ Clean(h, s)  BY <1>2, JoinsClean
    <2>4. ASSUME NEW i \in 1 .. Len(A2), Clean(A2[i], s) PROVE i <= Len(W) /\ W[i] = A2[i]
      <3>1. A2[i] # h  BY <2>3, <2>4
      <3>2. i \in 1 .. Len(A) /\ A2[i] = A[i]  BY <2>2, <3>1
      <3>3. i <= Len(V) /\ V[i] = A[i]  BY <2>1, <2>4, <3>2 DEF InPlace
      <3> QED BY <3>2, <3>3
    <2>5. InPlace(s, W)'  BY <2>2, <2>4 DEF InPlace, Clean
    <2> QED BY <2>5, <1>2 DEF Rightful
  <1> QED BY <1>1, <1>2

LEMMA WaitsFlows ==
  ASSUME Types, Warned, NEW s \in Streams, StreamFlows(s), NEW t \in Streams, t \in cs.left, NEW h \in Handles, h = cs.handle,
         cs.who = "acquire", h \in Fresh, t \in active_streams[h],
         enqueued_handles' = [enqueued_handles EXCEPT ![t] = Append(@, h)],
         cs' = [cs EXCEPT !.left = cs.left \ {t}],
         UNCHANGED <<enqueued_buffers, fpga_buffers, num_handles, active_streams, output_buffers, finished_streams, dropped,
                     state, interrupts, jobs, memory, consumes, received, produced, spoilt, misled>>
  PROVE  StreamFlows(s)'
  <1>1. cs'.who = "acquire" /\ cs'.handle = h /\ cs'.left = cs.left \ {t}
    <2>1. Acquiring  BY CsWho DEF Types
    <2>2. cs \in [who : {"acquire"}, handle : 1 .. num_handles, left : SUBSET Streams, by : 0 .. MAX_HANDLES]
      BY <2>1 DEF Acquiring
    <2> QED BY <2>2
  <1>2. ~ Marking(s) /\ ~ Marking(s)'  BY <1>1 DEF Marking
  <1>3. PICK a \in Nat, V \in Seq(Handles) :
          /\ Flowing(s, V, a)
          /\ V = <<>> => a = 0
          /\ Rightful(s, V)
          /\ \A k \in Handles : Clean(k, s) => Level(k, s, a)
    BY DEF StreamFlows
  <1>4. Ahead(s) = enqueued_handles[s] /\ Ahead(s)' = enqueued_handles'[s]  BY <1>2 DEF Ahead
  <1>5. Fresh' = Fresh /\ Goal(s)' = Goal(s)  BY <1>1 DEF Fresh, Goal
  <1>6. s = t => Coming(s) = 0  BY DEF Coming
  <1>7. Coming(s)' = IF s = t THEN h ELSE Coming(s)  BY <1>1 DEF Coming
  <1>8. Flowing(s, V, a)'  BY <1>3, <1>5 DEF Flowing
  <1>9. PICK A \in Seq(Handles) : A = Ahead(s)  BY AheadType
  <1>10. Ahead(s)' = IF s = t THEN Append(A, h) ELSE A  BY <1>4, <1>9 DEF Types, HandleTypes
  <1>11. \A k \in Handles : Clean(k, s)' <=> Clean(k, s)  BY DEF Clean
  <1>12. Rightful(s, V)'
    <2>1. CASE s = t
      <3>1. Ahead(s)' = Append(A, h) /\ Coming(s)' = h /\ h # 0
        BY <2>1, <1>7, <1>10, ManagerAssumption DEF Handles
      <3>2. ASSUME Expected(s, V) PROVE Expected(s, V)'
        <4>1. A = V  BY <2>1, <3>2, <1>6, <1>9 DEF Expected
        <4> QED BY <3>1, <4>1 DEF Expected
      <3>3. cs.who \in {"acquire", "acquire_size"} /\ s \in active_streams[h]  BY <2>1
      <3> QED BY <3>1, <3>2, <3>3, <1>3, <1>9, JoinsRightful
    <2>2. CASE s # t
      <3>1. Ahead(s)' = Ahead(s) /\ Coming(s)' = Coming(s)  BY <2>2, <1>7, <1>9, <1>10
      <3> QED BY <3>1, <1>3, SameRightful
    <2> QED BY <2>1, <2>2
  <1>13. ASSUME NEW k \in Handles, Clean(k, s)' PROVE Level(k, s, a)'
    <2>1. Clean(k, s) /\ Level(k, s, a)  BY <1>3, <1>11, <1>13
    <2>2. ASSUME s = t, k = h, Ahead(s) = <<>> PROVE a = 0
      <3>1. cs.who \in {"acquire", "acquire_size"} /\ s \in active_streams[h] /\ Clean(h, s)
        BY <2>1, <2>2
      <3>2. Expected(s, V)  BY <3>1, <1>3, JoinsClean
      <3>3. V = <<>>  BY <2>2, <3>2, <1>6 DEF Expected
      <3> QED BY <3>3, <1>3
    <2>3. \E m \in Nat : /\ Holds(k, s, output_buffers'[k][s], received'[k][s], memory', m)
                         /\ Reached(m, k, Ahead(s)', a, Len(produced[k][s]), Full(k, s)', k \in Fresh)
      BY <2>1, <2>2, <1>2, LevelWaits
    <2> QED BY <2>3, <1>5 DEF Level
  <1> QED BY <1>3, <1>8, <1>12, <1>13 DEF StreamFlows

----
(* The last stream is dealt with and the design starts.                      *)

LEMMA StartFlows ==
  ASSUME Types, Accounted, FlowTypes, Warned, NEW s \in Streams, StreamFlows(s),
         NEW t \in Streams, NEW h \in Handles, h = cs.handle, h = num_handles, finished_streams[h] = {},
         cs.who \in {"acquire", "acquire_size"}, cs' = Nobody, state = "running",
         NEW lengths, StartDesign(h, lengths), \A u \in Streams : u \in active_streams[h] => lengths[u] \in Nat,
         enqueued_handles' = [enqueued_handles EXCEPT ![t] = Append(@, h)],
         UNCHANGED <<enqueued_buffers, fpga_buffers>> \/ \E n \in Nat : EnqueueBuffer(t, n),
         s = t => Coming(s) = 0, (IF s = t THEN h ELSE Coming(s)) = IF s \in active_streams[h] THEN h ELSE 0,
         UNCHANGED <<num_handles, active_streams, output_buffers, finished_streams, dropped,
                     state, interrupts, memory, consumes, received, spoilt, misled>>
  PROVE  StreamFlows(s)'
  <1>1. cs'.who = "nobody"  BY DEF Nobody
  <1>2. ~ Marking(s) /\ ~ Marking(s)'  BY <1>1 DEF Marking
  <1>3. PICK a \in Nat, V \in Seq(Handles) :
          /\ Flowing(s, V, a)
          /\ V = <<>> => a = 0
          /\ Rightful(s, V)
          /\ \A k \in Handles : Clean(k, s) => Level(k, s, a)
    BY DEF StreamFlows
  <1>4. Ahead(s) = enqueued_handles[s] /\ Ahead(s)' = enqueued_handles'[s]  BY <1>2 DEF Ahead
  <1>5. Fresh' \subseteq Fresh /\ h \in Fresh /\ h \notin Fresh'
    <2>1. PICK n \in Nat : n = num_handles  BY DEF Types, HandleTypes
    <2>2. Fresh' = {k \in Handles : k > n}  BY <2>1, <1>1 DEF Fresh
    <2>3. Fresh = {k \in Handles : k > n} \cup {h}  BY <2>1 DEF Fresh
    <2> QED BY <2>1, <2>2, <2>3
  <1>6. /\ \A u \in Streams : Len(produced'[h][u]) = IF u \in active_streams[h] THEN lengths[u] ELSE 0
        /\ \A k \in Handles : k # h => produced'[k] = produced[k]
    BY StartFlowTypes
  <1>7. PICK A \in Seq(Handles) : A = Ahead(s)  BY AheadType
  <1>8. Ahead(s)' = (IF s = t THEN Append(A, h) ELSE A) /\ Coming(s)' = 0 /\ h # 0
    <2>1. Coming(s)' = 0 /\ h # 0  BY <1>1, ManagerAssumption DEF Coming, Handles
    <2> QED BY <2>1, <1>4, <1>7 DEF Types, HandleTypes
  <1>9. PICK W : W = IF s \in active_streams[h] THEN Append(V, h) ELSE V  OBVIOUS
  <1>10. W \in Seq(Handles)  BY <1>9
  <1>11. Flowing(s, W, a)'
    <2>1. PICK I, J, K : I = interrupts /\ J = jobs[s] /\ K = jobs'[s]  OBVIOUS
    <2>2. PICK N, G, mem, cons, st : N = Fresh /\ G = Goal(s) /\ mem = memory /\ cons = consumes /\ st = state
      OBVIOUS
    <2>3. I \in Seq(Notification) /\ J \in Seq(Job)  BY <2>1 DEF Types, FpgaTypes
    <2>4. Pipe(s, I, V, enqueued_buffers[s], a, fpga_buffers[s], J, 0, N, G, mem, cons, st)
      BY <2>1, <2>2, <1>3 DEF Flowing
    <2>5. Pipe(s, I, V, enqueued_buffers'[s], a, fpga_buffers'[s], J, 0, N, G, mem, cons, st)
      <3>1. ASSUME NEW n \in Nat, EnqueueBuffer(t, n)
            PROVE  Pipe(s, I, V, enqueued_buffers'[s], a, fpga_buffers'[s], J, 0, N, G, mem, cons, st)
        BY <3>1, <2>3, <2>4, EnqueuePipe
      <3> QED BY <3>1, <2>4
    <2>6. enqueued_buffers'[s] \in Seq(Buffer)
      <3>1. enqueued_buffers[s] \in Seq(Buffer)  BY DEF Types, BufferTypes
      <3>2. ASSUME NEW n \in Nat, EnqueueBuffer(t, n) PROVE enqueued_buffers'[s] \in Seq(Buffer)
        <4>1. BufferTypes'  BY <3>2, EnqueueAccounted DEF Types
        <4> QED BY <4>1 DEF BufferTypes
      <3> QED BY <3>1, <3>2
    <2>7. PICK E, B, N2, G2 : E = enqueued_buffers'[s] /\ B = fpga_buffers'[s] /\ N2 = Fresh' /\ G2 = Goal(s)'
      OBVIOUS
    <2>8. E \in Seq(Buffer) /\ Pipe(s, I, V, E, a, B, J, 0, N, G, mem, cons, st)
      BY <2>5, <2>6, <2>7
    <2>9. N2 \subseteq N /\ h \notin N2 /\ (\A k \in Handles \ N : G2[k] = G[k])
      BY <2>2, <2>7, <1>5, <1>6 DEF Goal
    <2>10. Pipe(s, I, V, E, a, B, J, 0, N2, G2, mem, cons, st)
      <3>1. SameGoals(N, G, G2) /\ N2 \subseteq N  BY <2>9 DEF SameGoals
      <3> QED BY <3>1, <2>3, <2>8, PipeLater
    <2>11. Pipe(s, I, W, E, a, B, K, 0, N2, G2, mem, cons, st)
      <3>1. CASE s \in active_streams[h]
        <4>1. PICK job \in Job : job.handle = h /\ job.len = lengths[s] /\ job.done = 0 /\ K = Append(J, job)
          BY <3>1, <2>1, StartJob
        <4>2. Pipe(s, I, Append(V, h), E, a, B, J, h, N2, G2, mem, cons, st)
          <5>1. PICK P : P = 0  OBVIOUS
          <5>2. Pipe(s, I, V, E, a, B, J, P, N2, G2, mem, cons, st)  BY <5>1, <2>10
          <5> QED BY <5>1, <5>2, <2>3, <2>8, PipeWaits
        <4>3. G2[h] = lengths[s]  BY <3>1, <2>7, <1>6 DEF Goal
        <4>4. h # 0 /\ h \notin N2 /\ st = "running" /\ job.len = G2[h]
          BY <4>1, <4>3, <2>2, <2>9, <1>8
        <4>5. Pipe(s, I, Append(V, h), E, a, B, Append(J, job), 0, N2, G2, mem, cons, st)
          BY <4>1, <4>2, <4>4, <2>3, PipeStarts
        <4> QED BY <3>1, <4>1, <4>5, <1>9
      <3>2. CASE s \notin active_streams[h]
        <4>1. K = J  BY <3>2, <2>1 DEF StartDesign
        <4> QED BY <3>2, <4>1, <2>10, <1>9
      <3> QED BY <3>1, <3>2
    <2> QED BY <2>1, <2>2, <2>7, <2>11 DEF Flowing
  <1>12. W = <<>> => a = 0  BY <1>3, <1>9
  <1>13. Rightful(s, W)'
    <2>1. CASE s = t
      <3>1. s \in active_streams[h] /\ Coming(s) = 0  BY <2>1, <1>8
      <3>2. Ahead(s)' = Append(A, h) /\ W = Append(V, h)  BY <2>1, <3>1, <1>8, <1>9
      <3>3. ASSUME Expected(s, V) PROVE Expected(s, W)'
        <4>1. A = V  BY <3>1, <3>3, <1>7 DEF Expected
        <4> QED BY <3>2, <4>1, <1>8 DEF Expected
      <3> QED BY <3>1, <3>2, <3>3, <1>3, <1>7, JoinsRightful
    <2>2. CASE s # t
      <3>1. Ahead(s)' = A /\ Coming(s) = IF s \in active_streams[h] THEN h ELSE 0  BY <2>2, <1>8
      <3>2. CASE s \in spoilt
        <4>1. InPlace(s, V)  BY <3>2, <1>3 DEF Rightful
        <4>2. ASSUME NEW i \in 1 .. Len(A), Clean(A[i], s) PROVE i <= Len(W) /\ W[i] = A[i]
          <5>1. i <= Len(V) /\ V[i] = A[i]  BY <4>1, <4>2, <1>7 DEF InPlace
          <5> QED BY <5>1, <1>9
        <4>3. InPlace(s, W)'  BY <3>1, <4>2 DEF InPlace, Clean
        <4> QED BY <3>2, <4>3 DEF Rightful
      <3>3. CASE s \notin spoilt
        <4>1. A = IF Coming(s) = 0 THEN V ELSE Append(V, Coming(s))
          BY <3>3, <1>3, <1>7 DEF Rightful, Expected
        <4>2. A = W  BY <4>1, <3>1, <1>8, <1>9
        <4>3. Expected(s, W)'  BY <3>1, <4>2, <1>8 DEF Expected
        <4> QED BY <3>3, <4>3 DEF Rightful
      <3> QED BY <3>2, <3>3
    <2> QED BY <2>1, <2>2
  <1>14. ASSUME NEW k \in Handles, Clean(k, s)' PROVE Level(k, s, a)'
    <2>1. Clean(k, s) /\ Level(k, s, a)  BY <1>3, <1>14 DEF Clean
    <2>2. ASSUME s = t, k = h, Ahead(s) = <<>> PROVE a = 0
      <3>1. s \in active_streams[h] /\ Coming(s) = 0 /\ Clean(h, s)  BY <2>1, <2>2, <1>8
      <3>2. Expected(s, V)  BY <3>1, <1>3, JoinsClean
      <3>3. V = <<>>  BY <2>2, <3>1, <3>2 DEF Expected
      <3> QED BY <3>3, <1>3
    <2>3. PICK m \in Nat : /\ Holds(k, s, output_buffers'[k][s], received'[k][s], memory', m)
                           /\ Reached(m, k, Ahead(s)', a, Len(produced[k][s]), Full(k, s)', k \in Fresh)
      BY <2>1, <2>2, <1>2, <1>5, LevelWaits
    <2>4. Reached(m, k, Ahead(s)', a, Len(produced'[k][s]), Full(k, s)', k \in Fresh')
      <3>1. CASE k = h
        <4>1. m = 0 /\ k \notin Fresh'  BY <2>3, <3>1, <1>5 DEF Reached
        <4>2. ~ Full(k, s)'  BY <3>1, <1>2 DEF Full
        <4>3. Len(produced'[k][s]) \in Nat  BY <3>1, <1>6
        <4>4. m <= Len(produced'[k][s])  BY <4>1, <4>3
        <4> QED BY <4>1, <4>2, <4>4, <2>3 DEF Reached
      <3>2. CASE k # h
        <4>1. produced'[k] = produced[k]  BY <2>1, <3>2, <1>6
        <4> QED BY <4>1, <2>3, <1>5 DEF Reached
      <3> QED BY <3>1, <3>2
    <2> QED BY <2>3, <2>4 DEF Level
  <1> QED BY <1>10, <1>11, <1>12, <1>13, <1>14 DEF StreamFlows

LEMMA AcquireFlows ==
  ASSUME Types, Accounted, FlowTypes, OrderInv, Warned, NEW s \in Streams, StreamFlows(s), AcquireStream
  PROVE  StreamFlows(s)'
  <1>1. PICK t, h : t = Lowest(cs.left) /\ h = cs.handle  OBVIOUS
  <1>2. t \in Streams /\ t \in cs.left /\ cs.who = "acquire"
    BY <1>1, AcquireFacts DEF Types, AcquireStream
  <1>3. CASE ~ HasBuffers(t)
    <2>1. EnqueueBuffer(t, CAPACITY)  BY <1>1, <1>3 DEF AcquireStream
    <2>2. UNCHANGED <<enqueued_handles, cs, num_handles, active_streams, output_buffers, finished_streams, dropped, state,
                      interrupts, jobs, memory, consumes, received, produced, spoilt, misled>>
      BY <1>1, <1>3 DEF AcquireStream, failVars
    <2>3. CAPACITY \in Nat  BY ManagerAssumption
    <2> QED BY <1>2, <2>1, <2>2, <2>3, EnqueueFlows
  <1>4. CASE HasBuffers(t)
    <2>1. /\ h \in Handles /\ enqueued_handles' = [enqueued_handles EXCEPT ![t] = Append(@, h)]
          /\ UNCHANGED <<enqueued_buffers, free, fpga_buffers>>
          /\ UNCHANGED <<num_handles, active_streams, output_buffers, finished_streams, dropped, state,
                         interrupts, memory, consumes, received, spoilt, misled>>
          /\ finished_streams[h] = {} /\ h = num_handles /\ state = "running" /\ t \in active_streams[h]
          /\ \/ /\ cs.left \ {t} # {} /\ cs' = [cs EXCEPT !.left = cs.left \ {t}]
                /\ UNCHANGED <<callback_thread, jobs, produced>>
             \/ /\ cs.left \ {t} = {} /\ cs' = Nobody
                /\ \E lengths \in [active_streams[h] -> Lengths] : StartDesign(h, lengths)
      BY <1>1, <1>4, EnqueueIs DEF Types
    <2>2. h \in Fresh  BY <1>1, <1>2, <2>1 DEF Fresh
    <2>3. ASSUME cs' = [cs EXCEPT !.left = cs.left \ {t}], UNCHANGED <<jobs, produced>> PROVE StreamFlows(s)'
      <3>1. UNCHANGED <<enqueued_buffers, fpga_buffers, num_handles, active_streams, output_buffers, finished_streams,
                        dropped, state, interrupts, jobs, memory, consumes, received, produced, spoilt, misled>>
        BY <2>1, <2>3
      <3> QED BY <1>1, <1>2, <2>1, <2>2, <2>3, <3>1, WaitsFlows
    <2>4. ASSUME cs.left \ {t} = {}, cs' = Nobody, NEW lengths \in [active_streams[h] -> Lengths], StartDesign(h, lengths)
          PROVE  StreamFlows(s)'
      <3>1. \A u \in Streams : u \in active_streams[h] => lengths[u] \in Nat
        BY <2>4, ManagerAssumption
      <3>2. s = t => Coming(s) = 0  BY <1>2 DEF Coming
      <3>3. cs.left = {t}  BY <1>2, <2>4
      <3>4. (IF s = t THEN h ELSE Coming(s)) = IF s \in active_streams[h] THEN h ELSE 0
        BY <1>1, <1>2, <2>1, <3>3 DEF Coming
      <3>5. cs.who \in {"acquire", "acquire_size"}  BY <1>2
      <3>6. UNCHANGED <<enqueued_buffers, fpga_buffers>>  BY <2>1
      <3>7. UNCHANGED <<num_handles, active_streams, output_buffers, finished_streams, dropped, state, interrupts,
                        memory, consumes, received, spoilt, misled>>
        BY <2>1
      <3> QED BY <1>1, <1>2, <2>1, <2>4, <3>1, <3>2, <3>4, <3>5, <3>6, <3>7, StartFlows
    <2> QED BY <2>1, <2>3, <2>4
  <1> QED BY <1>3, <1>4

LEMMA ChunkFlows ==
  ASSUME Types, Accounted, FlowTypes, OrderInv, Warned, NEW s \in Streams, StreamFlows(s), AcquireChunk
  PROVE  StreamFlows(s)'
  <1>1. PICK t, h, n : t = cs.stream /\ h = cs.handle /\ n = cs.size  OBVIOUS
  <1>2. PICK lengths : lengths = [u \in {t} |-> n]  OBVIOUS
  <1>3. /\ cs' = Nobody /\ EnqueueBuffer(t, n) /\ cs.who = "acquire_size"
        /\ enqueued_handles' = [enqueued_handles EXCEPT ![t] = Append(@, h)]
        /\ UNCHANGED <<num_handles, active_streams, output_buffers, finished_streams, dropped, state, interrupts,
                        memory, consumes, received, spoilt, misled>>
    BY <1>1, ChunkIs DEF OrderInv
  <1>4. StartDesign(h, lengths)  BY <1>1, <1>2, ChunkIs DEF OrderInv
  <1>5. h \in Handles /\ t \in Streams /\ active_streams[h] = {t} /\ n \in Nat
    BY <1>1, <1>3, SizeFacts DEF Types
  <1>6. h = num_handles /\ state = "running" /\ finished_streams[h] = {}
    BY <1>1, <1>3 DEF OrderInv, Newest
  <1>7. \A u \in Streams : u \in active_streams[h] => lengths[u] \in Nat  BY <1>2, <1>5
  <1>8. \E m \in Nat : EnqueueBuffer(t, m)  BY <1>3, <1>5
  <1>9. (s = t => Coming(s) = 0) /\ (IF s = t THEN h ELSE Coming(s)) = IF s \in active_streams[h] THEN h ELSE 0
    BY <1>3, <1>5 DEF Coming
  <1>10. UNCHANGED <<num_handles, active_streams, output_buffers, finished_streams, dropped, state, interrupts,
                     memory, consumes, received, spoilt, misled>>
    BY <1>3
  <1>11. cs.who \in {"acquire", "acquire_size"}  BY <1>3
  <1> QED BY <1>1, <1>3, <1>4, <1>5, <1>6, <1>7, <1>8, <1>9, <1>10, <1>11, StartFlows

----
(* The manager handles an interrupt.                                        *)

\* x is about the first handle of H and the first buffer of E.
Pops(x, t, H, E) ==
  /\ x \in Notification /\ t = x.stream /\ t \in Streams /\ H # <<>> /\ E # <<>>
  /\ interrupts # <<>> /\ x = Head(interrupts) /\ interrupts' = Tail(interrupts)
  /\ enqueued_buffers'[t] = (IF Uses(x, consumes) THEN Tail(E) ELSE E)
  /\ \A s \in Streams \ {t} : enqueued_buffers'[s] = enqueued_buffers[s]
  /\ x.bytes > 0 => memory' = memory
  /\ x.bytes > 0 => output_buffers'[Head(H)][t] = Append(output_buffers[Head(H)][t], [id |-> Head(E).id, size |-> x.bytes])
  /\ x.bytes = 0 => output_buffers' = output_buffers
  /\ x.bytes = 0 => memory' = memory \/ (Uses(x, consumes) /\ Free({Head(E).id}))
  /\ \A h \in Handles, s \in Streams : h # Head(H) \/ s # t => output_buffers'[h][s] = output_buffers[h][s]
  /\ cs = Nobody /\ cs'.who = "interrupt" /\ cs'.stream = t /\ cs'.last = x.last
  /\ UNCHANGED <<enqueued_handles, num_handles, active_streams, finished_streams, dropped, state, fpga_buffers,
                 jobs, consumes, received, produced, spoilt, misled>>

LEMMA InterruptPops ==
  ASSUME Types, HandleInterrupt
  PROVE  \E x, t, H, E : H = enqueued_handles[t] /\ E = enqueued_buffers[t] /\ Pops(x, t, H, E)
  <1>1. PICK x, t : x = Head(interrupts) /\ t = x.stream  OBVIOUS
  <1>2. PICK H, E : H = enqueued_handles[t] /\ E = enqueued_buffers[t]  OBVIOUS
  <1>3. PICK h, b : h = Head(H) /\ b = Head(E)  OBVIOUS
  <1>4. /\ x \in Notification /\ t \in Streams /\ H # <<>> /\ E # <<>>
        /\ interrupts # <<>> /\ interrupts' = Tail(interrupts)
    BY <1>1, <1>2, PopFacts
  <1>5. H \in Seq(Handles) /\ enqueued_buffers \in [Streams -> Seq(Buffer)]
    BY <1>2, <1>4 DEF Types, HandleTypes, BufferTypes
  <1>6. h \in Handles /\ output_buffers \in [Handles -> [Streams -> Seq(Delivered)]] /\ x.bytes \in Nat
    BY <1>3, <1>4, <1>5 DEF Types, BufferTypes, Notification
  <1>7. /\ x.bytes > 0 =>
             /\ output_buffers' = [output_buffers EXCEPT ![h][t] = Append(@, [id |-> b.id, size |-> x.bytes])]
             /\ enqueued_buffers' = [enqueued_buffers EXCEPT ![t] = Tail(@)]
             /\ UNCHANGED <<free, memory>>
        /\ ~ (x.bytes > 0) =>
             /\ (IF consumes THEN Free({b.id}) /\ enqueued_buffers' = [enqueued_buffers EXCEPT ![t] = Tail(@)]
                 ELSE UNCHANGED <<free, memory, enqueued_buffers>>)
             /\ UNCHANGED output_buffers
    <2>1. MoveCurrentBuffer(t, x.bytes)  BY <1>1 DEF HandleInterrupt
    <2> QED BY <2>1, <1>2, <1>3 DEF MoveCurrentBuffer, HasOutput, FreesEmptyBuffer
  <1>8. /\ enqueued_buffers'[t] = (IF Uses(x, consumes) THEN Tail(E) ELSE E)
        /\ \A s \in Streams \ {t} : enqueued_buffers'[s] = enqueued_buffers[s]
    <2>1. Uses(x, consumes) => enqueued_buffers' = [enqueued_buffers EXCEPT ![t] = Tail(@)]
      BY <1>6, <1>7 DEF Uses
    <2>2. ~ Uses(x, consumes) => enqueued_buffers' = enqueued_buffers  BY <1>6, <1>7 DEF Uses
    <2> QED BY <2>1, <2>2, <1>2, <1>4, <1>5
  <1>9. x.bytes > 0 => /\ memory' = memory
                       /\ output_buffers'[h][t] = Append(output_buffers[h][t], [id |-> b.id, size |-> x.bytes])
    BY <1>4, <1>6, <1>7
  <1>10. x.bytes = 0 => /\ output_buffers' = output_buffers
                        /\ memory' = memory \/ (Uses(x, consumes) /\ Free({b.id}))
    BY <1>6, <1>7 DEF Uses
  <1>11. \A k \in Handles, s \in Streams : k # h \/ s # t => output_buffers'[k][s] = output_buffers[k][s]
    <2>1. PICK e : e = [id |-> b.id, size |-> x.bytes]  OBVIOUS
    <2>2. output_buffers' = output_buffers \/ output_buffers' = [output_buffers EXCEPT ![h][t] = Append(@, e)]
      BY <2>1, <1>7
    <2> QED BY <2>2, <1>4, <1>6
  <1>12. cs = Nobody /\ cs'.who = "interrupt" /\ cs'.stream = t /\ cs'.last = x.last
    BY <1>1 DEF HandleInterrupt, IsLast
  <1>13. UNCHANGED <<enqueued_handles, num_handles, active_streams, finished_streams, dropped, state, fpga_buffers,
                     jobs, consumes, received, produced, spoilt, misled>>
    BY DEF HandleInterrupt, histVars, failVars
  <1>14. Pops(x, t, H, E)  BY <1>1, <1>3, <1>4, <1>8, <1>9, <1>10, <1>11, <1>12, <1>13 DEF Pops
  <1> QED BY <1>2, <1>14

\* How far the first handle and the others are now.
LEMMA ReachedFirst ==
  ASSUME NEW H \in Seq(Handles), H # <<>>, Once(H), NEW x \in Notification, NEW a \in Nat, NEW g, NEW full, NEW fresh,
         NEW m, m = a + x.bytes, m <= g, x.last => m = g, full => x.last, ~ fresh,
         NEW K, K = IF x.last THEN Tail(H) ELSE H, NEW b, b = IF x.last THEN 0 ELSE m, NEW h, h = Head(H)
  PROVE  Reached(m, h, K, b, g, full, fresh)
  <1>1. CASE x.last
    <2>1. K = Tail(H) /\ Absent(h, K)  BY <1>1, OnceTail
    <2>2. \A i \in 1 .. Len(K) : K[i] = h => m = (IF i = 1 THEN b ELSE 0)  BY <2>1 DEF Absent
    <2> QED BY <2>2, <1>1 DEF Reached
  <1>2. CASE ~ x.last
    <2>1. K = H /\ b = m  BY <1>2
    <2>2. \A i \in 1 .. Len(H) : H[i] = h => i = 1  BY DEF Once
    <2>3. \A i \in 1 .. Len(K) : K[i] = h => m = (IF i = 1 THEN b ELSE 0)  BY <2>1, <2>2
    <2> QED BY <2>3, <1>2 DEF Reached
  <1> QED BY <1>1, <1>2

LEMMA ReachedOther ==
  ASSUME NEW H \in Seq(Handles), H # <<>>, NEW x, NEW a, NEW g, NEW full, NEW fresh, NEW m, NEW h, h # Head(H),
         Reached(m, h, H, a, g, full, fresh), NEW full2, full2 => full,
         NEW K, K = IF x.last THEN Tail(H) ELSE H, NEW b, x.last => b = 0
  PROVE  Reached(m, h, K, b, g, full2, fresh)
  <1>1. PICK n \in Nat : n + 1 = Len(H)
    <2>1. Len(H) \in Nat /\ Len(H) # 0  OBVIOUS
    <2>2. Len(H) - 1 \in Nat /\ (Len(H) - 1) + 1 = Len(H)  BY <2>1
    <2> QED BY <2>2
  <1>2. CASE x.last
    <2>1. Len(K) = n /\ \A i \in 1 .. n : K[i] = H[i + 1]  BY <1>1, <1>2
    <2>2. ASSUME NEW i \in 1 .. n, K[i] = h PROVE m = 0
      <3>1. i + 1 \in 1 .. Len(H) /\ i + 1 # 1 /\ H[i + 1] = h  BY <2>1, <2>2, <1>1
      <3> QED BY <3>1 DEF Reached
    <2>3. \A i \in 1 .. Len(K) : K[i] = h => m = (IF i = 1 THEN b ELSE 0)  BY <2>1, <2>2, <1>2
    <2> QED BY <2>3 DEF Reached
  <1>3. CASE ~ x.last
    <2>1. K = H  BY <1>3
    <2>2. ASSUME NEW i \in 1 .. Len(H), H[i] = h PROVE i # 1 /\ m = 0
      <3>1. i # 1  BY <2>2
      <3> QED BY <3>1, <2>2 DEF Reached
    <2>3. \A i \in 1 .. Len(K) : K[i] = h => m = (IF i = 1 THEN b ELSE 0)  BY <2>1, <2>2
    <2> QED BY <2>3 DEF Reached
  <1> QED BY <1>2, <1>3

LEMMA PopMarks ==
  ASSUME NEW x, NEW t, NEW H, NEW E, Pops(x, t, H, E), NEW s \in Streams
  PROVE  /\ Ahead(s) = enqueued_handles[s] /\ Coming(s) = 0 /\ Coming(s)' = 0 /\ Fresh' = Fresh /\ Goal(s)' = Goal(s)
         /\ Ahead(s)' = IF s = t /\ x.last THEN Tail(enqueued_handles[s]) ELSE enqueued_handles[s]
         /\ \A h : Full(h, s) <=> s \in finished_streams[h]
         /\ \A h : Full(h, s)' <=> s \in finished_streams[h] \/ (s = t /\ x.last /\ h = Head(enqueued_handles[s]))
  <1>1. cs.who = "nobody" /\ cs'.who = "interrupt" /\ cs'.stream = t /\ cs'.last = x.last
    BY DEF Pops, Nobody
  <1>2. UNCHANGED <<enqueued_handles, num_handles, active_streams, finished_streams, produced>>
    BY DEF Pops
  <1>3. ~ Marking(s) /\ (Marking(s)' <=> s = t /\ x.last)  BY <1>1 DEF Marking
  <1>4. Ahead(s) = enqueued_handles[s] /\ Ahead(s)' = IF s = t /\ x.last THEN Tail(enqueued_handles[s]) ELSE enqueued_handles[s]
    BY <1>2, <1>3 DEF Ahead
  <1>5. Coming(s) = 0 /\ Coming(s)' = 0  BY <1>1 DEF Coming
  <1>6. Fresh' = Fresh  BY <1>1, <1>2 DEF Fresh
  <1>7. Goal(s)' = Goal(s)  BY <1>2 DEF Goal
  <1>8. \A h : Full(h, s) <=> s \in finished_streams[h]  BY <1>3 DEF Full
  <1>9. \A h : Full(h, s)' <=> s \in finished_streams[h] \/ (s = t /\ x.last /\ h = Head(enqueued_handles[s]))
    BY <1>2, <1>3 DEF Full
  <1> QED BY <1>4, <1>5, <1>6, <1>7, <1>8, <1>9

\* What is in memory: the buffer an empty output used is freed.
LEMMA PopMemory ==
  ASSUME BufferTypes, Accounted, NEW x, NEW t, NEW E, NEW H, E = enqueued_buffers[t], Pops(x, t, H, E), NEW s \in Streams
  PROVE  /\ \A b \in IdSet(enqueued_buffers'[s]) : memory'[b] = memory[b]
         /\ \A h \in Handles : \A b \in IdSet(output_buffers[h][s]) : memory'[b] = memory[b]
  <1>1. CASE memory' = memory  BY <1>1
  <1>2. CASE ~ (memory' = memory)
    <2>1. x.bytes = 0 \/ x.bytes > 0
      <3>1. x \in Notification  BY DEF Pops
      <3>2. x.bytes \in Nat  BY <3>1 DEF Notification
      <3> QED BY <3>2
    <2>2. x.bytes = 0 /\ Uses(x, consumes) /\ Free({Head(E).id}) /\ t \in Streams /\ E # <<>>
      BY <1>2, <2>1 DEF Pops
    <2>3. E \in Seq(Buffer) /\ Distinct(E)  BY <2>2, IdsApart DEF BufferTypes
    <2>4. Head(E).id \notin IdSet(Tail(E)) /\ IdSet(Tail(E)) \subseteq IdSet(E) /\ Head(E).id \in IdSet(E)
      BY <2>2, <2>3, TailIds
    <2>5. {Head(E).id} \subseteq IdsIn(enqueued_buffers)  BY <2>2, <2>4, IdsInAre
    <2>6. \A h \in Handles, u \in Streams : \A b \in IdSet(output_buffers[h][u]) : memory'[b] = memory[b]
      BY <2>2, <2>5, FreesEnqueued
    <2>7. IdSet(enqueued_buffers'[s]) \subseteq BufferIds /\ Head(E).id \notin IdSet(enqueued_buffers'[s])
      <3>1. CASE s = t
        <4>1. enqueued_buffers'[s] = Tail(E)  BY <3>1, <2>2 DEF Pops
        <4>2. IdSet(E) \subseteq BufferIds  BY <2>2, IdsOfPool
        <4> QED BY <4>1, <4>2, <2>4
      <3>2. CASE s # t
        <4>1. enqueued_buffers'[s] = enqueued_buffers[s]  BY <3>2 DEF Pops
        <4>2. IdSet(enqueued_buffers[s]) \subseteq BufferIds  BY IdsOfPool
        <4>3. IdSet(enqueued_buffers[s]) \cap IdSet(enqueued_buffers[t]) = {}
          BY <3>2, <2>2, IdsApart
        <4> QED BY <4>1, <4>2, <4>3, <2>4
      <3> QED BY <3>1, <3>2
    <2>8. IdSet(enqueued_buffers'[s]) \cap {Head(E).id} = {}  BY <2>7
    <2>9. \A b \in IdSet(enqueued_buffers'[s]) : memory'[b] = memory[b]
      BY <2>2, <2>7, <2>8, FreeKeeps
    <2> QED BY <2>6, <2>9
  <1> QED BY <1>1, <1>2

\* The memory changes, but not what the buffers hold.
LEMMA PipeMemory ==
  ASSUME NEW s, NEW I \in Seq(Notification), NEW H, NEW E \in Seq(Buffer), NEW a, NEW B, NEW J \in Seq(Job),
         NEW P, NEW N, NEW G, NEW mem, NEW cons, NEW st, Pipe(s, I, H, E, a, B, J, P, N, G, mem, cons, st),
         NEW mem2, \A b \in IdSet(E) : mem2[b] = mem[b]
  PROVE  Pipe(s, I, H, E, a, B, J, P, N, G, mem2, cons, st)
  BY PipeKept

\* Another stream.
LEMMA PopElsewhere ==
  ASSUME Types, Accounted, NEW s \in Streams, StreamFlows(s), NEW x, NEW t, NEW H, NEW E, E = enqueued_buffers[t],
         Pops(x, t, H, E), s # t
  PROVE  StreamFlows(s)'
  <1>1. PICK a \in Nat, V \in Seq(Handles) :
          /\ Flowing(s, V, a)
          /\ V = <<>> => a = 0
          /\ Rightful(s, V)
          /\ \A k \in Handles : Clean(k, s) => Level(k, s, a)
    BY DEF StreamFlows
  <1>2. /\ Ahead(s)' = Ahead(s) /\ Coming(s)' = Coming(s) /\ Fresh' = Fresh /\ Goal(s)' = Goal(s)
        /\ \A h : Full(h, s)' => Full(h, s)
    BY PopMarks
  <1>3. /\ \A b \in IdSet(enqueued_buffers'[s]) : memory'[b] = memory[b]
        /\ \A h \in Handles : \A b \in IdSet(output_buffers[h][s]) : memory'[b] = memory[b]
    BY PopMemory DEF Types
  <1>4. /\ enqueued_buffers'[s] = enqueued_buffers[s] /\ interrupts # <<>> /\ x = Head(interrupts) /\ x.stream # s
        /\ interrupts' = Tail(interrupts)
        /\ UNCHANGED <<dropped, state, fpga_buffers, jobs, consumes, received, produced, spoilt, misled>>
        /\ \A h \in Handles : output_buffers'[h][s] = output_buffers[h][s]
    BY DEF Pops
  <1>5. PICK I, F, B, J, N, G, mem, cons, st, mem2 :
          /\ I = interrupts /\ F = enqueued_buffers[s] /\ B = fpga_buffers[s] /\ J = jobs[s]
          /\ N = Fresh /\ G = Goal(s) /\ mem = memory /\ cons = consumes /\ st = state /\ mem2 = memory'
    OBVIOUS
  <1>6. I \in Seq(Notification) /\ F \in Seq(Buffer) /\ J \in Seq(Job)
    BY <1>5 DEF Types, BufferTypes, FpgaTypes
  <1>7. Pipe(s, I, V, F, a, B, J, 0, N, G, mem, cons, st)  BY <1>1, <1>5 DEF Flowing
  <1>8. Tail(I) \in Seq(Notification) /\ x = Head(I) /\ I # <<>>  BY <1>4, <1>5, <1>6
  <1>9. Pipe(s, Tail(I), V, F, a, B, J, 0, N, G, mem, cons, st)
    BY <1>4, <1>6, <1>7, <1>8, PipePassesBy
  <1>10. \A b \in IdSet(F) : mem2[b] = mem[b]  BY <1>3, <1>4, <1>5
  <1>11. Pipe(s, Tail(I), V, F, a, B, J, 0, N, G, mem2, cons, st)
    BY <1>6, <1>8, <1>9, <1>10, PipeMemory
  <1>12. Flowing(s, V, a)'  BY <1>2, <1>4, <1>5, <1>11 DEF Flowing
  <1>13. /\ Rightful(s, V)'
         /\ \A h \in Handles : Clean(h, s)' => Clean(h, s)
    BY <1>1, <1>2, <1>4, SameRightful
  <1>14. ASSUME NEW h \in Handles, Clean(h, s)' PROVE Level(h, s, a)'
    <2>1. Level(h, s, a) /\ output_buffers[h][s] \in Seq(Delivered)
      BY <1>1, <1>13, <1>14 DEF Types, BufferTypes
    <2>2. output_buffers'[h][s] = output_buffers[h][s] /\ received'[h][s] = received[h][s] /\ produced'[h][s] = produced[h][s]
      BY <1>4
    <2>3. \A b \in IdSet(output_buffers[h][s]) : memory'[b] = memory[b]  BY <1>3
    <2> QED BY <2>1, <2>2, <2>3, <1>2, LevelKept
  <1> QED BY <1>1, <1>12, <1>13, <1>14 DEF StreamFlows

\* From (V, a) the interrupt leads to (W, b).
After(x, V, a, W, b) ==
  /\ W = (IF x.last THEN Tail(V) ELSE V)
  /\ b = (IF x.last THEN 0 ELSE a + x.bytes)

\* The interrupt is of this stream: its pipe.
LEMMA PopPipe ==
  ASSUME Types, Accounted, NEW x, NEW t, NEW H, NEW E, E = enqueued_buffers[t], Pops(x, t, H, E),
         NEW a \in Nat, NEW V, Flowing(t, V, a),
         NEW b, NEW W, After(x, V, a, W, b)
  PROVE  /\ Flowing(t, W, b)'
         /\ V # <<>> /\ Fits(At(V, E, a), x, Fresh, Goal(t))
         /\ x.bytes > 0 => memory[Head(E).id] = Output(Head(V), t, a + 1, a + x.bytes)
  <1>1. t \in Streams  BY DEF Pops
  <1>2. Fresh' = Fresh /\ Goal(t)' = Goal(t)  BY <1>1, PopMarks
  <1>3. /\ enqueued_buffers'[t] = (IF Uses(x, consumes) THEN Tail(E) ELSE E)
        /\ interrupts # <<>> /\ x = Head(interrupts) /\ x.stream = t /\ interrupts' = Tail(interrupts) /\ E # <<>>
        /\ UNCHANGED <<state, fpga_buffers, jobs, consumes>>
    BY DEF Pops
  <1>4. PICK I, B, J, N, G, mem, cons, st, mem2 :
          /\ I = interrupts /\ B = fpga_buffers[t] /\ J = jobs[t]
          /\ N = Fresh /\ G = Goal(t) /\ mem = memory /\ cons = consumes /\ st = state /\ mem2 = memory'
    OBVIOUS
  <1>5. I \in Seq(Notification) /\ E \in Seq(Buffer) /\ J \in Seq(Job)
    BY <1>1, <1>4 DEF Types, BufferTypes, FpgaTypes
  <1>6. Pipe(t, I, V, E, a, B, J, 0, N, G, mem, cons, st)  BY <1>4 DEF Flowing
  <1>7. Tail(I) \in Seq(Notification) /\ x = Head(I) /\ I # <<>>  BY <1>3, <1>4, <1>5
  <1>8. PICK F : F = enqueued_buffers'[t]  OBVIOUS
  <1>9. /\ Delivers(t, At(V, E, a), x, N, IdSet(B), G, mem, cons)
        /\ Pipe(t, Tail(I), W, F, b, B, J, 0, N, G, mem, cons, st)
    <2>1. Leads(x, cons, V, E, a, W, F, b)  BY <1>3, <1>4, <1>8 DEF Leads, After
    <2>2. x.stream = t  BY <1>3
    <2> QED BY <2>1, <2>2, <1>5, <1>6, <1>7, PipePops
  <1>10. F \in Seq(Buffer)
    <2>1. Tail(E) \in Seq(Buffer)  BY <1>3, <1>5
    <2> QED BY <2>1, <1>3, <1>5, <1>8
  <1>11. \A i \in IdSet(F) : mem2[i] = mem[i]
    <2>1. \A i \in IdSet(enqueued_buffers'[t]) : memory'[i] = memory[i]
      BY <1>1, PopMemory DEF Types
    <2> QED BY <2>1, <1>4, <1>8
  <1>12. Pipe(t, Tail(I), W, F, b, B, J, 0, N, G, mem2, cons, st)
    BY <1>5, <1>7, <1>9, <1>10, <1>11, PipeMemory
  <1>13. Flowing(t, W, b)'  BY <1>2, <1>3, <1>4, <1>8, <1>12 DEF Flowing
  <1>14. V # <<>> /\ Fits(At(V, E, a), x, Fresh, Goal(t))  BY <1>4, <1>9 DEF Delivers, At
  <1>15. x.bytes > 0 => memory[Head(E).id] = Output(Head(V), t, a + 1, a + x.bytes)
    BY <1>4, <1>9 DEF Delivers, Filled, At
  <1> QED BY <1>13, <1>14, <1>15

\* The interrupt is about whose turn it is.
LEMMA PopRightful ==
  ASSUME Types, NEW x, NEW t, NEW H, NEW E, H = enqueued_handles[t], Pops(x, t, H, E),
         NEW V \in Seq(Handles), V # <<>>, Rightful(t, V), NEW W, W = IF x.last THEN Tail(V) ELSE V
  PROVE  /\ Clean(Head(H), t) => Head(V) = Head(H)
         /\ Rightful(t, W)'
  <1>1. t \in Streams /\ H # <<>> /\ UNCHANGED <<dropped, spoilt, misled>>  BY DEF Pops
  <1>2. H \in Seq(Handles)  BY <1>1 DEF Types, HandleTypes
  <1>3. PICK K : K = IF x.last THEN Tail(H) ELSE H  OBVIOUS
  <1>4. Ahead(t) = H /\ Coming(t) = 0 /\ Coming(t)' = 0 /\ Ahead(t)' = K  BY <1>1, <1>3, PopMarks
  <1>5. CASE t \in spoilt
    <2>1. InPlace(t, V)  BY <1>5 DEF Rightful
    <2>2. \A i \in 1 .. Len(H) : Clean(H[i], t) => i <= Len(V) /\ V[i] = H[i]
      BY <2>1, <1>4 DEF InPlace
    <2>3. 1 \in 1 .. Len(H) /\ Head(H) = H[1] /\ Head(V) = V[1]  BY <1>1, <1>2
    <2>4. Clean(Head(H), t) => Head(V) = Head(H)  BY <2>2, <2>3
    <2>5. ASSUME NEW i \in 1 .. Len(K), Clean(K[i], t) PROVE i <= Len(W) /\ W[i] = K[i]
      <3>1. CASE x.last
        <4>1. K = Tail(H) /\ W = Tail(V)  BY <3>1, <1>3
        <4>2. i + 1 \in 1 .. Len(H) /\ K[i] = H[i + 1]  BY <4>1, <1>1, <1>2
        <4>3. i + 1 <= Len(V) /\ V[i + 1] = K[i]  BY <4>2, <2>2, <2>5
        <4> QED BY <4>1, <4>3
      <3>2. CASE ~ x.last  BY <3>2, <2>2, <2>5, <1>3
      <3> QED BY <3>1, <3>2
    <2>6. InPlace(t, W)'  BY <2>5, <1>1, <1>4 DEF InPlace, Clean
    <2> QED BY <2>4, <2>6, <1>1, <1>5 DEF Rightful
  <1>6. CASE t \notin spoilt
    <2>1. H = V  BY <1>4, <1>6 DEF Rightful, Expected
    <2>2. K = W  BY <2>1, <1>3
    <2>3. Expected(t, W)'  BY <2>2, <1>4 DEF Expected
    <2> QED BY <2>1, <2>3, <1>1, <1>6 DEF Rightful
  <1> QED BY <1>5, <1>6

\* What its first handle has.
LEMMA PopFirst ==
  ASSUME Types, Accounted, HandlesOnce, NEW x, NEW t, NEW H, NEW E, H = enqueued_handles[t], E = enqueued_buffers[t],
         Pops(x, t, H, E), NEW a \in Nat, NEW V, Head(V) = Head(H), Fits(At(V, E, a), x, Fresh, Goal(t)),
         x.bytes > 0 => memory[Head(E).id] = Output(Head(V), t, a + 1, a + x.bytes),
         NEW b, b = IF x.last THEN 0 ELSE a + x.bytes, NEW h, h = Head(H), Level(h, t, a)
  PROVE  Level(h, t, b)'
  <1>1. t \in Streams /\ x \in Notification /\ H # <<>> /\ E # <<>>  BY DEF Pops
  <1>2. H \in Seq(Handles) /\ E \in Seq(Buffer) /\ Once(H) /\ h \in Handles /\ h = H[1]
    <2>1. H \in Seq(Handles)  BY <1>1 DEF Types, HandleTypes
    <2>2. E \in Seq(Buffer)  BY <1>1 DEF Types, BufferTypes
    <2>3. Once(H)  BY <1>1 DEF HandlesOnce
    <2>4. h \in Handles /\ h = H[1]  BY <2>1, <1>1
    <2> QED BY <2>1, <2>2, <2>3, <2>4
  <1>3. PICK m \in Nat : /\ Holds(h, t, output_buffers[h][t], received[h][t], memory, m)
                         /\ Reached(m, h, Ahead(t), a, Len(produced[h][t]), Full(h, t), h \in Fresh)
    BY DEF Level
  <1>4. /\ Ahead(t) = H /\ Fresh' = Fresh
        /\ Ahead(t)' = (IF x.last THEN Tail(H) ELSE H)
    BY <1>1, PopMarks
  <1>5. Full(h, t)' => x.last
    <2>1. Full(h, t)' <=> t \in finished_streams[h] \/ (x.last /\ h = Head(H))  BY <1>1, PopMarks
    <2>2. t \notin finished_streams[H[1]]
      <3>1. 1 \in 1 .. Len(H)  BY <1>1, <1>2
      <3> QED BY <3>1, <1>1 DEF HandlesOnce
    <2> QED BY <2>1, <2>2, <1>2
  <1>6. m = a
    <2>1. 1 \in 1 .. Len(H) /\ H[1] = h  BY <1>1, <1>2
    <2> QED BY <2>1, <1>3, <1>4 DEF Reached
  <1>7. PICK n, g, full, fresh : n = a + x.bytes /\ g = Len(produced[h][t]) /\ full = Full(h, t)' /\ fresh = (h \in Fresh)
    OBVIOUS
  <1>8. n <= g /\ (x.last => n = g) /\ ~ fresh
    <2>1. Goal(t)[h] = g  BY <1>2, <1>7 DEF Goal
    <2>2. h \notin Fresh /\ a + x.bytes <= Goal(t)[h] /\ (x.last => a + x.bytes = Goal(t)[h])
      BY DEF Fits, At
    <2> QED BY <2>1, <2>2, <1>7
  <1>9. PICK K : K = IF x.last THEN Tail(H) ELSE H  OBVIOUS
  <1>10. Reached(n, h, K, b, g, full, fresh)
    <2>1. full => x.last  BY <1>5, <1>7
    <2>2. b = IF x.last THEN 0 ELSE n  BY <1>7
    <2>3. n = a + x.bytes  BY <1>7
    <2> QED BY <2>1, <2>2, <2>3, <1>1, <1>2, <1>8, <1>9, ReachedFirst
  <1>11. Reached(n, h, Ahead(t)', b, Len(produced'[h][t]), Full(h, t)', h \in Fresh')
    <2>1. produced' = produced  BY DEF Pops
    <2> QED BY <2>1, <1>4, <1>7, <1>9, <1>10
  <1>12. x.bytes \in Nat /\ n \in Nat
    <2>1. x.bytes \in Nat  BY <1>1 DEF Notification
    <2> QED BY <2>1, <1>7
  <1>13. PICK q, r, mem, mem2 : q = output_buffers[h][t] /\ r = received[h][t] /\ mem = memory /\ mem2 = memory'
    OBVIOUS
  <1>14. q \in Seq(Delivered)  BY <1>1, <1>2, <1>13 DEF Types, BufferTypes
  <1>15. Holds(h, t, q, r, mem, m)  BY <1>3, <1>13
  <1>16. Holds(h, t, output_buffers'[h][t], received'[h][t], memory', n)
    <2>1. received' = received  BY DEF Pops
    <2>2. CASE x.bytes > 0
      <3>1. PICK i, e : i = Head(E).id /\ e = [id |-> i, size |-> x.bytes]  OBVIOUS
      <3>2. Head(E) \in Buffer  BY <1>1, <1>2
      <3>3. i \in BufferIds  BY <3>1, <3>2 DEF Buffer
      <3>4. e \in Delivered /\ e.id = i  BY <3>1, <3>3, <2>2, <1>12 DEF Delivered
      <3>5. mem[e.id] = Output(h, t, m + 1, m + x.bytes)  BY <3>1, <3>4, <2>2, <1>6, <1>13
      <3>6. Holds(h, t, Append(q, e), r, mem, m + x.bytes)
        BY <3>4, <3>5, <1>12, <1>14, <1>15, HoldsMore
      <3>7. output_buffers'[h][t] = Append(q, e) /\ memory' = mem  BY <3>1, <2>2, <1>13 DEF Pops
      <3> QED BY <3>6, <3>7, <2>1, <1>6, <1>7, <1>13
    <2>3. CASE x.bytes = 0
      <3>1. output_buffers'[h][t] = q /\ n = m
        <4>1. output_buffers' = output_buffers  BY <2>3 DEF Pops
        <4> QED BY <4>1, <2>3, <1>6, <1>7, <1>13
      <3>2. \A i \in IdSet(q) : mem2[i] = mem[i]
        <4>1. \A i \in IdSet(output_buffers[h][t]) : memory'[i] = memory[i]
          BY <1>1, <1>2, PopMemory DEF Types
        <4> QED BY <4>1, <1>13
      <3>3. Holds(h, t, q, r, mem2, m)  BY <3>2, <1>14, <1>15, HoldsKept
      <3> QED BY <3>1, <3>3, <2>1, <1>13
    <2> QED BY <2>2, <2>3, <1>12
  <1> QED BY <1>11, <1>12, <1>16 DEF Level

\* And the others.
LEMMA PopOther ==
  ASSUME Types, Accounted, NEW x, NEW t, NEW H, NEW E, H = enqueued_handles[t], E = enqueued_buffers[t],
         Pops(x, t, H, E), NEW a \in Nat, NEW b, b = IF x.last THEN 0 ELSE a + x.bytes,
         NEW h \in Handles, h # Head(H), Level(h, t, a)
  PROVE  Level(h, t, b)'
  <1>1. t \in Streams /\ H # <<>>  BY DEF Pops
  <1>2. H \in Seq(Handles) /\ output_buffers[h][t] \in Seq(Delivered)
    BY <1>1 DEF Types, HandleTypes, BufferTypes
  <1>3. PICK m \in Nat : /\ Holds(h, t, output_buffers[h][t], received[h][t], memory, m)
                         /\ Reached(m, h, Ahead(t), a, Len(produced[h][t]), Full(h, t), h \in Fresh)
    BY DEF Level
  <1>4. /\ Ahead(t) = H /\ Fresh' = Fresh
        /\ Ahead(t)' = (IF x.last THEN Tail(H) ELSE H)
    BY <1>1, PopMarks
  <1>5. Full(h, t)' => Full(h, t)  BY <1>1, PopMarks
  <1>6. PICK K, g, full, full2, fresh :
          /\ K = Ahead(t)' /\ g = Len(produced[h][t]) /\ full = Full(h, t) /\ full2 = Full(h, t)' /\ fresh = (h \in Fresh)
    OBVIOUS
  <1>7. Reached(m, h, H, a, g, full, fresh)  BY <1>3, <1>4, <1>6
  <1>8. (full2 => full) /\ K = (IF x.last THEN Tail(H) ELSE H) /\ (x.last => b = 0)
    BY <1>4, <1>5, <1>6
  <1>9. Reached(m, h, K, b, g, full2, fresh)  BY <1>1, <1>2, <1>7, <1>8, ReachedOther
  <1>10. Reached(m, h, Ahead(t)', b, Len(produced'[h][t]), Full(h, t)', h \in Fresh')
    <2>1. produced' = produced  BY DEF Pops
    <2> QED BY <2>1, <1>4, <1>6, <1>9
  <1>11. Holds(h, t, output_buffers'[h][t], received'[h][t], memory', m)
    <2>1. output_buffers'[h][t] = output_buffers[h][t] /\ received' = received  BY <1>1 DEF Pops
    <2>2. \A i \in IdSet(output_buffers[h][t]) : memory'[i] = memory[i]
      BY <1>1, PopMemory DEF Types
    <2>3. PICK q, r, mem, mem2 : q = output_buffers[h][t] /\ r = received[h][t] /\ mem = memory /\ mem2 = memory'
      OBVIOUS
    <2>4. Holds(h, t, q, r, mem2, m)  BY <2>2, <2>3, <1>2, <1>3, HoldsKept
    <2> QED BY <2>1, <2>3, <2>4
  <1> QED BY <1>10, <1>11 DEF Level

LEMMA PopFlows ==
  ASSUME Types, Accounted, OrderInv, NEW s \in Streams, StreamFlows(s), HandleInterrupt
  PROVE  StreamFlows(s)'
  <1>1. PICK x, t, H, E : H = enqueued_handles[t] /\ E = enqueued_buffers[t] /\ Pops(x, t, H, E)
    BY InterruptPops
  <1>2. CASE s # t  BY <1>1, <1>2, PopElsewhere
  <1>3. CASE s = t
    <2>1. PICK a \in Nat, V \in Seq(Handles) :
            /\ Flowing(t, V, a)
            /\ V = <<>> => a = 0
            /\ Rightful(t, V)
            /\ \A k \in Handles : Clean(k, t) => Level(k, t, a)
      BY <1>3 DEF StreamFlows
    <2>2. PICK b, W : b = (IF x.last THEN 0 ELSE a + x.bytes) /\ W = (IF x.last THEN Tail(V) ELSE V)
      OBVIOUS
    <2>3. /\ Flowing(t, W, b)'
          /\ V # <<>> /\ Fits(At(V, E, a), x, Fresh, Goal(t))
          /\ x.bytes > 0 => memory[Head(E).id] = Output(Head(V), t, a + 1, a + x.bytes)
      <3>1. E = enqueued_buffers[t] /\ Pops(x, t, H, E) /\ Flowing(t, V, a)  BY <1>1, <2>1
      <3>2. After(x, V, a, W, b)  BY <2>2 DEF After
      <3>3. E = enqueued_buffers[t] /\ a \in Nat  BY <1>1, <2>1
      <3>4. Pops(x, t, H, E)  BY <3>1
      <3>5. Flowing(t, V, a)  BY <3>1
      <3>6. Flowing(t, W, b)'  BY <3>2, <3>3, <3>4, <3>5, PopPipe, ZenonT(30)
      <3>7. V # <<>> /\ Fits(At(V, E, a), x, Fresh, Goal(t))
        BY <3>2, <3>3, <3>4, <3>5, PopPipe, ZenonT(30)
      <3>8. x.bytes > 0 => memory[Head(E).id] = Output(Head(V), t, a + 1, a + x.bytes)
        BY <3>2, <3>3, <3>4, <3>5, PopPipe, ZenonT(30)
      <3> QED BY <3>6, <3>7, <3>8
    <2>4. b \in Nat /\ W \in Seq(Handles)
      <3>1. x.bytes \in Nat  BY <1>1 DEF Pops, Notification
      <3> QED BY <3>1, <2>1, <2>2, <2>3
    <2>5. W = <<>> => b = 0  BY <2>2, <2>3
    <2>6. /\ Clean(Head(H), t) => Head(V) = Head(H)
          /\ Rightful(t, W)'
      BY <1>1, <2>1, <2>2, <2>3, PopRightful
    <2>7. ASSUME NEW h \in Handles, Clean(h, t)' PROVE Level(h, t, b)'
      <3>1. Clean(h, t)  BY <1>1, <2>7 DEF Pops, Clean
      <3>2. Level(h, t, a)  BY <2>1, <3>1
      <3>3. CASE h = Head(H)
        <4>1. Head(V) = Head(H)  BY <2>6, <3>1, <3>3
        <4> QED BY <1>1, <2>2, <2>3, <3>2, <3>3, <4>1, PopFirst DEF OrderInv
      <3>4. CASE h # Head(H)  BY <1>1, <2>2, <3>2, <3>4, PopOther
      <3> QED BY <3>3, <3>4
    <2> QED BY <2>3, <2>4, <2>5, <2>6, <2>7, <1>3 DEF StreamFlows
  <1> QED BY <1>2, <1>3

----
(* The FPGA produces output.                                                *)

\* Only the buffer that is written changes.
OnlyAt(i) == \A b \in BufferIds : b # i => memory'[b] = memory[b]

LEMMA WriteMemory ==
  ASSUME Types, Accounted, BuffersAgree, FlowTypes, NEW t \in Streams, NEW x, NEW J, NEW B, B = fpga_buffers[t], J = jobs[t],
         Produces(t, x, J, B)
  PROVE  /\ B \in Seq(Buffer) /\ B # <<>> /\ J # <<>> /\ Distinct(B) /\ state # "stale"
         /\ Head(B).id \in IdSet(enqueued_buffers[t])
         /\ OnlyAt(Head(B).id)
  <1>1. B # <<>> /\ J # <<>> /\ x \in Notification  BY DEF Produces
  <1>2. state # "stale"  BY <1>1 DEF BuffersAgree, Unused
  <1>3. B \in Seq(Buffer)  BY DEF Types, FpgaTypes
  <1>4. Distinct(B) /\ IdSet(B) \subseteq IdSet(enqueued_buffers[t])  BY <1>2, FpgaIds
  <1>5. Head(B).id \in IdSet(B)  BY <1>1, <1>3, <1>4, TailIds
  <1>6. PICK i, o : i = Head(B).id /\ o = Output(J[1].handle, t, J[1].done + 1, J[1].done + x.bytes)
    OBVIOUS
  <1>7. memory' = memory \/ memory' = [memory EXCEPT ![i] = o]
    <2>1. x.bytes = 0 \/ x.bytes > 0  BY <1>1 DEF Notification
    <2> QED BY <2>1, <1>6 DEF Produces
  <1>8. OnlyAt(i)
    <2>1. memory \in [BufferIds -> Seq(Part)]  BY DEF FlowTypes
    <2>2. ASSUME NEW b \in BufferIds, b # i PROVE memory'[b] = memory[b]  BY <2>1, <2>2, <1>7
    <2> QED BY <2>2 DEF OnlyAt
  <1> QED BY <1>1, <1>2, <1>3, <1>4, <1>5, <1>6, <1>8

\* What the other places hold.
LEMMA WriteKeeps ==
  ASSUME Types, Accounted, BuffersAgree, FlowTypes, NEW t \in Streams, NEW x, NEW J, NEW B, B = fpga_buffers[t], J = jobs[t],
         Produces(t, x, J, B), NEW s \in Streams
  PROVE  /\ s # t => \A b \in IdSet(enqueued_buffers[s]) : memory'[b] = memory[b]
         /\ \A h \in Handles : \A b \in IdSet(output_buffers[h][s]) : memory'[b] = memory[b]
  <1>1. PICK i : i = Head(B).id  OBVIOUS
  <1>2. i \in IdSet(enqueued_buffers[t]) /\ OnlyAt(i)  BY <1>1, WriteMemory
  <1>3. ASSUME s # t, NEW b \in IdSet(enqueued_buffers[s]) PROVE memory'[b] = memory[b]
    <2>1. IdSet(enqueued_buffers[s]) \cap IdSet(enqueued_buffers[t]) = {}
      BY <1>3, IdsApart DEF Types
    <2>2. b \in BufferIds  BY <1>3, IdsOfPool DEF Types
    <2> QED BY <2>1, <2>2, <1>2, <1>3 DEF OnlyAt
  <1>4. ASSUME NEW h \in Handles, NEW b \in IdSet(output_buffers[h][s]) PROVE memory'[b] = memory[b]
    <2>1. IdSet(enqueued_buffers[t]) \cap IdSet(output_buffers[h][s]) = {}  BY IdsApart DEF Types
    <2>2. b \in BufferIds  BY <1>4, IdsOfPool DEF Types
    <2> QED BY <2>1, <2>2, <1>2, <1>4 DEF OnlyAt
  <1> QED BY <1>3, <1>4

LEMMA ProducesPipe ==
  ASSUME Types, Accounted, BuffersAgree, FlowTypes, FpgaTypes', NEW t \in Streams, NEW x, NEW J, NEW B,
         B = fpga_buffers[t], J = jobs[t], Produces(t, x, J, B), NEW a, NEW H, NEW P, NEW N, NEW G,
         Pipe(t, interrupts, H, enqueued_buffers[t], a, fpga_buffers[t], jobs[t], P, N, G, memory, consumes, state)
  PROVE  Pipe(t, interrupts', H, enqueued_buffers'[t], a, fpga_buffers'[t], jobs'[t], P, N, G, memory', consumes', state')
  <1>1. /\ B \in Seq(Buffer) /\ B # <<>> /\ J # <<>> /\ Distinct(B) /\ state # "stale"
        /\ Head(B).id \in IdSet(enqueued_buffers[t])
        /\ OnlyAt(Head(B).id)
    BY WriteMemory
  <1>2. PICK I, E, mem, cons, st : I = interrupts /\ E = enqueued_buffers[t] /\ mem = memory /\ cons = consumes /\ st = state
    OBVIOUS
  <1>3. PICK K, B2, mem2 : K = jobs'[t] /\ B2 = fpga_buffers'[t] /\ mem2 = memory'  OBVIOUS
  <1>4. I \in Seq(Notification) /\ E \in Seq(Buffer) /\ J \in Seq(Job)
    BY <1>2 DEF Types, BufferTypes, FpgaTypes
  <1>5. K \in Seq(Job)  BY <1>3 DEF FpgaTypes
  <1>6. x \in Notification /\ x.stream = t /\ st # "stale"  BY <1>1, <1>2 DEF Produces
  <1>7. B2 = (IF Uses(x, cons) THEN Tail(B) ELSE B)
    <2>1. fpga_buffers' = IF Uses(x, consumes) THEN [fpga_buffers EXCEPT ![t] = Tail(B)] ELSE fpga_buffers
      BY DEF Produces
    <2>2. fpga_buffers \in [Streams -> Seq(Buffer)]  BY DEF Types, FpgaTypes
    <2> QED BY <2>1, <2>2, <1>2, <1>3
  <1>8. Emits(J, x, K, B, B2, cons)
    <2>1. /\ JobsAfter(J, x, K) /\ J[1].done + x.bytes <= J[1].len
          /\ (x.last => J[1].done + x.bytes = J[1].len)
      BY <1>3 DEF Produces
    <2> QED BY <2>1, <1>1, <1>7 DEF Emits
  <1>9. Written(t, B, x, J, mem, mem2, E)
    <2>1. PICK i, o : i = Head(B).id /\ o = Output(J[1].handle, t, J[1].done + 1, J[1].done + x.bytes)
      OBVIOUS
    <2>2. i \in BufferIds  BY <2>1, <1>1, IdsOfPool DEF Types
    <2>3. ASSUME x.bytes > 0 PROVE mem2[i] = o
      <3>1. mem2 = [mem EXCEPT ![i] = o]  BY <2>1, <2>3, <1>2, <1>3 DEF Produces
      <3>2. mem \in [BufferIds -> Seq(Part)]  BY <1>2 DEF FlowTypes
      <3> QED BY <3>1, <3>2, <2>2
    <2>4. x.bytes = 0 => mem2 = mem  BY <1>2, <1>3 DEF Produces
    <2>5. ASSUME NEW b \in IdSet(E), b # i \/ x.bytes = 0 PROVE mem2[b] = mem[b]
      <3>1. b \in BufferIds  BY <2>5, <1>2, IdsOfPool DEF Types
      <3>2. b # i => memory'[b] = memory[b]  BY <3>1, <2>1, <1>1 DEF OnlyAt
      <3> QED BY <3>2, <2>4, <2>5, <1>2, <1>3
    <2> QED BY <2>1, <2>3, <2>5 DEF Written
  <1>10. Pipe(t, I, H, E, a, B, J, P, N, G, mem, cons, st)  BY <1>2
  <1>11. Pipe(t, Append(I, x), H, E, a, B2, K, P, N, G, mem2, cons, st)
    BY <1>1, <1>4, <1>5, <1>6, <1>8, <1>9, <1>10, PipeSends
  <1>12. interrupts' = Append(I, x) /\ enqueued_buffers' = enqueued_buffers /\ consumes' = cons /\ state' = st
    BY <1>2 DEF Produces
  <1> QED BY <1>2, <1>3, <1>11, <1>12

LEMMA ProducesElsewhere ==
  ASSUME Types, Accounted, BuffersAgree, FlowTypes, NEW t \in Streams, NEW x, NEW J, NEW B,
         B = fpga_buffers[t], J = jobs[t], Produces(t, x, J, B), NEW a, NEW H, NEW P, NEW N, NEW G, NEW s \in Streams, s # t,
         Pipe(s, interrupts, H, enqueued_buffers[s], a, fpga_buffers[s], jobs[s], P, N, G, memory, consumes, state)
  PROVE  Pipe(s, interrupts', H, enqueued_buffers'[s], a, fpga_buffers'[s], jobs'[s], P, N, G, memory', consumes', state')
  <1>1. /\ x \in Notification /\ x.stream = t /\ interrupts' = Append(interrupts, x) /\ jobs'[s] = jobs[s]
        /\ UNCHANGED <<enqueued_buffers, consumes, state>>
    BY DEF Produces
  <1>2. fpga_buffers'[s] = fpga_buffers[s]
    <2>1. fpga_buffers' = IF Uses(x, consumes) THEN [fpga_buffers EXCEPT ![t] = Tail(B)] ELSE fpga_buffers
      BY DEF Produces
    <2>2. fpga_buffers \in [Streams -> Seq(Buffer)]  BY DEF Types, FpgaTypes
    <2> QED BY <2>1, <2>2
  <1>3. PICK I, E, mem, cons, st, mem2 :
          /\ I = interrupts /\ E = enqueued_buffers[s] /\ mem = memory /\ cons = consumes /\ st = state /\ mem2 = memory'
    OBVIOUS
  <1>4. PICK C, K : C = fpga_buffers[s] /\ K = jobs[s]  OBVIOUS
  <1>5. I \in Seq(Notification) /\ E \in Seq(Buffer) /\ K \in Seq(Job)
    BY <1>3, <1>4 DEF Types, BufferTypes, FpgaTypes
  <1>6. Pipe(s, I, H, E, a, C, K, P, N, G, mem, cons, st)  BY <1>3, <1>4
  <1>7. x.stream # s  BY <1>1
  <1>8. Pipe(s, Append(I, x), H, E, a, C, K, P, N, G, mem, cons, st)
    BY <1>1, <1>5, <1>6, <1>7, PipeElsewhere
  <1>9. Append(I, x) \in Seq(Notification)  BY <1>1, <1>5
  <1>10. \A b \in IdSet(E) : mem2[b] = mem[b]
    <2>1. \A b \in IdSet(enqueued_buffers[s]) : memory'[b] = memory[b]  BY WriteKeeps
    <2> QED BY <2>1, <1>3
  <1>11. PICK I2 : I2 = Append(I, x)  OBVIOUS
  <1>12. Pipe(s, I2, H, E, a, C, K, P, N, G, mem2, cons, st)
    BY <1>5, <1>8, <1>9, <1>10, <1>11, PipeMemory
  <1> QED BY <1>1, <1>2, <1>3, <1>4, <1>11, <1>12

LEMMA ProducesFlows ==
  ASSUME Types, Accounted, BuffersAgree, FlowTypes, FpgaTypes', NEW s \in Streams, StreamFlows(s),
         NEW t \in Streams, NEW x, NEW J, NEW B, B = fpga_buffers[t], J = jobs[t], Produces(t, x, J, B)
  PROVE  StreamFlows(s)'
  <1>1. PICK a \in Nat, V \in Seq(Handles) :
          /\ Flowing(s, V, a)
          /\ V = <<>> => a = 0
          /\ Rightful(s, V)
          /\ \A k \in Handles : Clean(k, s) => Level(k, s, a)
    BY DEF StreamFlows
  <1>2. UNCHANGED <<enqueued_handles, num_handles, finished_streams, active_streams, cs, dropped, output_buffers,
                    received, produced, spoilt, misled>>
    BY DEF Produces, handleVars, histVars, failVars
  <1>3. Ahead(s)' = Ahead(s) /\ Coming(s)' = Coming(s) /\ Fresh' = Fresh /\ \A h : Full(h, s)' <=> Full(h, s)
    BY <1>2, SameMarks
  <1>4. Goal(s)' = Goal(s)  BY <1>2 DEF Goal
  <1>5. PICK P, N, G : P = 0 /\ N = Fresh /\ G = Goal(s)  OBVIOUS
  <1>6. Pipe(s, interrupts, V, enqueued_buffers[s], a, fpga_buffers[s], jobs[s], P, N, G, memory, consumes, state)
    BY <1>1, <1>5 DEF Flowing
  <1>7. Pipe(s, interrupts', V, enqueued_buffers'[s], a, fpga_buffers'[s], jobs'[s], P, N, G, memory', consumes', state')
    <2>1. CASE s = t
      <3>1. Pipe(t, interrupts, V, enqueued_buffers[t], a, fpga_buffers[t], jobs[t], P, N, G, memory, consumes, state)
        BY <2>1, <1>6
      <3>2. Pipe(t, interrupts', V, enqueued_buffers'[t], a, fpga_buffers'[t], jobs'[t], P, N, G, memory', consumes', state')
        BY <3>1, ProducesPipe
      <3> QED BY <3>2, <2>1
    <2>2. CASE s # t  BY <2>2, <1>6, ProducesElsewhere
    <2> QED BY <2>1, <2>2
  <1>8. Flowing(s, V, a)'  BY <1>3, <1>4, <1>5, <1>7 DEF Flowing
  <1>9. /\ Rightful(s, V)'
        /\ \A h \in Handles : Clean(h, s)' => Clean(h, s)
    BY <1>1, <1>2, <1>3, SameRightful
  <1>10. ASSUME NEW h \in Handles, Clean(h, s)' PROVE Level(h, s, a)'
    <2>1. Level(h, s, a) /\ output_buffers[h][s] \in Seq(Delivered)
      BY <1>1, <1>9, <1>10 DEF Types, BufferTypes
    <2>2. \A b \in IdSet(output_buffers[h][s]) : memory'[b] = memory[b]  BY WriteKeeps
    <2>3. output_buffers'[h][s] = output_buffers[h][s] /\ received'[h][s] = received[h][s] /\ produced'[h][s] = produced[h][s]
      BY <1>2
    <2> QED BY <2>1, <2>2, <2>3, <1>3, LevelKept
  <1> QED BY <1>1, <1>8, <1>9, <1>10 DEF StreamFlows

LEMMA FpgaFlows ==
  ASSUME Types, Accounted, BuffersAgree, FlowTypes, FpgaTypes', NEW s \in Streams, \A u \in Streams : StreamFlows(u), Fpga
  PROVE  StreamFlows(s)'
  <1>1. PICK t \in Streams : FpgaOutput(t) \/ FpgaEmptyOutput(t)  BY DEF Fpga
  <1>2. StreamFlows(s) /\ StreamFlows(t) /\ Room  BY DEF BuffersAgree
  <1>3. \E x : Produces(t, x, jobs[t], fpga_buffers[t])
    BY <1>1, <1>2, OutputProduces, EmptyProduces
  <1>4. PICK x, J, B : J = jobs[t] /\ B = fpga_buffers[t] /\ Produces(t, x, J, B)  BY <1>3
  <1> QED BY <1>2, <1>4, ProducesFlows

----
(* The invariant holds at the start and every step keeps it.                 *)

LEMMA FlowInit ==
  ASSUME Init
  PROVE  FlowInv
  <1>1. /\ enqueued_handles = [s \in Streams |-> <<>>] /\ enqueued_buffers = [s \in Streams |-> <<>>]
        /\ jobs = [s \in Streams |-> <<>>] /\ interrupts = <<>> /\ fpga_buffers = [s \in Streams |-> <<>>]
        /\ cs.who = "nobody" /\ state = "stale" /\ finished_streams = [h \in Handles |-> {}] /\ consumes \in BOOLEAN
    BY DEF Init, Nobody
  <1>2. /\ output_buffers = [h \in Handles |-> [s \in Streams |-> <<>>]]
        /\ received = [h \in Handles |-> [s \in Streams |-> <<>>]]
        /\ produced = [h \in Handles |-> [s \in Streams |-> <<>>]]
        /\ memory = [b \in BufferIds |-> <<>>]
    BY DEF Init
  <1>3. \A h \in Handles, s \in Streams : output_buffers[h][s] = <<>> /\ received[h][s] = <<>> /\ produced[h][s] = <<>>
    BY <1>2
  <1>4. FlowTypes
    <2>1. memory \in [BufferIds -> Seq(Part)]  BY <1>2
    <2>2. received \in [Handles -> [Streams -> Seq(Part)]] /\ produced \in [Handles -> [Streams -> Seq(Part)]]
      BY <1>2
    <2>3. ASSUME NEW h \in Handles, NEW s \in Streams PROVE produced[h][s] = Output(h, s, 1, Len(produced[h][s]))
      <3>1. produced[h][s] = <<>> /\ Len(produced[h][s]) = 0  BY <1>3
      <3> QED BY <3>1, NoOutput
    <2> QED BY <2>1, <2>2, <2>3 DEF FlowTypes
  <1>5. OrderInv
    <2>1. HandlesOnce  BY <1>1 DEF HandlesOnce, Once
    <2>2. Newest /\ NotYet  BY <1>1 DEF Newest, NotYet
    <2> QED BY <2>1, <2>2 DEF OrderInv
  <1>6. ASSUME NEW s \in Streams PROVE StreamFlows(s)
    <2>1. ~ Marking(s) /\ Ahead(s) = <<>> /\ \A h \in Handles : ~ Full(h, s)
      <3>1. ~ Marking(s)  BY <1>1 DEF Marking
      <3>2. Ahead(s) = <<>>  BY <3>1, <1>1 DEF Ahead
      <3>3. \A h \in Handles : ~ Full(h, s)  BY <3>1, <1>1 DEF Full
      <3> QED BY <3>1, <3>2, <3>3
    <2>2. PICK V : V = <<>>  OBVIOUS
    <2>3. PICK N, G, mem, cons, st, B :
            N = Fresh /\ G = Goal(s) /\ mem = memory /\ cons = consumes /\ st = state /\ B = fpga_buffers[s]
      OBVIOUS
    <2>4. Pipe(s, <<>>, <<>>, <<>>, 0, B, <<>>, 0, N, G, mem, cons, st)
      <3>1. st = "stale"  BY <1>1, <2>3
      <3> QED BY <3>1, PipeIdle
    <2>5. Flowing(s, V, 0)
      <3>1. interrupts = <<>> /\ enqueued_buffers[s] = <<>> /\ jobs[s] = <<>>  BY <1>1
      <3> QED BY <3>1, <2>2, <2>3, <2>4 DEF Flowing
    <2>6. ASSUME NEW h \in Handles PROVE Level(h, s, 0)
      <3>1. Holds(h, s, output_buffers[h][s], received[h][s], memory, 0)  BY <1>3, HoldsNone
      <3>2. PICK g, full, fresh : g = Len(produced[h][s]) /\ full = Full(h, s) /\ fresh = (h \in Fresh)
        OBVIOUS
      <3>3. g = 0 /\ ~ full  BY <1>3, <2>1, <3>2
      <3>4. Reached(0, h, <<>>, 0, g, full, fresh)  BY <3>3 DEF Reached
      <3>5. Reached(0, h, Ahead(s), 0, Len(produced[h][s]), Full(h, s), h \in Fresh)
        BY <3>2, <3>4, <2>1
      <3>6. 0 \in Nat  OBVIOUS
      <3> QED BY <3>1, <3>5, <3>6 DEF Level
    <2>7. Rightful(s, V)
      <3>1. s \notin spoilt /\ Coming(s) = 0  BY <1>1 DEF Init, Coming
      <3> QED BY <3>1, <2>1, <2>2 DEF Rightful, Expected
    <2>8. 0 \in Nat /\ V \in Seq(Handles) /\ (V = <<>> => 0 = 0)  BY <2>2
    <2> QED BY <2>5, <2>6, <2>7, <2>8 DEF StreamFlows
  <1>7. Warned  BY <1>1 DEF Init, Warned
  <1> QED BY <1>4, <1>5, <1>6, <1>7 DEF FlowInv

LEMMA BeginWarned ==
  ASSUME Types, Warned, num_handles' = num_handles + 1, num_handles + 1 \in Handles, cs'.handle = num_handles + 1,
         UNCHANGED spoilt, NEW S \in SUBSET Streams, active_streams' = [active_streams EXCEPT ![num_handles + 1] = S],
         misled' = [misled EXCEPT ![num_handles + 1] = S \cap spoilt]
  PROVE  Warned'
  <1>1. PICK n \in Nat : n = num_handles  BY DEF Types, HandleTypes
  <1>2. ASSUME NEW h \in Handles, h > n + 1 PROVE misled'[h] = {}
    <2>1. h \in Nat  BY ManagerAssumption DEF Handles
    <2>2. h > n /\ h # n + 1  BY <2>1, <1>2
    <2>3. misled[h] = {}  BY <2>2, <1>1 DEF Warned
    <2> QED BY <2>2, <2>3, <1>1 DEF Types, FailTypes
  <1>3. misled'[n + 1] = S \cap spoilt /\ active_streams'[n + 1] = S
    BY <1>1 DEF Types, FailTypes, HandleTypes
  <1> QED BY <1>1, <1>2, <1>3 DEF Warned

LEMMA WarnedStep ==
  ASSUME Types, Warned, [Next]_vars
  PROVE  Warned'
  <1>1. ASSUME UNCHANGED <<num_handles, misled>>, cs'.who \notin {"acquire", "acquire_size"} PROVE Warned'
    BY <1>1 DEF Warned
  <1>2. ASSUME UNCHANGED <<num_handles, misled, spoilt, active_streams>>, cs'.who \in {"acquire", "acquire_size"} =>
                 cs.who \in {"acquire", "acquire_size"} /\ cs'.handle = cs.handle
        PROVE  Warned'
    BY <1>2 DEF Warned
  <1>3. ASSUME UNCHANGED <<num_handles, misled, spoilt, active_streams, cs>> PROVE Warned'
    BY <1>2, <1>3
  <1>4. CASE FlushBuffers  BY <1>3, <1>4 DEF FlushBuffers, handleVars, histVars, failVars
  <1>5. ASSUME NEW mask \in SUBSET Streams, NEW by, BeginAcquire(mask, by) PROVE Warned'
    <2>1. num_handles + 1 \in Handles  BY <1>5, NextHandle DEF BeginAcquire, Types
    <2>2. cs'.handle = num_handles + 1  BY <1>5 DEF BeginAcquire
    <2> QED BY <1>5, <2>1, <2>2, BeginWarned DEF BeginAcquire
  <1>6. ASSUME NEW s \in Streams, NEW size, BeginAcquireSize(s, size) PROVE Warned'
    <2>1. num_handles + 1 \in Handles  BY <1>6, NextHandle DEF BeginAcquireSize, Types
    <2>2. cs'.handle = num_handles + 1  BY <1>6 DEF BeginAcquireSize
    <2>3. PICK S \in SUBSET Streams : S = {s}  OBVIOUS
    <2>4. /\ num_handles' = num_handles + 1 /\ UNCHANGED spoilt
          /\ active_streams' = [active_streams EXCEPT ![num_handles + 1] = S]
          /\ misled' = [misled EXCEPT ![num_handles + 1] = S \cap spoilt]
      BY <1>6, <2>3 DEF BeginAcquireSize
    <2> QED BY <2>1, <2>2, <2>4, BeginWarned
  <1>7. CASE Acquire \/ AcquireSize \/ CallbackAcquires
    <2>1. CASE Acquire
      <3>1. PICK mask \in (SUBSET Managed) \ {{}} : BeginAcquire(mask, 0)  BY <2>1 DEF Acquire
      <3>2. mask \in SUBSET Streams  BY ManagerAssumption
      <3> QED BY <1>5, <3>1, <3>2
    <2>2. CASE AcquireSize  BY <1>6, <2>2 DEF AcquireSize
    <2>3. CASE CallbackAcquires
      <3>1. PICK h : BeginAcquire(Managed, h)  BY <2>3 DEF CallbackAcquires
      <3>2. Managed \in SUBSET Streams  BY ManagerAssumption
      <3> QED BY <1>5, <3>1, <3>2
    <2> QED BY <1>7, <2>1, <2>2, <2>3
  <1>8. CASE AcquireStream
    <2>1. UNCHANGED <<num_handles, misled, spoilt, active_streams>>
      BY <1>8 DEF AcquireStream, failVars
    <2>2. PICK left : cs' = cs \/ cs' = Nobody \/ cs' = [cs EXCEPT !.left = left]
      BY <1>8 DEF AcquireStream
    <2>3. cs.who = "acquire"  BY <1>8 DEF AcquireStream
    <2>4. cs \in [who : {"acquire"}, handle : 1 .. num_handles, left : SUBSET Streams, by : 0 .. MAX_HANDLES]
      BY <2>3, CsWho DEF Types, Acquiring
    <2>5. cs'.who \in {"acquire", "acquire_size"} => cs'.handle = cs.handle
      BY <2>2, <2>4 DEF Nobody
    <2> QED BY <1>2, <2>1, <2>3, <2>5
  <1>9. CASE AcquireChunk
    <2>1. UNCHANGED <<num_handles, misled, spoilt, active_streams>>
      BY <1>9 DEF AcquireChunk, failVars
    <2>2. PICK rest : cs' = Nobody \/ cs' = [cs EXCEPT !.remaining = rest]  BY <1>9 DEF AcquireChunk
    <2>3. cs.who = "acquire_size"  BY <1>9 DEF AcquireChunk
    <2>4. cs = [who |-> cs.who, handle |-> cs.handle, stream |-> cs.stream, size |-> cs.size, remaining |-> cs.remaining]
      BY <2>3, CsWho DEF Types, AcquiringSize
    <2>5. cs'.who \in {"acquire", "acquire_size"} => cs'.handle = cs.handle
      BY <2>2, <2>4 DEF Nobody
    <2> QED BY <1>2, <2>1, <2>3, <2>5
  <1>10. CASE HandleInterrupt
    <2>1. UNCHANGED <<num_handles, misled>> /\ cs'.who = "interrupt"
      BY <1>10 DEF HandleInterrupt, histVars, failVars
    <2> QED BY <1>1, <2>1
  <1>11. CASE MarkDone \/ DestroyHandle \/ TopUp
    <2>1. UNCHANGED <<num_handles, misled>> /\ cs.who = "interrupt"
      BY <1>11 DEF MarkDone, DestroyHandle, TopUp, histVars, failVars
    <2>2. Interrupted  BY <2>1, CsWho DEF Types
    <2>3. cs = [who |-> cs.who, stream |-> cs.stream, last |-> cs.last, destroy |-> cs.destroy]
      BY <2>2 DEF Interrupted
    <2>4. CASE MarkDone
      <3>1. PICK h : cs' = [cs EXCEPT !.last = FALSE, !.destroy = h]  BY <2>4 DEF MarkDone
      <3>2. cs'.who = "interrupt"  BY <3>1, <2>1, <2>3
      <3> QED BY <1>1, <2>1, <3>2
    <2>5. CASE DestroyHandle
      <3>1. cs' = [cs EXCEPT !.destroy = 0]  BY <2>5 DEF DestroyHandle
      <3>2. cs'.who = "interrupt"  BY <3>1, <2>1, <2>3
      <3> QED BY <1>1, <2>1, <3>2
    <2>6. CASE TopUp
      <3>1. cs' = cs \/ cs' = Nobody  BY <2>6 DEF TopUp
      <3>2. cs'.who \in {"interrupt", "nobody"}  BY <3>1, <2>1 DEF Nobody
      <3> QED BY <1>1, <2>1, <3>2
    <2> QED BY <1>11, <2>4, <2>5, <2>6
  <1>12. CASE AllocationFails \/ Restart
    <2>1. UNCHANGED <<num_handles, misled>> /\ cs'.who = "nobody"
      BY <1>12 DEF AllocationFails, Unlock, Restart, Nobody
    <2> QED BY <1>1, <2>1
  <1>13. CASE CallbackEnds \/ UNCHANGED vars
    BY <1>3, <1>13 DEF CallbackEnds, Callback, vars, handleVars, histVars, failVars
  <1>14. CASE ReadOutput  BY <1>3, <1>14 DEF ReadOutput, Read, failVars
  <1>15. CASE Drop  BY <1>3, <1>15 DEF Drop, DropHandle, histVars, failVars
  <1>16. CASE Fpga
    BY <1>3, <1>16 DEF Fpga, FpgaOutput, FpgaEmptyOutput, handleVars, histVars, failVars
  <1> QED BY <1>4, <1>7, <1>8, <1>9, <1>10, <1>11, <1>12, <1>13, <1>14, <1>15, <1>16 DEF Next

LEMMA StreamStep ==
  ASSUME FullInv, FlowInv, FpgaTypes', [Next]_vars, NEW s \in Streams
  PROVE  StreamFlows(s)'
  <1>1. Types /\ Accounted /\ BuffersAgree  BY DEF FullInv, IInv
  <1>2. FlowTypes /\ OrderInv /\ Warned /\ StreamFlows(s) /\ \A u \in Streams : StreamFlows(u)
    BY DEF FlowInv
  <1>3. CASE FlushBuffers  BY <1>1, <1>2, <1>3, FlushFlows DEF BuffersAgree
  <1>4. CASE Acquire \/ AcquireSize \/ CallbackAcquires  BY <1>1, <1>2, <1>4, BeginsFlow
  <1>5. CASE AcquireStream  BY <1>1, <1>2, <1>5, AcquireFlows
  <1>6. CASE AcquireChunk  BY <1>1, <1>2, <1>6, ChunkFlows
  <1>7. CASE HandleInterrupt  BY <1>1, <1>2, <1>7, PopFlows
  <1>8. CASE MarkDone  BY <1>1, <1>2, <1>8, MarkFlows
  <1>9. CASE DestroyHandle  BY <1>1, <1>2, <1>9, DestroyFlows
  <1>10. CASE TopUp  BY <1>1, <1>2, <1>10, TopUpFlows
  <1>11. CASE AllocationFails  BY <1>1, <1>2, <1>11, FailsFlows
  <1>12. CASE CallbackEnds \/ UNCHANGED vars  BY <1>1, <1>2, <1>12, CallbackFlows
  <1>13. CASE ReadOutput  BY <1>1, <1>2, <1>13, ReadFlows DEF ReadOutput
  <1>14. CASE Drop  BY <1>1, <1>2, <1>14, DropFlows DEF Drop
  <1>15. CASE Restart  BY <1>1, <1>2, <1>15, RestartFlows
  <1>16. CASE Fpga  BY <1>1, <1>2, <1>16, FpgaFlows
  <1> QED
    BY <1>3, <1>4, <1>5, <1>6, <1>7, <1>8, <1>9, <1>10, <1>11, <1>12, <1>13, <1>14, <1>15, <1>16 DEF Next

LEMMA FlowNext ==
  ASSUME SingleChunk, FullInv, FlowInv, [Next]_vars
  PROVE  FlowInv'
  <1>1. FullInv'  BY FullNext
  <1>2. FpgaTypes'  BY <1>1 DEF FullInv, IInv, Types
  <1>3. \A s \in Streams : StreamFlows(s)'  BY <1>2, StreamStep
  <1>4. Types /\ Room /\ OrderInv /\ FlowTypes /\ Warned /\ \A s \in Streams : StreamFlows(s)
    BY DEF FullInv, IInv, BuffersAgree, FlowInv
  <1>5. FlowTypes'  BY <1>4, FlowTypesStep
  <1>6. OrderInv'  BY <1>4, OrderStep
  <1>7. Warned'  BY <1>4, WarnedStep
  <1> QED BY <1>3, <1>5, <1>6, <1>7 DEF FlowInv

LEMMA FlowReturns ==
  ASSUME FullInv, FlowInv
  PROVE  HandleGetsItsOutput
  <1>1. ASSUME NEW h \in Handles, NEW s \in Streams, Clean(h, s)
        PROVE  GetsItsOutput(h, s)
    <2>1. PICK a \in Nat : Level(h, s, a)  BY <1>1 DEF FlowInv, StreamFlows
    <2>2. PICK m \in Nat : /\ Holds(h, s, output_buffers[h][s], received[h][s], memory, m)
                           /\ Reached(m, h, Ahead(s), a, Len(produced[h][s]), Full(h, s), h \in Fresh)
      BY <2>1 DEF Level
    <2>3. output_buffers[h][s] \in Seq(Delivered)  BY DEF FullInv, IInv, Types, BufferTypes
    <2>4. Returned(h, s) = Output(h, s, 1, m)  BY <2>2, <2>3, HoldsReturned
    <2>5. PICK g \in Nat : g = Len(produced[h][s])
      <3>1. produced[h][s] \in Seq(Part)  BY DEF FlowInv, FlowTypes
      <3>2. Len(produced[h][s]) \in Nat  BY <3>1
      <3> QED BY <3>2
    <2>6. produced[h][s] = Output(h, s, 1, g)  BY <2>5 DEF FlowInv, FlowTypes
    <2>7. m <= g /\ (s \in finished_streams[h] => m = g)  BY <2>2, <2>5 DEF Reached, Full
    <2>8. IsPrefix(Output(h, s, 1, m), Output(h, s, 1, g))  BY <2>7, OutputPrefix
    <2> QED BY <2>4, <2>6, <2>7, <2>8 DEF GetsItsOutput
  <1> QED BY <1>1 DEF HandleGetsItsOutput, Clean

(* What a handle returns and still holds is the output of the run it was     *)
(* acquired for, without gaps, in order and not overwritten, and all of it   *)
(* once the stream is marked done: for any number of streams, handles,       *)
(* buffers and outputs of any length, whatever is dropped, fails or is made  *)
(* anew meanwhile, and as often as the application tries again. Left out are *)
(* the streams of a handle that were spoilt before it was acquired: there a  *)
(* failed acquire had left its handle in the queue (lines 136-138). No       *)
(* unmanaged output is larger than one buffer: a larger one is enqueued as   *)
(* several handles of one output, which breaks it (line 184).                *)
THEOREM HandlesGetTheirOutput ==
  ASSUME SingleChunk
  PROVE  SafeSpec => []HandleGetsItsOutput
  <1>1. Init => FlowInv  BY FlowInit
  <1>2. FullInv /\ FlowInv /\ [Next]_vars => FlowInv'  BY FlowNext
  <1>3. FullInv /\ FlowInv => HandleGetsItsOutput  BY FlowReturns
  <1> QED BY <1>1, <1>2, <1>3, FullInductive, PTL DEF SafeSpec

=============================================================================
