------------------------- MODULE ReplayBufferProofs -------------------------
(***************************************************************************)
(* Proofs about ReplayBuffer for every ring, transfer size and number of   *)
(* streams and reads.                                                      *)
(*                                                                         *)
(* The memory of the ring that is in use is a route: from where the        *)
(* writer's reserved bytes end, over the reads that are to be released,    *)
(* what the reader keeps to replay, the extents it has not read, and what  *)
(* is on its way to the link, to the transfer the writer was granted.      *)
(* Route cuts it into five paths of blocks, each of which begins where     *)
(* the one before ended or, past the end of the ring, at its base.  The    *)
(* bytes of the ring are the free ones, the unreserved ones and the        *)
(* length of the route.                                                    *)
(***************************************************************************)
EXTENDS ReplayBuffer, NumberInduction, SequenceTheorems

----
(* Sizes.                                                                   *)

Aligned(n) == \E k \in Nat : n = BEAT * k

LEMMA Sizes == BEAT \in Nat \ {0} /\ TRANSFER \in Nat \ {0} /\ Aligned(TRANSFER)
  <1>1. BEAT \in Nat \ {0} /\ TRANSFER \in Nat \ {0} /\ TRANSFER % BEAT = 0  BY ReplayAssumption
  <1>2. TRANSFER = BEAT * (TRANSFER \div BEAT) + (TRANSFER % BEAT) /\ TRANSFER \div BEAT \in Nat
    BY <1>1
  <1> QED BY <1>1, <1>2 DEF Aligned

LEMMA QuotientFacts ==
  ASSUME NEW m \in Int, NEW k \in 0 .. BEAT - 1
  PROVE  (BEAT * m + k) \div BEAT = m
  <1>1. BEAT \in Nat \ {0}  BY Sizes
  <1> QED BY <1>1

LEMMA AlignedSum ==
  ASSUME NEW m, NEW n, Aligned(m), Aligned(n)
  PROVE  Aligned(m + n) /\ m \in Nat /\ n \in Nat
  <1>1. PICK k \in Nat, l \in Nat : m = BEAT * k /\ n = BEAT * l  BY DEF Aligned
  <1>2. BEAT \in Nat  BY Sizes
  <1>3. m + n = BEAT * (k + l) /\ k + l \in Nat  BY <1>1, <1>2
  <1>4. BEAT * k \in Nat /\ BEAT * l \in Nat  BY <1>2
  <1> QED BY <1>1, <1>3, <1>4 DEF Aligned

\* The part of the last beat that a size leaves unused.
LEMMA AlignIs ==
  ASSUME NEW n \in Nat
  PROVE  \E q \in Nat, k \in 0 .. BEAT - 1 : Align(n) = BEAT * q /\ n + k = BEAT * q
  <1>1. BEAT \in Nat \ {0}  BY Sizes
  <1>2. PICK q, m : q = (n + BEAT - 1) \div BEAT /\ m = (n + BEAT - 1) % BEAT  OBVIOUS
  <1>3. q \in Nat /\ m \in 0 .. BEAT - 1 /\ n + BEAT - 1 = BEAT * q + m  BY <1>1, <1>2
  <1>4. (BEAT - 1) - m \in 0 .. BEAT - 1 /\ n + ((BEAT - 1) - m) = BEAT * q  BY <1>1, <1>3
  <1> QED BY <1>2, <1>3, <1>4 DEF Align

LEMMA AlignFacts ==
  ASSUME NEW n \in Nat
  PROVE  /\ Align(n) \in Nat /\ n <= Align(n) /\ Align(n) < n + BEAT /\ Aligned(Align(n))
         /\ n = 0 => Align(n) = 0
  <1>1. BEAT \in Nat \ {0}  BY Sizes
  <1>2. PICK q \in Nat, k \in 0 .. BEAT - 1 : Align(n) = BEAT * q /\ n + k = BEAT * q  BY AlignIs
  <1>3. Aligned(Align(n))  BY <1>2 DEF Aligned
  <1>4. Align(n) \in Nat /\ n <= Align(n) /\ Align(n) < n + BEAT  BY <1>1, <1>2
  <1>5. n = 0 => Align(n) = 0
    <2>1. (BEAT * 0 + (BEAT - 1)) \div BEAT = 0  BY <1>1, QuotientFacts
    <2>2. BEAT * 0 + (BEAT - 1) = 0 + BEAT - 1 /\ BEAT * 0 = 0  BY <1>1
    <2> QED BY <2>1, <2>2 DEF Align
  <1> QED BY <1>3, <1>4, <1>5

\* Aligned bytes in front stay aligned.
LEMMA AlignSum ==
  ASSUME NEW m, Aligned(m), NEW n \in Nat
  PROVE  m \in Nat /\ Align(m + n) = m + Align(n)
  <1>1. BEAT \in Nat \ {0}  BY Sizes
  <1>2. PICK j \in Nat : m = BEAT * j  BY DEF Aligned
  <1>3. PICK q \in Nat, k \in 0 .. BEAT - 1 : Align(n) = BEAT * q /\ n + k = BEAT * q  BY AlignIs
  <1>4. BEAT * j \in Nat /\ BEAT * q \in Nat  BY <1>1
  <1>5. PICK l : l = (BEAT - 1) - k  OBVIOUS
  <1>6. l \in 0 .. BEAT - 1  BY <1>1, <1>5
  <1>7. BEAT * (j + q) = BEAT * j + BEAT * q  BY <1>1
  <1>8. m + n + BEAT - 1 = BEAT * (j + q) + l  BY <1>1, <1>2, <1>3, <1>4, <1>5, <1>7
  <1>9. (BEAT * (j + q) + l) \div BEAT = j + q  BY <1>6, QuotientFacts
  <1> QED BY <1>2, <1>3, <1>4, <1>7, <1>8, <1>9 DEF Align

LEMMA AlignAligned ==
  ASSUME NEW m, Aligned(m)
  PROVE  Align(m) = m /\ m \in Nat
  <1>1. Align(m + 0) = m + Align(0) /\ m \in Nat  BY AlignSum
  <1>2. Align(0) = 0  BY AlignFacts
  <1> QED BY <1>1, <1>2

\* What fits an aligned size, fits it with its last beat.
LEMMA AlignFits ==
  ASSUME NEW m, Aligned(m), NEW n \in Nat, n <= m
  PROVE  Align(n) <= m /\ m \in Nat
  <1>1. BEAT \in Nat \ {0}  BY Sizes
  <1>2. PICK j \in Nat : m = BEAT * j  BY DEF Aligned
  <1>3. PICK q \in Nat, k \in 0 .. BEAT - 1 : Align(n) = BEAT * q /\ n + k = BEAT * q  BY AlignIs
  <1>4. BEAT * q <= BEAT * j + (BEAT - 1)  BY <1>1, <1>2, <1>3
  <1>5. q <= j
    <2> SUFFICES ASSUME q >= j + 1 PROVE FALSE  OBVIOUS
    <2>1. BEAT * q >= BEAT * (j + 1) /\ BEAT * (j + 1) = BEAT * j + BEAT /\ BEAT * j \in Nat
      BY <1>1
    <2> QED BY <2>1, <1>1, <1>4
  <1>6. BEAT * q <= BEAT * j /\ BEAT * j \in Nat  BY <1>1, <1>5
  <1> QED BY <1>2, <1>3, <1>6

LEMMA ReadBytes == MAX_READ_BYTES \in Nat \ {0} /\ Aligned(MAX_READ_BYTES)
  <1>1. BEAT \in Nat \ {0} /\ TRANSFER \in Nat \ {0} /\ MAX_TRANSFERS_PER_READ \in Nat \ {0}
    BY ReplayAssumption
  <1>2. PICK k \in Nat : TRANSFER = BEAT * k  BY Sizes DEF Aligned
  <1>3. PICK n : n = MAX_TRANSFERS_PER_READ  OBVIOUS
  <1>4. n * TRANSFER = BEAT * (n * k) /\ n * k \in Nat /\ n * TRANSFER \in Nat \ {0}
    BY <1>1, <1>2, <1>3
  <1> QED BY <1>3, <1>4 DEF MAX_READ_BYTES, Aligned

----
(* Ways around the ring buffer.  A point is an address of the ring buffer    *)
(* and whether the way to it passed the end.                                *)

End(g) == g.base + g.size
Points(g) == [at : g.base .. End(g), lap : 0 .. 1]
Position(g, p) == p.at + (IF p.lap = 1 THEN g.size ELSE 0)

Before(p, q) == p.lap < q.lap \/ (p.lap = q.lap /\ p.at <= q.at)

\* A block of memory from start to end, with the bytes it takes.  One that is
\* not released takes none.
Block(vaddr, bytes) ==
  [release |-> TRUE, start |-> vaddr, span |-> bytes, end |-> vaddr + bytes]

\* The way passes the end in front of the block or within it, or not at all.
Plain(b, p, q) == b.start = p.at /\ q.lap = p.lap /\ b.end = b.start + b.span
PassesWithin(g, b, p, q) ==
  b.start = p.at /\ p.lap = 0 /\ q.lap = 1 /\ b.end # b.start + b.span /\ b.end + g.size = b.start + b.span
PassesBefore(g, b, p, q) ==
  b.start # p.at /\ b.start = g.base /\ p.lap = 0 /\ q.lap = 1 /\ b.end = b.start + b.span

Step(g, b, p, q) ==
  IF b.release
    THEN q.at = b.end /\ (Plain(b, p, q) \/ PassesWithin(g, b, p, q) \/ PassesBefore(g, b, p, q))
    ELSE q = p

Stations(g, c, P) ==
  /\ P \in [0 .. Len(c) -> Points(g)]
  /\ \A i \in 0 .. Len(c) : \A j \in i .. Len(c) : Before(P[i], P[j])
  /\ \A i \in 1 .. Len(c) : Step(g, c[i], P[i - 1], P[i])

Path(g, c, p, q) == \E P : Stations(g, c, P) /\ P[0] = p /\ P[Len(c)] = q

Ring == [base : Nat, size : Nat]
Blocks == [release : BOOLEAN, start : Nat, span : Nat, end : Nat]

LEMMA PointFacts ==
  ASSUME NEW g \in Ring, NEW p \in Points(g)
  PROVE  /\ p.at \in Nat /\ p.lap \in 0 .. 1 /\ g.base <= p.at /\ p.at <= End(g)
         /\ g.base \in Nat /\ g.size \in Nat /\ End(g) \in Nat /\ Before(p, p)
  BY DEF Points, Ring, End, Before

LEMMA BeforeOn ==
  ASSUME NEW g \in Ring, NEW p \in Points(g), NEW q \in Points(g), NEW r \in Points(g),
         Before(p, q), Before(q, r)
  PROVE  Before(p, r)
  <1>1. /\ p.at \in Nat /\ q.at \in Nat /\ r.at \in Nat
        /\ p.lap \in 0 .. 1 /\ q.lap \in 0 .. 1 /\ r.lap \in 0 .. 1
    BY PointFacts
  <1> QED BY <1>1 DEF Before

LEMMA PathEnds ==
  ASSUME NEW g, NEW R, NEW c \in Seq(R), NEW p, NEW q, Path(g, c, p, q)
  PROVE  p \in Points(g) /\ q \in Points(g) /\ Before(p, q)
  <1>1. PICK P : Stations(g, c, P) /\ P[0] = p /\ P[Len(c)] = q  BY DEF Path
  <1>2. Len(c) \in Nat /\ 0 \in 0 .. Len(c) /\ Len(c) \in 0 .. Len(c)  OBVIOUS
  <1> QED BY <1>1, <1>2 DEF Stations

LEMMA PathNone ==
  ASSUME NEW g \in Ring, NEW c, c = <<>>, NEW p \in Points(g)
  PROVE  /\ Path(g, c, p, p)
         /\ \A q : Path(g, c, p, q) => q = p
  <1>1. Len(c) = 0  OBVIOUS
  <1>2. PICK P : P = [i \in 0 .. 0 |-> p]  OBVIOUS
  <1>3. P \in [0 .. 0 -> Points(g)] /\ P[0] = p  BY <1>2
  <1>4. Before(p, p)  BY PointFacts
  <1>5. Stations(g, c, P)  BY <1>1, <1>3, <1>4 DEF Stations
  <1>6. Path(g, c, p, p)  BY <1>1, <1>3, <1>5 DEF Path
  <1>7. ASSUME NEW q, Path(g, c, p, q) PROVE q = p  BY <1>1, <1>7 DEF Path
  <1> QED BY <1>6, <1>7

LEMMA PathOne ==
  ASSUME NEW g \in Ring, NEW b, NEW c, c = <<b>>, NEW p \in Points(g), NEW q \in Points(g)
  PROVE  Path(g, c, p, q) <=> Step(g, b, p, q) /\ Before(p, q)
  <1>1. Len(c) = 1 /\ c[1] = b  OBVIOUS
  <1>2. ASSUME Path(g, c, p, q) PROVE Step(g, b, p, q) /\ Before(p, q)
    <2>1. PICK P : Stations(g, c, P) /\ P[0] = p /\ P[1] = q  BY <1>1, <1>2 DEF Path
    <2>2. Step(g, c[1], P[1 - 1], P[1]) /\ Before(P[0], P[1])  BY <2>1, <1>1 DEF Stations
    <2> QED BY <2>1, <2>2, <1>1
  <1>3. ASSUME Step(g, b, p, q), Before(p, q) PROVE Path(g, c, p, q)
    <2>1. PICK P : P = [i \in 0 .. 1 |-> IF i = 0 THEN p ELSE q]  OBVIOUS
    <2>2. P \in [0 .. 1 -> Points(g)] /\ P[0] = p /\ P[1] = q  BY <2>1
    <2>3. Before(p, p) /\ Before(q, q)  BY PointFacts
    <2>4. ASSUME NEW i \in 0 .. 1, NEW j \in i .. 1 PROVE Before(P[i], P[j])
      <3>1. (i = 0 /\ j = 0) \/ (i = 0 /\ j = 1) \/ (i = 1 /\ j = 1)  OBVIOUS
      <3> QED BY <3>1, <2>2, <2>3, <1>3
    <2>5. ASSUME NEW i \in 1 .. 1 PROVE Step(g, c[i], P[i - 1], P[i])
      <3>1. i = 1 /\ i - 1 = 0  OBVIOUS
      <3> QED BY <3>1, <1>1, <1>3, <2>2
    <2>6. Stations(g, c, P)  BY <1>1, <2>2, <2>4, <2>5 DEF Stations
    <2> QED BY <1>1, <2>2, <2>6 DEF Path
  <1> QED BY <1>2, <1>3

\* One way after the other.
LEMMA PathJoin ==
  ASSUME NEW g \in Ring, NEW c \in Seq(Blocks), NEW d \in Seq(Blocks), NEW p, NEW q, NEW r,
         Path(g, c, p, q), Path(g, d, q, r)
  PROVE  Path(g, c \o d, p, r)
  <1>1. PICK P : Stations(g, c, P) /\ P[0] = p /\ P[Len(c)] = q  BY DEF Path
  <1>2. PICK Q : Stations(g, d, Q) /\ Q[0] = q /\ Q[Len(d)] = r  BY DEF Path
  <1>3. PICK m, n, e : m = Len(c) /\ n = Len(d) /\ e = c \o d  OBVIOUS
  <1>4. /\ m \in Nat /\ n \in Nat /\ Len(e) = m + n
        /\ \A i \in 1 .. m : e[i] = c[i]
        /\ \A i \in 1 .. n : e[m + i] = d[i]
    BY <1>3
  <1>5. PICK S : S = [i \in 0 .. m + n |-> IF i <= m THEN P[i] ELSE Q[i - m]]  OBVIOUS
  <1>6. /\ P \in [0 .. m -> Points(g)] /\ Q \in [0 .. n -> Points(g)]
        /\ \A i \in 0 .. m : \A j \in i .. m : Before(P[i], P[j])
        /\ \A i \in 0 .. n : \A j \in i .. n : Before(Q[i], Q[j])
        /\ \A i \in 1 .. m : Step(g, c[i], P[i - 1], P[i])
        /\ \A i \in 1 .. n : Step(g, d[i], Q[i - 1], Q[i])
    BY <1>1, <1>2, <1>3 DEF Stations
  <1>7. \A i \in 0 .. m : S[i] = P[i]  BY <1>4, <1>5
  <1>8. \A i \in 0 .. n : S[m + i] = Q[i]
    <2>1. ASSUME NEW i \in 0 .. n PROVE S[m + i] = Q[i]
      <3>1. m + i \in 0 .. m + n /\ (m + i) - m = i  BY <1>4
      <3>2. CASE i = 0
        <4>1. m + i = m /\ S[m] = P[m]  BY <3>2, <1>4, <1>7
        <4> QED BY <4>1, <3>2, <1>1, <1>2, <1>3
      <3>3. CASE i # 0
        <4>1. ~ (m + i <= m)  BY <3>3, <1>4
        <4> QED BY <4>1, <3>1, <1>5
      <3> QED BY <3>2, <3>3
    <2> QED BY <2>1
  <1>9. S \in [0 .. m + n -> Points(g)]
    <2>1. ASSUME NEW i \in 0 .. m + n PROVE S[i] \in Points(g)
      <3>1. CASE i \in 0 .. m  BY <3>1, <1>6, <1>7
      <3>2. CASE i - m \in 0 .. n
        <4>1. m + (i - m) = i  BY <1>4
        <4>2. S[m + (i - m)] = Q[i - m] /\ Q[i - m] \in Points(g)  BY <3>2, <1>6, <1>8
        <4> QED BY <4>1, <4>2
      <3> QED BY <3>1, <3>2, <1>4
    <2> QED BY <2>1, <1>5
  <1>10. ASSUME NEW i \in 0 .. m + n, NEW j \in i .. m + n PROVE Before(S[i], S[j])
    <2>1. CASE j <= m  BY <2>1, <1>4, <1>6, <1>7
    <2>2. CASE i >= m
      <3>1. PICK k, l : k = i - m /\ l = j - m  OBVIOUS
      <3>2. k \in 0 .. n /\ l \in k .. n /\ l \in 0 .. n /\ i = m + k /\ j = m + l
        <4>1. m \in Nat /\ n \in Nat /\ i \in Nat /\ j \in Nat /\ i >= m /\ i <= j /\ j <= m + n
          BY <2>2, <1>4
        <4> QED BY <4>1, <3>1
      <3>3. Before(Q[k], Q[l])  BY <3>2, <1>6
      <3> QED BY <3>2, <3>3, <1>8
    <2>3. CASE ~ (j <= m) /\ ~ (i >= m)
      <3>1. PICK l : l = j - m  OBVIOUS
      <3>2. l \in 0 .. n /\ j = m + l /\ i \in 0 .. m /\ m \in i .. m /\ 0 \in 0 .. n /\ l \in 0 .. n /\ m \in 0 .. m
        BY <3>1, <2>3, <1>4
      <3>3. Before(P[i], P[m]) /\ Before(Q[0], Q[l])  BY <3>2, <1>6
      <3>4. P[m] = q /\ Q[0] = q  BY <1>1, <1>2, <1>3
      <3>5. P[i] \in Points(g) /\ q \in Points(g) /\ Q[l] \in Points(g)  BY <3>2, <3>4, <1>6
      <3>6. Before(P[i], Q[l])  BY <3>3, <3>4, <3>5, BeforeOn
      <3> QED BY <3>2, <3>6, <1>7, <1>8
    <2> QED BY <2>1, <2>2, <2>3
  <1>11. ASSUME NEW i \in 1 .. m + n PROVE Step(g, e[i], S[i - 1], S[i])
    <2>1. CASE i <= m
      <3>1. i \in 1 .. m /\ i - 1 \in 0 .. m /\ i \in 0 .. m  BY <2>1, <1>4
      <3> QED BY <3>1, <1>4, <1>6, <1>7
    <2>2. CASE ~ (i <= m)
      <3>1. PICK k, l : k = i - m /\ l = k - 1  OBVIOUS
      <3>2. k \in 1 .. n /\ l \in 0 .. n /\ k \in 0 .. n /\ i = m + k /\ i - 1 = m + l
        BY <3>1, <2>2, <1>4
      <3>3. Step(g, d[k], Q[l], Q[k])  BY <3>1, <3>2, <1>6
      <3>4. e[m + k] = d[k] /\ S[m + k] = Q[k] /\ S[m + l] = Q[l]  BY <3>2, <1>4, <1>8
      <3> QED BY <3>2, <3>3, <3>4
    <2> QED BY <2>1, <2>2
  <1>12. Stations(g, e, S)  BY <1>4, <1>9, <1>10, <1>11 DEF Stations
  <1>13. S[0] = p /\ S[Len(e)] = r
    <2>1. 0 \in 0 .. m /\ n \in 0 .. n  BY <1>4
    <2>2. S[0] = P[0] /\ S[m + n] = Q[n]  BY <2>1, <1>7, <1>8
    <2> QED BY <2>2, <1>1, <1>2, <1>3, <1>4
  <1> QED BY <1>3, <1>12, <1>13 DEF Path

LEMMA PathCut ==
  ASSUME NEW g \in Ring, NEW c \in Seq(Blocks), NEW d \in Seq(Blocks), NEW p, NEW r,
         Path(g, c \o d, p, r)
  PROVE  \E q \in Points(g) : Path(g, c, p, q) /\ Path(g, d, q, r)
  <1>1. PICK m, n, e : m = Len(c) /\ n = Len(d) /\ e = c \o d  OBVIOUS
  <1>2. /\ m \in Nat /\ n \in Nat /\ Len(e) = m + n
        /\ \A i \in 1 .. m : e[i] = c[i]
        /\ \A i \in 1 .. n : e[m + i] = d[i]
    BY <1>1
  <1>3. PICK S : Stations(g, e, S) /\ S[0] = p /\ S[m + n] = r  BY <1>1, <1>2 DEF Path
  <1>4. /\ S \in [0 .. m + n -> Points(g)]
        /\ \A i \in 0 .. m + n : \A j \in i .. m + n : Before(S[i], S[j])
        /\ \A i \in 1 .. m + n : Step(g, e[i], S[i - 1], S[i])
    BY <1>2, <1>3 DEF Stations
  <1>5. PICK P, Q : P = [i \in 0 .. m |-> S[i]] /\ Q = [i \in 0 .. n |-> S[m + i]]  OBVIOUS
  <1>6. \A i \in 0 .. m : i \in 0 .. m + n /\ P[i] = S[i]  BY <1>2, <1>5
  <1>7. \A i \in 0 .. n : m + i \in 0 .. m + n /\ Q[i] = S[m + i]  BY <1>2, <1>5
  <1>8. Stations(g, c, P)
    <2>1. P \in [0 .. m -> Points(g)]  BY <1>4, <1>5, <1>6
    <2>2. ASSUME NEW i \in 0 .. m, NEW j \in i .. m PROVE Before(P[i], P[j])
      <3>1. j \in 0 .. m /\ j \in i .. m + n  BY <1>2
      <3> QED BY <3>1, <1>4, <1>6
    <2>3. ASSUME NEW i \in 1 .. m PROVE Step(g, c[i], P[i - 1], P[i])
      <3>1. i - 1 \in 0 .. m /\ i \in 0 .. m /\ i \in 1 .. m + n  BY <1>2
      <3> QED BY <3>1, <1>2, <1>4, <1>6
    <2> QED BY <2>1, <2>2, <2>3, <1>1 DEF Stations
  <1>9. Stations(g, d, Q)
    <2>1. Q \in [0 .. n -> Points(g)]  BY <1>4, <1>5, <1>7
    <2>2. ASSUME NEW i \in 0 .. n, NEW j \in i .. n PROVE Before(Q[i], Q[j])
      <3>1. j \in 0 .. n /\ m + j \in m + i .. m + n  BY <1>2
      <3> QED BY <3>1, <1>4, <1>7
    <2>3. ASSUME NEW i \in 1 .. n PROVE Step(g, d[i], Q[i - 1], Q[i])
      <3>1. PICK k : k = i - 1  OBVIOUS
      <3>2. k \in 0 .. n /\ i \in 0 .. n /\ m + i \in 1 .. m + n /\ (m + i) - 1 = m + k
        BY <3>1, <1>2
      <3>3. Step(g, e[m + i], S[m + k], S[m + i])  BY <3>2, <1>4
      <3> QED BY <3>1, <3>2, <3>3, <1>2, <1>7
    <2> QED BY <2>1, <2>2, <2>3, <1>1 DEF Stations
  <1>10. P[0] = p /\ P[m] = S[m] /\ Q[0] = S[m] /\ Q[n] = r /\ S[m] \in Points(g)
    <2>1. 0 \in 0 .. m /\ m \in 0 .. m /\ 0 \in 0 .. n /\ n \in 0 .. n /\ m + 0 = m /\ m \in 0 .. m + n
      BY <1>2
    <2> QED BY <2>1, <1>3, <1>4, <1>6, <1>7
  <1> QED BY <1>1, <1>8, <1>9, <1>10 DEF Path

LEMMA PathFirst ==
  ASSUME NEW g \in Ring, NEW c \in Seq(Blocks), c # <<>>, NEW p, NEW r
  PROVE  Path(g, c, p, r) <=>
           \E q \in Points(g) : /\ p \in Points(g) /\ Step(g, Head(c), p, q) /\ Before(p, q)
                                /\ Path(g, Tail(c), q, r)
  <1>1. PICK b, e, t : b = Head(c) /\ e = <<b>> /\ t = Tail(c)  OBVIOUS
  <1>2. e \in Seq(Blocks) /\ t \in Seq(Blocks) /\ c = e \o t  BY <1>1
  <1>3. ASSUME Path(g, c, p, r)
        PROVE  \E q \in Points(g) : /\ p \in Points(g) /\ Step(g, b, p, q) /\ Before(p, q)
                                    /\ Path(g, t, q, r)
    <2>1. PICK q \in Points(g) : Path(g, e, p, q) /\ Path(g, t, q, r)  BY <1>2, <1>3, PathCut
    <2>2. p \in Points(g)  BY <2>1, <1>2, PathEnds
    <2>3. Step(g, b, p, q) /\ Before(p, q)  BY <2>1, <2>2, <1>1, PathOne
    <2> QED BY <2>1, <2>2, <2>3
  <1>4. ASSUME NEW q \in Points(g), p \in Points(g), Step(g, b, p, q), Before(p, q), Path(g, t, q, r)
        PROVE  Path(g, c, p, r)
    <2>1. Path(g, e, p, q)  BY <1>1, <1>4, PathOne
    <2> QED BY <2>1, <1>2, <1>4, PathJoin
  <1> QED BY <1>1, <1>3, <1>4

LEMMA PathLast ==
  ASSUME NEW g \in Ring, NEW c \in Seq(Blocks), NEW b \in Blocks, NEW p, NEW r
  PROVE  Path(g, Append(c, b), p, r) <=>
           \E q \in Points(g) : r \in Points(g) /\ Path(g, c, p, q) /\ Step(g, b, q, r) /\ Before(q, r)
  <1>1. PICK e, d : e = <<b>> /\ d = Append(c, b)  OBVIOUS
  <1>2. e \in Seq(Blocks) /\ d = c \o e  BY <1>1
  <1>3. ASSUME Path(g, d, p, r)
        PROVE  \E q \in Points(g) : r \in Points(g) /\ Path(g, c, p, q) /\ Step(g, b, q, r) /\ Before(q, r)
    <2>1. PICK q \in Points(g) : Path(g, c, p, q) /\ Path(g, e, q, r)  BY <1>2, <1>3, PathCut
    <2>2. r \in Points(g)  BY <2>1, <1>2, PathEnds
    <2>3. Step(g, b, q, r) /\ Before(q, r)  BY <2>1, <2>2, <1>1, PathOne
    <2> QED BY <2>1, <2>2, <2>3
  <1>4. ASSUME NEW q \in Points(g), r \in Points(g), Path(g, c, p, q), Step(g, b, q, r), Before(q, r)
        PROVE  Path(g, d, p, r)
    <2>1. Path(g, e, q, r)  BY <1>1, <1>4, PathOne
    <2> QED BY <2>1, <1>2, <1>4, PathJoin
  <1> QED BY <1>1, <1>3, <1>4

\* A way that starts past the end, counted from there.
Down(p) == [at |-> p.at, lap |-> 0]

LEMMA PathDown ==
  ASSUME NEW g \in Ring, NEW c \in Seq(Blocks), NEW p, NEW q, Path(g, c, p, q), p.lap = 1
  PROVE  Path(g, c, Down(p), Down(q)) /\ q.lap = 1
  <1>1. PICK P : Stations(g, c, P) /\ P[0] = p /\ P[Len(c)] = q  BY DEF Path
  <1>2. PICK n : n = Len(c)  OBVIOUS
  <1>3. n \in Nat /\ 0 \in 0 .. n /\ n \in 0 .. n  BY <1>2
  <1>4. /\ P \in [0 .. n -> Points(g)]
        /\ \A i \in 0 .. n : \A j \in i .. n : Before(P[i], P[j])
        /\ \A i \in 1 .. n : Step(g, c[i], P[i - 1], P[i])
    BY <1>1, <1>2 DEF Stations
  <1>5. \A i \in 0 .. n : P[i].lap = 1
    <2>1. ASSUME NEW i \in 0 .. n PROVE P[i].lap = 1
      <3>1. Before(P[0], P[i]) /\ P[0].lap = 1  BY <1>1, <1>3, <1>4
      <3>2. P[i].lap \in 0 .. 1  BY <1>4 DEF Points
      <3> QED BY <3>1, <3>2 DEF Before
    <2> QED BY <2>1
  <1>6. PICK Q : Q = [i \in 0 .. n |-> Down(P[i])]  OBVIOUS
  <1>7. \A i \in 0 .. n : Q[i] = Down(P[i]) /\ Q[i] \in Points(g) /\ Q[i].at = P[i].at /\ Q[i].lap = 0
    BY <1>4, <1>6 DEF Down, Points
  <1>8. ASSUME NEW i \in 0 .. n, NEW j \in i .. n PROVE Before(Q[i], Q[j])
    <2>1. Before(P[i], P[j]) /\ P[i].lap = 1 /\ P[j].lap = 1 /\ j \in 0 .. n  BY <1>3, <1>4, <1>5
    <2> QED BY <2>1, <1>7 DEF Before
  <1>9. ASSUME NEW i \in 1 .. n PROVE Step(g, c[i], Q[i - 1], Q[i])
    <2>1. PICK k : k = i - 1  OBVIOUS
    <2>2. k \in 0 .. n /\ i \in 0 .. n  BY <2>1, <1>3
    <2>3. Step(g, c[i], P[k], P[i]) /\ P[k].lap = 1 /\ P[i].lap = 1  BY <2>1, <2>2, <1>4, <1>5
    <2>4. Q[k] = Down(P[k]) /\ Q[i] = Down(P[i]) /\ Q[k].at = P[k].at /\ Q[i].at = P[i].at /\ Q[k].lap = 0 /\ Q[i].lap = 0
      BY <2>2, <1>7
    <2>5. Step(g, c[i], Q[k], Q[i])  BY <2>3, <2>4 DEF Step, Plain, PassesWithin, PassesBefore
    <2> QED BY <2>1, <2>5
  <1>10. Stations(g, c, Q)
    <2>1. Q \in [0 .. n -> Points(g)]  BY <1>6, <1>7
    <2> QED BY <2>1, <1>2, <1>8, <1>9 DEF Stations
  <1> QED BY <1>1, <1>2, <1>3, <1>5, <1>7, <1>10 DEF Path

\* A block that is cut in two, and put together again.
CutAt(g, v, m, n, p, q, r) ==
  /\ Step(g, Block(v, m), p, q) /\ Step(g, Block(v + m, n), q, r)
  /\ Before(p, q) /\ Before(q, r) /\ q.at = v + m

LEMMA StepCut ==
  ASSUME NEW g \in Ring, NEW v \in Nat, NEW m \in Nat, NEW n \in Nat,
         NEW p \in Points(g), NEW r \in Points(g), Step(g, Block(v, m + n), p, r)
  PROVE  \E q \in Points(g) : CutAt(g, v, m, n, p, q, r)
  <1>1. PICK q : q = [at |-> v + m, lap |-> r.lap]  OBVIOUS
  <1>2. /\ r.at = v + (m + n) /\ v + (m + n) = (v + m) + n
        /\ \/ v = p.at /\ r.lap = p.lap
           \/ v # p.at /\ v = g.base /\ p.lap = 0 /\ r.lap = 1
    BY DEF Step, Plain, PassesWithin, PassesBefore, Block
  <1>3. /\ p.at \in Nat /\ r.at \in Nat /\ p.lap \in 0 .. 1 /\ r.lap \in 0 .. 1
        /\ g.base <= p.at /\ r.at <= End(g) /\ g.base \in Nat /\ End(g) \in Nat
    BY PointFacts
  <1>4. q.at = v + m /\ q.lap = r.lap /\ q \in Points(g)  BY <1>1, <1>2, <1>3 DEF Points
  <1>5. Before(p, q) /\ Before(q, r)  BY <1>2, <1>3, <1>4 DEF Before
  <1>6. Step(g, Block(v, m), p, q)  BY <1>2, <1>4 DEF Step, Plain, PassesBefore, Block
  <1>7. Step(g, Block(v + m, n), q, r)  BY <1>2, <1>4 DEF Step, Plain, Block
  <1> QED BY <1>4, <1>5, <1>6, <1>7 DEF CutAt

LEMMA StepJoin ==
  ASSUME NEW g \in Ring, NEW v \in Nat, NEW m \in Nat, NEW n \in Nat,
         NEW p \in Points(g), NEW q \in Points(g), NEW r \in Points(g),
         Step(g, Block(v, m), p, q), Step(g, Block(v + m, n), q, r)
  PROVE  Step(g, Block(v, m + n), p, r)
  <1>1. /\ q.at = v + m /\ v + (m + n) = (v + m) + n
        /\ \/ v = p.at /\ q.lap = p.lap
           \/ v # p.at /\ v = g.base /\ p.lap = 0 /\ q.lap = 1
    BY DEF Step, Plain, PassesWithin, PassesBefore, Block
  <1>2. r.at = v + (m + n) /\ r.lap = q.lap
    BY <1>1 DEF Step, Plain, PassesWithin, PassesBefore, Block
  <1> QED BY <1>1, <1>2 DEF Step, Plain, PassesBefore, Block

----
(* Types and sizes.                                                         *)

\* Only a transfer that ends a stream is not full.
Transfers ==
  {t \in [vaddr : Nat, size : Nat, last : BOOLEAN, stream : Nat, offset : Nat] :
     t.size <= TRANSFER /\ (t.last \/ t.size = TRANSFER)}
Extents == {e \in Extent : e.last \/ Aligned(e.size)}
Segments == [vaddr : Nat, size : Nat]
Requests == [vaddr : Nat, len : 0 .. TRANSFER, buffer_end : BOOLEAN, buffer_last : BOOLEAN]

WriterTypes ==
  /\ ring \in Ring /\ configured \in BOOLEAN /\ (configured => ring \in Rings)
  /\ writer \in {"ALLOCATE", "WRITE"} /\ (writer = "WRITE" => configured)
  /\ transfer_vaddr \in Nat /\ free_bytes \in Nat /\ unreserved \in Nat

StreamTypes ==
  /\ streams \in Streams /\ pending \in Seq(Transfers) /\ written \in 0 .. Len(streams)
  /\ offset \in Nat
  /\ offset # 0 => written < Len(streams) /\ offset < streams[written + 1].len

TailTypes ==
  /\ tail \in Extents /\ tail_valid \in BOOLEAN /\ tail_closed \in BOOLEAN
  /\ tail_valid /\ ~tail_closed => ~tail.last
  /\ extents \in Seq(Extents)

\* What the reader has yet to read of the streams that are written.
AllExtents == extents \o (IF tail_valid THEN <<tail>> ELSE <<>>)

ReaderTypes ==
  /\ reader \in {"WAIT_FOR_STREAM", "FIRST_READ", "REPLAY"}
  /\ remaining_reads \in Nat /\ replay_seg \in 0 .. 1
  /\ segments \in Seq(Segments) /\ Len(segments) <= 2
  /\ reader = "REPLAY" => remaining_reads # 0 /\ replay_seg < Len(segments)
  /\ enqueued \in 0 .. Len(streams)

HeadRead ==
  /\ Aligned(head_read)
  /\ reader # "FIRST_READ" => head_read = 0
  /\ IF AllExtents = <<>> THEN head_read = 0 ELSE head_read <= Head(AllExtents).size

ReadTypes ==
  /\ read \in ReadType /\ read_valid \in BOOLEAN /\ reads \in Seq(ReleaseType) /\ released_end \in Nat

RequestTypes ==
  /\ request \in [vaddr : Nat, remaining : Nat, last : BOOLEAN]
  /\ outstanding \in Seq(Requests)

Types == WriterTypes /\ StreamTypes /\ TailTypes /\ ReaderTypes /\ HeadRead /\ ReadTypes /\ RequestTypes

LEMMA TransferFacts ==
  ASSUME NEW t \in Transfers
  PROVE  /\ t.vaddr \in Nat /\ t.size \in Nat /\ t.size <= TRANSFER /\ t.last \in BOOLEAN
         /\ t.stream \in Nat /\ t.offset \in Nat
         /\ Align(t.size) \in Nat /\ Align(t.size) <= TRANSFER /\ t.size <= Align(t.size)
         /\ ~t.last => Aligned(t.size) /\ t.size = TRANSFER /\ Align(t.size) = TRANSFER
  <1>1. /\ t.vaddr \in Nat /\ t.size \in Nat /\ t.size <= TRANSFER /\ t.last \in BOOLEAN
        /\ t.stream \in Nat /\ t.offset \in Nat /\ (t.last \/ t.size = TRANSFER)
    BY DEF Transfers
  <1>2. Aligned(TRANSFER)  BY Sizes
  <1>3. Align(t.size) \in Nat /\ t.size <= Align(t.size)  BY <1>1, AlignFacts
  <1>4. Align(t.size) <= TRANSFER  BY <1>1, <1>2, AlignFits
  <1>5. Align(TRANSFER) = TRANSFER  BY <1>2, AlignAligned
  <1> QED BY <1>1, <1>2, <1>3, <1>4, <1>5

LEMMA ExtentFacts ==
  ASSUME NEW e \in Extents
  PROVE  /\ e.vaddr \in Nat /\ e.size \in Nat /\ e.last \in BOOLEAN
         /\ Align(e.size) \in Nat /\ e.size <= Align(e.size)
         /\ ~e.last => Aligned(e.size) /\ Align(e.size) = e.size
  <1>1. e.vaddr \in Nat /\ e.size \in Nat /\ e.last \in BOOLEAN /\ (e.last \/ Aligned(e.size))
    BY DEF Extents, Extent
  <1>2. Align(e.size) \in Nat /\ e.size <= Align(e.size)  BY <1>1, AlignFacts
  <1>3. ~e.last => Align(e.size) = e.size  BY <1>1, AlignAligned
  <1> QED BY <1>1, <1>2, <1>3

LEMMA RingFacts ==
  ASSUME WriterTypes
  PROVE  /\ ring \in Ring /\ ring.base \in Nat /\ ring.size \in Nat
         /\ ring_end = End(ring) /\ ring_end = ring.base + ring.size
         /\ configured => ring.size >= 2 * TRANSFER /\ ring \in Rings
  <1>1. ring \in Ring /\ ring_end = ring.base + ring.size /\ (configured => ring \in Rings)
    BY DEF WriterTypes, ring_end
  <1>2. ring.base \in Nat /\ ring.size \in Nat /\ ring_end = End(ring)  BY <1>1 DEF Ring, End
  <1>3. \A r \in Rings : r.size >= 2 * TRANSFER  BY ReplayAssumption
  <1> QED BY <1>1, <1>2, <1>3

LEMMA StreamFacts ==
  ASSUME StreamTypes
  PROVE  /\ Len(streams) \in Nat
         /\ \A i \in 1 .. Len(streams) : streams[i].len \in Nat /\ streams[i].num_reads \in Nat \ {0}
  <1>1. streams \in Seq([len : Nat, num_reads : Nat \ {0}])  BY ReplayAssumption DEF StreamTypes
  <1>2. PICK J : J = [len : Nat, num_reads : Nat \ {0}]  OBVIOUS
  <1>3. \A j \in J : j.len \in Nat /\ j.num_reads \in Nat \ {0}  BY <1>2
  <1>4. streams \in Seq(J)  BY <1>1, <1>2
  <1>5. ASSUME NEW i \in 1 .. Len(streams) PROVE streams[i] \in J  BY <1>4, ElementOfSeq
  <1> QED BY <1>3, <1>4, <1>5

----
(* What the reader sees of the writer's transfers.                          *)

LEMMA AllExtentsFacts ==
  ASSUME TailTypes
  PROVE  /\ AllExtents \in Seq(Extents)
         /\ ~tail_valid => AllExtents = extents
         /\ tail_valid => AllExtents = Append(extents, tail)
         /\ extents # <<>> => AllExtents # <<>> /\ Head(AllExtents) = Head(extents)
         /\ extents = <<>> /\ tail_valid => Head(AllExtents) = tail
         /\ extents # <<>> => Tail(AllExtents) = Tail(extents) \o (IF tail_valid THEN <<tail>> ELSE <<>>)
         /\ AllExtents = <<>> <=> extents = <<>> /\ ~tail_valid
  <1>1. extents \in Seq(Extents) /\ tail \in Extents /\ tail_valid \in BOOLEAN  BY DEF TailTypes
  <1>2. CASE tail_valid
    <2>1. PICK x, t, a : x = extents /\ t = tail /\ a = Append(x, t)  OBVIOUS
    <2>2. x \in Seq(Extents) /\ t \in Extents /\ a = x \o <<t>> /\ a \in Seq(Extents) /\ a # <<>>
      BY <2>1, <1>1
    <2>3. x # <<>> => Head(a) = Head(x) /\ Tail(a) = Tail(x) \o <<t>>  BY <2>1, <2>2
    <2>4. x = <<>> => Head(a) = t  BY <2>1, <2>2
    <2>5. AllExtents = a  BY <2>1, <2>2, <1>2 DEF AllExtents
    <2> QED BY <2>1, <2>2, <2>3, <2>4, <2>5, <1>2
  <1>3. CASE ~tail_valid
    <2>1. PICK x, e : x = extents /\ e = <<>>  OBVIOUS
    <2>2. x \in Seq(Extents) /\ x \o e = x  BY <2>1, <1>1
    <2>3. AllExtents = x  BY <2>1, <2>2, <1>3 DEF AllExtents
    <2>4. x # <<>> => Tail(x) \in Seq(Extents)  BY <2>2
    <2>5. x # <<>> => Tail(x) \o e = Tail(x)  BY <2>1, <2>4
    <2> QED BY <2>1, <2>2, <2>3, <2>5, <1>3
  <1> QED BY <1>1, <1>2, <1>3

\* The oldest extent, while the reader may use it.
LEMMA HeadFacts ==
  ASSUME Types, head_valid
  PROVE  /\ AllExtents # <<>> /\ head = Head(AllExtents) /\ head \in Extents
         /\ ~head_closed => tail_valid /\ ~tail_closed /\ ~head.last
         /\ head_read <= head.size /\ head_read \in Nat
  <1>1. TailTypes /\ HeadRead  BY DEF Types
  <1>2. CASE head_closed
    <2>1. extents # <<>> /\ head = Head(extents)  BY <1>2 DEF head_closed, head
    <2>2. AllExtents # <<>> /\ Head(AllExtents) = head  BY <2>1, <1>1, AllExtentsFacts
    <2>3. head \in Extents  BY <2>1, <1>1 DEF TailTypes
    <2> QED BY <2>2, <2>3, <1>1, <1>2, AlignAligned DEF HeadRead
  <1>3. CASE ~head_closed
    <2>1. extents = <<>> /\ tail_valid /\ ~tail_closed /\ head = tail
      BY <1>3 DEF head_closed, head, head_valid
    <2>2. AllExtents # <<>> /\ Head(AllExtents) = head  BY <2>1, <1>1, AllExtentsFacts
    <2>3. head \in Extents /\ ~head.last  BY <2>1, <1>1 DEF TailTypes
    <2> QED BY <2>1, <2>2, <2>3, <1>1, AlignAligned DEF HeadRead
  <1> QED BY <1>2, <1>3

\* After a transfer is linked: a new last extent, or more of it.
LinksNew(t) ==
  /\ ~tail_valid /\ AllExtents' = Append(AllExtents, tail')
  /\ tail' = [vaddr |-> t.vaddr, size |-> t.size, last |-> t.last]
LinksMore(t) ==
  /\ tail_valid /\ ~tail_closed /\ t.vaddr = tail_end
  /\ AllExtents = Append(extents, tail) /\ AllExtents' = Append(extents, tail')
  /\ tail' = [vaddr |-> tail.vaddr, size |-> tail.size + t.size, last |-> t.last]

LEMMA LinkExtents ==
  ASSUME Types, Link
  PROVE  /\ Head(pending) \in Transfers /\ Tail(pending) \in Seq(Transfers) /\ pending # <<>>
         /\ LinksNew(Head(pending)) \/ LinksMore(Head(pending))
         /\ TailTypes' /\ tail_closed' = Head(pending).last /\ tail_valid' = TRUE
         /\ pending' = Tail(pending)
         /\ UNCHANGED <<writerVars, unreserved, written, offset, extents, replayVars,
                 head_read, readVars, reads, requestVars, released_end, streams, enqueued, output>>
  <1>1. PICK t : t = Head(pending)  OBVIOUS
  <1>2. /\ pending # <<>> /\ (~tail_valid \/ link_continues_tail(t))
        /\ tail' = IF link_continues_tail(t)
                     THEN [tail EXCEPT !.size = @ + t.size, !.last = t.last]
                     ELSE [vaddr |-> t.vaddr, size |-> t.size, last |-> t.last]
        /\ tail_closed' = t.last /\ tail_valid' = TRUE /\ pending' = Tail(pending)
        /\ UNCHANGED <<writerVars, unreserved, written, offset, extents, replayVars,
                 head_read, readVars, reads, requestVars, released_end, streams, enqueued, output>>
    BY <1>1 DEF Link
  <1>3. pending \in Seq(Transfers) /\ TailTypes  BY DEF Types, StreamTypes
  <1>4. t \in Transfers /\ Tail(pending) \in Seq(Transfers)  BY <1>1, <1>2, <1>3
  <1>5. tail \in Extents /\ tail_valid \in BOOLEAN /\ extents \in Seq(Extents) /\ extents' = extents
        /\ (tail_valid /\ ~tail_closed => ~tail.last)
    BY <1>2, <1>3 DEF TailTypes
  <1>6. CASE link_continues_tail(t)
    <2>1. tail_valid /\ ~tail_closed /\ t.vaddr = tail_end /\ ~tail.last
      BY <1>5, <1>6 DEF link_continues_tail
    <2>2. tail' = [vaddr |-> tail.vaddr, size |-> tail.size + t.size, last |-> t.last]
      BY <1>2, <1>5, <1>6 DEF Extents, Extent
    <2>3. Aligned(tail.size) /\ tail.vaddr \in Nat /\ tail.size \in Nat  BY <2>1, <1>5, ExtentFacts
    <2>4. t.size \in Nat /\ t.last \in BOOLEAN /\ (t.last \/ Aligned(t.size))
      BY <1>4, TransferFacts
    <2>5. t.last \/ Aligned(tail.size + t.size)  BY <2>3, <2>4, AlignedSum
    <2>6. tail' \in Extents  BY <2>2, <2>3, <2>4, <2>5 DEF Extents, Extent
    <2>7. TailTypes'  BY <2>2, <2>6, <1>2, <1>4, <1>5, TransferFacts DEF TailTypes
    <2>8. AllExtents = Append(extents, tail)  BY <2>1, <1>3, AllExtentsFacts
    <2>9. AllExtents' = Append(extents, tail')
      <3>1. PICK x, e : x = extents /\ e = tail'  OBVIOUS
      <3>2. x \o <<e>> = Append(x, e)  BY <3>1, <1>5, <2>6
      <3> QED BY <3>1, <3>2, <1>2, <1>5 DEF AllExtents
    <2> QED BY <2>1, <2>2, <2>7, <2>8, <2>9, <1>1, <1>2, <1>4 DEF LinksMore
  <1>7. CASE ~link_continues_tail(t)
    <2>1. ~tail_valid /\ tail' = [vaddr |-> t.vaddr, size |-> t.size, last |-> t.last]
      BY <1>2, <1>7
    <2>2. tail' \in Extents  BY <2>1, <1>4, TransferFacts DEF Extents, Extent
    <2>3. TailTypes'  BY <2>1, <2>2, <1>2, <1>4, <1>5, TransferFacts DEF TailTypes
    <2>4. AllExtents = extents  BY <2>1, <1>3, AllExtentsFacts
    <2>5. AllExtents' = Append(extents, tail')
      <3>1. PICK x, e : x = extents /\ e = tail'  OBVIOUS
      <3>2. x \o <<e>> = Append(x, e)  BY <3>1, <1>5, <2>2
      <3> QED BY <3>1, <3>2, <1>2, <1>5 DEF AllExtents
    <2> QED BY <2>1, <2>3, <2>4, <2>5, <1>1, <1>2, <1>4 DEF LinksNew
  <1> QED BY <1>6, <1>7

----
(* The blocks of the ring buffer that are in use, from the oldest: what is   *)
(* read for the last time and not released, what the reader keeps of a       *)
(* stream to read again, what it has not read, what is on its way to the     *)
(* link, and what the StreamWriter holds.                                   *)

RestBlock(e, c) == Block(e.vaddr + c, Align(e.size) - c)
RestBlocks(x, c) == [i \in 1 .. Len(x) |-> RestBlock(x[i], IF i = 1 THEN c ELSE 0)]

Holding == reader = "REPLAY" \/ (reader = "FIRST_READ" /\ remaining_reads # 0)
\* What is read for the last time is released up to there.
Consumed == IF reader = "FIRST_READ" /\ remaining_reads = 0 THEN head_read ELSE 0
Frontier == IF writer = "WRITE" THEN transfer_vaddr + TRANSFER ELSE transfer_vaddr

ReadBlock == [release |-> read.release, start |-> read.start, span |-> read.span, end |-> read.end]
ReadBlocks == reads \o (IF read_valid THEN <<ReadBlock>> ELSE <<>>)
HeldBlocks == IF Holding THEN RestBlocks(segments, 0) ELSE <<>>
ExtentBlocks == RestBlocks(AllExtents, Consumed)
PendingBlocks == RestBlocks(pending, 0)
GrantBlocks == IF writer = "WRITE" THEN <<Block(transfer_vaddr, TRANSFER)>> ELSE <<>>

Start == [at |-> released_end, lap |-> 0]

Route(p1, p2, p3, p4, p5) ==
  /\ Start \in Points(ring)
  /\ Path(ring, ReadBlocks, Start, p1) /\ Path(ring, HeldBlocks, p1, p2)
  /\ Path(ring, ExtentBlocks, p2, p3)
  /\ Path(ring, PendingBlocks, p3, p4) /\ Path(ring, GrantBlocks, p4, p5)
  /\ p5.at = Frontier
  /\ free_bytes + unreserved + (Position(ring, p5) - released_end) = ring.size
  /\ Consumed # 0 => AllExtents # <<>> /\ p2.at = Head(AllExtents).vaddr + Consumed

RouteInv == \E p1, p2, p3, p4, p5 \in Points(ring) : Route(p1, p2, p3, p4, p5)

(* An extent that is not the last of its stream ended because the writer     *)
(* wrapped around: the next one does not continue it.                       *)
Broken(e, t) == t.vaddr # e.vaddr + Align(e.size)
Breaks(x) == \A i \in 1 .. Len(x) - 1 : ~x[i].last => Broken(x[i], x[i + 1])

Unfinished(s) == [i \in 1 .. Len(s) |-> [vaddr |-> s[i].vaddr, size |-> s[i].size, last |-> FALSE]]
HeldExtents == IF reader = "FIRST_READ" /\ remaining_reads # 0 THEN Unfinished(segments) ELSE <<>>
Unread == HeldExtents \o AllExtents
Ended == Unread # <<>> /\ (tail_valid => tail_closed) /\ ~Unread[Len(Unread)].last

BreakInv ==
  /\ Breaks(Unread)
  /\ Ended => pending # <<>> /\ Broken(Unread[Len(Unread)], Head(pending))
  /\ reader = "REPLAY" /\ Len(segments) = 2 => Broken(segments[1], segments[2])

(* Which of the reads an outstanding transfer is for, the next one included. *)
Owns(f, o, k) ==
  /\ f \in [1 .. Len(o) + 1 -> Nat \ {0}] /\ f[1] = 1
  /\ \A i \in 1 .. Len(o) + 1 : \A j \in i .. Len(o) + 1 : f[i] <= f[j]
  /\ \A i \in 1 .. Len(o) : f[i + 1] = f[i] + (IF o[i].buffer_end THEN 1 ELSE 0)
  /\ f[Len(o) + 1] = k

OwnerInv ==
  /\ \E f : Owns(f, outstanding, Len(reads) + (IF request.remaining = 0 THEN 1 ELSE 0))
  /\ outstanding # <<>> /\ request.remaining = 0 => outstanding[Len(outstanding)].buffer_end

Inv == Types /\ OwnerInv /\ BreakInv /\ RouteInv

----
(* Blocks of sequences of extents, transfers or segments.                   *)

Sized(R) == \A r \in R : r.vaddr \in Nat /\ r.size \in Nat

LEMMA AllSized == Sized(Extents) /\ Sized(Transfers) /\ Sized(Segments)
  <1>1. Sized(Extents)  BY ExtentFacts DEF Sized
  <1>2. Sized(Transfers)  BY TransferFacts DEF Sized
  <1>3. Sized(Segments)  BY DEF Sized, Segments
  <1> QED BY <1>1, <1>2, <1>3

LEMMA RestBlockFacts ==
  ASSUME NEW R, Sized(R), NEW e \in R, NEW c \in Nat, c <= Align(e.size)
  PROVE  /\ RestBlock(e, c) \in Blocks /\ RestBlock(e, c) = Block(e.vaddr + c, Align(e.size) - c)
         /\ e.vaddr + c \in Nat /\ Align(e.size) - c \in Nat
         /\ (e.vaddr + c) + (Align(e.size) - c) = e.vaddr + Align(e.size)
         /\ e.vaddr + 0 = e.vaddr /\ Align(e.size) - 0 = Align(e.size)
  <1>1. e.vaddr \in Nat /\ e.size \in Nat  BY DEF Sized
  <1>2. Align(e.size) \in Nat  BY <1>1, AlignFacts
  <1>3. PICK v, n : v = e.vaddr + c /\ n = Align(e.size) - c  OBVIOUS
  <1>4. v \in Nat /\ n \in Nat /\ v + n \in Nat /\ v + n = e.vaddr + Align(e.size)
    BY <1>1, <1>2, <1>3
  <1>5. Block(v, n) \in Blocks  BY <1>4 DEF Block, Blocks
  <1> QED BY <1>1, <1>2, <1>3, <1>4, <1>5 DEF RestBlock

\* The consumed bytes are of the first one.
Fits(x, c) == IF x = <<>> THEN c = 0 ELSE c <= Align(Head(x).size)

LEMMA RestType ==
  ASSUME NEW R, Sized(R), NEW x \in Seq(R), NEW c \in Nat, Fits(x, c)
  PROVE  RestBlocks(x, c) \in Seq(Blocks) /\ Len(RestBlocks(x, c)) = Len(x)
  <1>1. PICK n, y : n = Len(x) /\ y = RestBlocks(x, c)  OBVIOUS
  <1>2. n \in Nat /\ y = [i \in 1 .. n |-> RestBlock(x[i], IF i = 1 THEN c ELSE 0)]
    BY <1>1 DEF RestBlocks
  <1>3. ASSUME NEW i \in 1 .. n PROVE y[i] \in Blocks
    <2>1. x[i] \in R  BY <1>1, ElementOfSeq
    <2>2. 0 <= Align(x[i].size)
      <3>1. PICK s : s = x[i].size  OBVIOUS
      <3>2. s \in Nat  BY <2>1, <3>1 DEF Sized
      <3>3. 0 <= Align(s)  BY <3>2, AlignFacts
      <3> QED BY <3>1, <3>3
    <2>3. i = 1 => c <= Align(x[i].size)  BY <1>1 DEF Fits
    <2>4. PICK d : d = IF i = 1 THEN c ELSE 0  OBVIOUS
    <2>5. d \in Nat /\ d <= Align(x[i].size)  BY <2>2, <2>3, <2>4
    <2>6. RestBlock(x[i], d) \in Blocks  BY <2>1, <2>5, RestBlockFacts
    <2> QED BY <2>4, <2>6, <1>2
  <1>4. y \in [1 .. n -> Blocks] /\ DOMAIN y = 1 .. n  BY <1>2, <1>3
  <1>5. y \in Seq(Blocks) /\ Len(y) = n  BY <1>2, <1>4
  <1> QED BY <1>1, <1>5

LEMMA RestFirst ==
  ASSUME NEW R, Sized(R), NEW x \in Seq(R), x # <<>>, NEW c \in Nat, Fits(x, c)
  PROVE  /\ RestBlocks(x, c) \in Seq(Blocks) /\ RestBlocks(x, c) # <<>>
         /\ Head(RestBlocks(x, c)) = RestBlock(Head(x), c)
         /\ Tail(RestBlocks(x, c)) = RestBlocks(Tail(x), 0)
         /\ Head(x) \in R /\ Tail(x) \in Seq(R) /\ Fits(Tail(x), 0)
  <1>1. PICK n, y, t, z : n = Len(x) /\ y = RestBlocks(x, c) /\ t = Tail(x) /\ z = RestBlocks(t, 0)
    OBVIOUS
  <1>2. /\ n \in Nat \ {0} /\ t \in Seq(R) /\ Len(t) = n - 1 /\ \A i \in 1 .. n - 1 : t[i] = x[i + 1]
        /\ Head(x) = x[1] /\ x[1] \in R
    BY <1>1
  <1>3. Fits(t, 0)
    <2>1. t # <<>> => Head(t) \in R  BY <1>2
    <2>2. ASSUME t # <<>> PROVE 0 <= Align(Head(t).size)
      <3>1. Head(t).size \in Nat  BY <2>1, <2>2 DEF Sized
      <3> QED BY <3>1, AlignFacts
    <2> QED BY <2>2 DEF Fits
  <1>4. /\ y \in Seq(Blocks) /\ Len(y) = n /\ z \in Seq(Blocks) /\ Len(z) = n - 1
    BY <1>1, <1>2, <1>3, RestType
  <1>5. /\ \A i \in 1 .. n : y[i] = RestBlock(x[i], IF i = 1 THEN c ELSE 0)
        /\ \A i \in 1 .. n - 1 : z[i] = RestBlock(t[i], IF i = 1 THEN 0 ELSE 0)
    BY <1>1, <1>2 DEF RestBlocks
  <1>6. y # <<>> /\ Head(y) = y[1] /\ y[1] = RestBlock(x[1], c)  BY <1>2, <1>4, <1>5
  <1>7. Tail(y) = z
    <2>1. Tail(y) \in Seq(Blocks) /\ Len(Tail(y)) = n - 1  BY <1>2, <1>4, <1>6
    <2>2. \A i \in 1 .. n - 1 : Tail(y)[i] = y[i + 1]  BY <1>4, <1>6
    <2>3. ASSUME NEW i \in 1 .. n - 1 PROVE Tail(y)[i] = z[i]
      <3>1. i + 1 \in 1 .. n /\ i + 1 # 1  BY <1>2
      <3>2. y[i + 1] = RestBlock(x[i + 1], 0)  BY <3>1, <1>5
      <3>3. z[i] = RestBlock(t[i], 0) /\ t[i] = x[i + 1]  BY <1>2, <1>5
      <3>4. Tail(y)[i] = y[i + 1]  BY <2>2
      <3> QED BY <3>2, <3>3, <3>4
    <2> QED BY <2>1, <2>3, <1>4, SeqEqual
  <1> QED BY <1>1, <1>2, <1>3, <1>4, <1>6, <1>7

LEMMA RestAppend ==
  ASSUME NEW R, Sized(R), NEW x \in Seq(R), NEW e \in R, NEW c \in Nat, Fits(Append(x, e), c),
         NEW d, d = (IF x = <<>> THEN c ELSE 0)
  PROVE  /\ RestBlocks(Append(x, e), c) = Append(RestBlocks(x, c), RestBlock(e, d))
         /\ RestBlocks(x, c) \in Seq(Blocks) /\ RestBlock(e, d) \in Blocks
         /\ d \in Nat /\ d <= Align(e.size) /\ Append(x, e) \in Seq(R)
  <1>1. PICK n, y, t, z : n = Len(x) /\ y = RestBlocks(x, c) /\ t = Append(x, e) /\ z = RestBlocks(t, c)
    OBVIOUS
  <1>2. n \in Nat /\ t \in Seq(R) /\ Len(t) = n + 1 /\ t[n + 1] = e /\ (\A i \in 1 .. n : t[i] = x[i]) /\ t # <<>>
    BY <1>1
  <1>3. c <= Align(Head(t).size)  BY <1>1, <1>2 DEF Fits
  <1>4. d \in Nat /\ d <= Align(e.size)
    <2>1. e.size \in Nat  BY DEF Sized
    <2>2. Align(e.size) \in Nat  BY <2>1, AlignFacts
    <2>3. x = <<>> => Head(t) = e  BY <1>1
    <2> QED BY <2>2, <2>3, <1>3
  <1>5. RestBlock(e, d) \in Blocks  BY <1>4, RestBlockFacts
  <1>6. y \in Seq(Blocks) /\ Len(y) = n
    <2>1. CASE x = <<>>
      <3>1. n = 0  BY <2>1, <1>1
      <3>2. y = [i \in 1 .. 0 |-> RestBlock(x[i], IF i = 1 THEN c ELSE 0)]
        BY <3>1, <1>1 DEF RestBlocks
      <3>3. y = <<>>  BY <3>2
      <3> QED BY <3>1, <3>3
    <2>2. CASE x # <<>>
      <3>1. Head(t) = Head(x)  BY <2>2, <1>1
      <3>2. Fits(x, c)  BY <2>2, <3>1, <1>3 DEF Fits
      <3> QED BY <3>2, <1>1, RestType
    <2> QED BY <2>1, <2>2
  <1>7. z \in Seq(Blocks) /\ Len(z) = n + 1  BY <1>1, <1>2, RestType
  <1>8. /\ \A i \in 1 .. n : y[i] = RestBlock(x[i], IF i = 1 THEN c ELSE 0)
        /\ \A i \in 1 .. n + 1 : z[i] = RestBlock(t[i], IF i = 1 THEN c ELSE 0)
    BY <1>1, <1>2 DEF RestBlocks
  <1>9. PICK b, w : b = RestBlock(e, d) /\ w = Append(y, b)  OBVIOUS
  <1>10. w \in Seq(Blocks) /\ Len(w) = n + 1 /\ w[n + 1] = b /\ \A i \in 1 .. n : w[i] = y[i]
    BY <1>5, <1>6, <1>9
  <1>11. ASSUME NEW i \in 1 .. n + 1 PROVE z[i] = w[i]
    <2>1. CASE i \in 1 .. n
      <3>1. z[i] = RestBlock(t[i], IF i = 1 THEN c ELSE 0) /\ t[i] = x[i]  BY <2>1, <1>2, <1>8
      <3> QED BY <3>1, <2>1, <1>8, <1>10
    <2>2. CASE i = n + 1
      <3>1. i = 1 <=> x = <<>>  BY <2>2, <1>1, <1>2
      <3>2. (IF i = 1 THEN c ELSE 0) = d  BY <3>1
      <3>3. z[i] = RestBlock(t[i], d)  BY <3>2, <1>8
      <3> QED BY <3>3, <2>2, <1>2, <1>9, <1>10
    <2> QED BY <2>1, <2>2, <1>2
  <1>12. z = w  BY <1>7, <1>10, <1>11, SeqEqual
  <1> QED BY <1>1, <1>2, <1>4, <1>5, <1>6, <1>9, <1>12

----
(* Types: what a step leaves alone.                                         *)

LEMMA KeepTypes ==
  ASSUME Types
  PROVE  /\ UNCHANGED <<writerVars, unreserved>> => WriterTypes'
         /\ UNCHANGED <<streamVars, streams>> => StreamTypes'
         /\ UNCHANGED <<tailVars, extents>> => TailTypes' /\ AllExtents' = AllExtents
         /\ UNCHANGED <<replayVars, enqueued, streams>> => ReaderTypes'
         /\ UNCHANGED <<tailVars, extents, reader, head_read>> => HeadRead'
         /\ UNCHANGED <<readVars, reads, released_end>> => ReadTypes'
         /\ UNCHANGED requestVars => RequestTypes'
  <1>1. ASSUME UNCHANGED <<writerVars, unreserved>> PROVE WriterTypes'
    <2>1. WriterTypes  BY DEF Types
    <2> QED BY <1>1, <2>1 DEF WriterTypes, writerVars
  <1>2. ASSUME UNCHANGED <<streamVars, streams>> PROVE StreamTypes'
    <2>1. StreamTypes  BY DEF Types
    <2> QED BY <1>2, <2>1 DEF StreamTypes, streamVars
  <1>3. ASSUME UNCHANGED <<tailVars, extents>> PROVE TailTypes' /\ AllExtents' = AllExtents
    <2>1. TailTypes  BY DEF Types
    <2>2. TailTypes'  BY <1>3, <2>1 DEF TailTypes, tailVars
    <2>3. AllExtents' = AllExtents  BY <1>3 DEF AllExtents, tailVars
    <2> QED BY <2>2, <2>3
  <1>4. ASSUME UNCHANGED <<replayVars, enqueued, streams>> PROVE ReaderTypes'
    <2>1. ReaderTypes  BY DEF Types
    <2> QED BY <1>4, <2>1 DEF ReaderTypes, replayVars
  <1>5. ASSUME UNCHANGED <<tailVars, extents, reader, head_read>> PROVE HeadRead'
    <2>1. HeadRead  BY DEF Types
    <2>2. AllExtents' = AllExtents  BY <1>5 DEF AllExtents, tailVars
    <2> QED BY <1>5, <2>1, <2>2 DEF HeadRead
  <1>6. ASSUME UNCHANGED <<readVars, reads, released_end>> PROVE ReadTypes'
    <2>1. ReadTypes  BY DEF Types
    <2> QED BY <1>6, <2>1 DEF ReadTypes, readVars
  <1>7. ASSUME UNCHANGED requestVars PROVE RequestTypes'
    <2>1. RequestTypes  BY DEF Types
    <2> QED BY <1>7, <2>1 DEF RequestTypes, requestVars
  <1> QED BY <1>1, <1>2, <1>3, <1>4, <1>5, <1>6, <1>7

LEMMA InitTypes == Init => Types
  <1> SUFFICES ASSUME Init PROVE Types  OBVIOUS
  <1>0. BEAT \in Nat \ {0}  BY Sizes
  <1>1. WriterTypes  BY DEF Init, WriterTypes, Ring
  <1>2. StreamTypes
    <2>1. streams \in Streams /\ pending = <<>> /\ written = 0 /\ offset = 0  BY DEF Init
    <2>2. streams \in Seq([len : Nat, num_reads : Nat \ {0}])  BY <2>1, ReplayAssumption
    <2>3. Len(streams) \in Nat  BY <2>2
    <2> QED BY <2>1, <2>3 DEF StreamTypes
  <1>3. Aligned(0)
    <2>1. BEAT * 0 = 0  BY <1>0
    <2> QED BY <2>1 DEF Aligned
  <1>4. TailTypes
    <2>1. tail = [vaddr |-> 0, size |-> 0, last |-> FALSE] /\ tail_valid = FALSE /\ tail_closed = FALSE /\ extents = <<>>
      BY DEF Init
    <2>2. tail \in Extents  BY <2>1, <1>3 DEF Extents, Extent
    <2>3. <<>> \in Seq(Extents)  OBVIOUS
    <2>4. extents \in Seq(Extents) /\ tail_valid \in BOOLEAN /\ tail_closed \in BOOLEAN /\ ~tail_valid
      BY <2>1, <2>3
    <2> QED BY <2>2, <2>4 DEF TailTypes
  <1>5. ReaderTypes
    <2>1. reader = "WAIT_FOR_STREAM" /\ remaining_reads = 0 /\ segments = <<>> /\ replay_seg = 0 /\ enqueued = 0
      BY DEF Init
    <2>2. Len(streams) \in Nat  BY <1>2 DEF StreamTypes
    <2> QED BY <2>1, <2>2 DEF ReaderTypes
  <1>6. HeadRead
    <2>1. head_read = 0 /\ extents = <<>> /\ tail_valid = FALSE  BY DEF Init
    <2>2. AllExtents = <<>>  BY <2>1, <1>4, AllExtentsFacts
    <2> QED BY <2>1, <2>2, <1>3 DEF HeadRead
  <1>7. ReadTypes
    <2>1. read = [vaddr |-> 0, size |-> 0, last |-> FALSE, release |-> FALSE, start |-> 0, span |-> 0, end |-> 0]
      BY DEF Init
    <2>2. read \in ReadType  BY <2>1 DEF ReadType
    <2>3. read_valid = FALSE /\ reads = <<>> /\ released_end = 0  BY DEF Init
    <2>4. <<>> \in Seq(ReleaseType)  OBVIOUS
    <2>5. reads \in Seq(ReleaseType) /\ read_valid \in BOOLEAN /\ released_end \in Nat
      BY <2>3, <2>4
    <2> QED BY <2>2, <2>5 DEF ReadTypes
  <1>8. RequestTypes  BY DEF Init, RequestTypes
  <1> QED BY <1>1, <1>2, <1>4, <1>5, <1>6, <1>7, <1>8 DEF Types

----
(* Types: one step.                                                         *)

LEMMA ConfigureTypes ==
  ASSUME Types, NEW r \in Rings, Configure(r)
  PROVE  Types'
  <1>1. /\ UNCHANGED <<streamVars, tailVars, extents, replayVars, head_read, readVars,
                 reads, requestVars, memory, streams, enqueued, output>>
        /\ configured' = TRUE /\ ring' = r /\ writer' = "ALLOCATE" /\ transfer_vaddr' = r.base
        /\ free_bytes' = r.size /\ unreserved' = 0 /\ released_end' = r.base
    BY DEF Configure
  <1>2. r \in Ring  BY ReplayAssumption DEF Ring
  <1>3. r.base \in Nat /\ r.size \in Nat  BY <1>2 DEF Ring
  <1>4. WriterTypes'  BY <1>1, <1>2, <1>3 DEF WriterTypes
  <1>5. ReadTypes'
    <2>1. ReadTypes  BY DEF Types
    <2> QED BY <2>1, <1>1, <1>3 DEF ReadTypes, readVars
  <1>6. StreamTypes' /\ TailTypes' /\ RequestTypes'  BY <1>1, KeepTypes
  <1>7. ReaderTypes'  BY <1>1, KeepTypes
  <1>8. HeadRead'
    <2>1. UNCHANGED <<tailVars, extents, reader, head_read>>  BY <1>1 DEF replayVars
    <2> QED BY <2>1, KeepTypes
  <1> QED BY <1>4, <1>5, <1>6, <1>7, <1>8 DEF Types

\* The address of the next transfer lies in the ring buffer.
GrantFits == transfer_vaddr <= ring_end

LEMMA GrantTypes ==
  ASSUME Types, GrantFits, Grant
  PROVE  /\ Types'
         /\ next_reserved \in Nat /\ next_vaddr \in Nat
  <1>1. /\ UNCHANGED <<ring, configured, unreserved, streamVars, tailVars, extents,
                 replayVars, head_read, readVars, reads, requestVars, released_end, streams,
                 enqueued, output>>
        /\ writer' = "WRITE" /\ configured
        /\ free_bytes' = free_bytes - next_reserved /\ free_bytes >= next_reserved
        /\ transfer_vaddr' = next_vaddr
    BY DEF Grant, next_fits
  <1>2. WriterTypes  BY DEF Types
  <1>3. ring \in Ring /\ ring.base \in Nat /\ ring_end \in Nat
    <2>1. ring \in Ring /\ ring.base \in Nat /\ ring.size \in Nat /\ ring_end = ring.base + ring.size
      BY <1>2, RingFacts
    <2> QED BY <2>1
  <1>4. transfer_vaddr \in Nat /\ free_bytes \in Nat /\ TRANSFER \in Nat
    BY <1>2, Sizes DEF WriterTypes
  <1>5. next_reserved \in Nat /\ next_vaddr \in Nat
    BY <1>3, <1>4 DEF next_reserved, next_vaddr, bytes_to_end, GrantFits
  <1>6. free_bytes' \in Nat /\ transfer_vaddr' \in Nat  BY <1>1, <1>4, <1>5
  <1>7. WriterTypes'  BY <1>1, <1>2, <1>6 DEF WriterTypes
  <1>8. StreamTypes' /\ TailTypes' /\ RequestTypes' /\ ReadTypes'  BY <1>1, KeepTypes
  <1>9. ReaderTypes'  BY <1>1, KeepTypes
  <1>10. HeadRead'
    <2>1. UNCHANGED <<tailVars, extents, reader, head_read>>  BY <1>1 DEF replayVars
    <2> QED BY <2>1, KeepTypes
  <1> QED BY <1>5, <1>7, <1>8, <1>9, <1>10 DEF Types

\* The transfer that is issued.
Issues(t) ==
  /\ t \in Transfers /\ t.vaddr = transfer_vaddr /\ pending' = Append(pending, t)
  /\ \/ ~t.last /\ transfer_vaddr' = transfer_vaddr + TRANSFER /\ writer' = "ALLOCATE" /\ unreserved' = unreserved
     \/ /\ t.last /\ t.size # 0 /\ transfer_vaddr' = transfer_vaddr + Align(t.size) /\ writer' = "ALLOCATE"
        /\ unreserved' = unreserved + (TRANSFER - Align(t.size))
     \/ t.last /\ t.size = 0 /\ transfer_vaddr' = transfer_vaddr /\ writer' = writer /\ unreserved' = unreserved

LEMMA IssueTypes ==
  ASSUME Types, Issue
  PROVE  Types' /\ \E t : Issues(t)
  <1>1. PICK len, size, last : /\ len = streams[written + 1].len /\ size = Least(TRANSFER, len - offset)
                               /\ last = (offset + size = len)
    OBVIOUS
  <1>2. PICK t : t = [vaddr |-> transfer_vaddr, size |-> size, last |-> last, stream |-> written + 1, offset |-> offset]
    OBVIOUS
  <1>3. /\ UNCHANGED <<ring, configured, free_bytes, tailVars, extents, replayVars,
                 head_read, readVars, reads, requestVars, released_end, memory, streams,
                 enqueued, output>>
        /\ writer = "WRITE" /\ written < Len(streams)
        /\ pending' = Append(pending, t)
        /\ written' = IF last THEN written + 1 ELSE written
        /\ offset' = IF last THEN 0 ELSE offset + size
        /\ IF ~last
             THEN /\ transfer_vaddr' = transfer_vaddr + TRANSFER
                  /\ writer' = "ALLOCATE"
                  /\ UNCHANGED unreserved
             ELSE IF size # 0
               THEN /\ transfer_vaddr' = transfer_vaddr + Align(size)
                    /\ writer' = "ALLOCATE"
                    /\ unreserved' = unreserved + Returned(size)
               ELSE UNCHANGED <<transfer_vaddr, writer, unreserved>>
    BY <1>1, <1>2 DEF Issue
  <1>4. WriterTypes /\ StreamTypes  BY DEF Types
  <1>5. written \in Nat /\ offset \in Nat /\ Len(streams) \in Nat /\ written + 1 \in 1 .. Len(streams)
    BY <1>3, <1>4, StreamFacts DEF StreamTypes
  <1>6. len \in Nat /\ (offset # 0 => offset < len)
    BY <1>1, <1>4, <1>5, StreamFacts DEF StreamTypes
  <1>7. TRANSFER \in Nat \ {0}  BY Sizes
  <1>8. size \in Nat /\ size <= TRANSFER /\ (offset + size = len \/ size = TRANSFER) /\ offset + size <= len
    BY <1>1, <1>5, <1>6, <1>7 DEF Least
  <1>9. last \in BOOLEAN /\ (last \/ size = TRANSFER) /\ (~last => offset + size < len /\ offset + size \in Nat)
    <2>1. last \in BOOLEAN /\ (last <=> offset + size = len)  BY <1>1
    <2>2. offset + size # len => offset + size < len /\ offset + size \in Nat /\ size = TRANSFER
      BY <1>5, <1>6, <1>8
    <2> QED BY <2>1, <2>2
  <1>10. transfer_vaddr \in Nat /\ unreserved \in Nat  BY <1>4 DEF WriterTypes
  <1>11. /\ t \in Transfers /\ t.vaddr = transfer_vaddr /\ t.size = size /\ t.last = last
    BY <1>2, <1>5, <1>8, <1>9, <1>10 DEF Transfers
  <1>12. Align(size) \in Nat /\ Align(size) <= TRANSFER  BY <1>11, TransferFacts
  <1>13. Issues(t)
    <2>1. t \in Transfers /\ t.vaddr = transfer_vaddr /\ pending' = Append(pending, t)
      BY <1>3, <1>11
    <2>2. ASSUME ~last PROVE transfer_vaddr' = transfer_vaddr + TRANSFER /\ writer' = "ALLOCATE" /\ unreserved' = unreserved
      BY <2>2, <1>3
    <2>3. ASSUME last, size # 0
          PROVE  /\ transfer_vaddr' = transfer_vaddr + Align(size) /\ writer' = "ALLOCATE"
                 /\ unreserved' = unreserved + (TRANSFER - Align(size))
      BY <2>3, <1>3 DEF Returned
    <2>4. ASSUME last, size = 0 PROVE transfer_vaddr' = transfer_vaddr /\ writer' = writer /\ unreserved' = unreserved
      BY <2>4, <1>3
    <2>5. t.last = last /\ t.size = size /\ last \in BOOLEAN  BY <1>9, <1>11
    <2>6. CASE ~last  BY <2>1, <2>2, <2>5, <2>6 DEF Issues
    <2>7. CASE last /\ size # 0  BY <2>1, <2>3, <2>5, <2>7 DEF Issues
    <2>8. CASE last /\ size = 0  BY <2>1, <2>4, <2>5, <2>8 DEF Issues
    <2> QED BY <2>6, <2>7, <2>8, <2>5
  <1>14. transfer_vaddr' \in Nat /\ unreserved' \in Nat /\ writer' \in {"ALLOCATE", "WRITE"}
    <2>1. PICK a, u, m, g : a = transfer_vaddr /\ u = unreserved /\ m = Align(size) /\ g = TRANSFER
      OBVIOUS
    <2>2. a + g \in Nat /\ a + m \in Nat /\ u + (g - m) \in Nat /\ a \in Nat /\ u \in Nat
      BY <2>1, <1>7, <1>10, <1>12
    <2>3. /\ transfer_vaddr' \in {a + g, a + m, a} /\ unreserved' \in {u, u + (g - m)}
          /\ writer' \in {"ALLOCATE", "WRITE"}
      BY <2>1, <1>3 DEF Returned
    <2> QED BY <2>2, <2>3
  <1>15. WriterTypes'
    <2>1. configured  BY <1>3, <1>4 DEF WriterTypes
    <2> QED BY <2>1, <1>3, <1>4, <1>14 DEF WriterTypes
  <1>16. StreamTypes'
    <2>1. pending \in Seq(Transfers) /\ streams \in Streams /\ streams' = streams
      BY <1>3, <1>4 DEF StreamTypes
    <2>2. pending' \in Seq(Transfers)  BY <2>1, <1>3, <1>11
    <2>3. written' \in 0 .. Len(streams) /\ offset' \in Nat  BY <1>3, <1>5, <1>9
    <2>4. offset' # 0 => written' = written /\ offset' = offset + size /\ offset + size < len
      BY <1>3, <1>9
    <2>5. offset' # 0 => written' < Len(streams) /\ offset' < streams[written' + 1].len
      BY <2>4, <1>1, <1>3
    <2> QED BY <2>1, <2>2, <2>3, <2>5 DEF StreamTypes
  <1>17. TailTypes' /\ RequestTypes' /\ ReadTypes'  BY <1>3, KeepTypes
  <1>18. ReaderTypes'  BY <1>3, KeepTypes
  <1>19. HeadRead'
    <2>1. UNCHANGED <<tailVars, extents, reader, head_read>>  BY <1>3 DEF replayVars
    <2> QED BY <2>1, KeepTypes
  <1> QED BY <1>13, <1>15, <1>16, <1>17, <1>18, <1>19 DEF Types

LEMMA UnreserveTypes ==
  ASSUME Types, Unreserve
  PROVE  Types'
  <1>1. /\ UNCHANGED <<ring, configured, writer, transfer_vaddr, streamVars, tailVars,
                 extents, replayVars, head_read, readVars, reads, requestVars, released_end,
                 memory, streams, enqueued, output>>
        /\ free_bytes' = free_bytes + unreserved /\ unreserved' = 0
    BY DEF Unreserve
  <1>2. WriterTypes'
    <2>1. WriterTypes  BY DEF Types
    <2>2. free_bytes' \in Nat /\ unreserved' \in Nat  BY <2>1, <1>1 DEF WriterTypes
    <2> QED BY <2>1, <2>2, <1>1 DEF WriterTypes
  <1>3. StreamTypes' /\ TailTypes' /\ RequestTypes' /\ ReadTypes'  BY <1>1, KeepTypes
  <1>4. ReaderTypes'  BY <1>1, KeepTypes
  <1>5. HeadRead'
    <2>1. UNCHANGED <<tailVars, extents, reader, head_read>>  BY <1>1 DEF replayVars
    <2> QED BY <2>1, KeepTypes
  <1> QED BY <1>2, <1>3, <1>4, <1>5 DEF Types

LEMMA HeadAppend ==
  ASSUME NEW R, NEW x \in Seq(R), NEW e \in R
  PROVE  /\ Append(x, e) \in Seq(R) /\ Append(x, e) # <<>>
         /\ x = <<>> => Head(Append(x, e)) = e
         /\ x # <<>> => Head(Append(x, e)) = Head(x)
  OBVIOUS

LEMMA TailOn ==
  ASSUME NEW R, NEW x \in Seq(R), x # <<>>
  PROVE  Head(x) \in R /\ Tail(x) \in Seq(R) /\ (Tail(x) # <<>> => Head(Tail(x)) \in R)
  <1>1. Head(x) \in R /\ Tail(x) \in Seq(R)  OBVIOUS
  <1>2. PICK y : y = Tail(x)  OBVIOUS
  <1>3. y \in Seq(R) /\ (y # <<>> => Head(y) \in R)  BY <1>1, <1>2
  <1> QED BY <1>1, <1>2, <1>3

\* The oldest extent stays the oldest, and only grows.
SameHead ==
  /\ AllExtents' # <<>>
  /\ AllExtents = <<>> => Head(AllExtents') \in Extents
  /\ AllExtents # <<>> => /\ Head(AllExtents').vaddr = Head(AllExtents).vaddr
                          /\ Head(AllExtents').size >= Head(AllExtents).size

LEMMA LinkHead ==
  ASSUME Types, Link
  PROVE  SameHead /\ tail' \in Extents
  <1>1. TailTypes  BY DEF Types
  <1>2. PICK t : t = Head(pending)  OBVIOUS
  <1>3. t \in Transfers /\ (LinksNew(t) \/ LinksMore(t)) /\ TailTypes'  BY <1>2, LinkExtents
  <1>4. tail' \in Extents  BY <1>3 DEF TailTypes
  <1>5. AllExtents \in Seq(Extents) /\ extents \in Seq(Extents) /\ tail \in Extents
    BY <1>1, AllExtentsFacts DEF TailTypes
  <1>6. \A e \in Extents : e.size \in Nat  BY ExtentFacts
  <1>7. CASE LinksNew(t)
    <2>1. AllExtents' = Append(AllExtents, tail')  BY <1>7 DEF LinksNew
    <2>2. AllExtents' # <<>> /\ (AllExtents = <<>> => Head(AllExtents') = tail') /\ (AllExtents # <<>> => Head(AllExtents') = Head(AllExtents))
      BY <2>1, <1>4, <1>5, HeadAppend
    <2>3. AllExtents # <<>> => Head(AllExtents).size \in Nat  BY <1>5, <1>6, TailOn
    <2> QED BY <2>2, <2>3, <1>4 DEF SameHead
  <1>8. CASE LinksMore(t)
    <2>1. /\ AllExtents = Append(extents, tail) /\ AllExtents' = Append(extents, tail')
          /\ tail' = [vaddr |-> tail.vaddr, size |-> tail.size + t.size, last |-> t.last]
      BY <1>8 DEF LinksMore
    <2>2. AllExtents # <<>> /\ AllExtents' # <<>>  BY <2>1, <1>4, <1>5, HeadAppend
    <2>3. CASE extents = <<>>
      <3>1. Head(AllExtents') = tail' /\ Head(AllExtents) = tail
        BY <2>1, <2>3, <1>4, <1>5, HeadAppend
      <3>2. tail.size \in Nat /\ t.size \in Nat  BY <1>3, <1>5, <1>6, TransferFacts
      <3>3. tail'.vaddr = tail.vaddr /\ tail'.size >= tail.size  BY <3>2, <2>1
      <3> QED BY <3>1, <3>3, <2>2, <1>4 DEF SameHead
    <2>4. CASE extents # <<>>
      <3>1. Head(AllExtents') = Head(extents) /\ Head(AllExtents) = Head(extents)
        BY <2>1, <2>4, <1>4, <1>5, HeadAppend
      <3>2. Head(extents).size \in Nat  BY <2>4, <1>5, <1>6, TailOn
      <3> QED BY <3>1, <3>2, <2>2, <1>4 DEF SameHead
    <2> QED BY <2>3, <2>4
  <1> QED BY <1>3, <1>4, <1>7, <1>8

LEMMA LinkTypes ==
  ASSUME Types, Link
  PROVE  Types'
  <1>1. /\ Tail(pending) \in Seq(Transfers) /\ TailTypes' /\ pending' = Tail(pending)
        /\ UNCHANGED <<writerVars, unreserved, written, offset, extents, replayVars,
                 head_read, readVars, reads, requestVars, released_end, streams, enqueued, output>>
    BY LinkExtents
  <1>2. StreamTypes'
    <2>1. StreamTypes  BY DEF Types
    <2> QED BY <2>1, <1>1 DEF StreamTypes
  <1>3. HeadRead'
    <2>1. HeadRead  BY DEF Types
    <2>2. SameHead  BY LinkHead
    <2>3. head_read' = head_read /\ reader' = reader  BY <1>1 DEF replayVars
    <2>4. \A e \in Extents : e.size \in Nat  BY ExtentFacts
    <2>5. AllExtents = <<>> => head_read <= Head(AllExtents').size
      BY <2>1, <2>2, <2>4 DEF HeadRead, SameHead
    <2>6. head_read \in Nat  BY <2>1, AlignAligned DEF HeadRead
    <2>7. AllExtents # <<>> => Head(AllExtents).size \in Nat
      <3>1. TailTypes  BY DEF Types
      <3>2. AllExtents \in Seq(Extents)  BY <3>1, AllExtentsFacts
      <3> QED BY <3>2, <2>4, TailOn
    <2>8. CASE AllExtents # <<>>
      <3>1. /\ head_read <= Head(AllExtents).size /\ Head(AllExtents).size <= Head(AllExtents').size
            /\ AllExtents' # <<>> /\ Head(AllExtents).size \in Nat
        BY <2>1, <2>2, <2>7, <2>8 DEF HeadRead, SameHead
      <3>2. PICK y : y = Head(AllExtents').size  OBVIOUS
      <3>3. y \in Int
        <4>1. TailTypes'  BY <1>1
        <4>2. AllExtents' \in Seq(Extents)
          <5>1. extents \in Seq(Extents) /\ tail' \in Extents /\ AllExtents \in Seq(Extents)
            <6>1. TailTypes  BY DEF Types
            <6> QED BY <6>1, AllExtentsFacts, LinkHead DEF TailTypes
          <5>2. AllExtents' = Append(extents, tail') \/ AllExtents' = Append(AllExtents, tail')
            BY LinkExtents DEF LinksNew, LinksMore
          <5> QED BY <5>1, <5>2, HeadAppend
        <4> QED BY <4>2, <3>1, <3>2, <2>4, TailOn
      <3>4. head_read <= y  BY <3>1, <3>2, <3>3, <2>6
      <3> QED BY <3>1, <3>2, <3>4, <2>1, <2>3 DEF HeadRead
    <2>9. CASE AllExtents = <<>>  BY <2>9, <2>1, <2>2, <2>3, <2>5 DEF HeadRead, SameHead
    <2> QED BY <2>8, <2>9
  <1>4. WriterTypes' /\ ReaderTypes'  BY <1>1, KeepTypes
  <1>5. ReadTypes' /\ RequestTypes'  BY <1>1, KeepTypes
  <1> QED BY <1>1, <1>2, <1>3, <1>4, <1>5 DEF Types

LEMMA CloseTailTypes ==
  ASSUME Types, CloseTail
  PROVE  Types' /\ AllExtents' = AllExtents
  <1>1. /\ UNCHANGED <<writerVars, unreserved, streamVars, tail, tail_valid, extents,
                 replayVars, head_read, readVars, reads, requestVars, released_end, memory,
                 streams, enqueued, output>>
        /\ tail_closed' = TRUE
    BY DEF CloseTail
  <1>2. TailTypes'
    <2>1. TailTypes  BY DEF Types
    <2> QED BY <2>1, <1>1 DEF TailTypes
  <1>3. AllExtents' = AllExtents  BY <1>1 DEF AllExtents
  <1>4. HeadRead'
    <2>1. HeadRead /\ reader' = reader /\ head_read' = head_read  BY <1>1 DEF Types, replayVars
    <2> QED BY <2>1, <1>3 DEF HeadRead
  <1>5. WriterTypes' /\ StreamTypes' /\ ReaderTypes'  BY <1>1, KeepTypes
  <1>6. ReadTypes' /\ RequestTypes'  BY <1>1, KeepTypes
  <1> QED BY <1>2, <1>3, <1>4, <1>5, <1>6 DEF Types

LEMMA MoveTailTypes ==
  ASSUME Types, MoveTail
  PROVE  Types' /\ AllExtents' = AllExtents
  <1>1. /\ UNCHANGED <<writerVars, unreserved, streamVars, tail, tail_closed, replayVars,
                 head_read, readVars, reads, requestVars, released_end, memory, streams,
                 enqueued, output>>
        /\ tail_valid /\ tail_valid' = FALSE /\ extents' = Append(extents, tail)
    BY DEF MoveTail
  <1>2. TailTypes  BY DEF Types
  <1>3. extents \in Seq(Extents) /\ tail \in Extents  BY <1>2 DEF TailTypes
  <1>4. extents' \in Seq(Extents)  BY <1>1, <1>3
  <1>5. TailTypes'  BY <1>1, <1>2, <1>4 DEF TailTypes
  <1>6. AllExtents' = AllExtents
    <2>1. AllExtents = Append(extents, tail)  BY <1>1, <1>2, AllExtentsFacts
    <2>2. PICK x, e : x = extents' /\ e = <<>>  OBVIOUS
    <2>3. x \o e = x  BY <2>2, <1>4
    <2>4. AllExtents' = x \o e  BY <2>2, <1>1 DEF AllExtents
    <2> QED BY <2>1, <2>2, <2>3, <2>4, <1>1
  <1>7. HeadRead'
    <2>1. HeadRead /\ reader' = reader /\ head_read' = head_read  BY <1>1 DEF Types, replayVars
    <2> QED BY <2>1, <1>6 DEF HeadRead
  <1>8. WriterTypes' /\ StreamTypes' /\ ReaderTypes'  BY <1>1, KeepTypes
  <1>9. ReadTypes' /\ RequestTypes'  BY <1>1, KeepTypes
  <1> QED BY <1>5, <1>6, <1>7, <1>8, <1>9 DEF Types

LEMMA TakeNumReadsTypes ==
  ASSUME Types, TakeNumReads
  PROVE  Types' /\ AllExtents' = AllExtents
  <1>1. /\ UNCHANGED <<writerVars, unreserved, streamVars, tailVars, extents, replay_seg,
                 readVars, reads, requestVars, released_end, memory, streams, output>>
        /\ enqueued < Len(streams) /\ enqueued' = enqueued + 1
        /\ remaining_reads' = streams[enqueued + 1].num_reads - 1
        /\ head_read' = 0 /\ segments' = <<>> /\ reader' = "FIRST_READ"
    BY DEF TakeNumReads
  <1>2. StreamTypes /\ ReaderTypes /\ TailTypes  BY DEF Types
  <1>3. enqueued + 1 \in 1 .. Len(streams)  BY <1>1, <1>2, StreamFacts DEF ReaderTypes
  <1>4. streams[enqueued + 1].num_reads \in Nat \ {0}  BY <1>2, <1>3, StreamFacts
  <1>5. ReaderTypes'
    <2>1. <<>> \in Seq(Segments) /\ Len(<<>>) = 0  OBVIOUS
    <2>2. segments' \in Seq(Segments) /\ Len(segments') <= 2  BY <2>1, <1>1
    <2>3. remaining_reads' \in Nat /\ enqueued' \in 0 .. Len(streams) /\ reader' = "FIRST_READ" /\ replay_seg' = replay_seg
      BY <1>1, <1>3, <1>4
    <2>4. replay_seg \in 0 .. 1 /\ streams' = streams  BY <1>1, <1>2 DEF ReaderTypes
    <2> QED BY <2>2, <2>3, <2>4 DEF ReaderTypes
  <1>6. AllExtents' = AllExtents  BY <1>1, KeepTypes
  <1>7. HeadRead'
    <2>1. BEAT * 0 = 0  BY Sizes
    <2>2. Aligned(0)  BY <2>1 DEF Aligned
    <2>3. AllExtents # <<>> => Head(AllExtents) \in Extents  BY <1>2, AllExtentsFacts, TailOn
    <2>4. AllExtents # <<>> => Head(AllExtents).size \in Nat  BY <2>3, ExtentFacts
    <2> QED BY <2>2, <2>4, <1>1, <1>6 DEF HeadRead
  <1>8. WriterTypes' /\ StreamTypes' /\ TailTypes'  BY <1>1, KeepTypes
  <1>9. ReadTypes' /\ RequestTypes'  BY <1>1, KeepTypes
  <1> QED BY <1>5, <1>6, <1>7, <1>8, <1>9 DEF Types

LEMMA AtMostTwo ==
  ASSUME NEW R, NEW x \in Seq(R), Len(x) <= 2
  PROVE  /\ Len(x) \in 0 .. 2
         /\ \A e \in R : Len(x) # 2 => /\ Append(x, e) \in Seq(R) /\ Len(Append(x, e)) = Len(x) + 1
                                      /\ Len(x) + 1 \in 1 .. 2
         /\ \A k \in Nat : k < Len(x) => Len(x) \in 1 .. 2 /\ k + 1 \in 1 .. Len(x) /\ 1 \in 1 .. Len(x)
  <1>1. PICK n : n = Len(x)  OBVIOUS
  <1>2. n \in Nat /\ n <= 2  BY <1>1
  <1>3. n \in 0 .. 2  BY <1>2
  <1>4. n # 2 => n + 1 \in 1 .. 2  BY <1>2
  <1>5. ASSUME NEW k \in Nat, k < n PROVE n \in 1 .. 2 /\ k + 1 \in 1 .. n /\ 1 \in 1 .. n
    BY <1>2, <1>5
  <1>6. ASSUME NEW e \in R PROVE Append(x, e) \in Seq(R) /\ Len(Append(x, e)) = n + 1  BY <1>1
  <1> QED BY <1>1, <1>3, <1>4, <1>5, <1>6

----
(* The first read of an extent.                                             *)

FirstPops ==
  /\ head_closed /\ ~read_more /\ head.size <= head_read + MAX_READ_BYTES
  /\ extents' = Tail(extents) /\ AllExtents' = Tail(AllExtents) /\ head_read' = 0
  /\ segments' = IF Len(segments) = 2 THEN segments
                 ELSE Append(segments, [vaddr |-> head.vaddr, size |-> head.size])
  /\ head.last => /\ replay_seg' = 0
                  /\ reader' = IF remaining_reads = 0 THEN "WAIT_FOR_STREAM" ELSE "REPLAY"
  /\ ~head.last => replay_seg' = replay_seg /\ reader' = reader

FirstKeeps ==
  /\ read_more => head_read' = head_read + MAX_READ_BYTES
  /\ ~read_more => head_read' = head.size /\ ~head_closed /\ ~head.last
  /\ extents' = extents /\ AllExtents' = AllExtents
  /\ segments' = segments /\ replay_seg' = replay_seg /\ reader' = reader

FirstSkips == UNCHANGED readVars /\ head.size = head_read /\ head.size # 0

LEMMA FirstReadCases ==
  ASSUME Types, FirstRead
  PROVE  /\ reader = "FIRST_READ" /\ read_valid = FALSE /\ head_valid
         /\ FirstPops \/ FirstKeeps
         /\ SetUpFirstRead \/ (FirstSkips /\ FirstPops)
         /\ UNCHANGED <<writerVars, unreserved, streamVars, tailVars, remaining_reads,
                 reads, requestVars, released_end, memory, streams, enqueued, output>>
  <1>1. PICK available : available = (head_valid /\ (head_available # 0 \/ (head_closed /\ head.size = 0)))
    OBVIOUS
  <1>2. /\ reader = "FIRST_READ" /\ ~read_valid
        /\ available \/ PopExtent
        /\ IF available THEN SetUpFirstRead ELSE UNCHANGED readVars
        /\ IF PopExtent
             THEN /\ extents' = Tail(extents)
                  /\ head_read' = 0
                  /\ segments' = IF Len(segments) = 2 THEN segments
                                   ELSE Append(segments, [vaddr |-> head.vaddr, size |-> head.size])
                  /\ IF head.last
                       THEN /\ replay_seg' = 0
                            /\ reader' = IF remaining_reads = 0 THEN "WAIT_FOR_STREAM" ELSE "REPLAY"
                       ELSE UNCHANGED <<replay_seg, reader>>
             ELSE /\ head_read' = IF read_more THEN head_read + MAX_READ_BYTES ELSE head.size
                  /\ UNCHANGED <<extents, segments, replay_seg, reader>>
        /\ UNCHANGED <<writerVars, unreserved, streamVars, tailVars, remaining_reads,
                 reads, requestVars, released_end, memory, streams, enqueued, output>>
    BY <1>1 DEF FirstRead
  <1>3. head_valid /\ (PopExtent => head_closed)  BY <1>1, <1>2 DEF PopExtent, head_valid
  <1>4. /\ head \in Extents /\ head_read <= head.size /\ head_read \in Nat
        /\ ~head_closed => tail_valid /\ ~tail_closed /\ ~head.last
    BY <1>3, HeadFacts
  <1>5. head.size \in Nat /\ head.last \in BOOLEAN /\ MAX_READ_BYTES \in Nat
    BY <1>4, ExtentFacts, ReadBytes
  <1>6. PopExtent => ~read_more /\ head.size <= head_read + MAX_READ_BYTES
    BY <1>4, <1>5 DEF PopExtent, read_more
  <1>7. ~PopExtent /\ ~read_more => ~head_closed  BY <1>4, <1>5 DEF PopExtent, read_more
  <1>8. read_valid = FALSE  BY <1>2 DEF Types, ReadTypes
  <1>9. TailTypes  BY DEF Types
  <1>10. PopExtent => FirstPops
    <2> SUFFICES ASSUME PopExtent PROVE FirstPops  OBVIOUS
    <2>1. extents # <<>>  BY <1>3 DEF head_closed
    <2>2. AllExtents' = Tail(AllExtents)
      <3>1. extents' = Tail(extents) /\ tail' = tail /\ tail_valid' = tail_valid
        BY <1>2 DEF tailVars
      <3>2. AllExtents' = Tail(extents) \o (IF tail_valid THEN <<tail>> ELSE <<>>)
        BY <3>1 DEF AllExtents
      <3> QED BY <3>2, <2>1, <1>9, AllExtentsFacts
    <2>3. head.last => /\ replay_seg' = 0
                       /\ reader' = IF remaining_reads = 0 THEN "WAIT_FOR_STREAM" ELSE "REPLAY"
      BY <1>2
    <2>4. ~head.last => replay_seg' = replay_seg /\ reader' = reader  BY <1>2
    <2>5. /\ extents' = Tail(extents) /\ head_read' = 0
          /\ segments' = IF Len(segments) = 2 THEN segments
                         ELSE Append(segments, [vaddr |-> head.vaddr, size |-> head.size])
      BY <1>2
    <2> QED BY <2>2, <2>3, <2>4, <2>5, <1>3, <1>6 DEF FirstPops
  <1>11. ~PopExtent => FirstKeeps
    <2> SUFFICES ASSUME ~PopExtent PROVE FirstKeeps  OBVIOUS
    <2>1. /\ head_read' = IF read_more THEN head_read + MAX_READ_BYTES ELSE head.size
          /\ UNCHANGED <<extents, segments, replay_seg, reader, tailVars>>
      BY <1>2
    <2>2. AllExtents' = AllExtents  BY <2>1, KeepTypes
    <2> QED BY <2>1, <2>2, <1>4, <1>7 DEF FirstKeeps
  <1>12. ~available => FirstSkips /\ PopExtent
    <2> SUFFICES ASSUME ~available PROVE FirstSkips /\ PopExtent  OBVIOUS
    <2>1. PopExtent /\ UNCHANGED readVars  BY <1>2
    <2>2. head_available = 0 /\ ~ (head_closed /\ head.size = 0)  BY <1>1, <1>3
    <2>3. head.size # 0  BY <2>1, <2>2, <1>3
    <2> QED BY <2>1, <2>2, <2>3, <1>4, <1>5 DEF FirstSkips, head_available
  <1>13. available => SetUpFirstRead  BY <1>2
  <1>14. SetUpFirstRead \/ (FirstSkips /\ FirstPops)  BY <1>10, <1>12, <1>13
  <1>15. FirstPops \/ FirstKeeps  BY <1>10, <1>11
  <1> QED BY <1>2, <1>3, <1>8, <1>14, <1>15

LEMMA FirstReadTypes ==
  ASSUME Types, FirstRead
  PROVE  Types'
  <1>1. /\ reader = "FIRST_READ" /\ read_valid = FALSE /\ head_valid
        /\ FirstPops \/ FirstKeeps
        /\ SetUpFirstRead \/ (FirstSkips /\ FirstPops)
        /\ UNCHANGED <<writerVars, unreserved, streamVars, tailVars, remaining_reads,
                 reads, requestVars, released_end, memory, streams, enqueued, output>>
    BY FirstReadCases
  <1>2. /\ AllExtents # <<>> /\ head = Head(AllExtents) /\ head \in Extents
        /\ ~head_closed => tail_valid /\ ~tail_closed /\ ~head.last
        /\ head_read <= head.size /\ head_read \in Nat
    BY <1>1, HeadFacts
  <1>3. /\ head.vaddr \in Nat /\ head.size \in Nat /\ head.last \in BOOLEAN
        /\ Align(head.size) \in Nat /\ head.size <= Align(head.size)
        /\ ~head.last => Aligned(head.size)
    BY <1>2, ExtentFacts
  <1>4. MAX_READ_BYTES \in Nat /\ Aligned(MAX_READ_BYTES)  BY ReadBytes
  <1>5. TailTypes /\ ReaderTypes /\ HeadRead /\ ReadTypes  BY DEF Types
  <1>6. TailTypes'
    <2>1. CASE FirstPops
      <3>1. extents' = Tail(extents) /\ extents # <<>>  BY <2>1 DEF FirstPops, head_closed
      <3>2. extents' \in Seq(Extents)  BY <3>1, <1>5, TailOn DEF TailTypes
      <3> QED BY <3>2, <1>1, <1>5 DEF TailTypes, tailVars
    <2>2. CASE FirstKeeps
      <3>1. extents' = extents  BY <2>2 DEF FirstKeeps
      <3> QED BY <3>1, <1>1, KeepTypes
    <2> QED BY <2>1, <2>2, <1>1
  <1>7. ReaderTypes'
    <2>1. CASE FirstPops
      <3>1. PICK s : s = [vaddr |-> head.vaddr, size |-> head.size]  OBVIOUS
      <3>2. s \in Segments  BY <3>1, <1>3 DEF Segments
      <3>3. segments \in Seq(Segments) /\ Len(segments) <= 2  BY <1>5 DEF ReaderTypes
      <3>4. segments' = IF Len(segments) = 2 THEN segments ELSE Append(segments, s)
        BY <3>1, <2>1 DEF FirstPops
      <3>5. segments' \in Seq(Segments) /\ Len(segments') <= 2 /\ 0 < Len(segments')
        <4>1. Len(segments) \in 0 .. 2  BY <3>3, AtMostTwo
        <4>2. CASE Len(segments) = 2
          <5>1. segments' = segments  BY <4>2, <3>4
          <5>2. Len(segments') = 2  BY <4>2, <5>1
          <5> QED BY <5>1, <5>2, <3>3
        <4>3. CASE Len(segments) # 2
          <5>1. segments' = Append(segments, s)  BY <4>3, <3>4
          <5>2. /\ Append(segments, s) \in Seq(Segments) /\ Len(Append(segments, s)) = Len(segments) + 1
                /\ Len(segments) + 1 \in 1 .. 2
            BY <4>3, <3>2, <3>3, AtMostTwo
          <5>3. PICK k : k = Len(segments) + 1  OBVIOUS
          <5>4. k <= 2 /\ 0 < k  BY <5>2, <5>3
          <5> QED BY <5>1, <5>2, <5>3, <5>4
        <4> QED BY <4>2, <4>3
      <3>6. /\ head.last => /\ replay_seg' = 0
                            /\ reader' = IF remaining_reads = 0 THEN "WAIT_FOR_STREAM" ELSE "REPLAY"
            /\ ~head.last => replay_seg' = replay_seg /\ reader' = "FIRST_READ"
        BY <2>1, <1>1 DEF FirstPops
      <3>7. /\ remaining_reads \in Nat /\ remaining_reads' = remaining_reads /\ replay_seg \in 0 .. 1
            /\ enqueued \in 0 .. Len(streams) /\ enqueued' = enqueued /\ streams' = streams
        BY <1>1, <1>5 DEF ReaderTypes
      <3>8. /\ reader' \in {"WAIT_FOR_STREAM", "FIRST_READ", "REPLAY"} /\ replay_seg' \in 0 .. 1
            /\ reader' = "REPLAY" => remaining_reads # 0 /\ replay_seg' = 0
        BY <3>6, <3>7, <1>3
      <3> QED BY <3>5, <3>7, <3>8 DEF ReaderTypes
    <2>2. CASE FirstKeeps
      <3>1. UNCHANGED <<replayVars, enqueued, streams>>  BY <2>2, <1>1 DEF FirstKeeps, replayVars
      <3> QED BY <3>1, KeepTypes
    <2> QED BY <2>1, <2>2, <1>1
  <1>8. HeadRead'
    <2>1. CASE FirstPops
      <3>1. BEAT * 0 = 0  BY Sizes
      <3>2. Aligned(0)  BY <3>1 DEF Aligned
      <3>3. AllExtents' = Tail(AllExtents) /\ head_read' = 0  BY <2>1 DEF FirstPops
      <3>4. AllExtents' # <<>> => Head(AllExtents') \in Extents
        BY <3>3, <1>2, <1>5, AllExtentsFacts, TailOn
      <3>5. AllExtents' # <<>> => Head(AllExtents').size \in Nat  BY <3>4, ExtentFacts
      <3> QED BY <3>2, <3>3, <3>5 DEF HeadRead
    <2>2. CASE FirstKeeps
      <3>1. AllExtents' = AllExtents /\ reader' = "FIRST_READ"  BY <2>2, <1>1 DEF FirstKeeps
      <3>2. CASE read_more
        <4>1. head_read' = head_read + MAX_READ_BYTES  BY <3>2, <2>2 DEF FirstKeeps
        <4>2. Aligned(head_read + MAX_READ_BYTES)  BY <1>4, <1>5, AlignedSum DEF HeadRead
        <4>3. head_read + MAX_READ_BYTES <= head.size  BY <3>2, <1>2, <1>3, <1>4 DEF read_more
        <4> QED BY <4>1, <4>2, <4>3, <3>1, <1>2 DEF HeadRead
      <3>3. CASE ~read_more
        <4>1. head_read' = head.size /\ ~head.last  BY <3>3, <2>2 DEF FirstKeeps
        <4>2. Aligned(head.size) /\ head.size <= head.size  BY <4>1, <1>3
        <4> QED BY <4>1, <4>2, <3>1, <1>2 DEF HeadRead
      <3> QED BY <3>2, <3>3
    <2> QED BY <2>1, <2>2, <1>1
  <1>9. ReadTypes'
    <2>1. CASE SetUpFirstRead
      <3>1. read_valid' = TRUE /\
            read' = [vaddr   |-> head.vaddr + head_read,
              size    |-> first_read_size,
              last    |-> head_closed /\ ~read_more /\ head.last,
              release |-> ReleasesFirstRead,
              start   |-> head.vaddr + head_read,
              span    |-> IF read_more THEN MAX_READ_BYTES ELSE Align(head.size) - head_read,
              end     |-> head.vaddr + IF read_more THEN head_read + MAX_READ_BYTES
                                                    ELSE Align(head.size)]
        BY <2>1 DEF SetUpFirstRead
      <3>2. first_read_size \in Nat  BY <1>2, <1>3, <1>4 DEF first_read_size, head_available
      <3>3. (IF read_more THEN MAX_READ_BYTES ELSE Align(head.size) - head_read) \in Nat
        BY <1>2, <1>3, <1>4
      <3>4. (head.vaddr + IF read_more THEN head_read + MAX_READ_BYTES ELSE Align(head.size)) \in Nat
        BY <1>2, <1>3, <1>4
      <3>5. head.vaddr + head_read \in Nat  BY <1>2, <1>3
      <3>6. (head_closed /\ ~read_more /\ head.last) \in BOOLEAN /\ ReleasesFirstRead \in BOOLEAN
        BY DEF ReleasesFirstRead
      <3>7. read' \in ReadType  BY <3>1, <3>2, <3>3, <3>4, <3>5, <3>6 DEF ReadType
      <3> QED BY <3>1, <3>7, <1>1, <1>5 DEF ReadTypes
    <2>2. CASE FirstSkips
      <3>1. UNCHANGED <<readVars, reads, released_end>>  BY <2>2, <1>1 DEF FirstSkips
      <3> QED BY <3>1, KeepTypes
    <2> QED BY <2>1, <2>2, <1>1
  <1>10. WriterTypes' /\ StreamTypes' /\ RequestTypes'  BY <1>1, KeepTypes
  <1> QED BY <1>6, <1>7, <1>8, <1>9, <1>10 DEF Types

----
(* The reads again, and the StreamReader.                                   *)

\* The first segment lies in the ring buffer.
ReplayFits == reader = "REPLAY" /\ Len(segments) = 2 => seg_end(1) <= ring_end

\* The read that is set up again.
Final == Len(segments) # 2 \/ replay_seg = 1
ReadsAgain ==
  /\ read' = [vaddr   |-> segments[replay_seg + 1].vaddr,
              size    |-> segments[replay_seg + 1].size,
              last    |-> Final,
              release |-> remaining_reads = 1 /\ Final,
              start   |-> segments[1].vaddr,
              span    |-> stream_span,
              end     |-> IF wrapped THEN seg_end(2) ELSE seg_end(1)]
  /\ Final => /\ replay_seg' = 0 /\ remaining_reads' = remaining_reads - 1
              /\ reader' = IF remaining_reads = 1 THEN "WAIT_FOR_STREAM" ELSE "REPLAY"
  /\ ~Final => replay_seg' = 1 /\ remaining_reads' = remaining_reads /\ reader' = "REPLAY"

LEMMA ReplayCases ==
  ASSUME Types, Replay
  PROVE  /\ reader = "REPLAY" /\ read_valid = FALSE /\ read_valid' = TRUE /\ ReadsAgain
         /\ UNCHANGED <<writerVars, unreserved, streamVars, tailVars, extents, segments,
                 head_read, reads, requestVars, released_end, memory, streams, enqueued, output>>
  <1>1. PICK final : final = (~wrapped \/ replay_seg = 1)  OBVIOUS
  <1>2. final <=> Final  BY <1>1 DEF wrapped, Final
  <1>3. final \in BOOLEAN  BY <1>1
  <1>4. /\ reader = "REPLAY" /\ ~read_valid
        /\ read' = [vaddr   |-> segments[replay_seg + 1].vaddr,
                    size    |-> segments[replay_seg + 1].size,
                    last    |-> final,
                    release |-> remaining_reads = 1 /\ final,
                    start   |-> segments[1].vaddr,
                    span    |-> stream_span,
                    end     |-> IF wrapped THEN seg_end(2) ELSE seg_end(1)]
        /\ IF final
             THEN /\ replay_seg' = 0
                  /\ remaining_reads' = remaining_reads - 1
                  /\ reader' = IF remaining_reads = 1 THEN "WAIT_FOR_STREAM" ELSE "REPLAY"
             ELSE /\ replay_seg' = 1
                  /\ UNCHANGED <<remaining_reads, reader>>
        /\ read_valid' = TRUE
        /\ UNCHANGED <<writerVars, unreserved, streamVars, tailVars, extents, segments,
                 head_read, reads, requestVars, released_end, memory, streams, enqueued, output>>
    BY <1>1 DEF Replay
  <1>5. final = Final
    <2>1. Final \in BOOLEAN  BY DEF Final
    <2> QED BY <2>1, <1>2, <1>3
  <1>6. read_valid = FALSE  BY <1>4 DEF Types, ReadTypes
  <1>7. ReadsAgain  BY <1>4, <1>5 DEF ReadsAgain
  <1> QED BY <1>4, <1>6, <1>7

\* The segments the reader reads again.
LEMMA SegmentFacts ==
  ASSUME Types, NEW i \in 1 .. Len(segments)
  PROVE  /\ segments[i] \in Segments /\ segments[i].vaddr \in Nat /\ segments[i].size \in Nat
         /\ Align(segments[i].size) \in Nat /\ seg_end(i) \in Nat
         /\ seg_end(i) = segments[i].vaddr + Align(segments[i].size)
         /\ Len(segments) \in 1 .. 2
  <1>1. segments \in Seq(Segments) /\ Len(segments) <= 2  BY DEF Types, ReaderTypes
  <1>2. Len(segments) \in 1 .. 2
    <2>1. i - 1 \in Nat /\ i - 1 < Len(segments)  OBVIOUS
    <2> QED BY <2>1, <1>1, AtMostTwo
  <1>3. segments[i] \in Segments  BY <1>1, ElementOfSeq
  <1>4. segments[i].vaddr \in Nat /\ segments[i].size \in Nat  BY <1>3 DEF Segments
  <1>5. Align(segments[i].size) \in Nat  BY <1>4, AlignFacts
  <1> QED BY <1>1, <1>2, <1>3, <1>4, <1>5 DEF seg_end

LEMMA ReplayTypes ==
  ASSUME Types, ReplayFits, Replay
  PROVE  Types'
  <1>1. /\ reader = "REPLAY" /\ read_valid = FALSE /\ read_valid' = TRUE /\ ReadsAgain
        /\ UNCHANGED <<writerVars, unreserved, streamVars, tailVars, extents, segments,
                 head_read, reads, requestVars, released_end, memory, streams, enqueued, output>>
    BY ReplayCases
  <1>2. WriterTypes /\ ReaderTypes /\ HeadRead /\ ReadTypes  BY DEF Types
  <1>3. /\ remaining_reads \in Nat /\ remaining_reads # 0 /\ replay_seg \in 0 .. 1 /\ replay_seg < Len(segments)
        /\ segments \in Seq(Segments) /\ Len(segments) <= 2 /\ enqueued \in 0 .. Len(streams)
    BY <1>1, <1>2 DEF ReaderTypes
  <1>4. Len(segments) \in 1 .. 2 /\ replay_seg + 1 \in 1 .. Len(segments) /\ 1 \in 1 .. Len(segments)
    <2>1. replay_seg \in Nat  BY <1>3
    <2> QED BY <2>1, <1>3, AtMostTwo
  <1>5. segments[replay_seg + 1].vaddr \in Nat /\ segments[replay_seg + 1].size \in Nat
    BY <1>4, SegmentFacts
  <1>6. segments[1].vaddr \in Nat /\ Align(segments[1].size) \in Nat /\ seg_end(1) \in Nat
    BY <1>4, SegmentFacts
  <1>7. Len(segments) = 2 => Align(segments[2].size) \in Nat /\ seg_end(2) \in Nat
    <2>1. Len(segments) = 2 => 2 \in 1 .. Len(segments)  OBVIOUS
    <2> QED BY <2>1, SegmentFacts
  <1>8. ring_end \in Nat
    <2>1. ring.base \in Nat /\ ring.size \in Nat /\ ring_end = ring.base + ring.size
      BY <1>2, RingFacts
    <2> QED BY <2>1
  <1>9. stream_span \in Nat
    <2>1. CASE Len(segments) = 2
      <3>1. seg_end(1) <= ring_end  BY <2>1, <1>1 DEF ReplayFits
      <3>2. stream_span = Align(segments[1].size) + ((ring_end - seg_end(1)) + Align(segments[2].size))
        BY <2>1 DEF stream_span, wrapped
      <3> QED BY <3>1, <3>2, <2>1, <1>6, <1>7, <1>8
    <2>2. CASE Len(segments) # 2
      <3>1. stream_span = Align(segments[1].size) + 0  BY <2>2 DEF stream_span, wrapped
      <3> QED BY <3>1, <1>6
    <2> QED BY <2>1, <2>2
  <1>10. (IF wrapped THEN seg_end(2) ELSE seg_end(1)) \in Nat  BY <1>6, <1>7 DEF wrapped
  <1>11. read' \in ReadType
    <2>1. read' = [vaddr   |-> segments[replay_seg + 1].vaddr,
              size    |-> segments[replay_seg + 1].size,
              last    |-> Final,
              release |-> remaining_reads = 1 /\ Final,
              start   |-> segments[1].vaddr,
              span    |-> stream_span,
              end     |-> IF wrapped THEN seg_end(2) ELSE seg_end(1)]
      BY <1>1 DEF ReadsAgain
    <2>2. Final \in BOOLEAN /\ (remaining_reads = 1 /\ Final) \in BOOLEAN  BY DEF Final
    <2> QED BY <2>1, <2>2, <1>5, <1>6, <1>9, <1>10 DEF ReadType
  <1>12. ReadTypes'  BY <1>1, <1>2, <1>11 DEF ReadTypes
  <1>13. ReaderTypes'
    <2>1. /\ Final => /\ replay_seg' = 0 /\ remaining_reads' = remaining_reads - 1
                      /\ reader' = IF remaining_reads = 1 THEN "WAIT_FOR_STREAM" ELSE "REPLAY"
          /\ ~Final => replay_seg' = 1 /\ remaining_reads' = remaining_reads /\ reader' = "REPLAY"
      BY <1>1 DEF ReadsAgain
    <2>2. ~Final => Len(segments) = 2  BY DEF Final
    <2>3. reader' \in {"WAIT_FOR_STREAM", "FIRST_READ", "REPLAY"} /\ remaining_reads' \in Nat /\ replay_seg' \in 0 .. 1
      BY <2>1, <1>3
    <2>4. reader' = "REPLAY" => remaining_reads' # 0  BY <2>1, <1>3
    <2>5. replay_seg' < Len(segments)
      <3>1. CASE Final
        <4>1. replay_seg' = 0 /\ 0 < Len(segments)  BY <3>1, <2>1, <1>4
        <4> QED BY <4>1
      <3>2. CASE ~Final
        <4>1. replay_seg' = 1 /\ Len(segments) = 2  BY <3>2, <2>1, <2>2
        <4> QED BY <4>1
      <3> QED BY <3>1, <3>2
    <2> QED BY <2>3, <2>4, <2>5, <1>1, <1>3 DEF ReaderTypes
  <1>14. HeadRead'
    <2>1. AllExtents' = AllExtents /\ head_read' = head_read  BY <1>1, KeepTypes
    <2>2. head_read = 0 /\ reader' # "FIRST_READ"
      <3>1. head_read = 0  BY <1>1, <1>2 DEF HeadRead
      <3>2. reader' # "FIRST_READ"  BY <1>1 DEF ReadsAgain
      <3> QED BY <3>1, <3>2
    <2> QED BY <2>1, <2>2, <1>2 DEF HeadRead
  <1>15. WriterTypes' /\ StreamTypes' /\ TailTypes' /\ RequestTypes'  BY <1>1, KeepTypes
  <1> QED BY <1>12, <1>13, <1>14, <1>15 DEF Types

\* The read the StreamReader takes, and its requests.
Takes ==
  /\ reads' = Append(reads, ReadBlock) /\ read_valid = TRUE /\ read_valid' = FALSE /\ read' = read
  /\ request.remaining = 0
  /\ \/ read.size = 0 /\ request' = request
        /\ outstanding' = Append(outstanding,
                 [vaddr |-> read.vaddr, len |-> 0, buffer_end |-> TRUE, buffer_last |-> read.last])
     \/ read.size # 0 /\ outstanding' = outstanding
        /\ request' = [vaddr |-> read.vaddr, remaining |-> read.size, last |-> read.last]

LEMMA IssueReadTypes ==
  ASSUME Types, IssueRead
  PROVE  Types' /\ Takes /\ ReadBlock \in ReleaseType
         /\ UNCHANGED <<writerVars, unreserved, streamVars, tailVars, extents, replayVars,
                 head_read, read, released_end, memory, streams, enqueued, output>>
  <1>1. /\ read_valid /\ request.remaining = 0
        /\ reads' = Append(reads, ReadBlock) /\ read_valid' = FALSE
        /\ IF read.size = 0
             THEN /\ outstanding' = Append(outstanding,
                       [vaddr |-> read.vaddr, len |-> 0, buffer_end |-> TRUE, buffer_last |-> read.last])
                  /\ UNCHANGED request
             ELSE /\ request' = [vaddr |-> read.vaddr, remaining |-> read.size, last |-> read.last]
                  /\ UNCHANGED outstanding
        /\ UNCHANGED <<writerVars, unreserved, streamVars, tailVars, extents, replayVars,
                 head_read, read, released_end, memory, streams, enqueued, output>>
    BY DEF IssueRead, ReadBlock
  <1>2. ReadTypes /\ RequestTypes  BY DEF Types
  <1>3. read \in ReadType /\ read_valid \in BOOLEAN /\ reads \in Seq(ReleaseType) /\ released_end \in Nat
    BY <1>2 DEF ReadTypes
  <1>4. read.vaddr \in Nat /\ read.size \in Nat /\ read.last \in BOOLEAN /\ ReadBlock \in ReleaseType
    BY <1>3 DEF ReadType, ReleaseType, ReadBlock
  <1>5. Takes  BY <1>1, <1>3 DEF Takes
  <1>6. ReadTypes'
    <2>1. reads' \in Seq(ReleaseType)  BY <1>1, <1>3, <1>4
    <2> QED BY <2>1, <1>1, <1>3 DEF ReadTypes
  <1>7. RequestTypes'
    <2>1. request \in [vaddr : Nat, remaining : Nat, last : BOOLEAN] /\ outstanding \in Seq(Requests)
      BY <1>2 DEF RequestTypes
    <2>2. CASE read.size = 0
      <3>1. PICK q : q = [vaddr |-> read.vaddr, len |-> 0, buffer_end |-> TRUE, buffer_last |-> read.last]
        OBVIOUS
      <3>2. 0 \in 0 .. TRANSFER  BY Sizes
      <3>3. q \in Requests  BY <3>1, <3>2, <1>4 DEF Requests
      <3>4. outstanding' = Append(outstanding, q) /\ request' = request  BY <3>1, <2>2, <1>1
      <3>5. outstanding' \in Seq(Requests)  BY <3>3, <3>4, <2>1
      <3> QED BY <3>4, <3>5, <2>1 DEF RequestTypes
    <2>3. CASE read.size # 0
      <3>1. request' = [vaddr |-> read.vaddr, remaining |-> read.size, last |-> read.last] /\ outstanding' = outstanding
        BY <2>3, <1>1
      <3> QED BY <3>1, <2>1, <1>4 DEF RequestTypes
    <2> QED BY <2>2, <2>3
  <1>8. WriterTypes' /\ StreamTypes' /\ TailTypes'  BY <1>1, KeepTypes
  <1>9. ReaderTypes' /\ HeadRead'
    <2>1. UNCHANGED <<tailVars, extents, reader, head_read>>  BY <1>1 DEF replayVars
    <2> QED BY <2>1, <1>1, KeepTypes
  <1> QED BY <1>1, <1>4, <1>5, <1>6, <1>7, <1>8, <1>9 DEF Types

\* The next request.
Asks(q) ==
  /\ q \in Requests /\ request.remaining # 0
  /\ outstanding' = Append(outstanding, q)
  /\ q.buffer_end = (request'.remaining = 0)

LEMMA RequestTransferTypes ==
  ASSUME Types, RequestTransfer
  PROVE  Types' /\ (\E q : Asks(q))
         /\ UNCHANGED <<writerVars, unreserved, streamVars, tailVars, extents, replayVars,
                 head_read, readVars, reads, released_end, memory, streams, enqueued, output>>
  <1>1. PICK len : len = Least(TRANSFER, request.remaining)  OBVIOUS
  <1>2. PICK q : q = [vaddr |-> request.vaddr, len |-> len,
              buffer_end |-> request.remaining = len, buffer_last |-> request.last]
    OBVIOUS
  <1>3. /\ request.remaining # 0 /\ outstanding' = Append(outstanding, q)
        /\ request' = [request EXCEPT !.vaddr = @ + len, !.remaining = @ - len]
        /\ UNCHANGED <<writerVars, unreserved, streamVars, tailVars, extents, replayVars,
                 head_read, readVars, reads, released_end, memory, streams, enqueued, output>>
    BY <1>1, <1>2 DEF RequestTransfer
  <1>4. request \in [vaddr : Nat, remaining : Nat, last : BOOLEAN] /\ outstanding \in Seq(Requests)
    BY DEF Types, RequestTypes
  <1>5. request.vaddr \in Nat /\ request.remaining \in Nat /\ request.last \in BOOLEAN  BY <1>4
  <1>6. len \in Nat /\ len <= TRANSFER /\ len <= request.remaining  BY <1>1, <1>5, Sizes DEF Least
  <1>7. request' = [vaddr |-> request.vaddr + len, remaining |-> request.remaining - len, last |-> request.last]
    BY <1>3, <1>4
  <1>8. len \in 0 .. TRANSFER /\ (request.remaining = len) \in BOOLEAN  BY <1>6, Sizes
  <1>9. q \in Requests /\ q.buffer_end = (request.remaining = len)  BY <1>2, <1>5, <1>8 DEF Requests
  <1>10. outstanding' \in Seq(Requests)  BY <1>3, <1>4, <1>9
  <1>11. request' \in [vaddr : Nat, remaining : Nat, last : BOOLEAN]
    <2>1. request.vaddr + len \in Nat /\ request.remaining - len \in Nat  BY <1>5, <1>6
    <2> QED BY <2>1, <1>5, <1>7
  <1>12. Asks(q)
    <2>1. request'.remaining = 0 <=> request.remaining = len  BY <1>5, <1>6, <1>7
    <2>2. (request'.remaining = 0) = (request.remaining = len)  BY <2>1
    <2> QED BY <2>2, <1>3, <1>9 DEF Asks
  <1>13. RequestTypes'  BY <1>10, <1>11 DEF RequestTypes
  <1>14. WriterTypes' /\ StreamTypes' /\ TailTypes' /\ ReadTypes'  BY <1>3, KeepTypes
  <1>15. ReaderTypes' /\ HeadRead'
    <2>1. UNCHANGED <<tailVars, extents, reader, head_read>>  BY <1>3 DEF replayVars
    <2> QED BY <2>1, <1>3, KeepTypes
  <1> QED BY <1>3, <1>12, <1>13, <1>14, <1>15 DEF Types

\* What a released read returns is a size.
ReleaseFits(r) == r.release => released_bytes(r) \in Nat

\* The oldest request is answered; the last one of a read completes it.
Answers ==
  /\ outstanding # <<>> /\ outstanding' = Tail(outstanding)
  /\ Head(outstanding).buffer_end => reads' = Tail(reads)
  /\ ~Head(outstanding).buffer_end => reads' = reads
  /\ \/ Head(outstanding).buffer_end /\ Head(reads).release
        /\ unreserved' = unreserved + released_bytes(Head(reads)) /\ released_end' = Head(reads).end
     \/ ~ (Head(outstanding).buffer_end /\ Head(reads).release)
        /\ unreserved' = unreserved /\ released_end' = released_end

LEMMA ReceiveTypes ==
  ASSUME Types, reads # <<>>, ReleaseFits(Head(reads)), Receive
  PROVE  Types' /\ Answers
         /\ UNCHANGED <<writerVars, streamVars, tailVars, extents, replayVars, head_read,
                 readVars, request, memory, streams, enqueued>>
  <1>1. /\ outstanding # <<>> /\ outstanding' = Tail(outstanding)
        /\ reads' = IF Head(outstanding).buffer_end THEN Tail(reads) ELSE reads
        /\ IF Head(outstanding).buffer_end /\ Head(reads).release
             THEN /\ unreserved' = unreserved + released_bytes(Head(reads))
                  /\ released_end' = Head(reads).end
             ELSE UNCHANGED <<unreserved, released_end>>
        /\ UNCHANGED <<writerVars, streamVars, tailVars, extents, replayVars, head_read,
                 readVars, request, memory, streams, enqueued>>
    BY DEF Receive
  <1>2. Answers  BY <1>1 DEF Answers
  <1>3. ReadTypes /\ RequestTypes /\ WriterTypes  BY DEF Types
  <1>4. reads \in Seq(ReleaseType) /\ outstanding \in Seq(Requests) /\ released_end \in Nat /\ unreserved \in Nat
    BY <1>3 DEF ReadTypes, RequestTypes, WriterTypes
  <1>5. Head(reads) \in ReleaseType /\ Tail(reads) \in Seq(ReleaseType)  BY <1>4, TailOn
  <1>6. Head(reads).end \in Nat  BY <1>5 DEF ReleaseType
  <1>7. unreserved' \in Nat /\ released_end' \in Nat  BY <1>1, <1>4, <1>6 DEF ReleaseFits
  <1>8. reads' \in Seq(ReleaseType)  BY <1>1, <1>4, <1>5
  <1>9. outstanding' \in Seq(Requests)  BY <1>1, <1>4, TailOn
  <1>10. ReadTypes'  BY <1>1, <1>3, <1>7, <1>8 DEF ReadTypes, readVars
  <1>11. RequestTypes'  BY <1>1, <1>3, <1>9 DEF RequestTypes
  <1>12. WriterTypes'  BY <1>1, <1>3, <1>7 DEF WriterTypes, writerVars
  <1>13. StreamTypes' /\ TailTypes'  BY <1>1, KeepTypes
  <1>14. ReaderTypes' /\ HeadRead'
    <2>1. UNCHANGED <<tailVars, extents, reader, head_read>>  BY <1>1 DEF replayVars
    <2> QED BY <2>1, <1>1, KeepTypes
  <1> QED BY <1>1, <1>2, <1>10, <1>11, <1>12, <1>13, <1>14 DEF Types

----
(* The reads of the outstanding transfers.                                  *)

One(b) == IF b THEN 1 ELSE 0

LEMMA OwnsMore ==
  ASSUME NEW R, NEW o \in Seq(R), NEW k \in Nat, NEW f, Owns(f, o, k), NEW q \in R
  PROVE  \E g : Owns(g, Append(o, q), k + One(q.buffer_end))
  <1>1. PICK n, p, l : n = Len(o) /\ p = Append(o, q) /\ l = k + One(q.buffer_end)  OBVIOUS
  <1>2. n \in Nat /\ Len(p) = n + 1 /\ p[n + 1] = q /\ \A i \in 1 .. n : p[i] = o[i]  BY <1>1
  <1>3. /\ f \in [1 .. n + 1 -> Nat \ {0}] /\ f[1] = 1 /\ f[n + 1] = k
        /\ \A i \in 1 .. n + 1 : \A j \in i .. n + 1 : f[i] <= f[j]
        /\ \A i \in 1 .. n : f[i + 1] = f[i] + One(o[i].buffer_end)
    BY <1>1 DEF Owns, One
  <1>4. l \in Nat /\ k <= l /\ k \in Nat \ {0}
    <2>1. n + 1 \in 1 .. n + 1  BY <1>2
    <2>2. k \in Nat \ {0}  BY <2>1, <1>3
    <2> QED BY <2>2, <1>1 DEF One
  <1>5. PICK g : g = [i \in 1 .. n + 2 |-> IF i = n + 2 THEN l ELSE f[i]]  OBVIOUS
  <1>6. g[n + 2] = l /\ \A i \in 1 .. n + 1 : g[i] = f[i] /\ f[i] \in Nat \ {0} /\ f[i] <= k
    <2>1. g[n + 2] = l  BY <1>2, <1>5
    <2>2. ASSUME NEW i \in 1 .. n + 1 PROVE g[i] = f[i] /\ f[i] \in Nat \ {0} /\ f[i] <= k
      <3>1. i \in 1 .. n + 2 /\ i # n + 2 /\ n + 1 \in i .. n + 1  BY <1>2
      <3>2. g[i] = f[i]  BY <3>1, <1>5
      <3>3. f[i] \in Nat \ {0}  BY <1>3
      <3>4. f[i] <= f[n + 1]  BY <3>1, <1>3
      <3> QED BY <3>2, <3>3, <3>4, <1>3
    <2> QED BY <2>1, <2>2
  <1>7. \A i \in 1 .. n + 2 : i \in 1 .. n + 1 \/ i = n + 2  BY <1>2
  <1>8. g \in [1 .. n + 2 -> Nat \ {0}]
    <2>1. ASSUME NEW i \in 1 .. n + 2 PROVE g[i] \in Nat \ {0}  BY <1>4, <1>6, <1>7
    <2> QED BY <2>1, <1>5
  <1>9. ASSUME NEW i \in 1 .. n + 2, NEW j \in i .. n + 2 PROVE g[i] <= g[j]
    <2>1. CASE j = n + 2
      <3>1. CASE i = n + 2  BY <2>1, <3>1, <1>4, <1>6
      <3>2. CASE i \in 1 .. n + 1
        <4>1. g[i] = f[i] /\ f[i] \in Nat /\ f[i] <= k  BY <3>2, <1>6
        <4> QED BY <4>1, <2>1, <1>4, <1>6
      <3> QED BY <3>1, <3>2, <1>7
    <2>2. CASE j # n + 2
      <3>1. j \in i .. n + 1 /\ i \in 1 .. n + 1 /\ j \in 1 .. n + 1  BY <2>2, <1>2
      <3>2. f[i] <= f[j]  BY <3>1, <1>3
      <3> QED BY <3>1, <3>2, <1>6
    <2> QED BY <2>1, <2>2
  <1>10. ASSUME NEW i \in 1 .. n + 1 PROVE g[i + 1] = g[i] + One(p[i].buffer_end)
    <2>1. CASE i = n + 1
      <3>1. i + 1 = n + 2 /\ p[i] = q /\ g[i] = k  BY <2>1, <1>2, <1>3, <1>6
      <3> QED BY <3>1, <1>1, <1>6
    <2>2. CASE i # n + 1
      <3>1. i \in 1 .. n /\ i + 1 \in 1 .. n + 1  BY <2>2, <1>2
      <3>2. f[i + 1] = f[i] + One(o[i].buffer_end) /\ p[i] = o[i] /\ g[i] = f[i] /\ g[i + 1] = f[i + 1]
        BY <3>1, <1>2, <1>3, <1>6
      <3> QED BY <3>2
    <2> QED BY <2>1, <2>2
  <1>11. g[1] = 1
    <2>1. 1 \in 1 .. n + 1  BY <1>2
    <2> QED BY <2>1, <1>3, <1>6
  <1>12. Len(p) + 1 = n + 2 /\ Len(p) = n + 1  BY <1>2
  <1>13. Owns(g, p, l)  BY <1>6, <1>8, <1>9, <1>10, <1>11, <1>12 DEF Owns, One
  <1> QED BY <1>1, <1>13

LEMMA OwnsLess ==
  ASSUME NEW R, NEW o \in Seq(R), o # <<>>, NEW k \in Nat, NEW f, Owns(f, o, k)
  PROVE  \E g : Owns(g, Tail(o), k - One(Head(o).buffer_end))
  <1>1. PICK n, p, d, l : n = Len(o) /\ p = Tail(o) /\ d = One(Head(o).buffer_end) /\ l = k - d
    OBVIOUS
  <1>2. n \in Nat \ {0} /\ Len(p) = n - 1 /\ Head(o) = o[1] /\ \A i \in 1 .. n - 1 : p[i] = o[i + 1]
    BY <1>1
  <1>3. /\ f \in [1 .. n + 1 -> Nat \ {0}] /\ f[1] = 1 /\ f[n + 1] = k
        /\ \A i \in 1 .. n + 1 : \A j \in i .. n + 1 : f[i] <= f[j]
        /\ \A i \in 1 .. n : f[i + 1] = f[i] + One(o[i].buffer_end)
    BY <1>1 DEF Owns, One
  <1>4. d \in 0 .. 1 /\ f[2] = 1 + d
    <2>1. 1 \in 1 .. n /\ 1 + 1 = 2  BY <1>2
    <2>2. f[1 + 1] = f[1] + One(o[1].buffer_end)  BY <2>1, <1>3
    <2>3. d \in 0 .. 1  BY <1>1 DEF One
    <2> QED BY <2>1, <2>2, <2>3, <1>1, <1>2, <1>3
  <1>5. PICK g : g = [i \in 1 .. n |-> f[i + 1] - d]  OBVIOUS
  <1>6. \A i \in 1 .. n : /\ g[i] = f[i + 1] - d /\ f[i + 1] \in Nat /\ g[i] \in Nat \ {0} /\ i + 1 \in 1 .. n + 1
    <2>1. ASSUME NEW i \in 1 .. n
          PROVE  g[i] = f[i + 1] - d /\ f[i + 1] \in Nat /\ g[i] \in Nat \ {0} /\ i + 1 \in 1 .. n + 1
      <3>1. i + 1 \in 1 .. n + 1 /\ i + 1 \in 2 .. n + 1 /\ 2 \in 1 .. n + 1  BY <1>2
      <3>2. f[i + 1] \in Nat /\ f[2] <= f[i + 1]  BY <3>1, <1>3
      <3>3. f[i + 1] - d \in Nat \ {0}  BY <3>2, <1>4
      <3> QED BY <3>1, <3>2, <3>3, <1>5
    <2> QED BY <2>1
  <1>7. g \in [1 .. n -> Nat \ {0}]  BY <1>5, <1>6
  <1>8. ASSUME NEW i \in 1 .. n, NEW j \in i .. n PROVE g[i] <= g[j]
    <2>1. j \in 1 .. n /\ i + 1 \in 1 .. n + 1 /\ j + 1 \in i + 1 .. n + 1  BY <1>2
    <2>2. f[i + 1] <= f[j + 1]  BY <2>1, <1>3
    <2>3. g[i] = f[i + 1] - d /\ g[j] = f[j + 1] - d /\ f[i + 1] \in Nat /\ f[j + 1] \in Nat
      BY <2>1, <1>6
    <2> QED BY <2>2, <2>3, <1>4
  <1>9. ASSUME NEW i \in 1 .. n - 1 PROVE g[i + 1] = g[i] + One(p[i].buffer_end)
    <2>1. PICK j : j = i + 1  OBVIOUS
    <2>2. j \in 1 .. n /\ i \in 1 .. n  BY <2>1, <1>2
    <2>3. f[j + 1] = f[j] + One(o[j].buffer_end) /\ p[i] = o[j]  BY <2>1, <2>2, <1>2, <1>3
    <2>4. g[i] = f[j] - d /\ g[j] = f[j + 1] - d /\ f[j] \in Nat /\ f[j + 1] \in Nat
      BY <2>1, <2>2, <1>6
    <2>5. One(o[j].buffer_end) \in 0 .. 1  BY DEF One
    <2> QED BY <2>1, <2>3, <2>4, <2>5, <1>4
  <1>10. g[1] = 1 /\ g[n] = l
    <2>1. 1 \in 1 .. n /\ n \in 1 .. n /\ 1 + 1 = 2  BY <1>2
    <2>2. g[1] = f[2] - d /\ g[n] = f[n + 1] - d  BY <2>1, <1>6
    <2> QED BY <2>2, <1>1, <1>3, <1>4
  <1>11. Len(p) + 1 = n  BY <1>2
  <1>12. Owns(g, p, l)  BY <1>2, <1>7, <1>8, <1>9, <1>10, <1>11 DEF Owns, One
  <1> QED BY <1>1, <1>12

\* The reads in progress, with the one that is taken next.
Working == Len(reads) + One(request.remaining = 0)

LEMMA OwnerIs ==
  ASSUME Types
  PROVE  /\ OwnerInv <=> /\ \E f : Owns(f, outstanding, Working)
                         /\ outstanding # <<>> /\ request.remaining = 0 => outstanding[Len(outstanding)].buffer_end
         /\ Working \in Nat /\ outstanding \in Seq(Requests) /\ Len(reads) \in Nat /\ request.remaining \in Nat
  <1>1. ReadTypes /\ RequestTypes  BY DEF Types
  <1>2. reads \in Seq(ReleaseType) /\ outstanding \in Seq(Requests)
    BY <1>1 DEF ReadTypes, RequestTypes
  <1>3. request.remaining \in Nat  BY <1>1 DEF RequestTypes
  <1>4. Len(reads) \in Nat  BY <1>2
  <1>5. Working \in Nat  BY <1>4 DEF Working, One
  <1>6. OwnerInv <=> /\ \E f : Owns(f, outstanding, Working)
                     /\ outstanding # <<>> /\ request.remaining = 0 => outstanding[Len(outstanding)].buffer_end
    BY DEF OwnerInv, Working, One
  <1> QED BY <1>2, <1>3, <1>4, <1>5, <1>6

LEMMA OwnerReads ==
  ASSUME Types, OwnerInv, outstanding # <<>>
  PROVE  reads # <<>>
  <1>1. PICK f : Owns(f, outstanding, Working)  BY OwnerIs
  <1>2. PICK n, o, m : n = Len(outstanding) /\ o = outstanding /\ m = Len(reads)  OBVIOUS
  <1>3. /\ o \in Seq(Requests) /\ m \in Nat /\ request.remaining \in Nat
        /\ (request.remaining = 0 => o[n].buffer_end)
    BY <1>2, OwnerIs
  <1>4. n \in Nat \ {0}  BY <1>2, <1>3
  <1>5. /\ f \in [1 .. n + 1 -> Nat \ {0}] /\ f[n + 1] = Working
        /\ \A i \in 1 .. n : f[i + 1] = f[i] + One(o[i].buffer_end)
    BY <1>1, <1>2 DEF Owns, One
  <1>6. n \in 1 .. n /\ n \in 1 .. n + 1 /\ n + 1 \in 1 .. n + 1  BY <1>4
  <1>7. f[n + 1] = f[n] + One(o[n].buffer_end) /\ f[n] \in Nat \ {0} /\ f[n + 1] \in Nat \ {0}
    BY <1>5, <1>6
  <1>8. m # 0
    <2>1. CASE request.remaining = 0
      <3>1. f[n + 1] = f[n] + 1 /\ f[n + 1] = m + 1
        BY <2>1, <1>2, <1>3, <1>5, <1>7 DEF One, Working
      <3> QED BY <3>1, <1>3, <1>7
    <2>2. CASE request.remaining # 0
      <3>1. f[n + 1] = m + 0  BY <2>2, <1>2, <1>5 DEF One, Working
      <3> QED BY <3>1, <1>3, <1>7
    <2> QED BY <2>1, <2>2
  <1>9. Len(<<>>) = 0  OBVIOUS
  <1> QED BY <1>2, <1>8, <1>9

LEMMA OwnerKept ==
  ASSUME OwnerInv, UNCHANGED <<reads, requestVars>>
  PROVE  OwnerInv'
  BY DEF OwnerInv, requestVars

LEMMA OwnerTakes ==
  ASSUME Types, OwnerInv, Takes, ReadBlock \in ReleaseType
  PROVE  OwnerInv'
  <1>1. /\ reads' = Append(reads, ReadBlock) /\ request.remaining = 0
        /\ \/ read.size = 0 /\ request' = request
              /\ outstanding' = Append(outstanding,
                       [vaddr |-> read.vaddr, len |-> 0, buffer_end |-> TRUE, buffer_last |-> read.last])
           \/ read.size # 0 /\ outstanding' = outstanding
              /\ request' = [vaddr |-> read.vaddr, remaining |-> read.size, last |-> read.last]
    BY DEF Takes
  <1>2. PICK f : Owns(f, outstanding, Working)  BY OwnerIs
  <1>3. PICK m : m = Len(reads)  OBVIOUS
  <1>4. m \in Nat /\ Working = m + 1 /\ Working \in Nat /\ outstanding \in Seq(Requests)
    BY <1>1, <1>3, OwnerIs DEF Working, One
  <1>5. Len(reads') = m + 1
    <2>1. reads \in Seq(ReleaseType)  BY DEF Types, ReadTypes
    <2> QED BY <2>1, <1>1, <1>3
  <1>6. CASE read.size = 0
    <2>1. PICK q : q = [vaddr |-> read.vaddr, len |-> 0, buffer_end |-> TRUE, buffer_last |-> read.last]
      OBVIOUS
    <2>2. outstanding' = Append(outstanding, q) /\ request' = request /\ q.buffer_end = TRUE
      BY <2>1, <1>1, <1>6
    <2>3. q \in Requests
      <3>1. read.vaddr \in Nat /\ read.last \in BOOLEAN  BY DEF Types, ReadTypes, ReadType
      <3>2. 0 \in 0 .. TRANSFER  BY Sizes
      <3> QED BY <2>1, <3>1, <3>2 DEF Requests
    <2>4. PICK g : Owns(g, Append(outstanding, q), Working + One(q.buffer_end))
      BY <2>3, <1>2, <1>4, OwnsMore
    <2>5. Working + One(q.buffer_end) = m + 2  BY <2>2, <1>4 DEF One
    <2>6. Len(reads') + (IF request'.remaining = 0 THEN 1 ELSE 0) = m + 2  BY <2>2, <1>1, <1>4, <1>5
    <2>7. outstanding'[Len(outstanding')].buffer_end
      <3>1. PICK o, p : o = outstanding /\ p = Append(o, q)  OBVIOUS
      <3>2. p[Len(p)] = q  BY <3>1, <1>4
      <3> QED BY <3>1, <3>2, <2>2
    <2>8. Owns(g, outstanding', Len(reads') + (IF request'.remaining = 0 THEN 1 ELSE 0))
      BY <2>2, <2>4, <2>5, <2>6
    <2> QED BY <2>7, <2>8 DEF OwnerInv
  <1>7. CASE read.size # 0
    <2>1. outstanding' = outstanding /\ request'.remaining # 0  BY <1>1, <1>7
    <2>2. Len(reads') + (IF request'.remaining = 0 THEN 1 ELSE 0) = Working  BY <2>1, <1>4, <1>5
    <2>3. Owns(f, outstanding', Len(reads') + (IF request'.remaining = 0 THEN 1 ELSE 0))
      BY <2>1, <2>2, <1>2
    <2> QED BY <2>1, <2>3 DEF OwnerInv
  <1> QED BY <1>6, <1>7

LEMMA OwnerAsks ==
  ASSUME Types, OwnerInv, NEW q, Asks(q), reads' = reads
  PROVE  OwnerInv'
  <1>1. /\ q \in Requests /\ request.remaining # 0 /\ outstanding' = Append(outstanding, q)
        /\ q.buffer_end = (request'.remaining = 0)
    BY DEF Asks
  <1>2. PICK f : Owns(f, outstanding, Working)  BY OwnerIs
  <1>3. Working \in Nat /\ outstanding \in Seq(Requests) /\ Len(reads) \in Nat  BY OwnerIs
  <1>4. PICK g : Owns(g, Append(outstanding, q), Working + One(q.buffer_end))
    BY <1>1, <1>2, <1>3, OwnsMore
  <1>5. Working + One(q.buffer_end) = Len(reads') + (IF request'.remaining = 0 THEN 1 ELSE 0)
    <2>1. Working = Len(reads) + 0  BY <1>1 DEF Working, One
    <2>2. q.buffer_end <=> (request'.remaining = 0)  BY <1>1
    <2>3. One(q.buffer_end) = (IF request'.remaining = 0 THEN 1 ELSE 0)  BY <2>2 DEF One
    <2> QED BY <2>1, <2>3, <1>3
  <1>6. Owns(g, outstanding', Len(reads') + (IF request'.remaining = 0 THEN 1 ELSE 0))
    BY <1>1, <1>4, <1>5
  <1>7. outstanding'[Len(outstanding')] = q
    <2>1. PICK o, p : o = outstanding /\ p = Append(o, q)  OBVIOUS
    <2>2. p[Len(p)] = q  BY <2>1, <1>3
    <2> QED BY <2>1, <2>2, <1>1
  <1>8. request'.remaining = 0 => outstanding'[Len(outstanding')].buffer_end  BY <1>1, <1>7
  <1> QED BY <1>6, <1>8 DEF OwnerInv

LEMMA OwnerAnswers ==
  ASSUME Types, OwnerInv, Answers, reads # <<>>, request' = request
  PROVE  OwnerInv'
  <1>1. /\ outstanding # <<>> /\ outstanding' = Tail(outstanding)
        /\ Head(outstanding).buffer_end => reads' = Tail(reads)
        /\ ~Head(outstanding).buffer_end => reads' = reads
    BY DEF Answers
  <1>2. PICK f : Owns(f, outstanding, Working)  BY OwnerIs
  <1>3. /\ Working \in Nat /\ outstanding \in Seq(Requests) /\ Len(reads) \in Nat
        /\ (request.remaining = 0 => outstanding[Len(outstanding)].buffer_end)
    BY <1>1, OwnerIs
  <1>4. PICK g : Owns(g, Tail(outstanding), Working - One(Head(outstanding).buffer_end))
    BY <1>1, <1>2, <1>3, OwnsLess
  <1>5. Len(reads') = Len(reads) - One(Head(outstanding).buffer_end)
    <2>1. reads \in Seq(ReleaseType)  BY DEF Types, ReadTypes
    <2>2. Len(Tail(reads)) = Len(reads) - 1  BY <2>1
    <2>3. CASE Head(outstanding).buffer_end
      <3>1. reads' = Tail(reads) /\ One(Head(outstanding).buffer_end) = 1  BY <2>3, <1>1 DEF One
      <3> QED BY <3>1, <2>2
    <2>4. CASE ~Head(outstanding).buffer_end
      <3>1. reads' = reads /\ One(Head(outstanding).buffer_end) = 0  BY <2>4, <1>1 DEF One
      <3>2. Len(reads) = Len(reads) - 0  BY <1>3
      <3> QED BY <3>1, <3>2
    <2> QED BY <2>3, <2>4
  <1>6. Working - One(Head(outstanding).buffer_end) = Len(reads') + (IF request'.remaining = 0 THEN 1 ELSE 0)
    <2>1. Working = Len(reads) + (IF request'.remaining = 0 THEN 1 ELSE 0)  BY DEF Working, One
    <2>2. One(Head(outstanding).buffer_end) \in 0 .. 1  BY DEF One
    <2> QED BY <2>1, <2>2, <1>3, <1>5
  <1>7. Owns(g, outstanding', Len(reads') + (IF request'.remaining = 0 THEN 1 ELSE 0))
    BY <1>1, <1>4, <1>6
  <1>8. ASSUME outstanding' # <<>> PROVE outstanding'[Len(outstanding')] = outstanding[Len(outstanding)]
    <2>1. PICK o, p : o = outstanding /\ p = Tail(o)  OBVIOUS
    <2>2. o \in Seq(Requests) /\ o # <<>> /\ p # <<>>  BY <2>1, <1>1, <1>3, <1>8
    <2>3. p[Len(p)] = o[Len(o)]  BY <2>1, <2>2
    <2> QED BY <2>1, <2>3, <1>1
  <1>9. outstanding' # <<>> /\ request'.remaining = 0 => outstanding'[Len(outstanding')].buffer_end
    BY <1>3, <1>8
  <1> QED BY <1>7, <1>9 DEF OwnerInv

----
(* Where extents end.                                                       *)

LEMMA BreaksAppend ==
  ASSUME NEW x \in Seq(Extent), NEW e \in Extent, Breaks(x),
         x # <<>> /\ ~x[Len(x)].last => Broken(x[Len(x)], e)
  PROVE  Breaks(Append(x, e))
  <1>1. PICK n, y : n = Len(x) /\ y = Append(x, e)  OBVIOUS
  <1>2. n \in Nat /\ Len(y) = n + 1 /\ y[n + 1] = e /\ \A i \in 1 .. n : y[i] = x[i]  BY <1>1
  <1>3. ASSUME NEW i \in 1 .. n, ~y[i].last PROVE Broken(y[i], y[i + 1])
    <2>1. CASE i = n
      <3>1. x # <<>>  BY <2>1, <1>1
      <3>2. y[i] = x[n] /\ y[i + 1] = e  BY <2>1, <1>2
      <3> QED BY <3>1, <3>2, <1>1, <1>3
    <2>2. CASE i # n
      <3>1. i \in 1 .. n - 1 /\ i + 1 \in 1 .. n  BY <2>2, <1>2
      <3>2. y[i] = x[i] /\ y[i + 1] = x[i + 1]  BY <3>1, <1>2
      <3> QED BY <3>1, <3>2, <1>1, <1>3 DEF Breaks
    <2> QED BY <2>1, <2>2
  <1>4. Len(y) - 1 = n  BY <1>2
  <1> QED BY <1>1, <1>3, <1>4 DEF Breaks

LEMMA BreaksGrow ==
  ASSUME NEW x \in Seq(Extent), NEW e \in Extent, NEW f \in Extent, f.vaddr = e.vaddr,
         Breaks(Append(x, e))
  PROVE  Breaks(Append(x, f))
  <1>1. PICK n, y, z : n = Len(x) /\ y = Append(x, e) /\ z = Append(x, f)  OBVIOUS
  <1>2. /\ n \in Nat /\ Len(y) = n + 1 /\ Len(z) = n + 1 /\ y[n + 1] = e /\ z[n + 1] = f
        /\ \A i \in 1 .. n : y[i] = x[i] /\ z[i] = x[i]
    BY <1>1
  <1>3. Len(y) - 1 = n /\ Len(z) - 1 = n  BY <1>2
  <1>4. ASSUME NEW i \in 1 .. n, ~z[i].last PROVE Broken(z[i], z[i + 1])
    <2>1. z[i] = y[i] /\ ~y[i].last  BY <1>2, <1>4
    <2>2. Broken(y[i], y[i + 1])  BY <2>1, <1>1, <1>3 DEF Breaks
    <2>3. z[i + 1].vaddr = y[i + 1].vaddr
      <3>1. i + 1 \in 1 .. n \/ i + 1 = n + 1  BY <1>2
      <3> QED BY <3>1, <1>2
    <2> QED BY <2>1, <2>2, <2>3 DEF Broken
  <1> QED BY <1>1, <1>3, <1>4 DEF Breaks

\* The end of a sequence that is broken is broken.
LEMMA BreaksEnd ==
  ASSUME NEW h \in Seq(Extent), NEW x \in Seq(Extent), Breaks(h \o x)
  PROVE  Breaks(x)
  <1>1. PICK m, n, y : m = Len(h) /\ n = Len(x) /\ y = h \o x  OBVIOUS
  <1>2. m \in Nat /\ n \in Nat /\ Len(y) = m + n /\ \A i \in 1 .. n : y[m + i] = x[i]  BY <1>1
  <1>3. ASSUME NEW i \in 1 .. n - 1, ~x[i].last PROVE Broken(x[i], x[i + 1])
    <2>1. PICK j : j = m + i  OBVIOUS
    <2>2. j \in 1 .. Len(y) - 1 /\ i \in 1 .. n /\ i + 1 \in 1 .. n /\ m + (i + 1) = j + 1
      BY <2>1, <1>2
    <2>3. y[j] = x[i] /\ y[j + 1] = x[i + 1]  BY <2>1, <2>2, <1>2
    <2> QED BY <2>2, <2>3, <1>1, <1>3 DEF Breaks
  <1> QED BY <1>1, <1>3 DEF Breaks

LEMMA FirstOf ==
  ASSUME NEW R, NEW x \in Seq(R), x # <<>>
  PROVE  /\ <<Head(x)>> \in Seq(R) /\ Tail(x) \in Seq(R) /\ x = <<Head(x)>> \o Tail(x)
         /\ Tail(x) # <<>> => Tail(x)[Len(Tail(x))] = x[Len(x)]
  <1>1. PICK y, e, z : y = Tail(x) /\ e = <<Head(x)>> /\ z = e \o y  OBVIOUS
  <1>2. Head(x) \in R /\ y \in Seq(R)  BY <1>1, TailOn
  <1>3. e \in Seq(R) /\ Len(e) = 1 /\ e[1] = x[1]  BY <1>1, <1>2
  <1>4. PICK n : n = Len(x)  OBVIOUS
  <1>5. n \in Nat \ {0} /\ Len(y) = n - 1 /\ \A i \in 1 .. n - 1 : y[i] = x[i + 1]  BY <1>1, <1>4
  <1>6. z \in Seq(R) /\ Len(z) = n /\ z[1] = e[1] /\ \A i \in 1 .. n - 1 : z[1 + i] = y[i]
    BY <1>1, <1>2, <1>3, <1>5
  <1>7. ASSUME NEW i \in 1 .. n PROVE z[i] = x[i]
    <2>1. CASE i = 1  BY <2>1, <1>3, <1>6
    <2>2. CASE i # 1
      <3>1. PICK j : j = i - 1  OBVIOUS
      <3>2. j \in 1 .. n - 1 /\ i = 1 + j /\ i = j + 1  BY <3>1, <2>2, <1>5
      <3>3. z[1 + j] = y[j] /\ y[j] = x[j + 1]  BY <3>2, <1>5, <1>6
      <3> QED BY <3>2, <3>3
    <2> QED BY <2>1, <2>2
  <1>8. z = x  BY <1>4, <1>6, <1>7, SeqEqual
  <1>9. ASSUME y # <<>> PROVE y[Len(y)] = x[n]
    <2>1. n - 1 \in 1 .. n - 1 /\ (n - 1) + 1 = n
      <3>1. Len(y) # 0  BY <1>2, <1>9
      <3> QED BY <3>1, <1>5
    <2> QED BY <2>1, <1>5
  <1> QED BY <1>1, <1>2, <1>3, <1>4, <1>8, <1>9

\* One more at the end of the second of two sequences, or at the end of the first.
LEMMA JoinAppend ==
  ASSUME NEW R, NEW h \in Seq(R), NEW x \in Seq(R), NEW e \in R
  PROVE  /\ h \o Append(x, e) = Append(h \o x, e)
         /\ h \o (<<e>> \o x) = Append(h, e) \o x
         /\ h \o x \in Seq(R)
         /\ x # <<>> => h \o x # <<>> /\ (h \o x)[Len(h \o x)] = x[Len(x)]
         /\ h # <<>> => h \o x # <<>>
  <1>1. PICK m, n : m = Len(h) /\ n = Len(x)  OBVIOUS
  <1>2. m \in Nat /\ n \in Nat  BY <1>1
  <1>3. h \o Append(x, e) = Append(h \o x, e)
    <2>1. PICK a, b, c, d : a = Append(x, e) /\ b = h \o x /\ c = h \o a /\ d = Append(b, e)
      OBVIOUS
    <2>2. a \in Seq(R) /\ b \in Seq(R) /\ Len(a) = n + 1 /\ Len(b) = m + n  BY <2>1, <1>1
    <2>3. c \in Seq(R) /\ d \in Seq(R) /\ Len(c) = m + (n + 1) /\ Len(d) = (m + n) + 1
      BY <2>1, <2>2, <1>1
    <2>4. ASSUME NEW i \in 1 .. m + n + 1 PROVE c[i] = d[i]
      <3>1. CASE i \in 1 .. m
        <4>1. c[i] = h[i] /\ b[i] = h[i] /\ i \in 1 .. m + n  BY <3>1, <2>1, <2>2, <1>1, <1>2
        <4> QED BY <4>1, <2>1, <2>2
      <3>2. CASE i \in m + 1 .. m + n
        <4>1. PICK j : j = i - m  OBVIOUS
        <4>2. j \in 1 .. n /\ i = m + j /\ j \in 1 .. n + 1 /\ i \in 1 .. m + n  BY <4>1, <3>2, <1>2
        <4>3. c[m + j] = a[j] /\ a[j] = x[j] /\ b[m + j] = x[j]  BY <4>2, <2>1, <2>2, <1>1, <1>2
        <4>4. d[i] = b[i]  BY <4>2, <2>1, <2>2
        <4> QED BY <4>2, <4>3, <4>4
      <3>3. CASE i = m + n + 1
        <4>1. c[m + (n + 1)] = a[n + 1] /\ a[n + 1] = e /\ n + 1 \in 1 .. n + 1
          BY <2>1, <2>2, <1>1, <1>2
        <4>2. d[(m + n) + 1] = e  BY <2>1, <2>2
        <4>3. m + (n + 1) = i /\ (m + n) + 1 = i  BY <3>3, <1>2
        <4> QED BY <4>1, <4>2, <4>3
      <3> QED BY <3>1, <3>2, <3>3, <1>2
    <2>5. Len(c) = m + n + 1 /\ Len(d) = m + n + 1  BY <2>3, <1>2
    <2> QED BY <2>1, <2>3, <2>4, <2>5, SeqEqual
  <1>4. h \o (<<e>> \o x) = Append(h, e) \o x
    <2>1. PICK o : o = <<e>>  OBVIOUS
    <2>2. o \in Seq(R) /\ h \o (o \o x) = (h \o o) \o x  BY <2>1
    <2>3. h \o o = Append(h, e)  BY <2>1
    <2> QED BY <2>1, <2>2, <2>3
  <1>5. h \o x \in Seq(R) /\ (h # <<>> => h \o x # <<>>)  OBVIOUS
  <1>6. ASSUME x # <<>> PROVE h \o x # <<>> /\ (h \o x)[Len(h \o x)] = x[Len(x)]
    <2>1. n \in Nat \ {0} /\ n \in 1 .. n  BY <1>1, <1>6
    <2>2. PICK y : y = h \o x  OBVIOUS
    <2>3. Len(y) = m + n /\ y[m + n] = x[n] /\ y # <<>>  BY <2>1, <2>2, <1>1, <1>2, <1>6
    <2> QED BY <2>2, <2>3, <1>1
  <1> QED BY <1>3, <1>4, <1>5, <1>6

LEMMA UnfinishedFacts ==
  ASSUME NEW s \in Seq(Segments)
  PROVE  /\ Unfinished(s) \in Seq(Extent) /\ Len(Unfinished(s)) = Len(s)
         /\ \A i \in 1 .. Len(s) : Unfinished(s)[i] = [vaddr |-> s[i].vaddr, size |-> s[i].size, last |-> FALSE]
  <1>1. PICK n, y : n = Len(s) /\ y = Unfinished(s)  OBVIOUS
  <1>2. n \in Nat /\ y = [i \in 1 .. n |-> [vaddr |-> s[i].vaddr, size |-> s[i].size, last |-> FALSE]]
    BY <1>1 DEF Unfinished
  <1>3. ASSUME NEW i \in 1 .. n PROVE y[i] \in Extent
    <2>1. s[i] \in Segments  BY <1>1, ElementOfSeq
    <2>2. s[i].vaddr \in Nat /\ s[i].size \in Nat  BY <2>1 DEF Segments
    <2>3. [vaddr |-> s[i].vaddr, size |-> s[i].size, last |-> FALSE] \in Extent  BY <2>2 DEF Extent
    <2> QED BY <2>3, <1>2
  <1>4. y \in [1 .. n -> Extent] /\ DOMAIN y = 1 .. n  BY <1>2, <1>3
  <1>5. y \in Seq(Extent) /\ Len(y) = n  BY <1>2, <1>4
  <1> QED BY <1>1, <1>2, <1>5

LEMMA UnfinishedAppend ==
  ASSUME NEW s \in Seq(Segments), NEW e \in Segments
  PROVE  /\ Unfinished(Append(s, e)) = Append(Unfinished(s), [vaddr |-> e.vaddr, size |-> e.size, last |-> FALSE])
         /\ [vaddr |-> e.vaddr, size |-> e.size, last |-> FALSE] \in Extent
  <1>1. PICK n, t, b : n = Len(s) /\ t = Append(s, e) /\ b = [vaddr |-> e.vaddr, size |-> e.size, last |-> FALSE]
    OBVIOUS
  <1>2. n \in Nat /\ t \in Seq(Segments) /\ Len(t) = n + 1 /\ t[n + 1] = e /\ \A i \in 1 .. n : t[i] = s[i]
    BY <1>1
  <1>3. b \in Extent  BY <1>1 DEF Extent, Segments
  <1>4. PICK x, y, z : x = Unfinished(s) /\ y = Unfinished(t) /\ z = Append(x, b)  OBVIOUS
  <1>5. /\ x \in Seq(Extent) /\ Len(x) = n
        /\ \A i \in 1 .. n : x[i] = [vaddr |-> s[i].vaddr, size |-> s[i].size, last |-> FALSE]
    BY <1>1, <1>4, UnfinishedFacts
  <1>6. /\ y \in Seq(Extent) /\ Len(y) = n + 1
        /\ \A i \in 1 .. n + 1 : y[i] = [vaddr |-> t[i].vaddr, size |-> t[i].size, last |-> FALSE]
    BY <1>2, <1>4, UnfinishedFacts
  <1>7. z \in Seq(Extent) /\ Len(z) = n + 1 /\ z[n + 1] = b /\ \A i \in 1 .. n : z[i] = x[i]
    BY <1>3, <1>4, <1>5
  <1>8. ASSUME NEW i \in 1 .. n + 1 PROVE y[i] = z[i]
    <2>1. CASE i \in 1 .. n
      <3>1. y[i] = [vaddr |-> t[i].vaddr, size |-> t[i].size, last |-> FALSE] /\ t[i] = s[i]
        BY <2>1, <1>2, <1>6
      <3> QED BY <3>1, <2>1, <1>5, <1>7
    <2>2. CASE i = n + 1
      <3>1. y[i] = [vaddr |-> t[i].vaddr, size |-> t[i].size, last |-> FALSE] /\ t[i] = e
        BY <2>2, <1>2, <1>6
      <3> QED BY <3>1, <2>2, <1>1, <1>7
    <2> QED BY <2>1, <2>2, <1>2
  <1>9. y = z  BY <1>6, <1>7, <1>8, SeqEqual
  <1> QED BY <1>1, <1>3, <1>4, <1>9

LEMMA UnreadFacts ==
  ASSUME Types
  PROVE  /\ HeldExtents \in Seq(Extent) /\ AllExtents \in Seq(Extent) /\ extents \in Seq(Extent)
         /\ Unread \in Seq(Extent) /\ Unread = HeldExtents \o AllExtents
         /\ \A e \in Extents : e \in Extent
         /\ segments \in Seq(Segments)
         /\ reader # "FIRST_READ" \/ remaining_reads = 0 => HeldExtents = <<>> /\ Unread = AllExtents
  <1>1. TailTypes /\ ReaderTypes  BY DEF Types
  <1>2. \A e \in Extents : e \in Extent  BY DEF Extents
  <1>3. AllExtents \in Seq(Extents) /\ extents \in Seq(Extents)
    BY <1>1, AllExtentsFacts DEF TailTypes
  <1>4. ASSUME NEW x \in Seq(Extents) PROVE x \in Seq(Extent)
    <2>1. PICK n : n = Len(x)  OBVIOUS
    <2>2. n \in Nat /\ x \in [1 .. n -> Extents]  BY <2>1
    <2>3. \A i \in 1 .. n : x[i] \in Extent  BY <2>2, <1>2
    <2>4. x \in [1 .. n -> Extent]  BY <2>2, <2>3
    <2> QED BY <2>2, <2>4
  <1>5. AllExtents \in Seq(Extent) /\ extents \in Seq(Extent)  BY <1>3, <1>4
  <1>6. segments \in Seq(Segments)  BY <1>1 DEF ReaderTypes
  <1>7. HeldExtents \in Seq(Extent)
    <2>1. Unfinished(segments) \in Seq(Extent) /\ <<>> \in Seq(Extent)  BY <1>6, UnfinishedFacts
    <2> QED BY <2>1 DEF HeldExtents
  <1>8. Unread = HeldExtents \o AllExtents /\ Unread \in Seq(Extent)  BY <1>5, <1>7 DEF Unread
  <1>9. ASSUME reader # "FIRST_READ" \/ remaining_reads = 0 PROVE HeldExtents = <<>> /\ Unread = AllExtents
    <2>1. HeldExtents = <<>>  BY <1>9 DEF HeldExtents
    <2>2. PICK x : x = AllExtents  OBVIOUS
    <2>3. <<>> \o x = x  BY <2>2, <1>5
    <2> QED BY <2>1, <2>2, <2>3, <1>8
  <1> QED BY <1>2, <1>5, <1>6, <1>7, <1>8, <1>9

LEMMA BreakIs ==
  ASSUME BreakInv
  PROVE  /\ Breaks(Unread)
         /\ Unread # <<>> /\ (tail_valid => tail_closed) /\ ~Unread[Len(Unread)].last =>
              pending # <<>> /\ Broken(Unread[Len(Unread)], Head(pending))
         /\ reader = "REPLAY" /\ Len(segments) = 2 => Broken(segments[1], segments[2])
  BY DEF BreakInv, Ended

LEMMA BreakOf ==
  ASSUME BreakInv, Unread' = Unread, pending' = pending \/ (pending # <<>> => pending' # <<>> /\ Head(pending') = Head(pending)),
         (tail_valid' => tail_closed') => (tail_valid => tail_closed),
         reader' = "REPLAY" => reader = "REPLAY" /\ segments' = segments
  PROVE  BreakInv'
  <1>1. Breaks(Unread')  BY BreakIs
  <1>2. Ended' => pending' # <<>> /\ Broken(Unread'[Len(Unread')], Head(pending'))
    <2> SUFFICES ASSUME Ended' PROVE pending' # <<>> /\ Broken(Unread'[Len(Unread')], Head(pending'))
      OBVIOUS
    <2>1. Unread # <<>> /\ (tail_valid => tail_closed) /\ ~Unread[Len(Unread)].last  BY DEF Ended
    <2>2. pending # <<>> /\ Broken(Unread[Len(Unread)], Head(pending))  BY <2>1, BreakIs
    <2> QED BY <2>2
  <1>3. reader' = "REPLAY" /\ Len(segments') = 2 => Broken(segments'[1], segments'[2])  BY BreakIs
  <1> QED BY <1>1, <1>2, <1>3 DEF BreakInv

LEMMA UnreadKept ==
  ASSUME UNCHANGED <<tailVars, extents, reader, remaining_reads, segments>>
  PROVE  Unread' = Unread /\ HeldExtents' = HeldExtents
  BY DEF Unread, HeldExtents, AllExtents, tailVars

LEMMA BreakKept ==
  ASSUME BreakInv, UNCHANGED <<tailVars, extents, reader, remaining_reads, segments, pending>>
  PROVE  BreakInv'
  <1>1. Unread' = Unread  BY UnreadKept
  <1>2. tail_valid' = tail_valid /\ tail_closed' = tail_closed  BY DEF tailVars
  <1> QED BY <1>1, <1>2, BreakOf

LEMMA BreakIssue ==
  ASSUME Types, BreakInv, Issue
  PROVE  BreakInv'
  <1>1. PICK t : Issues(t)  BY IssueTypes
  <1>2. t \in Transfers /\ pending' = Append(pending, t)  BY <1>1 DEF Issues
  <1>3. pending \in Seq(Transfers)  BY DEF Types, StreamTypes
  <1>4. pending # <<>> => pending' # <<>> /\ Head(pending') = Head(pending)
    BY <1>2, <1>3, HeadAppend
  <1>5. UNCHANGED <<tailVars, extents, reader, remaining_reads, segments>>  BY DEF Issue, replayVars
  <1>6. Unread' = Unread  BY <1>5, UnreadKept
  <1> QED BY <1>4, <1>5, <1>6, BreakOf DEF tailVars

LEMMA BreakLink ==
  ASSUME Types, BreakInv, Link
  PROVE  BreakInv'
  <1>1. PICK t : t = Head(pending)  OBVIOUS
  <1>2. /\ t \in Transfers /\ pending # <<>> /\ (LinksNew(t) \/ LinksMore(t))
        /\ tail_closed' = t.last /\ tail_valid' = TRUE
        /\ UNCHANGED <<extents, replayVars>>
    BY <1>1, LinkExtents
  <1>3. tail' \in Extent /\ tail \in Extent
    <2>1. TailTypes  BY DEF Types
    <2>2. tail \in Extents /\ tail' \in Extents  BY <2>1, LinkHead DEF TailTypes
    <2> QED BY <2>2 DEF Extents
  <1>4. /\ HeldExtents \in Seq(Extent) /\ AllExtents \in Seq(Extent) /\ extents \in Seq(Extent)
        /\ Unread \in Seq(Extent) /\ Unread = HeldExtents \o AllExtents
    BY UnreadFacts
  <1>5. PICK h, u : h = HeldExtents /\ u = h \o extents  OBVIOUS
  <1>6. HeldExtents' = h /\ h \in Seq(Extent) /\ u \in Seq(Extent)
    BY <1>2, <1>4, <1>5 DEF HeldExtents, replayVars
  <1>7. Unread' = h \o AllExtents'  BY <1>6 DEF Unread
  <1>8. tail'.last = t.last  BY <1>2 DEF LinksNew, LinksMore
  <1>9. /\ \E x : Unread' = Append(x, tail') /\ x \in Seq(Extent)
        /\ Breaks(Unread')
    <2>1. CASE LinksNew(t)
      <3>1. ~tail_valid /\ AllExtents' = Append(AllExtents, tail') /\ tail'.vaddr = t.vaddr
        BY <2>1 DEF LinksNew
      <3>2. Unread' = Append(Unread, tail')  BY <3>1, <1>3, <1>4, <1>5, <1>7, JoinAppend
      <3>3. Unread # <<>> /\ ~Unread[Len(Unread)].last => Broken(Unread[Len(Unread)], t)
        BY <3>1, <1>1, BreakIs
      <3>4. Unread # <<>> /\ ~Unread[Len(Unread)].last => Broken(Unread[Len(Unread)], tail')
        BY <3>1, <3>3 DEF Broken
      <3>5. Breaks(Unread)  BY BreakIs
      <3>6. Breaks(Append(Unread, tail'))  BY <3>4, <3>5, <1>3, <1>4, BreaksAppend
      <3> QED BY <3>2, <3>6, <1>4
    <2>2. CASE LinksMore(t)
      <3>1. AllExtents = Append(extents, tail) /\ AllExtents' = Append(extents, tail') /\ tail'.vaddr = tail.vaddr
        BY <2>2 DEF LinksMore
      <3>2. Unread' = Append(u, tail')  BY <3>1, <1>3, <1>4, <1>5, <1>7, JoinAppend
      <3>3. Unread = Append(u, tail)  BY <3>1, <1>3, <1>4, <1>5, JoinAppend
      <3>4. Breaks(Append(u, tail))  BY <3>3, BreakIs
      <3>5. Breaks(Append(u, tail'))  BY <3>1, <3>4, <1>3, <1>6, BreaksGrow
      <3> QED BY <3>2, <3>5, <1>6
    <2> QED BY <2>1, <2>2, <1>2
  <1>10. ~Ended'
    <2>1. PICK x : Unread' = Append(x, tail') /\ x \in Seq(Extent)  BY <1>9
    <2>2. PICK e, y : e = tail' /\ y = Append(x, e)  OBVIOUS
    <2>3. y[Len(y)] = e  BY <2>1, <2>2, <1>3
    <2>4. Unread'[Len(Unread')] = tail'  BY <2>1, <2>2, <2>3
    <2> SUFFICES ASSUME Ended' PROVE FALSE  OBVIOUS
    <2>5. (tail_valid' => tail_closed') /\ ~tail'.last  BY <2>4 DEF Ended
    <2> QED BY <2>5, <1>2, <1>8
  <1>11. reader' = "REPLAY" /\ Len(segments') = 2 => Broken(segments'[1], segments'[2])
    BY <1>2, BreakIs DEF replayVars
  <1> QED BY <1>9, <1>10, <1>11 DEF BreakInv

LEMMA BreakCloseTail ==
  ASSUME Types, BreakInv, CloseTail
  PROVE  BreakInv'
  <1>1. /\ pending # <<>> /\ tail_valid /\ ~tail_closed /\ ~link_continues_tail(Head(pending))
        /\ UNCHANGED <<streamVars, tail, tail_valid, extents, replayVars>>
    BY DEF CloseTail
  <1>2. AllExtents' = AllExtents  BY CloseTailTypes
  <1>3. Unread' = Unread /\ pending' = pending
    BY <1>1, <1>2 DEF Unread, HeldExtents, replayVars, streamVars
  <1>4. TailTypes  BY DEF Types
  <1>5. tail \in Extent /\ AllExtents = Append(extents, tail)
    <2>1. tail \in Extents  BY <1>4 DEF TailTypes
    <2>2. AllExtents = Append(extents, tail)  BY <1>1, <1>4, AllExtentsFacts
    <2> QED BY <2>1, <2>2 DEF Extents
  <1>6. HeldExtents \in Seq(Extent) /\ extents \in Seq(Extent) /\ Unread = HeldExtents \o AllExtents
    BY UnreadFacts
  <1>7. Unread = Append(HeldExtents \o extents, tail) /\ HeldExtents \o extents \in Seq(Extent)
    BY <1>5, <1>6, JoinAppend
  <1>8. Unread[Len(Unread)] = tail
    <2>1. PICK x, e, y : x = HeldExtents \o extents /\ e = tail /\ y = Append(x, e)  OBVIOUS
    <2>2. y[Len(y)] = e  BY <2>1, <1>5, <1>7
    <2> QED BY <2>1, <2>2, <1>7
  <1>9. Broken(tail, Head(pending))  BY <1>1 DEF link_continues_tail, tail_end, Broken
  <1>10. Breaks(Unread)  BY BreakIs
  <1>11. reader' = "REPLAY" /\ Len(segments') = 2 => Broken(segments'[1], segments'[2])
    BY <1>1, BreakIs DEF replayVars
  <1> QED BY <1>1, <1>3, <1>8, <1>9, <1>10, <1>11 DEF BreakInv

LEMMA BreakMoveTail ==
  ASSUME Types, BreakInv, MoveTail
  PROVE  BreakInv'
  <1>1. /\ tail_valid /\ tail_closed /\ UNCHANGED <<streamVars, replayVars>>  BY DEF MoveTail
  <1>2. AllExtents' = AllExtents  BY MoveTailTypes
  <1>3. Unread' = Unread /\ pending' = pending
    BY <1>1, <1>2 DEF Unread, HeldExtents, replayVars, streamVars
  <1> QED BY <1>1, <1>3, BreakOf DEF replayVars

LEMMA BreakTakeNumReads ==
  ASSUME Types, BreakInv, TakeNumReads
  PROVE  BreakInv'
  <1>1. /\ reader = "WAIT_FOR_STREAM" /\ reader' = "FIRST_READ" /\ segments' = <<>>
        /\ UNCHANGED <<streamVars, tailVars, extents>>
    BY DEF TakeNumReads
  <1>2. AllExtents' = AllExtents  BY TakeNumReadsTypes
  <1>3. HeldExtents = <<>>  BY <1>1 DEF HeldExtents
  <1>4. HeldExtents' = <<>>
    <2>1. Unfinished(<<>>) = <<>>  BY DEF Unfinished
    <2> QED BY <2>1, <1>1 DEF HeldExtents
  <1>5. Unread' = Unread  BY <1>2, <1>3, <1>4 DEF Unread
  <1>6. tail_valid' = tail_valid /\ tail_closed' = tail_closed /\ pending' = pending
    BY <1>1 DEF tailVars, streamVars
  <1> QED BY <1>1, <1>5, <1>6, BreakOf

LEMMA BreakReplay ==
  ASSUME Types, BreakInv, Replay
  PROVE  BreakInv'
  <1>1. /\ reader = "REPLAY" /\ UNCHANGED <<streamVars, tailVars, extents, segments>> /\ reader' # "FIRST_READ"
    BY ReplayCases DEF ReadsAgain
  <1>2. AllExtents' = AllExtents  BY <1>1, KeepTypes
  <1>3. HeldExtents = <<>> /\ HeldExtents' = <<>>  BY <1>1 DEF HeldExtents
  <1>4. Unread' = Unread  BY <1>2, <1>3 DEF Unread
  <1>5. tail_valid' = tail_valid /\ tail_closed' = tail_closed /\ pending' = pending
    BY <1>1 DEF tailVars, streamVars
  <1> QED BY <1>1, <1>4, <1>5, BreakOf

LEMMA JoinAt ==
  ASSUME NEW R, NEW h \in Seq(R), NEW x \in Seq(R)
  PROVE  /\ Len(h \o x) = Len(h) + Len(x) /\ Len(h) \in Nat /\ Len(x) \in Nat
         /\ \A i \in 1 .. Len(h) : (h \o x)[i] = h[i]
         /\ \A i \in 1 .. Len(x) : (h \o x)[Len(h) + i] = x[i]
  OBVIOUS

LEMMA SecondOf ==
  ASSUME NEW R, NEW h \in Seq(R), NEW x \in Seq(R), Len(h) = 1, x # <<>>
  PROVE  /\ Len(h \o x) = 1 + Len(x) /\ Len(x) \in Nat \ {0}
         /\ (h \o x)[1] = h[1] /\ (h \o x)[2] = x[1]
  <1>1. Len(x) \in Nat \ {0}  OBVIOUS
  <1>2. /\ Len(h \o x) = Len(h) + Len(x)
        /\ \A i \in 1 .. Len(h) : (h \o x)[i] = h[i]
        /\ \A i \in 1 .. Len(x) : (h \o x)[Len(h) + i] = x[i]
    BY JoinAt
  <1>3. PICK n, y : n = Len(x) /\ y = h \o x  OBVIOUS
  <1>4. /\ n \in Nat \ {0} /\ Len(y) = 1 + n
        /\ \A i \in 1 .. 1 : y[i] = h[i]
        /\ \A i \in 1 .. n : y[1 + i] = x[i]
    BY <1>1, <1>2, <1>3
  <1>5. 1 \in 1 .. n /\ 1 \in 1 .. 1 /\ 1 + 1 = 2  BY <1>4
  <1>6. y[1] = h[1] /\ y[1 + 1] = x[1]  BY <1>4, <1>5
  <1> QED BY <1>1, <1>3, <1>4, <1>5, <1>6

LEMMA BreakFirstRead ==
  ASSUME Types, BreakInv, FirstRead, head_closed /\ FirstPops /\ remaining_reads # 0 => Len(segments) < 2
  PROVE  BreakInv'
  <1>1. /\ reader = "FIRST_READ" /\ head_valid
        /\ FirstPops \/ FirstKeeps
        /\ UNCHANGED <<streamVars, tailVars, remaining_reads>>
    BY FirstReadCases
  <1>2. /\ tail_valid' = tail_valid /\ tail_closed' = tail_closed /\ pending' = pending
        /\ remaining_reads' = remaining_reads
    BY <1>1 DEF tailVars, streamVars
  <1>3. /\ HeldExtents \in Seq(Extent) /\ AllExtents \in Seq(Extent)
        /\ Unread \in Seq(Extent) /\ Unread = HeldExtents \o AllExtents
        /\ segments \in Seq(Segments)
        /\ reader # "FIRST_READ" \/ remaining_reads = 0 => HeldExtents = <<>> /\ Unread = AllExtents
    BY UnreadFacts
  <1>4. AllExtents # <<>> /\ head = Head(AllExtents) /\ head \in Extents  BY <1>1, HeadFacts
  <1>5. head.vaddr \in Nat /\ head.size \in Nat /\ head.last \in BOOLEAN /\ head \in Extent
    BY <1>4, ExtentFacts DEF Extents
  <1>6. CASE FirstKeeps
    <2>1. AllExtents' = AllExtents /\ segments' = segments /\ reader' = reader
      BY <1>6 DEF FirstKeeps
    <2>2. Unread' = Unread  BY <2>1, <1>2 DEF Unread, HeldExtents
    <2> QED BY <2>1, <2>2, <1>2, BreakOf
  <1>7. CASE FirstPops /\ remaining_reads # 0 /\ ~head.last
    <2>1. PICK s, e : s = [vaddr |-> head.vaddr, size |-> head.size] /\ e = [vaddr |-> head.vaddr, size |-> head.size, last |-> FALSE]
      OBVIOUS
    <2>2. s \in Segments  BY <2>1, <1>5 DEF Segments
    <2>3. e = head  BY <2>1, <1>5, <1>7 DEF Extent
    <2>4. Len(segments) # 2
      <3>1. head_closed  BY <1>7 DEF FirstPops
      <3>2. Len(segments) < 2  BY <3>1, <1>7
      <3>3. PICK k : k = Len(segments)  OBVIOUS
      <3>4. k < 2 => k # 2  OBVIOUS
      <3> QED BY <3>2, <3>3, <3>4
    <2>5. /\ segments' = Append(segments, s) /\ AllExtents' = Tail(AllExtents) /\ reader' = "FIRST_READ"
      BY <2>1, <2>4, <1>1, <1>7 DEF FirstPops
    <2>6. HeldExtents' = Append(HeldExtents, head)
      <3>1. Unfinished(Append(segments, s)) = Append(Unfinished(segments), [vaddr |-> s.vaddr, size |-> s.size, last |-> FALSE])
        BY <2>2, <1>3, UnfinishedAppend
      <3>2. [vaddr |-> s.vaddr, size |-> s.size, last |-> FALSE] = head  BY <2>1, <2>3
      <3>3. HeldExtents = Unfinished(segments) /\ HeldExtents' = Unfinished(segments')
        BY <2>5, <1>1, <1>2, <1>7 DEF HeldExtents
      <3> QED BY <3>1, <3>2, <3>3, <2>5
    <2>7. AllExtents = <<head>> \o Tail(AllExtents) /\ Tail(AllExtents) \in Seq(Extent)
      BY <1>3, <1>4, FirstOf
    <2>8. HeldExtents \o (<<head>> \o Tail(AllExtents)) = Append(HeldExtents, head) \o Tail(AllExtents)
      <3>1. PICK h, x, f : h = HeldExtents /\ x = Tail(AllExtents) /\ f = head  OBVIOUS
      <3>2. h \in Seq(Extent) /\ x \in Seq(Extent) /\ f \in Extent  BY <3>1, <2>7, <1>3, <1>5
      <3>3. h \o (<<f>> \o x) = Append(h, f) \o x  BY <3>2, JoinAppend
      <3> QED BY <3>1, <3>3
    <2>9. Unread' = Unread
      <3>1. Unread' = HeldExtents' \o AllExtents'  BY DEF Unread
      <3>2. Unread' = Append(HeldExtents, head) \o Tail(AllExtents)  BY <3>1, <2>5, <2>6
      <3> QED BY <3>2, <2>7, <2>8, <1>3
    <2> QED BY <2>5, <2>9, <1>2, BreakOf
  <1>8. CASE FirstPops /\ (remaining_reads = 0 \/ head.last)
    <2>1. AllExtents' = Tail(AllExtents)  BY <1>8 DEF FirstPops
    <2>2. HeldExtents' = <<>>
      <3>1. reader' = "FIRST_READ" => remaining_reads = 0  BY <1>8 DEF FirstPops
      <3> QED BY <3>1, <1>2 DEF HeldExtents
    <2>3. Tail(AllExtents) \in Seq(Extent) /\ AllExtents = <<Head(AllExtents)>> \o Tail(AllExtents) /\ <<Head(AllExtents)>> \in Seq(Extent)
      BY <1>3, <1>4, FirstOf
    <2>4. Unread' = Tail(AllExtents)
      <3>1. PICK x : x = Tail(AllExtents)  OBVIOUS
      <3>2. <<>> \o x = x  BY <3>1, <2>3
      <3>3. Unread' = HeldExtents' \o AllExtents'  BY DEF Unread
      <3> QED BY <3>1, <3>2, <3>3, <2>1, <2>2
    <2>5. Breaks(Unread')
      <3>1. Breaks(HeldExtents \o AllExtents)  BY <1>3, BreakIs
      <3>2. Breaks(AllExtents)  BY <3>1, <1>3, BreaksEnd
      <3>3. Breaks(<<Head(AllExtents)>> \o Tail(AllExtents))  BY <3>2, <2>3
      <3>4. Breaks(Tail(AllExtents))  BY <3>3, <2>3, BreaksEnd
      <3> QED BY <3>4, <2>4
    <2>6. Ended' => pending' # <<>> /\ Broken(Unread'[Len(Unread')], Head(pending'))
      <3> SUFFICES ASSUME Ended' PROVE pending' # <<>> /\ Broken(Unread'[Len(Unread')], Head(pending'))
        OBVIOUS
      <3>1. Unread' # <<>> /\ (tail_valid => tail_closed) /\ ~Unread'[Len(Unread')].last
        BY <1>2 DEF Ended
      <3>2. Unread'[Len(Unread')] = AllExtents[Len(AllExtents)]  BY <3>1, <2>4, <1>3, <1>4, FirstOf
      <3>3. Unread # <<>> /\ Unread[Len(Unread)] = AllExtents[Len(AllExtents)]
        BY <1>3, <1>4, <1>5, JoinAppend
      <3>4. pending # <<>> /\ Broken(Unread[Len(Unread)], Head(pending))
        BY <3>1, <3>2, <3>3, BreakIs
      <3> QED BY <3>2, <3>3, <3>4, <1>2
    <2>7. reader' = "REPLAY" /\ Len(segments') = 2 => Broken(segments'[1], segments'[2])
      <3> SUFFICES ASSUME reader' = "REPLAY", Len(segments') = 2 PROVE Broken(segments'[1], segments'[2])
        OBVIOUS
      <3>1. remaining_reads # 0 /\ head.last /\ head_closed  BY <1>1, <1>5, <1>8 DEF FirstPops
      <3>2. PICK s, g, k : s = [vaddr |-> head.vaddr, size |-> head.size] /\ g = segments /\ k = Len(g)
        OBVIOUS
      <3>3. k < 2  BY <3>1, <3>2, <1>8
      <3>4. s \in Segments /\ g \in Seq(Segments) /\ k \in Nat  BY <3>2, <1>3, <1>5 DEF Segments
      <3>5. segments' = Append(g, s)  BY <3>2, <3>3, <3>4, <1>8 DEF FirstPops
      <3>6. Len(Append(g, s)) = k + 1 /\ Append(g, s)[k + 1] = s /\ (k = 1 => Append(g, s)[1] = g[1])
        BY <3>2, <3>4
      <3>7. k = 1  BY <3>3, <3>4, <3>5, <3>6
      <3>8. segments'[1] = g[1] /\ segments'[2] = s  BY <3>5, <3>6, <3>7
      <3>9. PICK h, x, y : h = HeldExtents /\ x = AllExtents /\ y = h \o x  OBVIOUS
      <3>10. h = Unfinished(g)  BY <3>1, <3>2, <3>9, <1>1 DEF HeldExtents
      <3>11. Len(h) = 1 /\ h[1] = [vaddr |-> g[1].vaddr, size |-> g[1].size, last |-> FALSE] /\ h \in Seq(Extent)
        <4>1. 1 \in 1 .. 1  OBVIOUS
        <4> QED BY <4>1, <3>2, <3>4, <3>7, <3>10, UnfinishedFacts
      <3>12. x \in Seq(Extent) /\ x # <<>> /\ head = x[1]  BY <3>9, <1>3, <1>4
      <3>13. Len(y) = 1 + Len(x) /\ y[1] = h[1] /\ y[2] = x[1] /\ Len(x) \in Nat \ {0}
        <4>1. h \in Seq(Extent) /\ x \in Seq(Extent) /\ Len(h) = 1 /\ x # <<>>  BY <3>11, <3>12
        <4>2. Len(h \o x) = 1 + Len(x) /\ Len(x) \in Nat \ {0} /\ (h \o x)[1] = h[1] /\ (h \o x)[2] = x[1]
          BY <4>1, SecondOf
        <4> QED BY <3>9, <4>2
      <3>14. 1 \in 1 .. Len(y) - 1 /\ ~y[1].last  BY <3>11, <3>13
      <3>15. Breaks(y)  BY <3>9, <1>3, BreakIs
      <3>16. Broken(y[1], y[1 + 1])  BY <3>14, <3>15 DEF Breaks
      <3>17. x[1].vaddr # g[1].vaddr + Align(g[1].size)  BY <3>11, <3>13, <3>16 DEF Broken
      <3> QED BY <3>2, <3>8, <3>12, <3>17 DEF Broken
    <2> QED BY <2>5, <2>6, <2>7 DEF BreakInv
  <1> QED BY <1>1, <1>5, <1>6, <1>7, <1>8

----
(* The blocks in use.                                                       *)

LEMMA BlockTypes ==
  ASSUME Types
  PROVE  /\ ReadBlocks \in Seq(Blocks) /\ HeldBlocks \in Seq(Blocks) /\ ExtentBlocks \in Seq(Blocks)
         /\ PendingBlocks \in Seq(Blocks) /\ GrantBlocks \in Seq(Blocks)
         /\ Consumed \in Nat /\ Fits(AllExtents, Consumed) /\ AllExtents \in Seq(Extents)
         /\ Aligned(Consumed)
  <1>1. WriterTypes /\ StreamTypes /\ TailTypes /\ ReaderTypes /\ HeadRead /\ ReadTypes
    BY DEF Types
  <1>2. ReadBlocks \in Seq(Blocks)
    <2>1. reads \in Seq(ReleaseType) /\ read \in ReadType /\ Blocks = ReleaseType
      BY <1>1 DEF ReadTypes, ReleaseType, Blocks
    <2>2. ReadBlock \in Blocks  BY <2>1 DEF ReadType, ReadBlock, Blocks
    <2>3. (IF read_valid THEN <<ReadBlock>> ELSE <<>>) \in Seq(Blocks)  BY <2>2
    <2> QED BY <2>1, <2>3 DEF ReadBlocks
  <1>3. HeldBlocks \in Seq(Blocks)
    <2>1. segments \in Seq(Segments) /\ Sized(Segments)  BY <1>1, AllSized DEF ReaderTypes
    <2>2. Fits(segments, 0)
      <3>1. segments # <<>> => Head(segments) \in Segments  BY <2>1, TailOn
      <3>2. segments # <<>> => 0 <= Align(Head(segments).size)
        <4> SUFFICES ASSUME segments # <<>> PROVE 0 <= Align(Head(segments).size)  OBVIOUS
        <4>1. Head(segments).size \in Nat  BY <3>1 DEF Segments
        <4> QED BY <4>1, AlignFacts
      <3> QED BY <3>2 DEF Fits
    <2>3. RestBlocks(segments, 0) \in Seq(Blocks) /\ <<>> \in Seq(Blocks)  BY <2>1, <2>2, RestType
    <2> QED BY <2>3 DEF HeldBlocks
  <1>4. AllExtents \in Seq(Extents)  BY <1>1, AllExtentsFacts
  <1>5. AllExtents # <<>> => Head(AllExtents) \in Extents  BY <1>4, TailOn
  <1>6. BEAT * 0 = 0  BY Sizes
  <1>7. Aligned(head_read) /\ head_read \in Nat /\ Aligned(0)
    BY <1>1, <1>6, AlignAligned DEF HeadRead, Aligned
  <1>8. Consumed \in Nat /\ Aligned(Consumed) /\ (Consumed = 0 \/ Consumed = head_read)
    BY <1>7 DEF Consumed
  <1>9. Fits(AllExtents, Consumed)
    <2>1. CASE AllExtents = <<>>  BY <2>1, <1>1, <1>8 DEF HeadRead, Fits
    <2>2. CASE AllExtents # <<>>
      <3>1. PICK e : e = Head(AllExtents)  OBVIOUS
      <3>2. e.size \in Nat /\ e.size <= Align(e.size) /\ Align(e.size) \in Nat
        BY <3>1, <2>2, <1>5, ExtentFacts
      <3>3. head_read <= e.size  BY <3>1, <2>2, <1>1 DEF HeadRead
      <3>4. Consumed <= Align(e.size)  BY <3>2, <3>3, <1>7, <1>8
      <3> QED BY <3>1, <3>4, <2>2 DEF Fits
    <2> QED BY <2>1, <2>2
  <1>10. ExtentBlocks \in Seq(Blocks)
    <2>1. Sized(Extents)  BY AllSized
    <2>2. RestBlocks(AllExtents, Consumed) \in Seq(Blocks)  BY <2>1, <1>4, <1>8, <1>9, RestType
    <2> QED BY <2>2 DEF ExtentBlocks
  <1>11. PendingBlocks \in Seq(Blocks)
    <2>1. pending \in Seq(Transfers) /\ Sized(Transfers)  BY <1>1, AllSized DEF StreamTypes
    <2>2. Fits(pending, 0)
      <3>1. pending # <<>> => Head(pending) \in Transfers  BY <2>1, TailOn
      <3>2. pending # <<>> => 0 <= Align(Head(pending).size)
        <4> SUFFICES ASSUME pending # <<>> PROVE 0 <= Align(Head(pending).size)  OBVIOUS
        <4>1. Head(pending).size \in Nat  BY <3>1, TransferFacts
        <4> QED BY <4>1, AlignFacts
      <3> QED BY <3>2 DEF Fits
    <2>3. RestBlocks(pending, 0) \in Seq(Blocks)  BY <2>1, <2>2, RestType
    <2> QED BY <2>3 DEF PendingBlocks
  <1>12. GrantBlocks \in Seq(Blocks)
    <2>1. transfer_vaddr \in Nat /\ TRANSFER \in Nat  BY <1>1, Sizes DEF WriterTypes
    <2>2. Block(transfer_vaddr, TRANSFER) \in Blocks  BY <2>1 DEF Block, Blocks
    <2> QED BY <2>2 DEF GrantBlocks
  <1> QED BY <1>2, <1>3, <1>4, <1>8, <1>9, <1>10, <1>11, <1>12

LEMMA BlocksKept ==
  /\ UNCHANGED <<readVars, reads>> => ReadBlocks' = ReadBlocks
  /\ UNCHANGED <<reader, remaining_reads, segments>> => HeldBlocks' = HeldBlocks
  /\ AllExtents' = AllExtents /\ UNCHANGED <<reader, remaining_reads, head_read>> =>
       ExtentBlocks' = ExtentBlocks /\ Consumed' = Consumed
  /\ pending' = pending => PendingBlocks' = PendingBlocks
  /\ UNCHANGED <<writer, transfer_vaddr>> => GrantBlocks' = GrantBlocks /\ Frontier' = Frontier
  /\ released_end' = released_end => Start' = Start
  <1>1. UNCHANGED <<readVars, reads>> => ReadBlocks' = ReadBlocks
    BY DEF ReadBlocks, ReadBlock, readVars
  <1>2. UNCHANGED <<reader, remaining_reads, segments>> => HeldBlocks' = HeldBlocks
    BY DEF HeldBlocks, Holding, RestBlocks
  <1>3. ASSUME AllExtents' = AllExtents, UNCHANGED <<reader, remaining_reads, head_read>>
        PROVE  ExtentBlocks' = ExtentBlocks /\ Consumed' = Consumed
    <2>1. Consumed' = Consumed  BY <1>3 DEF Consumed
    <2> QED BY <2>1, <1>3 DEF ExtentBlocks, RestBlocks
  <1>4. pending' = pending => PendingBlocks' = PendingBlocks  BY DEF PendingBlocks, RestBlocks
  <1>5. UNCHANGED <<writer, transfer_vaddr>> => GrantBlocks' = GrantBlocks /\ Frontier' = Frontier
    BY DEF GrantBlocks, Frontier
  <1>6. released_end' = released_end => Start' = Start  BY DEF Start
  <1> QED BY <1>1, <1>2, <1>3, <1>4, <1>5, <1>6

LEMMA PositionFacts ==
  ASSUME NEW g \in Ring, NEW p \in Points(g)
  PROVE  /\ Position(g, p) \in Nat
         /\ p.lap = 0 => Position(g, p) = p.at
         /\ p.lap = 1 => Position(g, p) = p.at + g.size
         /\ p.lap \in 0 .. 1
  <1>1. p.at \in Nat /\ p.lap \in 0 .. 1 /\ g.size \in Nat  BY PointFacts
  <1>2. PICK a, n : a = p.at /\ n = g.size  OBVIOUS
  <1>3. a \in Nat /\ n \in Nat /\ a + 0 = a  BY <1>1, <1>2
  <1>4. Position(g, p) = a + (IF p.lap = 1 THEN n ELSE 0)  BY <1>2 DEF Position
  <1> QED BY <1>1, <1>2, <1>3, <1>4

LEMMA RouteIs ==
  ASSUME Types, NEW p1 \in Points(ring), NEW p2 \in Points(ring), NEW p3 \in Points(ring),
         NEW p4 \in Points(ring), NEW p5 \in Points(ring), Route(p1, p2, p3, p4, p5)
  PROVE  /\ ring \in Ring /\ Start \in Points(ring) /\ released_end \in Nat
         /\ ring.base <= released_end /\ released_end <= ring_end /\ ring_end = ring.base + ring.size
         /\ ring.base \in Nat /\ ring.size \in Nat
         /\ Path(ring, ReadBlocks, Start, p1) /\ Path(ring, HeldBlocks, p1, p2)
         /\ Path(ring, ExtentBlocks, p2, p3)
         /\ Path(ring, PendingBlocks, p3, p4) /\ Path(ring, GrantBlocks, p4, p5)
         /\ p5.at = Frontier
         /\ free_bytes + unreserved + (Position(ring, p5) - released_end) = ring.size
         /\ Consumed # 0 => AllExtents # <<>> /\ p2.at = Head(AllExtents).vaddr + Consumed
  <1>1. /\ Start \in Points(ring)
        /\ Path(ring, ReadBlocks, Start, p1) /\ Path(ring, HeldBlocks, p1, p2)
        /\ Path(ring, ExtentBlocks, p2, p3)
        /\ Path(ring, PendingBlocks, p3, p4) /\ Path(ring, GrantBlocks, p4, p5)
        /\ p5.at = Frontier
        /\ free_bytes + unreserved + (Position(ring, p5) - released_end) = ring.size
        /\ Consumed # 0 => AllExtents # <<>> /\ p2.at = Head(AllExtents).vaddr + Consumed
    BY DEF Route
  <1>2. WriterTypes /\ ReadTypes  BY DEF Types
  <1>3. ring \in Ring /\ ring.base \in Nat /\ ring.size \in Nat /\ ring_end = ring.base + ring.size
    BY <1>2, RingFacts
  <1>4. released_end \in Nat /\ Start.at = released_end  BY <1>2 DEF ReadTypes, Start
  <1>5. ring.base <= released_end /\ released_end <= ring_end
    BY <1>1, <1>3, <1>4, PointFacts DEF End
  <1> QED BY <1>1, <1>3, <1>4, <1>5

LEMMA RouteSame ==
  ASSUME RouteInv, ring' = ring, Start' = Start, ReadBlocks' = ReadBlocks, HeldBlocks' = HeldBlocks,
         ExtentBlocks' = ExtentBlocks, Consumed' = Consumed, PendingBlocks' = PendingBlocks,
         GrantBlocks' = GrantBlocks, Frontier' = Frontier, released_end' = released_end,
         free_bytes' + unreserved' = free_bytes + unreserved,
         Consumed # 0 => AllExtents' # <<>> /\ Head(AllExtents').vaddr = Head(AllExtents).vaddr
  PROVE  RouteInv'
  <1>1. PICK p1, p2, p3, p4, p5 \in Points(ring) : Route(p1, p2, p3, p4, p5)  BY DEF RouteInv
  <1>2. Route(p1, p2, p3, p4, p5)'  BY <1>1 DEF Route, Position
  <1> QED BY <1>1, <1>2 DEF RouteInv

----
(* The route: the writer's steps.                                           *)

LEMMA RouteConfigure ==
  ASSUME Types, NEW r \in Rings, Configure(r)
  PROVE  RouteInv'
  <1>1. /\ UNCHANGED <<streamVars, tailVars, extents, replayVars, head_read, readVars,
                 reads, requestVars, memory, streams, enqueued, output>>
        /\ ring' = r /\ writer' = "ALLOCATE" /\ transfer_vaddr' = r.base
        /\ free_bytes' = r.size /\ unreserved' = 0 /\ released_end' = r.base
        /\ pending = <<>> /\ ~tail_valid /\ extents = <<>>
        /\ reader = "WAIT_FOR_STREAM" /\ ~read_valid /\ reads = <<>>
    BY DEF Configure, Idle
  <1>2. r \in Ring  BY ReplayAssumption DEF Ring
  <1>3. r.base \in Nat /\ r.size \in Nat  BY <1>2 DEF Ring
  <1>4. PICK p : p = [at |-> r.base, lap |-> 0]  OBVIOUS
  <1>5. p \in Points(r) /\ p.at = r.base /\ p.lap = 0  BY <1>3, <1>4 DEF Points, End
  <1>6. Start' = p  BY <1>1, <1>4 DEF Start
  <1>7. ReadBlocks' = <<>>  BY <1>1 DEF ReadBlocks, readVars
  <1>8. HeldBlocks' = <<>> /\ Consumed' = 0  BY <1>1 DEF HeldBlocks, Holding, Consumed, replayVars
  <1>9. ExtentBlocks' = <<>>
    <2>1. AllExtents' = <<>>  BY <1>1 DEF AllExtents, tailVars
    <2> QED BY <2>1 DEF ExtentBlocks, RestBlocks
  <1>10. PendingBlocks' = <<>>  BY <1>1 DEF PendingBlocks, RestBlocks, streamVars
  <1>11. GrantBlocks' = <<>> /\ Frontier' = r.base  BY <1>1 DEF GrantBlocks, Frontier
  <1>12. Path(r, <<>>, p, p)  BY <1>2, <1>5, PathNone
  <1>13. r.size + 0 + (Position(r, p) - r.base) = r.size  BY <1>3, <1>5 DEF Position
  <1>14. Route(p, p, p, p, p)'
    BY <1>1, <1>5, <1>6, <1>7, <1>8, <1>9, <1>10, <1>11, <1>12, <1>13 DEF Route
  <1> QED BY <1>1, <1>5, <1>14 DEF RouteInv

LEMMA RouteInGrant ==
  ASSUME Types, RouteInv, writer = "ALLOCATE"
  PROVE  GrantFits
  <1>1. PICK p1, p2, p3, p4, p5 \in Points(ring) : Route(p1, p2, p3, p4, p5)  BY DEF RouteInv
  <1>2. ring \in Ring /\ p5.at = Frontier /\ ring_end = ring.base + ring.size  BY <1>1, RouteIs
  <1>3. p5.at <= End(ring)  BY <1>2, PointFacts
  <1>4. Frontier = transfer_vaddr  BY DEF Frontier
  <1> QED BY <1>2, <1>3, <1>4 DEF GrantFits, End

LEMMA RouteGrant ==
  ASSUME Types, RouteInv, Grant
  PROVE  RouteInv'
  <1>1. /\ UNCHANGED <<ring, configured, unreserved, streamVars, tailVars, extents,
                 replayVars, head_read, readVars, reads, requestVars, released_end, streams,
                 enqueued, output>>
        /\ writer = "ALLOCATE" /\ writer' = "WRITE" /\ configured
        /\ free_bytes' = free_bytes - next_reserved /\ free_bytes >= next_reserved
        /\ transfer_vaddr' = next_vaddr
    BY DEF Grant, next_fits
  <1>2. PICK p1, p2, p3, p4, p5 \in Points(ring) : Route(p1, p2, p3, p4, p5)  BY DEF RouteInv
  <1>3. /\ ring \in Ring /\ Start \in Points(ring) /\ released_end \in Nat
        /\ ring.base <= released_end /\ released_end <= ring_end /\ ring_end = ring.base + ring.size
        /\ ring.base \in Nat /\ ring.size \in Nat
        /\ Path(ring, ReadBlocks, Start, p1) /\ Path(ring, HeldBlocks, p1, p2)
        /\ Path(ring, ExtentBlocks, p2, p3)
        /\ Path(ring, PendingBlocks, p3, p4) /\ Path(ring, GrantBlocks, p4, p5)
        /\ p5.at = Frontier
        /\ free_bytes + unreserved + (Position(ring, p5) - released_end) = ring.size
        /\ Consumed # 0 => AllExtents # <<>> /\ p2.at = Head(AllExtents).vaddr + Consumed
    BY <1>2, RouteIs
  <1>4. WriterTypes  BY DEF Types
  <1>5. /\ free_bytes \in Nat /\ unreserved \in Nat /\ transfer_vaddr \in Nat
        /\ ring.size >= 2 * TRANSFER /\ TRANSFER \in Nat \ {0}
    BY <1>1, <1>4, RingFacts, Sizes DEF WriterTypes
  <1>6. Frontier = transfer_vaddr /\ GrantBlocks = <<>>  BY <1>1 DEF Frontier, GrantBlocks
  <1>7. p4 = p5  BY <1>3, <1>6, PathNone
  <1>8. p5.lap \in 0 .. 1 /\ p5.at = transfer_vaddr /\ ring.base <= p5.at /\ p5.at <= ring_end
    BY <1>3, <1>6, PointFacts DEF End
  <1>9. PICK q : q = [at |-> next_vaddr + TRANSFER, lap |-> IF bytes_to_end < TRANSFER THEN 1 ELSE p5.lap]
    OBVIOUS
  <1>10. PICK b : b = Block(next_vaddr, TRANSFER)  OBVIOUS
  <1>11. /\ q \in Points(ring) /\ Before(p5, q) /\ Step(ring, b, p5, q)
         /\ q.at = next_vaddr + TRANSFER
         /\ Position(ring, q) = Position(ring, p5) + next_reserved /\ next_reserved \in Nat
    <2>1. CASE bytes_to_end < TRANSFER
      <3>1. next_vaddr = ring.base /\ next_reserved = bytes_to_end + TRANSFER /\ bytes_to_end = ring_end - p5.at
        BY <2>1, <1>8 DEF next_vaddr, next_reserved, bytes_to_end
      <3>2. q.at = ring.base + TRANSFER /\ q.lap = 1  BY <3>1, <2>1, <1>9
      <3>3. p5.lap = 0
        <4> SUFFICES ASSUME p5.lap = 1 PROVE FALSE  BY <1>8
        <4>1. Position(ring, p5) = p5.at + ring.size  BY <1>3, PositionFacts
        <4>2. PICK a, k, z, l, f, u : a = p5.at /\ k = ring.base /\ z = ring.size /\ l = released_end /\ f = free_bytes /\ u = unreserved
          OBVIOUS
        <4>3. /\ a \in Nat /\ k \in Nat /\ z \in Nat /\ l \in Nat /\ f \in Nat /\ u \in Nat
              /\ l <= k + z /\ f + u + ((a + z) - l) = z /\ f >= ((k + z) - a) + TRANSFER
          BY <4>1, <4>2, <3>1, <1>1, <1>3, <1>5, <1>8
        <4>4. TRANSFER \in Nat \ {0}  BY <1>5
        <4> QED BY <4>3, <4>4
      <3>4. Position(ring, p5) = p5.at  BY <3>3, <1>3, PositionFacts
      <3>5. Position(ring, q) = ring.base + TRANSFER + ring.size  BY <3>2 DEF Position
      <3>6. q \in Points(ring)
        <4>1. ring.base + TRANSFER \in ring.base .. End(ring)  BY <1>3, <1>5 DEF End
        <4> QED BY <4>1, <3>1, <2>1, <1>9 DEF Points
      <3>7. ring.base # p5.at  BY <2>1, <3>1, <1>3, <1>5
      <3>8. Step(ring, b, p5, q)  BY <3>1, <3>2, <3>3, <3>7, <1>10 DEF Step, PassesBefore, Block
      <3>9. Before(p5, q)  BY <3>2, <3>3 DEF Before
      <3>10. Position(ring, q) = Position(ring, p5) + next_reserved /\ next_reserved \in Nat
        <4>1. PICK a, k, z : a = p5.at /\ k = ring.base /\ z = ring.size  OBVIOUS
        <4>2. a \in Nat /\ k \in Nat /\ z \in Nat /\ a <= k + z /\ TRANSFER \in Nat
          BY <4>1, <1>3, <1>5, <1>8
        <4>3. /\ Position(ring, q) = k + TRANSFER + z /\ Position(ring, p5) = a
              /\ next_reserved = ((k + z) - a) + TRANSFER
          BY <4>1, <3>1, <3>4, <3>5, <1>3
        <4> QED BY <4>2, <4>3
      <3> QED BY <3>1, <3>2, <3>6, <3>8, <3>9, <3>10
    <2>2. CASE ~ (bytes_to_end < TRANSFER)
      <3>1. next_vaddr = p5.at /\ next_reserved = TRANSFER /\ bytes_to_end = ring_end - p5.at
        BY <2>2, <1>8 DEF next_vaddr, next_reserved, bytes_to_end
      <3>2. q.at = p5.at + TRANSFER /\ q.lap = p5.lap  BY <3>1, <2>2, <1>9
      <3>3. p5.at + TRANSFER \in ring.base .. End(ring)  BY <2>2, <3>1, <1>3, <1>5, <1>8 DEF End
      <3>4. q \in Points(ring)  BY <3>1, <3>3, <2>2, <1>8, <1>9 DEF Points
      <3>5. Step(ring, b, p5, q)  BY <3>1, <3>2, <1>10 DEF Step, Plain, Block
      <3>6. Before(p5, q)  BY <3>2, <1>5, <1>8 DEF Before
      <3>7. Position(ring, q) = Position(ring, p5) + TRANSFER
        BY <3>2, <1>3, <1>5, <1>8 DEF Position
      <3> QED BY <3>1, <3>2, <3>4, <3>5, <3>6, <3>7, <1>5
    <2> QED BY <2>1, <2>2
  <1>12. GrantBlocks' = <<b>> /\ Frontier' = q.at  BY <1>1, <1>10, <1>11 DEF GrantBlocks, Frontier
  <1>13. Path(ring, <<b>>, p4, q)  BY <1>3, <1>7, <1>11, PathOne
  <1>14. /\ Start' = Start /\ ReadBlocks' = ReadBlocks /\ HeldBlocks' = HeldBlocks /\ ExtentBlocks' = ExtentBlocks
         /\ Consumed' = Consumed /\ PendingBlocks' = PendingBlocks /\ AllExtents' = AllExtents
    <2>1. UNCHANGED <<reader, remaining_reads, segments, head_read, pending, released_end, readVars, reads>>
      BY <1>1 DEF replayVars, streamVars
    <2>2. AllExtents' = AllExtents  BY <1>1 DEF AllExtents, tailVars
    <2> QED BY <2>1, <2>2, BlocksKept
  <1>15. free_bytes' + unreserved' + (Position(ring, q) - released_end) = ring.size
    <2>1. Position(ring, p5) \in Int  BY <1>3, PositionFacts
    <2>2. PICK f, u, k, l, n, z : f = free_bytes /\ u = unreserved /\ k = Position(ring, p5) /\ l = released_end /\ n = next_reserved /\ z = ring.size
      OBVIOUS
    <2>3. f \in Nat /\ u \in Nat /\ k \in Int /\ l \in Nat /\ n \in Nat /\ z \in Nat /\ f + u + (k - l) = z
      BY <2>1, <2>2, <1>3, <1>5, <1>11
    <2>4. (f - n) + u + ((k + n) - l) = z  BY <2>3
    <2> QED BY <2>2, <2>4, <1>1, <1>11
  <1>16. Route(p1, p2, p3, p4, q)'  BY <1>1, <1>3, <1>12, <1>13, <1>14, <1>15 DEF Route
  <1> QED BY <1>1, <1>2, <1>11, <1>16 DEF RouteInv

\* A block that starts where the way has come to.
LEMMA StepOn ==
  ASSUME NEW g \in Ring, NEW v \in Nat, NEW n \in Nat, NEW q \in Points(g), NEW r \in Points(g),
         Step(g, Block(v, n), q, r), q.at = v
  PROVE  r.at = v + n /\ r.lap = q.lap /\ Position(g, r) = Position(g, q) + n
  <1>1. r.at = v + n /\ r.lap = q.lap  BY DEF Step, Plain, PassesWithin, PassesBefore, Block
  <1>2. r.lap \in 0 .. 1  BY PointFacts
  <1>3. CASE r.lap = 0
    <2>1. Position(g, r) = r.at /\ Position(g, q) = q.at  BY <1>1, <1>3, PositionFacts
    <2> QED BY <2>1, <1>1
  <1>4. CASE r.lap = 1
    <2>1. Position(g, r) = r.at + g.size /\ Position(g, q) = q.at + g.size
      BY <1>1, <1>4, PositionFacts
    <2>2. g.size \in Nat  BY PointFacts
    <2> QED BY <2>1, <2>2, <1>1
  <1> QED BY <1>1, <1>2, <1>3, <1>4

\* The blocks of what waits for the link, with one more.
LEMMA PendingMore ==
  ASSUME Types, NEW t \in Transfers, pending' = Append(pending, t)
  PROVE  PendingBlocks' = Append(PendingBlocks, Block(t.vaddr, Align(t.size))) /\ Block(t.vaddr, Align(t.size)) \in Blocks
  <1>1. pending \in Seq(Transfers) /\ Sized(Transfers)  BY AllSized DEF Types, StreamTypes
  <1>2. PICK x, y : x = pending /\ y = Append(x, t)  OBVIOUS
  <1>3. y \in Seq(Transfers) /\ y # <<>> /\ Head(y) \in Transfers /\ x \in Seq(Transfers)
    <2>1. x \in Seq(Transfers)  BY <1>1, <1>2
    <2>2. y \in Seq(Transfers) /\ y # <<>>  BY <2>1, <1>2
    <2> QED BY <2>1, <2>2, TailOn
  <1>4. PICK n : n = Head(y).size  OBVIOUS
  <1>5. n \in Nat  BY <1>3, <1>4, TransferFacts
  <1>6. 0 <= Align(n)  BY <1>5, AlignFacts
  <1>7. Fits(y, 0)  BY <1>3, <1>4, <1>6 DEF Fits
  <1>8. PICK d : d = (IF x = <<>> THEN 0 ELSE 0)  OBVIOUS
  <1>9. RestBlocks(y, 0) = Append(RestBlocks(x, 0), RestBlock(t, d)) /\ RestBlock(t, d) \in Blocks
    BY <1>1, <1>2, <1>3, <1>7, <1>8, RestAppend
  <1>10. d = 0  BY <1>8
  <1>11. RestBlock(t, 0) = Block(t.vaddr, Align(t.size))
    <2>1. t.vaddr \in Nat /\ Align(t.size) \in Nat  BY TransferFacts
    <2>2. t.vaddr + 0 = t.vaddr /\ Align(t.size) - 0 = Align(t.size)  BY <2>1
    <2> QED BY <2>2 DEF RestBlock
  <1>12. PendingBlocks' = RestBlocks(y, 0) /\ PendingBlocks = RestBlocks(x, 0)
    BY <1>2 DEF PendingBlocks, RestBlocks
  <1> QED BY <1>9, <1>10, <1>11, <1>12

LEMMA RouteIssue ==
  ASSUME Types, RouteInv, Issue
  PROVE  RouteInv'
  <1>1. PICK p1, p2, p3, p4, p5 \in Points(ring) : Route(p1, p2, p3, p4, p5)  BY DEF RouteInv
  <1>2. /\ ring \in Ring /\ Start \in Points(ring) /\ released_end \in Nat
        /\ ring.size \in Nat
        /\ Path(ring, ReadBlocks, Start, p1) /\ Path(ring, HeldBlocks, p1, p2)
        /\ Path(ring, ExtentBlocks, p2, p3)
        /\ Path(ring, PendingBlocks, p3, p4) /\ Path(ring, GrantBlocks, p4, p5)
        /\ p5.at = Frontier
        /\ free_bytes + unreserved + (Position(ring, p5) - released_end) = ring.size
        /\ Consumed # 0 => AllExtents # <<>> /\ p2.at = Head(AllExtents).vaddr + Consumed
    BY <1>1, RouteIs
  <1>3. PICK t : Issues(t)  BY IssueTypes
  <1>4. /\ t \in Transfers /\ t.vaddr = transfer_vaddr /\ pending' = Append(pending, t)
        /\ \/ ~t.last /\ transfer_vaddr' = transfer_vaddr + TRANSFER /\ writer' = "ALLOCATE" /\ unreserved' = unreserved
           \/ /\ t.last /\ t.size # 0 /\ transfer_vaddr' = transfer_vaddr + Align(t.size) /\ writer' = "ALLOCATE"
              /\ unreserved' = unreserved + (TRANSFER - Align(t.size))
           \/ t.last /\ t.size = 0 /\ transfer_vaddr' = transfer_vaddr /\ writer' = writer /\ unreserved' = unreserved
    BY <1>3 DEF Issues
  <1>5. /\ UNCHANGED <<ring, configured, free_bytes, tailVars, extents, replayVars,
                 head_read, readVars, reads, requestVars, released_end, memory, streams,
                 enqueued, output>>
        /\ writer = "WRITE"
    BY DEF Issue
  <1>6. WriterTypes  BY DEF Types
  <1>7. PICK v, m, T : v = transfer_vaddr /\ m = Align(t.size) /\ T = TRANSFER  OBVIOUS
  <1>8. /\ v \in Nat /\ m \in Nat /\ T \in Nat /\ m <= T /\ free_bytes \in Nat /\ unreserved \in Nat
        /\ ~t.last => m = T
        /\ t.size = 0 => m = 0
    <2>1. /\ v \in Nat /\ T \in Nat /\ free_bytes \in Nat /\ unreserved \in Nat
      BY <1>6, <1>7, Sizes DEF WriterTypes
    <2>2. m \in Nat /\ m <= T /\ (~t.last => m = T) /\ t.size \in Nat  BY <1>4, <1>7, TransferFacts
    <2>3. t.size = 0 => m = 0  BY <2>2, <1>7, AlignFacts
    <2> QED BY <2>1, <2>2, <2>3
  <1>9. PICK b, c : b = Block(v, m) /\ c = Block(v, T)  OBVIOUS
  <1>10. PendingBlocks' = Append(PendingBlocks, b) /\ b \in Blocks /\ PendingBlocks \in Seq(Blocks)
    BY <1>4, <1>7, <1>9, PendingMore, BlockTypes
  <1>11. GrantBlocks = <<c>> /\ Frontier = v + T  BY <1>5, <1>7, <1>9 DEF GrantBlocks, Frontier
  <1>12. Step(ring, c, p4, p5) /\ Before(p4, p5)  BY <1>2, <1>11, PathOne
  <1>13. /\ Start' = Start /\ ReadBlocks' = ReadBlocks /\ HeldBlocks' = HeldBlocks /\ ExtentBlocks' = ExtentBlocks
         /\ Consumed' = Consumed /\ AllExtents' = AllExtents
    <2>1. UNCHANGED <<reader, remaining_reads, segments, head_read, released_end, readVars, reads>>
      BY <1>5 DEF replayVars
    <2>2. AllExtents' = AllExtents  BY <1>5 DEF AllExtents, tailVars
    <2> QED BY <2>1, <2>2, BlocksKept
  <1>14. PICK n : n = T - m  OBVIOUS
  <1>15. n \in Nat /\ m + n = T  BY <1>8, <1>14
  <1>16. PICK q \in Points(ring) :
           /\ Step(ring, Block(v, m), p4, q) /\ Step(ring, Block(v + m, n), q, p5)
           /\ Before(p4, q) /\ Before(q, p5) /\ q.at = v + m
    <2>1. Step(ring, Block(v, m + n), p4, p5)  BY <1>9, <1>12, <1>15
    <2>2. ring \in Ring /\ v \in Nat /\ m \in Nat /\ n \in Nat  BY <1>2, <1>8, <1>15
    <2>3. PICK q \in Points(ring) : CutAt(ring, v, m, n, p4, q, p5)  BY <2>1, <2>2, StepCut
    <2> QED BY <2>3 DEF CutAt
  <1>17. Position(ring, p5) = Position(ring, q) + n /\ Position(ring, q) \in Nat /\ p5.at = (v + m) + n /\ p5.lap = q.lap
    <2>1. ring \in Ring /\ v + m \in Nat /\ n \in Nat  BY <1>2, <1>8, <1>15
    <2>2. Step(ring, Block(v + m, n), q, p5) /\ q.at = v + m  BY <1>16
    <2>3. p5.at = (v + m) + n /\ p5.lap = q.lap /\ Position(ring, p5) = Position(ring, q) + n
      BY <2>1, <2>2, StepOn
    <2>4. Position(ring, q) \in Nat  BY <2>1, PositionFacts
    <2> QED BY <2>3, <2>4
  <1>18. Path(ring, PendingBlocks', p3, q)  BY <1>2, <1>9, <1>10, <1>16, PathLast
  <1>19. CASE ~ (t.last /\ t.size = 0)
    <2>1. writer' = "ALLOCATE" /\ transfer_vaddr' = v + m /\ unreserved' = unreserved + n
      <3>1. CASE ~t.last
        <4>1. m = T /\ n = 0  BY <3>1, <1>8, <1>15
        <4>2. writer' = "ALLOCATE" /\ transfer_vaddr' = transfer_vaddr + TRANSFER /\ unreserved' = unreserved
          BY <3>1, <1>4
        <4>3. transfer_vaddr + TRANSFER = v + m  BY <4>1, <1>7
        <4>4. unreserved = unreserved + n  BY <4>1, <1>8
        <4> QED BY <4>2, <4>3, <4>4
      <3>2. CASE t.last  BY <3>2, <1>4, <1>7, <1>14, <1>19
      <3> QED BY <3>1, <3>2
    <2>2. GrantBlocks' = <<>> /\ Frontier' = q.at  BY <2>1, <1>16 DEF GrantBlocks, Frontier
    <2>3. Path(ring, <<>>, q, q)  BY <1>2, PathNone
    <2>4. free_bytes' + unreserved' + (Position(ring, q) - released_end) = ring.size
      <3>1. PICK f, u, k, l, z : f = free_bytes /\ u = unreserved /\ k = Position(ring, q) /\ l = released_end /\ z = ring.size
        OBVIOUS
      <3>2. f \in Nat /\ u \in Nat /\ k \in Nat /\ l \in Nat /\ z \in Nat /\ f + u + ((k + n) - l) = z
        BY <3>1, <1>2, <1>8, <1>17
      <3>3. f + (u + n) + (k - l) = z  BY <3>2, <1>15
      <3> QED BY <3>1, <3>3, <2>1, <1>5
    <2>5. Route(p1, p2, p3, q, q)'  BY <2>2, <2>3, <2>4, <1>2, <1>5, <1>13, <1>18 DEF Route
    <2> QED BY <2>5, <1>5, <1>1, <1>16 DEF RouteInv
  <1>20. CASE t.last /\ t.size = 0
    <2>1. writer' = writer /\ transfer_vaddr' = transfer_vaddr /\ unreserved' = unreserved /\ m = 0 /\ n = T /\ v + m = v
      BY <1>4, <1>8, <1>15, <1>20
    <2>2. GrantBlocks' = <<c>> /\ Frontier' = Frontier  BY <2>1, <1>11, BlocksKept
    <2>3. Path(ring, <<c>>, q, p5)
      <3>1. Step(ring, c, q, p5) /\ Before(q, p5)  BY <2>1, <1>9, <1>16
      <3> QED BY <3>1, <1>2, PathOne
    <2>4. free_bytes' + unreserved' + (Position(ring, p5) - released_end) = ring.size
      BY <2>1, <1>2, <1>5
    <2>5. Route(p1, p2, p3, q, p5)'  BY <2>2, <2>3, <2>4, <1>2, <1>5, <1>13, <1>18 DEF Route
    <2> QED BY <2>5, <1>5, <1>1, <1>16 DEF RouteInv
  <1> QED BY <1>19, <1>20

LEMMA RouteUnreserve ==
  ASSUME Types, RouteInv, Unreserve
  PROVE  RouteInv'
  <1>1. /\ UNCHANGED <<ring, configured, writer, transfer_vaddr, streamVars, tailVars,
                 extents, replayVars, head_read, readVars, reads, requestVars, released_end,
                 memory, streams, enqueued, output>>
        /\ free_bytes' = free_bytes + unreserved /\ unreserved' = 0
    BY DEF Unreserve
  <1>2. free_bytes' + unreserved' = free_bytes + unreserved
    <2>1. free_bytes \in Nat /\ unreserved \in Nat  BY DEF Types, WriterTypes
    <2> QED BY <2>1, <1>1
  <1>3. AllExtents' = AllExtents  BY <1>1 DEF AllExtents, tailVars
  <1>4. UNCHANGED <<reader, remaining_reads, segments, head_read, pending, released_end, readVars, reads, writer, transfer_vaddr, ring>>
    BY <1>1 DEF replayVars, streamVars
  <1>5. /\ ReadBlocks' = ReadBlocks /\ HeldBlocks' = HeldBlocks
        /\ ExtentBlocks' = ExtentBlocks /\ Consumed' = Consumed /\ PendingBlocks' = PendingBlocks
        /\ GrantBlocks' = GrantBlocks /\ Frontier' = Frontier /\ Start' = Start
    BY <1>3, <1>4, BlocksKept
  <1>6. Consumed # 0 => AllExtents' # <<>> /\ Head(AllExtents').vaddr = Head(AllExtents).vaddr
    BY <1>3 DEF RouteInv, Route
  <1> QED BY <1>2, <1>4, <1>5, <1>6, RouteSame

----
(* The route: the link.                                                     *)

LEMMA PendingFirst ==
  ASSUME Types, pending # <<>>
  PROVE  /\ PendingBlocks # <<>> /\ Head(pending) \in Transfers
         /\ Head(PendingBlocks) = Block(Head(pending).vaddr, Align(Head(pending).size))
         /\ pending' = Tail(pending) => PendingBlocks' = Tail(PendingBlocks)
  <1>1. pending \in Seq(Transfers) /\ Sized(Transfers)  BY AllSized DEF Types, StreamTypes
  <1>2. Head(pending) \in Transfers  BY <1>1, TailOn
  <1>3. PICK v, n : v = Head(pending).vaddr /\ n = Align(Head(pending).size)  OBVIOUS
  <1>4. v \in Nat /\ n \in Nat  BY <1>2, <1>3, TransferFacts
  <1>5. Fits(pending, 0)  BY <1>3, <1>4 DEF Fits
  <1>6. /\ RestBlocks(pending, 0) # <<>> /\ Head(RestBlocks(pending, 0)) = RestBlock(Head(pending), 0)
        /\ Tail(RestBlocks(pending, 0)) = RestBlocks(Tail(pending), 0)
    BY <1>1, <1>5, RestFirst
  <1>7. RestBlock(Head(pending), 0) = Block(v, n)
    <2>1. v + 0 = v /\ n - 0 = n  BY <1>4
    <2> QED BY <2>1, <1>3 DEF RestBlock
  <1>8. ASSUME pending' = Tail(pending) PROVE PendingBlocks' = Tail(PendingBlocks)
    BY <1>6, <1>8 DEF PendingBlocks, RestBlocks
  <1> QED BY <1>2, <1>3, <1>6, <1>7, <1>8 DEF PendingBlocks

\* The extents with a transfer linked to them.
LEMMA LinkNewBlocks ==
  ASSUME Types, NEW t \in Transfers, LinksNew(t), tail' \in Extents, Consumed' = Consumed
  PROVE  /\ ExtentBlocks' = Append(ExtentBlocks, Block(t.vaddr, Align(t.size)))
         /\ Block(t.vaddr, Align(t.size)) \in Blocks
  <1>1. /\ AllExtents' = Append(AllExtents, tail')
        /\ tail' = [vaddr |-> t.vaddr, size |-> t.size, last |-> t.last]
    BY DEF LinksNew
  <1>2. Sized(Extents) /\ AllExtents \in Seq(Extents) /\ Consumed \in Nat /\ Fits(AllExtents, Consumed)
    BY AllSized, BlockTypes
  <1>3. PICK x, e, c, y : x = AllExtents /\ e = tail' /\ c = Consumed /\ y = Append(x, e)  OBVIOUS
  <1>4. x \in Seq(Extents) /\ e \in Extents /\ c \in Nat /\ Fits(x, c) /\ e.vaddr = t.vaddr /\ e.size = t.size
    BY <1>1, <1>2, <1>3
  <1>5. /\ y # <<>> /\ (x = <<>> => Head(y) = e) /\ (x # <<>> => Head(y) = Head(x))
    BY <1>3, <1>4, HeadAppend
  <1>6. PICK v, n : v = t.vaddr /\ n = Align(t.size)  OBVIOUS
  <1>7. v \in Nat /\ n \in Nat  BY <1>6, TransferFacts
  <1>8. x = <<>> => c = 0  BY <1>4 DEF Fits
  <1>9. Fits(y, c)
    <2>1. CASE x = <<>>
      <3>1. Align(Head(y).size) = n /\ c = 0  BY <2>1, <1>4, <1>5, <1>6, <1>8
      <3> QED BY <3>1, <1>5, <1>7 DEF Fits
    <2>2. CASE x # <<>>  BY <2>2, <1>4, <1>5 DEF Fits
    <2> QED BY <2>1, <2>2
  <1>10. PICK d : d = (IF x = <<>> THEN c ELSE 0)  OBVIOUS
  <1>11. RestBlocks(y, c) = Append(RestBlocks(x, c), RestBlock(e, d)) /\ RestBlock(e, d) \in Blocks
    BY <1>2, <1>3, <1>4, <1>9, <1>10, RestAppend
  <1>12. d = 0  BY <1>8, <1>10
  <1>13. RestBlock(e, 0) = Block(v, n)
    <2>1. v + 0 = v /\ n - 0 = n  BY <1>7
    <2> QED BY <2>1, <1>4, <1>6 DEF RestBlock
  <1>14. ExtentBlocks = RestBlocks(x, c) /\ ExtentBlocks' = RestBlocks(y, c)
    BY <1>1, <1>3 DEF ExtentBlocks, RestBlocks
  <1> QED BY <1>6, <1>11, <1>12, <1>13, <1>14

LEMMA LinkMoreBlocks ==
  ASSUME Types, NEW t \in Transfers, LinksMore(t), tail' \in Extents, Consumed' = Consumed
  PROVE  \E v \in Nat, m \in Nat, c \in Seq(Blocks) :
           /\ ExtentBlocks = Append(c, Block(v, m)) /\ t.vaddr = v + m
           /\ ExtentBlocks' = Append(c, Block(v, m + Align(t.size)))
           /\ Block(v, m) \in Blocks /\ Block(v, m + Align(t.size)) \in Blocks
  <1>1. /\ tail_valid /\ ~tail_closed /\ t.vaddr = tail_end
        /\ AllExtents = Append(extents, tail) /\ AllExtents' = Append(extents, tail')
        /\ tail' = [vaddr |-> tail.vaddr, size |-> tail.size + t.size, last |-> t.last]
    BY DEF LinksMore
  <1>2. TailTypes  BY DEF Types
  <1>3. extents \in Seq(Extents) /\ tail \in Extents /\ ~tail.last  BY <1>1, <1>2 DEF TailTypes
  <1>4. Sized(Extents) /\ Consumed \in Nat /\ Fits(AllExtents, Consumed)  BY AllSized, BlockTypes
  <1>5. PICK x, e, f, c, y, z : x = extents /\ e = tail /\ f = tail' /\ c = Consumed /\ y = Append(x, e) /\ z = Append(x, f)
    OBVIOUS
  <1>6. x \in Seq(Extents) /\ e \in Extents /\ f \in Extents /\ c \in Nat /\ Fits(y, c)
    BY <1>1, <1>3, <1>4, <1>5
  <1>7. PICK a, s, n : a = e.vaddr /\ s = e.size /\ n = Align(t.size)  OBVIOUS
  <1>8. a \in Nat /\ s \in Nat /\ n \in Nat /\ Align(s) = s /\ Aligned(s) /\ t.size \in Nat
    BY <1>3, <1>5, <1>7, ExtentFacts, TransferFacts
  <1>9. f.vaddr = a /\ f.size = s + t.size /\ Align(f.size) = s + n
    <2>1. Align(s + t.size) = s + Align(t.size)  BY <1>8, AlignSum
    <2> QED BY <2>1, <1>1, <1>5, <1>7
  <1>10. /\ y # <<>> /\ (x = <<>> => Head(y) = e) /\ (x # <<>> => Head(y) = Head(x))
         /\ z # <<>> /\ (x = <<>> => Head(z) = f) /\ (x # <<>> => Head(z) = Head(x))
    BY <1>5, <1>6, HeadAppend
  <1>11. Fits(z, c)
    <2>1. CASE x = <<>>
      <3>1. c <= s  BY <2>1, <1>6, <1>7, <1>8, <1>10 DEF Fits
      <3>2. c <= s + n  BY <3>1, <1>6, <1>8
      <3> QED BY <2>1, <3>2, <1>9, <1>10 DEF Fits
    <2>2. CASE x # <<>>  BY <2>2, <1>6, <1>10 DEF Fits
    <2> QED BY <2>1, <2>2
  <1>12. PICK d : d = (IF x = <<>> THEN c ELSE 0)  OBVIOUS
  <1>13. /\ RestBlocks(y, c) = Append(RestBlocks(x, c), RestBlock(e, d)) /\ RestBlock(e, d) \in Blocks
         /\ RestBlocks(x, c) \in Seq(Blocks) /\ d \in Nat /\ d <= Align(e.size)
    <2>1. Fits(Append(x, e), c)  BY <1>5, <1>6
    <2>2. Sized(Extents)  BY <1>4
    <2>3. x \in Seq(Extents) /\ e \in Extents /\ c \in Nat  BY <1>6
    <2>4. /\ RestBlocks(Append(x, e), c) = Append(RestBlocks(x, c), RestBlock(e, d)) /\ RestBlock(e, d) \in Blocks
          /\ RestBlocks(x, c) \in Seq(Blocks) /\ d \in Nat /\ d <= Align(e.size)
      BY <2>1, <2>2, <2>3, <1>12, RestAppend
    <2> QED BY <2>4, <1>5
  <1>14. /\ RestBlocks(z, c) = Append(RestBlocks(x, c), RestBlock(f, d)) /\ RestBlock(f, d) \in Blocks
    <2>1. Fits(Append(x, f), c)  BY <1>5, <1>11
    <2>2. Sized(Extents)  BY <1>4
    <2>3. x \in Seq(Extents) /\ f \in Extents /\ c \in Nat  BY <1>6
    <2>4. /\ RestBlocks(Append(x, f), c) = Append(RestBlocks(x, c), RestBlock(f, d)) /\ RestBlock(f, d) \in Blocks
          /\ RestBlocks(x, c) \in Seq(Blocks) /\ d \in Nat /\ d <= Align(f.size)
      BY <2>1, <2>2, <2>3, <1>12, RestAppend
    <2> QED BY <2>4, <1>5
  <1>15. PICK v, m : v = a + d /\ m = s - d  OBVIOUS
  <1>16. v \in Nat /\ m \in Nat /\ v + m = a + s /\ (s + n) - d = m + n
    <2>1. d \in Nat /\ d <= s  BY <1>7, <1>8, <1>13
    <2> QED BY <2>1, <1>8, <1>15
  <1>17. RestBlock(e, d) = Block(v, m) /\ RestBlock(f, d) = Block(v, m + n)
    BY <1>7, <1>8, <1>9, <1>15, <1>16 DEF RestBlock
  <1>18. t.vaddr = v + m  BY <1>1, <1>5, <1>7, <1>8, <1>16 DEF tail_end
  <1>19. ExtentBlocks = RestBlocks(y, c) /\ ExtentBlocks' = RestBlocks(z, c)
    BY <1>1, <1>5 DEF ExtentBlocks, RestBlocks
  <1>20. PICK b : b = RestBlocks(x, c)  OBVIOUS
  <1>21. /\ b \in Seq(Blocks) /\ ExtentBlocks = Append(b, Block(v, m)) /\ ExtentBlocks' = Append(b, Block(v, m + n))
         /\ Block(v, m) \in Blocks /\ Block(v, m + n) \in Blocks
    BY <1>13, <1>14, <1>17, <1>19, <1>20
  <1> QED BY <1>7, <1>16, <1>18, <1>21

LEMMA RouteLink ==
  ASSUME Types, RouteInv, Link
  PROVE  RouteInv'
  <1>1. PICK p1, p2, p3, p4, p5 \in Points(ring) : Route(p1, p2, p3, p4, p5)  BY DEF RouteInv
  <1>2. /\ ring \in Ring /\ Start \in Points(ring) /\ released_end \in Nat
        /\ Path(ring, ReadBlocks, Start, p1) /\ Path(ring, HeldBlocks, p1, p2)
        /\ Path(ring, ExtentBlocks, p2, p3)
        /\ Path(ring, PendingBlocks, p3, p4) /\ Path(ring, GrantBlocks, p4, p5)
        /\ p5.at = Frontier
        /\ free_bytes + unreserved + (Position(ring, p5) - released_end) = ring.size
        /\ Consumed # 0 => AllExtents # <<>> /\ p2.at = Head(AllExtents).vaddr + Consumed
    BY <1>1, RouteIs
  <1>3. PICK t : t = Head(pending)  OBVIOUS
  <1>4. /\ t \in Transfers /\ pending # <<>> /\ (LinksNew(t) \/ LinksMore(t)) /\ pending' = Tail(pending)
        /\ UNCHANGED <<writerVars, unreserved, written, offset, extents, replayVars,
                 head_read, readVars, reads, requestVars, released_end, streams, enqueued, output>>
    BY <1>3, LinkExtents
  <1>5. SameHead /\ tail' \in Extents  BY LinkHead
  <1>6. /\ PendingBlocks # <<>> /\ PendingBlocks \in Seq(Blocks) /\ ExtentBlocks \in Seq(Blocks)
        /\ Head(PendingBlocks) = Block(t.vaddr, Align(t.size)) /\ PendingBlocks' = Tail(PendingBlocks)
    BY <1>3, <1>4, PendingFirst, BlockTypes
  <1>7. PICK q \in Points(ring) : /\ Step(ring, Block(t.vaddr, Align(t.size)), p3, q) /\ Before(p3, q)
                                  /\ Path(ring, PendingBlocks', q, p4)
    <2>1. PICK q \in Points(ring) : /\ Step(ring, Head(PendingBlocks), p3, q) /\ Before(p3, q)
                                    /\ Path(ring, Tail(PendingBlocks), q, p4)
      BY <1>2, <1>6, PathFirst
    <2> QED BY <2>1, <1>6
  <1>8. UNCHANGED <<ring, configured, writer, transfer_vaddr, free_bytes, reader, remaining_reads, segments>>
    BY <1>4 DEF writerVars, replayVars
  <1>9. /\ Start' = Start /\ ReadBlocks' = ReadBlocks /\ HeldBlocks' = HeldBlocks
        /\ GrantBlocks' = GrantBlocks /\ Frontier' = Frontier
    BY <1>4, <1>8, BlocksKept
  <1>10. Consumed' = Consumed  BY <1>4, <1>8 DEF Consumed
  <1>11. Path(ring, ExtentBlocks', p2, q)
    <2>1. CASE LinksNew(t)
      <3>1. /\ ExtentBlocks' = Append(ExtentBlocks, Block(t.vaddr, Align(t.size)))
            /\ Block(t.vaddr, Align(t.size)) \in Blocks
        BY <2>1, <1>4, <1>5, <1>10, LinkNewBlocks
      <3>2. PICK b, c : b = Block(t.vaddr, Align(t.size)) /\ c = ExtentBlocks  OBVIOUS
      <3>3. /\ c \in Seq(Blocks) /\ b \in Blocks /\ Path(ring, c, p2, p3) /\ Step(ring, b, p3, q) /\ Before(p3, q)
        BY <3>1, <3>2, <1>2, <1>6, <1>7
      <3>4. Path(ring, Append(c, b), p2, q)  BY <3>3, <1>2, PathLast
      <3> QED BY <3>1, <3>2, <3>4
    <2>2. CASE LinksMore(t)
      <3>1. PICK v \in Nat, m \in Nat, c \in Seq(Blocks) :
              /\ ExtentBlocks = Append(c, Block(v, m)) /\ t.vaddr = v + m
              /\ ExtentBlocks' = Append(c, Block(v, m + Align(t.size)))
              /\ Block(v, m) \in Blocks /\ Block(v, m + Align(t.size)) \in Blocks
        BY <2>2, <1>4, <1>5, <1>10, LinkMoreBlocks
      <3>2. PICK n, b, d : n = Align(t.size) /\ b = Block(v, m) /\ d = Block(v, m + n)  OBVIOUS
      <3>3. n \in Nat /\ b \in Blocks /\ d \in Blocks  BY <3>1, <3>2, <1>4, TransferFacts
      <3>4. PICK s \in Points(ring) : Path(ring, c, p2, s) /\ Step(ring, b, s, p3) /\ Before(s, p3)
        <4>1. Path(ring, Append(c, b), p2, p3)  BY <3>1, <3>2, <1>2
        <4> QED BY <4>1, <3>3, <1>2, PathLast
      <3>5. Step(ring, Block(v, m), s, p3) /\ Step(ring, Block(v + m, n), p3, q)
        BY <3>1, <3>2, <3>4, <1>7
      <3>6. Step(ring, d, s, q)  BY <3>2, <3>3, <3>5, <1>2, StepJoin
      <3>7. Before(s, q)  BY <3>4, <1>2, <1>7, BeforeOn
      <3>8. Path(ring, Append(c, d), p2, q)  BY <3>3, <3>4, <3>6, <3>7, <1>2, PathLast
      <3> QED BY <3>1, <3>2, <3>8
    <2> QED BY <2>1, <2>2, <1>4
  <1>12. Consumed' # 0 => AllExtents' # <<>> /\ p2.at = Head(AllExtents').vaddr + Consumed'
    BY <1>2, <1>5, <1>10 DEF SameHead
  <1>13. free_bytes' + unreserved' + (Position(ring, p5) - released_end') = ring.size
    BY <1>2, <1>4, <1>8
  <1>14. Route(p1, p2, q, p4, p5)'  BY <1>2, <1>4, <1>7, <1>8, <1>9, <1>11, <1>12, <1>13 DEF Route
  <1> QED BY <1>1, <1>7, <1>8, <1>14 DEF RouteInv

----
(* The route: steps that leave the blocks where they are.                   *)

LEMMA RouteKept ==
  ASSUME RouteInv, AllExtents' = AllExtents,
         UNCHANGED <<writerVars, unreserved, pending, reader, remaining_reads, segments, head_read,
                     readVars, reads, released_end>>
  PROVE  RouteInv'
  <1>1. UNCHANGED <<ring, configured, writer, transfer_vaddr, free_bytes>>  BY DEF writerVars
  <1>2. ReadBlocks' = ReadBlocks /\ HeldBlocks' = HeldBlocks  BY BlocksKept
  <1>3. ExtentBlocks' = ExtentBlocks /\ Consumed' = Consumed  BY BlocksKept
  <1>4. PendingBlocks' = PendingBlocks /\ GrantBlocks' = GrantBlocks /\ Frontier' = Frontier /\ Start' = Start
    BY <1>1, BlocksKept
  <1>5. Consumed # 0 => AllExtents' # <<>> /\ Head(AllExtents').vaddr = Head(AllExtents).vaddr
    BY DEF RouteInv, Route
  <1>6. ring' = ring /\ free_bytes' + unreserved' = free_bytes + unreserved  BY <1>1
  <1> QED BY <1>2, <1>3, <1>4, <1>5, <1>6, RouteSame

LEMMA RouteCloseTail ==
  ASSUME Types, RouteInv, CloseTail
  PROVE  RouteInv'
  <1>1. AllExtents' = AllExtents  BY CloseTailTypes
  <1>2. UNCHANGED <<writerVars, unreserved, pending, reader, remaining_reads, segments, head_read,
                     readVars, reads, released_end>>
    BY DEF CloseTail, streamVars, replayVars
  <1> QED BY <1>1, <1>2, RouteKept

LEMMA RouteMoveTail ==
  ASSUME Types, RouteInv, MoveTail
  PROVE  RouteInv'
  <1>1. AllExtents' = AllExtents  BY MoveTailTypes
  <1>2. UNCHANGED <<writerVars, unreserved, pending, reader, remaining_reads, segments, head_read,
                     readVars, reads, released_end>>
    BY DEF MoveTail, streamVars, replayVars
  <1> QED BY <1>1, <1>2, RouteKept

LEMMA RouteRequestTransfer ==
  ASSUME Types, RouteInv, RequestTransfer
  PROVE  RouteInv'
  <1>1. UNCHANGED <<writerVars, unreserved, streamVars, tailVars, extents, replayVars,
                 head_read, readVars, reads, released_end, memory, streams, enqueued, output>>
    BY RequestTransferTypes
  <1>2. AllExtents' = AllExtents  BY <1>1 DEF AllExtents, tailVars
  <1>3. UNCHANGED <<writerVars, unreserved, pending, reader, remaining_reads, segments, head_read,
                     readVars, reads, released_end>>
    BY <1>1 DEF streamVars, replayVars
  <1> QED BY <1>2, <1>3, RouteKept

\* With an action that changes nothing.
LEMMA RouteStutters ==
  ASSUME RouteInv, UNCHANGED vars
  PROVE  RouteInv'
  <1>1. AllExtents' = AllExtents  BY DEF vars, AllExtents, tailVars
  <1>2. UNCHANGED <<writerVars, unreserved, pending, reader, remaining_reads, segments, head_read,
                     readVars, reads, released_end>>
    BY DEF vars, streamVars, replayVars
  <1> QED BY <1>1, <1>2, RouteKept

LEMMA NoBlocks ==
  ASSUME NEW x, x = <<>>, NEW c
  PROVE  RestBlocks(x, c) = <<>>
  <1>1. Len(x) = 0  OBVIOUS
  <1>2. RestBlocks(x, c) = [i \in 1 .. 0 |-> RestBlock(x[i], IF i = 1 THEN c ELSE 0)]
    BY <1>1 DEF RestBlocks
  <1> QED BY <1>2

LEMMA RouteTakeNumReads ==
  ASSUME Types, RouteInv, TakeNumReads
  PROVE  RouteInv'
  <1>1. /\ UNCHANGED <<writerVars, unreserved, streamVars, tailVars, extents, replay_seg,
                 readVars, reads, requestVars, released_end, memory, streams, output>>
        /\ reader = "WAIT_FOR_STREAM" /\ reader' = "FIRST_READ" /\ head_read' = 0 /\ segments' = <<>>
    BY DEF TakeNumReads
  <1>2. UNCHANGED <<ring, configured, writer, transfer_vaddr, free_bytes, pending>>
    BY <1>1 DEF writerVars, streamVars
  <1>3. AllExtents' = AllExtents  BY <1>1 DEF AllExtents, tailVars
  <1>4. Consumed = 0 /\ Consumed' = 0  BY <1>1 DEF Consumed
  <1>5. ExtentBlocks' = ExtentBlocks  BY <1>3, <1>4 DEF ExtentBlocks, RestBlocks
  <1>6. HeldBlocks = <<>>  BY <1>1 DEF HeldBlocks, Holding
  <1>7. HeldBlocks' = <<>>
    <2>1. PICK s : s = segments'  OBVIOUS
    <2>2. RestBlocks(s, 0) = <<>>  BY <2>1, <1>1, NoBlocks
    <2>3. RestBlocks(segments, 0)' = RestBlocks(s, 0)  BY <2>1 DEF RestBlocks
    <2>4. RestBlocks(segments, 0)' = <<>>  BY <2>2, <2>3
    <2> QED BY <2>4 DEF HeldBlocks
  <1>8. ReadBlocks' = ReadBlocks /\ PendingBlocks' = PendingBlocks /\ GrantBlocks' = GrantBlocks
        /\ Frontier' = Frontier /\ Start' = Start
    BY <1>1, <1>2, BlocksKept
  <1> QED BY <1>1, <1>2, <1>4, <1>5, <1>6, <1>7, <1>8, RouteSame

LEMMA RouteIssueRead ==
  ASSUME Types, RouteInv, IssueRead
  PROVE  RouteInv'
  <1>1. Takes /\ ReadBlock \in ReleaseType
         /\ UNCHANGED <<writerVars, unreserved, streamVars, tailVars, extents, replayVars,
                 head_read, read, released_end, memory, streams, enqueued, output>>
    BY IssueReadTypes
  <1>2. reads' = Append(reads, ReadBlock) /\ read_valid = TRUE /\ read_valid' = FALSE /\ read' = read
    BY <1>1 DEF Takes
  <1>3. reads \in Seq(ReleaseType)  BY DEF Types, ReadTypes
  <1>4. ReadBlocks' = ReadBlocks
    <2>1. PICK x, b : x = reads /\ b = ReadBlock  OBVIOUS
    <2>2. x \in Seq(ReleaseType) /\ b \in ReleaseType  BY <2>1, <1>1, <1>3
    <2>3. ReadBlocks = x \o <<b>>  BY <2>1, <1>2 DEF ReadBlocks
    <2>4. ReadBlocks' = Append(x, b) \o <<>>  BY <2>1, <1>2 DEF ReadBlocks
    <2>5. Append(x, b) \o <<>> = x \o <<b>>  BY <2>2
    <2> QED BY <2>3, <2>4, <2>5
  <1>5. UNCHANGED <<ring, configured, writer, transfer_vaddr, free_bytes, pending, reader, remaining_reads, segments>>
    BY <1>1 DEF writerVars, streamVars, replayVars
  <1>6. AllExtents' = AllExtents  BY <1>1 DEF AllExtents, tailVars
  <1>7. HeldBlocks' = HeldBlocks /\ ExtentBlocks' = ExtentBlocks /\ Consumed' = Consumed
    BY <1>1, <1>5, <1>6, BlocksKept
  <1>8. PendingBlocks' = PendingBlocks /\ GrantBlocks' = GrantBlocks /\ Frontier' = Frontier /\ Start' = Start
    BY <1>1, <1>5, BlocksKept
  <1>9. Consumed # 0 => AllExtents' # <<>> /\ Head(AllExtents').vaddr = Head(AllExtents).vaddr
    BY <1>6 DEF RouteInv, Route
  <1>10. free_bytes' + unreserved' = free_bytes + unreserved /\ released_end' = released_end
    BY <1>1, <1>5
  <1> QED BY <1>4, <1>5, <1>7, <1>8, <1>9, <1>10, RouteSame

----
(* A stream that is read more than once has at most two segments.           *)

\* A block that starts elsewhere than where the way has come to.
LEMMA StepBroken ==
  ASSUME NEW g \in Ring, NEW v \in Nat, NEW n \in Nat, NEW p \in Points(g), NEW q \in Points(g),
         Step(g, Block(v, n), p, q)
  PROVE  /\ q.at = v + n /\ q.lap \in 0 .. 1 /\ p.lap \in 0 .. 1
         /\ v # p.at => p.lap = 0 /\ q.lap = 1 /\ v = g.base
         /\ v = p.at => q.lap = p.lap
  <1>1. q.lap \in 0 .. 1 /\ p.lap \in 0 .. 1  BY PointFacts
  <1>2. /\ q.at = v + n
        /\ \/ v = p.at /\ q.lap = p.lap
           \/ v # p.at /\ v = g.base /\ p.lap = 0 /\ q.lap = 1
    BY DEF Step, Plain, PassesWithin, PassesBefore, Block
  <1> QED BY <1>1, <1>2

LEMMA SegmentBlock ==
  ASSUME NEW s \in Segments
  PROVE  /\ RestBlock(s, 0) = Block(s.vaddr, Align(s.size)) /\ RestBlock(s, 0) \in Blocks
         /\ s.vaddr \in Nat /\ Align(s.size) \in Nat /\ s.size \in Nat
  <1>1. s.vaddr \in Nat /\ s.size \in Nat  BY DEF Segments
  <1>2. Align(s.size) \in Nat  BY <1>1, AlignFacts
  <1>3. s.vaddr + 0 = s.vaddr /\ Align(s.size) - 0 = Align(s.size) /\ s.vaddr + Align(s.size) \in Nat
    BY <1>1, <1>2
  <1>4. RestBlock(s, 0) = Block(s.vaddr, Align(s.size))  BY <1>3 DEF RestBlock
  <1>5. Block(s.vaddr, Align(s.size)) \in Blocks  BY <1>1, <1>2, <1>3 DEF Block, Blocks
  <1> QED BY <1>1, <1>2, <1>4, <1>5

LEMMA PathTwo ==
  ASSUME NEW g \in Ring, NEW b \in Blocks, NEW d \in Blocks, NEW p \in Points(g), NEW r \in Points(g)
  PROVE  Path(g, <<b, d>>, p, r) <=>
           \E q \in Points(g) : Step(g, b, p, q) /\ Before(p, q) /\ Step(g, d, q, r) /\ Before(q, r)
  <1>1. PICK c, e : c = <<b, d>> /\ e = <<d>>  OBVIOUS
  <1>2. c \in Seq(Blocks) /\ c # <<>> /\ Head(c) = b /\ Tail(c) = e  BY <1>1
  <1>3. Path(g, c, p, r) <=>
           \E q \in Points(g) : /\ p \in Points(g) /\ Step(g, Head(c), p, q) /\ Before(p, q)
                                /\ Path(g, Tail(c), q, r)
    BY <1>2, PathFirst
  <1>4. \A q \in Points(g) : Path(g, e, q, r) <=> Step(g, d, q, r) /\ Before(q, r)  BY <1>1, PathOne
  <1> QED BY <1>1, <1>2, <1>3, <1>4

\* The blocks of a stream's segments.
LEMMA HeldIs ==
  ASSUME Types, Holding
  PROVE  /\ Len(segments) = 1 => HeldBlocks = <<Block(segments[1].vaddr, Align(segments[1].size))>>
         /\ Len(segments) = 2 => HeldBlocks = <<Block(segments[1].vaddr, Align(segments[1].size)),
                                                Block(segments[2].vaddr, Align(segments[2].size))>>
         /\ \A i \in 1 .. Len(segments) : Block(segments[i].vaddr, Align(segments[i].size)) \in Blocks
  <1>1. segments \in Seq(Segments)  BY DEF Types, ReaderTypes
  <1>2. PICK x, n : x = segments /\ n = Len(x)  OBVIOUS
  <1>3. \A i \in 1 .. n : x[i] \in Segments  BY <1>1, <1>2, ElementOfSeq
  <1>4. \A i \in 1 .. n : RestBlock(x[i], 0) = Block(x[i].vaddr, Align(x[i].size)) /\ RestBlock(x[i], 0) \in Blocks
    BY <1>3, SegmentBlock
  <1>5. HeldBlocks = [i \in 1 .. n |-> RestBlock(x[i], IF i = 1 THEN 0 ELSE 0)]
    BY <1>2 DEF HeldBlocks, RestBlocks
  <1>6. ASSUME n = 1 PROVE HeldBlocks = <<Block(x[1].vaddr, Align(x[1].size))>>
    <2>1. HeldBlocks = [i \in 1 .. 1 |-> RestBlock(x[i], IF i = 1 THEN 0 ELSE 0)]  BY <1>5, <1>6
    <2>2. HeldBlocks = <<RestBlock(x[1], 0)>>  BY <2>1
    <2> QED BY <2>2, <1>4, <1>6
  <1>7. ASSUME n = 2 PROVE HeldBlocks = <<Block(x[1].vaddr, Align(x[1].size)), Block(x[2].vaddr, Align(x[2].size))>>
    <2>1. HeldBlocks = [i \in 1 .. 2 |-> RestBlock(x[i], IF i = 1 THEN 0 ELSE 0)]  BY <1>5, <1>7
    <2>2. HeldBlocks = <<RestBlock(x[1], 0), RestBlock(x[2], 0)>>  BY <2>1
    <2> QED BY <2>2, <1>4, <1>7
  <1> QED BY <1>2, <1>4, <1>6, <1>7

\* The block of the oldest extent.
LEMMA ExtentFirst ==
  ASSUME Types, AllExtents # <<>>
  PROVE  /\ ExtentBlocks # <<>> /\ Head(AllExtents) \in Extents /\ Tail(AllExtents) \in Seq(Extents)
         /\ Head(ExtentBlocks) = Block(Head(AllExtents).vaddr + Consumed, Align(Head(AllExtents).size) - Consumed)
         /\ Tail(ExtentBlocks) = RestBlocks(Tail(AllExtents), 0)
         /\ Consumed \in Nat /\ Consumed <= Align(Head(AllExtents).size)
         /\ Head(ExtentBlocks) \in Blocks /\ Tail(ExtentBlocks) \in Seq(Blocks)
  <1>1. Sized(Extents) /\ AllExtents \in Seq(Extents) /\ Consumed \in Nat /\ Fits(AllExtents, Consumed)
    BY AllSized, BlockTypes
  <1>2. PICK x, c : x = AllExtents /\ c = Consumed  OBVIOUS
  <1>3. x \in Seq(Extents) /\ x # <<>> /\ c \in Nat /\ Fits(x, c)  BY <1>1, <1>2
  <1>4. /\ RestBlocks(x, c) \in Seq(Blocks) /\ RestBlocks(x, c) # <<>>
         /\ Head(RestBlocks(x, c)) = RestBlock(Head(x), c)
         /\ Tail(RestBlocks(x, c)) = RestBlocks(Tail(x), 0)
         /\ Head(x) \in Extents /\ Tail(x) \in Seq(Extents)
    BY <1>1, <1>3, RestFirst
  <1>5. c <= Align(Head(x).size)  BY <1>3 DEF Fits
  <1>6. ExtentBlocks = RestBlocks(x, c)  BY <1>2 DEF ExtentBlocks
  <1>7. PICK b : b = ExtentBlocks  OBVIOUS
  <1>8. b \in Seq(Blocks) /\ b # <<>>  BY <1>4, <1>6, <1>7
  <1>9. Head(b) \in Blocks /\ Tail(b) \in Seq(Blocks)  BY <1>8, TailOn
  <1> QED BY <1>2, <1>3, <1>4, <1>5, <1>6, <1>7, <1>9 DEF RestBlock

\* The first step of the way along the extents.
LEMMA ExtentStep ==
  ASSUME Types, RouteInv, AllExtents # <<>>
  PROVE  \E p1, p2, p3, p4, p5, q \in Points(ring) :
           /\ Route(p1, p2, p3, p4, p5)
           /\ Step(ring, Head(ExtentBlocks), p2, q) /\ Before(p2, q) /\ Path(ring, Tail(ExtentBlocks), q, p3)
  <1>1. PICK p1, p2, p3, p4, p5 \in Points(ring) : Route(p1, p2, p3, p4, p5)  BY DEF RouteInv
  <1>2. ring \in Ring /\ Path(ring, ExtentBlocks, p2, p3)  BY <1>1, RouteIs
  <1>3. ExtentBlocks \in Seq(Blocks) /\ ExtentBlocks # <<>>  BY BlockTypes, ExtentFirst
  <1>4. PICK q \in Points(ring) : Step(ring, Head(ExtentBlocks), p2, q) /\ Before(p2, q) /\ Path(ring, Tail(ExtentBlocks), q, p3)
    BY <1>2, <1>3, PathFirst
  <1> QED BY <1>1, <1>4

LEMMA ThirdOf ==
  ASSUME NEW R, NEW h \in Seq(R), NEW x \in Seq(R)
  PROVE  Len(h) = 2 /\ x # <<>> =>
           /\ Len(h \o x) = 2 + Len(x) /\ Len(x) \in Nat \ {0}
           /\ (h \o x)[1] = h[1] /\ (h \o x)[2] = h[2] /\ (h \o x)[3] = x[1]
  <1>1. x # <<>> => Len(x) # 0  OBVIOUS
  <1>2. /\ Len(h \o x) = Len(h) + Len(x) /\ Len(x) \in Nat
        /\ \A i \in 1 .. Len(h) : (h \o x)[i] = h[i]
        /\ \A i \in 1 .. Len(x) : (h \o x)[Len(h) + i] = x[i]
    BY JoinAt
  <1>3. PICK m, n, y : m = Len(h) /\ n = Len(x) /\ y = h \o x  OBVIOUS
  <1>4. /\ n \in Nat /\ Len(y) = m + n
        /\ \A i \in 1 .. m : y[i] = h[i]
        /\ \A i \in 1 .. n : y[m + i] = x[i]
    BY <1>2, <1>3
  <1>5. ASSUME m = 2, n # 0
        PROVE  Len(y) = 2 + n /\ y[1] = h[1] /\ y[2] = h[2] /\ y[3] = x[1]
    <2>1. 1 \in 1 .. n /\ 1 \in 1 .. m /\ 2 \in 1 .. m /\ m + 1 = 3  BY <1>4, <1>5
    <2> QED BY <2>1, <1>4, <1>5
  <1> QED BY <1>1, <1>3, <1>4, <1>5

LEMMA SegmentsFit ==
  ASSUME Types, BreakInv, RouteInv, reader = "FIRST_READ", remaining_reads # 0, AllExtents # <<>>
  PROVE  Len(segments) < 2
  <1>1. segments \in Seq(Segments) /\ Len(segments) <= 2 /\ Len(segments) \in Nat
    BY DEF Types, ReaderTypes
  <1>0. ASSUME ~ (Len(segments) < 2) PROVE Len(segments) = 2
    <2>1. PICK n : n = Len(segments)  OBVIOUS
    <2>2. n \in Nat /\ n <= 2 /\ ~ (n < 2)  BY <2>1, <1>0, <1>1
    <2>3. n = 2  BY <2>2
    <2> QED BY <2>1, <2>3
  <1> SUFFICES ASSUME Len(segments) = 2 PROVE FALSE  BY <1>0
  <1>2. PICK p1, p2, p3, p4, p5, q \in Points(ring) :
           /\ Route(p1, p2, p3, p4, p5)
           /\ Step(ring, Head(ExtentBlocks), p2, q) /\ Before(p2, q) /\ Path(ring, Tail(ExtentBlocks), q, p3)
    BY ExtentStep
  <1>3. ring \in Ring /\ Path(ring, HeldBlocks, p1, p2)  BY <1>2, RouteIs
  <1>4. Holding /\ Consumed = 0  BY DEF Holding, Consumed
  <1>5. PICK e, s, t : e = Head(AllExtents) /\ s = segments[1] /\ t = segments[2]  OBVIOUS
  <1>6. PICK a, m, b, n, c, k : /\ a = s.vaddr /\ m = Align(s.size) /\ b = t.vaddr /\ n = Align(t.size)
                                /\ c = e.vaddr /\ k = Align(e.size)
    OBVIOUS
  <1>7. /\ e \in Extents /\ Head(ExtentBlocks) = Block(c, k) /\ c \in Nat /\ k \in Nat
    <2>1. e \in Extents /\ Head(ExtentBlocks) = Block(e.vaddr + 0, Align(e.size) - 0)
      BY <1>4, <1>5, ExtentFirst
    <2>2. c \in Nat /\ k \in Nat  BY <2>1, <1>6, ExtentFacts
    <2>3. c + 0 = c /\ k - 0 = k  BY <2>2
    <2> QED BY <2>1, <2>2, <2>3, <1>6
  <1>8. s \in Segments /\ t \in Segments
    <2>1. 1 \in 1 .. Len(segments) /\ 2 \in 1 .. Len(segments)  OBVIOUS
    <2> QED BY <2>1, <1>5, SegmentFacts
  <1>9. a \in Nat /\ m \in Nat /\ b \in Nat /\ n \in Nat  BY <1>6, <1>8, SegmentBlock
  <1>10. HeldBlocks = <<Block(a, m), Block(b, n)>> /\ Block(a, m) \in Blocks /\ Block(b, n) \in Blocks
    <2>1. HeldBlocks = <<Block(a, m), Block(b, n)>>  BY <1>4, <1>5, <1>6, HeldIs
    <2>2. Block(a, m) \in Blocks /\ Block(b, n) \in Blocks  BY <1>6, <1>8, SegmentBlock
    <2> QED BY <2>1, <2>2
  <1>11. PICK x \in Points(ring) : Step(ring, Block(a, m), p1, x) /\ Step(ring, Block(b, n), x, p2)
    <2>1. Path(ring, <<Block(a, m), Block(b, n)>>, p1, p2)  BY <1>3, <1>10
    <2> QED BY <2>1, <1>3, <1>10, PathTwo
  <1>12. b # a + m /\ c # b + n
    <2>1. Breaks(Unread)  BY BreakIs
    <2>2. HeldExtents = Unfinished(segments) /\ Unread = HeldExtents \o AllExtents
      BY UnreadFacts DEF HeldExtents
    <2>3. PICK h, y, u : h = HeldExtents /\ y = AllExtents /\ u = h \o y  OBVIOUS
    <2>4. h \in Seq(Extent) /\ y \in Seq(Extent) /\ u = Unread /\ y # <<>>
      BY <2>2, <2>3, UnreadFacts
    <2>5. /\ Len(h) = 2 /\ h[1] = [vaddr |-> s.vaddr, size |-> s.size, last |-> FALSE]
          /\ h[2] = [vaddr |-> t.vaddr, size |-> t.size, last |-> FALSE]
      BY <2>2, <2>3, <1>1, <1>5, UnfinishedFacts
    <2>6. Len(u) = 2 + Len(y) /\ Len(y) \in Nat \ {0} /\ u[1] = h[1] /\ u[2] = h[2] /\ u[2 + 1] = y[1]
      <3>1. h \in Seq(Extent) /\ y \in Seq(Extent) /\ Len(h) = 2 /\ y # <<>>  BY <2>4, <2>5
      <3>2. /\ Len(h \o y) = 2 + Len(y) /\ Len(y) \in Nat \ {0}
            /\ (h \o y)[1] = h[1] /\ (h \o y)[2] = h[2] /\ (h \o y)[3] = y[1]
        BY <3>1, ThirdOf
      <3>3. u = h \o y /\ 2 + 1 = 3  BY <2>3
      <3> QED BY <3>2, <3>3
    <2>7. y[1] = e  BY <2>3, <2>4, <1>5
    <2>8. \A i \in 1 .. Len(u) - 1 : ~u[i].last => Broken(u[i], u[i + 1])  BY <2>1, <2>4 DEF Breaks
    <2>9. 1 \in 1 .. Len(u) - 1 /\ 2 \in 1 .. Len(u) - 1  BY <2>6
    <2>10. Broken(u[1], u[2]) /\ Broken(u[2], u[2 + 1])  BY <2>5, <2>6, <2>8, <2>9
    <2>11. Broken(h[1], h[2]) /\ Broken(h[2], e)  BY <2>6, <2>7, <2>10
    <2> QED BY <2>5, <2>11, <1>6 DEF Broken
  <1>13. x.at = a + m  BY <1>3, <1>9, <1>11, StepBroken
  <1>14. p2.at = b + n /\ p2.lap = 1  BY <1>3, <1>9, <1>11, <1>12, <1>13, StepBroken
  <1>15. p2.lap = 0
    <2>1. Step(ring, Block(c, k), p2, q) /\ c # p2.at  BY <1>2, <1>7, <1>12, <1>14
    <2> QED BY <2>1, <1>3, <1>7, StepBroken
  <1> QED BY <1>14, <1>15

LEMMA SegmentsAtMostTwo ==
  ASSUME Types, BreakInv, RouteInv
  PROVE  /\ TwoSegments
         /\ head_closed /\ reader = "FIRST_READ" /\ remaining_reads # 0 => Len(segments) < 2
  <1>1. ASSUME head_closed, reader = "FIRST_READ", remaining_reads # 0 PROVE Len(segments) < 2
    <2>1. TailTypes  BY DEF Types
    <2>2. AllExtents # <<>>  BY <2>1, <1>1, AllExtentsFacts DEF head_closed
    <2> QED BY <2>2, <1>1, SegmentsFit
  <1> QED BY <1>1 DEF TwoSegments, PopExtent

----
(* The route: a stream is read for the first time.                          *)

\* One more read is set up.
LEMMA ReadsMore ==
  ASSUME Types, read_valid = FALSE, reads' = reads
  PROVE  /\ ReadBlocks = reads /\ ReadBlocks \in Seq(Blocks)
         /\ UNCHANGED readVars => ReadBlocks' = ReadBlocks
         /\ read_valid' = TRUE => ReadBlocks' = Append(ReadBlocks, ReadBlock')
         /\ read' \in ReadType => ReadBlock' \in Blocks
  <1>1. reads \in Seq(ReleaseType) /\ Blocks = ReleaseType
    BY DEF Types, ReadTypes, ReleaseType, Blocks
  <1>2. PICK x, b : x = reads /\ b = ReadBlock'  OBVIOUS
  <1>3. x \in Seq(Blocks)  BY <1>1, <1>2
  <1>4. x \o <<>> = x /\ x \o <<b>> = Append(x, b)  BY <1>3
  <1>5. ReadBlocks = x  BY <1>2, <1>4 DEF ReadBlocks
  <1>6. ASSUME UNCHANGED readVars PROVE ReadBlocks' = x
    <2>1. read_valid' = FALSE  BY <1>6 DEF readVars
    <2> QED BY <2>1, <1>2, <1>4 DEF ReadBlocks
  <1>7. ASSUME read_valid' = TRUE PROVE ReadBlocks' = Append(x, b)
    <2>1. ReadBlocks' = x \o <<b>>  BY <1>2, <1>7 DEF ReadBlocks
    <2> QED BY <2>1, <1>4
  <1>8. ASSUME read' \in ReadType PROVE b \in Blocks  BY <1>2, <1>8 DEF ReadType, ReadBlock, Blocks
  <1> QED BY <1>2, <1>3, <1>5, <1>6, <1>7, <1>8

\* A read that is not the last one leaves the way as it is.
LEMMA ReadsHold ==
  ASSUME Types, read_valid = FALSE, reads' = reads, read' \in ReadType, read_valid' = TRUE, ~read'.release,
         ring \in Ring, NEW p \in Points(ring), NEW q \in Points(ring), Path(ring, ReadBlocks, p, q)
  PROVE  Path(ring, ReadBlocks', p, q)
  <1>1. PICK x, b : x = ReadBlocks /\ b = ReadBlock'  OBVIOUS
  <1>2. x \in Seq(Blocks) /\ b \in Blocks /\ ReadBlocks' = Append(x, b)  BY <1>1, ReadsMore
  <1>3. ~b.release  BY <1>1 DEF ReadBlock
  <1>4. Step(ring, b, q, q) /\ Before(q, q)  BY <1>3, PointFacts DEF Step
  <1>5. Path(ring, Append(x, b), p, q)  BY <1>1, <1>2, <1>4, PathLast
  <1> QED BY <1>2, <1>5

FirstFrame ==
  /\ reader = "FIRST_READ" /\ read_valid = FALSE
  /\ UNCHANGED <<ring, writer, transfer_vaddr, free_bytes, unreserved, pending, tailVars,
                 remaining_reads, reads, released_end>>
  /\ AllExtents # <<>> /\ head = Head(AllExtents) /\ head \in Extents
  /\ head_read <= head.size /\ head_read \in Nat /\ Aligned(head_read)

LEMMA FirstFrames ==
  ASSUME Types, FirstRead
  PROVE  /\ FirstFrame /\ read' \in ReadType /\ head_valid
         /\ FirstPops \/ FirstKeeps
         /\ SetUpFirstRead \/ (FirstSkips /\ FirstPops)
         /\ PendingBlocks' = PendingBlocks /\ GrantBlocks' = GrantBlocks /\ Frontier' = Frontier /\ Start' = Start
  <1>1. /\ reader = "FIRST_READ" /\ read_valid = FALSE /\ head_valid
        /\ FirstPops \/ FirstKeeps
        /\ SetUpFirstRead \/ (FirstSkips /\ FirstPops)
        /\ UNCHANGED <<writerVars, unreserved, streamVars, tailVars, remaining_reads,
                 reads, requestVars, released_end, memory, streams, enqueued, output>>
    BY FirstReadCases
  <1>2. /\ AllExtents # <<>> /\ head = Head(AllExtents) /\ head \in Extents
        /\ head_read <= head.size /\ head_read \in Nat
    BY <1>1, HeadFacts
  <1>3. Aligned(head_read)  BY DEF Types, HeadRead
  <1>4. UNCHANGED <<ring, writer, transfer_vaddr, free_bytes, unreserved, pending, tailVars,
                 remaining_reads, reads, released_end>>
    BY <1>1 DEF writerVars, streamVars
  <1>5. FirstFrame  BY <1>1, <1>2, <1>3, <1>4 DEF FirstFrame
  <1>6. read' \in ReadType
    <2>1. Types'  BY FirstReadTypes
    <2> QED BY <2>1 DEF Types, ReadTypes
  <1>7. PendingBlocks' = PendingBlocks /\ GrantBlocks' = GrantBlocks /\ Frontier' = Frontier /\ Start' = Start
    BY <1>4, BlocksKept
  <1> QED BY <1>1, <1>5, <1>6, <1>7

\* The extent is kept for the next reads of its stream, or it is not finished.
LEMMA RouteFirstHeld ==
  ASSUME Types, RouteInv, FirstRead, remaining_reads # 0,
         head_closed /\ FirstPops => Len(segments) < 2
  PROVE  RouteInv'
  <1>1. /\ FirstFrame /\ read' \in ReadType /\ head_valid
        /\ FirstPops \/ FirstKeeps
        /\ SetUpFirstRead \/ (FirstSkips /\ FirstPops)
        /\ PendingBlocks' = PendingBlocks /\ GrantBlocks' = GrantBlocks /\ Frontier' = Frontier /\ Start' = Start
    BY FirstFrames
  <1>2. /\ reader = "FIRST_READ" /\ read_valid = FALSE /\ AllExtents # <<>> /\ head = Head(AllExtents)
        /\ UNCHANGED <<ring, free_bytes, unreserved, remaining_reads, reads, released_end>>
    BY <1>1 DEF FirstFrame
  <1>3. PICK p1, p2, p3, p4, p5, q \in Points(ring) :
           /\ Route(p1, p2, p3, p4, p5)
           /\ Step(ring, Head(ExtentBlocks), p2, q) /\ Before(p2, q) /\ Path(ring, Tail(ExtentBlocks), q, p3)
    BY <1>2, ExtentStep
  <1>4. /\ ring \in Ring /\ Start \in Points(ring)
        /\ Path(ring, ReadBlocks, Start, p1) /\ Path(ring, HeldBlocks, p1, p2)
        /\ Path(ring, ExtentBlocks, p2, p3)
        /\ Path(ring, PendingBlocks, p3, p4) /\ Path(ring, GrantBlocks, p4, p5)
        /\ p5.at = Frontier
        /\ free_bytes + unreserved + (Position(ring, p5) - released_end) = ring.size
    BY <1>3, RouteIs
  <1>5. Path(ring, ReadBlocks', Start, p1)
    <2>1. CASE SetUpFirstRead
      <3>1. read_valid' = TRUE /\ read'.release = ReleasesFirstRead  BY <2>1 DEF SetUpFirstRead
      <3>2. ~read'.release  BY <3>1 DEF ReleasesFirstRead
      <3> QED BY <3>1, <3>2, <1>1, <1>2, <1>4, ReadsHold
    <2>2. CASE FirstSkips
      <3>1. ReadBlocks' = ReadBlocks  BY <2>2, <1>2, ReadsMore DEF FirstSkips
      <3> QED BY <3>1, <1>4
    <2> QED BY <2>1, <2>2, <1>1
  <1>6. Holding /\ Consumed = 0  BY <1>2 DEF Holding, Consumed
  <1>7. reader' \in {"FIRST_READ", "REPLAY"}
    <2>1. CASE FirstPops
      <3>1. /\ head.last => reader' = IF remaining_reads = 0 THEN "WAIT_FOR_STREAM" ELSE "REPLAY"
            /\ ~head.last => reader' = reader
        BY <2>1 DEF FirstPops
      <3> QED BY <3>1, <1>2
    <2>2. CASE FirstKeeps  BY <2>2, <1>2 DEF FirstKeeps
    <2> QED BY <2>1, <2>2, <1>1
  <1>8. Holding' /\ Consumed' = 0  BY <1>2, <1>7 DEF Holding, Consumed
  <1>9. \E r \in Points(ring) : Path(ring, HeldBlocks', p1, r) /\ Path(ring, ExtentBlocks', r, p3)
    <2>1. CASE FirstPops
      <3>1. head_closed /\ AllExtents' = Tail(AllExtents) /\ Len(segments) < 2
        BY <2>1 DEF FirstPops
      <3>2. segments' = Append(segments, [vaddr |-> head.vaddr, size |-> head.size])
        <4>1. PICK n : n = Len(segments)  OBVIOUS
        <4>2. n \in Nat /\ n < 2  BY <4>1, <3>1 DEF Types, ReaderTypes
        <4>3. n # 2  BY <4>2
        <4>4. segments' = IF Len(segments) = 2 THEN segments
                 ELSE Append(segments, [vaddr |-> head.vaddr, size |-> head.size])
          BY <2>1 DEF FirstPops
        <4> QED BY <4>1, <4>3, <4>4
      <3>3. PICK e, s, x : e = Head(AllExtents) /\ s = [vaddr |-> e.vaddr, size |-> e.size] /\ x = segments
        OBVIOUS
      <3>4. e \in Extents /\ e = head  BY <3>3, <1>2, ExtentFirst
      <3>5. s \in Segments /\ s.vaddr = e.vaddr /\ s.size = e.size
        BY <3>3, <3>4, ExtentFacts DEF Segments
      <3>6. x \in Seq(Segments)  BY <3>3 DEF Types, ReaderTypes
      <3>7. PICK b : b = RestBlock(s, 0)  OBVIOUS
      <3>8. b = Block(e.vaddr, Align(e.size)) /\ b \in Blocks  BY <3>5, <3>7, SegmentBlock
      <3>9. RestBlocks(Append(x, s), 0) = Append(RestBlocks(x, 0), b) /\ RestBlocks(x, 0) \in Seq(Blocks)
        <4>1. PICK y : y = Append(x, s)  OBVIOUS
        <4>2. y \in Seq(Segments) /\ y # <<>> /\ Head(y) \in Segments
          BY <4>1, <3>5, <3>6, HeadAppend, TailOn
        <4>3. PICK n : n = Align(Head(y).size)  OBVIOUS
        <4>4. n \in Nat  BY <4>2, <4>3, SegmentBlock
        <4>5. Fits(y, 0)  BY <4>2, <4>3, <4>4 DEF Fits
        <4>6. PICK d : d = (IF x = <<>> THEN 0 ELSE 0)  OBVIOUS
        <4>7. d = 0  BY <4>6
        <4>8. RestBlocks(y, 0) = Append(RestBlocks(x, 0), RestBlock(s, d)) /\ RestBlocks(x, 0) \in Seq(Blocks)
          BY <4>1, <4>5, <4>6, <3>5, <3>6, AllSized, RestAppend
        <4> QED BY <4>1, <4>7, <4>8, <3>7
      <3>10. HeldBlocks = RestBlocks(x, 0)  BY <3>3, <1>6 DEF HeldBlocks
      <3>11. HeldBlocks' = RestBlocks(Append(x, s), 0)
        <4>1. segments' = Append(x, s)  BY <3>2, <3>3, <3>4
        <4>2. HeldBlocks' = RestBlocks(segments, 0)'  BY <1>8 DEF HeldBlocks
        <4> QED BY <4>1, <4>2 DEF RestBlocks
      <3>12. Head(ExtentBlocks) = b
        <4>1. Head(ExtentBlocks) = Block(e.vaddr + 0, Align(e.size) - 0)
          BY <3>3, <1>2, <1>6, ExtentFirst
        <4>2. e.vaddr + 0 = e.vaddr /\ Align(e.size) - 0 = Align(e.size)  BY <3>4, ExtentFacts
        <4> QED BY <4>1, <4>2, <3>8
      <3>13. ExtentBlocks' = Tail(ExtentBlocks)
        <4>1. Tail(ExtentBlocks) = RestBlocks(Tail(AllExtents), 0)  BY <1>2, ExtentFirst
        <4>2. PICK t : t = Tail(AllExtents)  OBVIOUS
        <4>3. ExtentBlocks' = RestBlocks(t, 0)  BY <4>2, <3>1, <1>8 DEF ExtentBlocks, RestBlocks
        <4> QED BY <4>1, <4>2, <4>3
      <3>14. PICK h : h = RestBlocks(x, 0)  OBVIOUS
      <3>15. h \in Seq(Blocks) /\ Path(ring, h, p1, p2) /\ Step(ring, b, p2, q) /\ Before(p2, q)
        BY <3>9, <3>10, <3>12, <3>14, <1>3, <1>4
      <3>16. Path(ring, Append(h, b), p1, q)  BY <3>8, <3>15, <1>4, PathLast
      <3>17. Path(ring, HeldBlocks', p1, q) /\ Path(ring, ExtentBlocks', q, p3)
        BY <3>9, <3>11, <3>13, <3>14, <3>16, <1>3
      <3> QED BY <3>17
    <2>2. CASE FirstKeeps
      <3>1. segments' = segments /\ AllExtents' = AllExtents  BY <2>2 DEF FirstKeeps
      <3>2. HeldBlocks' = HeldBlocks  BY <3>1, <1>6, <1>8 DEF HeldBlocks, RestBlocks
      <3>3. ExtentBlocks' = ExtentBlocks  BY <3>1, <1>6, <1>8 DEF ExtentBlocks, RestBlocks
      <3> QED BY <3>2, <3>3, <1>4
    <2> QED BY <2>1, <2>2, <1>1
  <1>10. PICK r \in Points(ring) : Path(ring, HeldBlocks', p1, r) /\ Path(ring, ExtentBlocks', r, p3)
    BY <1>9
  <1>11. free_bytes' + unreserved' + (Position(ring, p5) - released_end') = ring.size  BY <1>2, <1>4
  <1>12. Route(p1, r, p3, p4, p5)'  BY <1>1, <1>2, <1>4, <1>5, <1>8, <1>10, <1>11 DEF Route
  <1> QED BY <1>2, <1>3, <1>10, <1>12 DEF RouteInv

\* What of the extent is read becomes a read that is released.
FirstMoves(q, p3) == Path(ring, ReadBlocks', Start, q) /\ Path(ring, ExtentBlocks', q, p3)
FirstPoint(q) == Consumed' # 0 => AllExtents' # <<>> /\ q.at = Head(AllExtents').vaddr + Consumed'

LEMMA FirstKeepsRoute ==
  ASSUME Types, FirstRead, remaining_reads = 0, FirstKeeps, ring \in Ring, FirstFrame,
         SetUpFirstRead, read' \in ReadType,
         NEW p1 \in Points(ring), NEW p3 \in Points(ring), NEW q \in Points(ring),
         Path(ring, ReadBlocks, Start, p1),
         Step(ring, Head(ExtentBlocks), p1, q), Before(p1, q), Path(ring, Tail(ExtentBlocks), q, p3)
  PROVE  \E r \in Points(ring) : FirstMoves(r, p3) /\ FirstPoint(r)
  <1>1. /\ reader = "FIRST_READ" /\ read_valid = FALSE /\ reads' = reads /\ remaining_reads' = remaining_reads
        /\ AllExtents # <<>> /\ head = Head(AllExtents) /\ head \in Extents
        /\ head_read <= head.size /\ head_read \in Nat /\ Aligned(head_read)
    BY DEF FirstFrame
  <1>2. /\ read_more => head_read' = head_read + MAX_READ_BYTES
        /\ ~read_more => head_read' = head.size /\ ~head.last
        /\ AllExtents' = AllExtents /\ reader' = reader
    BY DEF FirstKeeps
  <1>3. /\ read_valid' = TRUE /\ read'.release = TRUE /\ read'.start = head.vaddr + head_read
        /\ read'.span = IF read_more THEN MAX_READ_BYTES ELSE Align(head.size) - head_read
        /\ read'.end = head.vaddr + IF read_more THEN head_read + MAX_READ_BYTES ELSE Align(head.size)
    <2>1. read' = [vaddr   |-> head.vaddr + head_read,
              size    |-> first_read_size,
              last    |-> head_closed /\ ~read_more /\ head.last,
              release |-> ReleasesFirstRead,
              start   |-> head.vaddr + head_read,
              span    |-> IF read_more THEN MAX_READ_BYTES ELSE Align(head.size) - head_read,
              end     |-> head.vaddr + IF read_more THEN head_read + MAX_READ_BYTES
                                                    ELSE Align(head.size)]
          /\ read_valid' = TRUE
      BY DEF SetUpFirstRead
    <2>2. ReleasesFirstRead = TRUE  BY DEF ReleasesFirstRead
    <2> QED BY <2>1, <2>2
  <1>4. PICK e, v, s, h, k, m : /\ e = head /\ v = e.vaddr /\ s = Align(e.size) /\ h = head_read /\ k = head_read'
                               /\ m = (IF read_more THEN MAX_READ_BYTES ELSE s - h)
    OBVIOUS
  <1>5. /\ v \in Nat /\ s \in Nat /\ h \in Nat /\ h <= e.size /\ e.size \in Nat /\ e.size <= s
        /\ (~e.last => s = e.size)
    BY <1>1, <1>4, ExtentFacts
  <1>6. m \in Nat /\ k = h + m /\ k <= s
    <2>1. CASE read_more
      <3>1. e.size > h + MAX_READ_BYTES /\ m = MAX_READ_BYTES /\ k = h + MAX_READ_BYTES /\ MAX_READ_BYTES \in Nat
        BY <2>1, <1>2, <1>4, ReadBytes DEF read_more
      <3> QED BY <3>1, <1>5
    <2>2. CASE ~read_more
      <3>1. m = s - h /\ k = s  BY <2>2, <1>2, <1>4, <1>5
      <3> QED BY <3>1, <1>5
    <2> QED BY <2>1, <2>2
  <1>7. read'.start = v + h /\ read'.span = m /\ read'.end = (v + h) + m
    <2>1. read'.start = v + h /\ read'.span = m  BY <1>3, <1>4
    <2>2. CASE read_more
      <3>1. read'.end = v + (h + MAX_READ_BYTES) /\ m = MAX_READ_BYTES /\ MAX_READ_BYTES \in Nat
        BY <2>2, <1>3, <1>4, ReadBytes
      <3> QED BY <3>1, <2>1, <1>5
    <2>3. CASE ~read_more
      <3>1. read'.end = v + s /\ m = s - h  BY <2>3, <1>3, <1>4
      <3>2. v + s = (v + h) + (s - h)  BY <1>5
      <3> QED BY <3>1, <3>2, <2>1
    <2> QED BY <2>2, <2>3
  <1>8. ReadBlock' = Block(v + h, m)
    <2>1. ReadBlock' = [release |-> read'.release, start |-> read'.start, span |-> read'.span, end |-> read'.end]
      BY DEF ReadBlock
    <2> QED BY <2>1, <1>3, <1>7 DEF Block
  <1>9. PICK n : n = s - k  OBVIOUS
  <1>10. n \in Nat /\ m + n = s - h /\ v + h \in Nat /\ (v + h) + m = v + k  BY <1>5, <1>6, <1>9
  <1>11. Consumed = h /\ Consumed' = k  BY <1>1, <1>2, <1>4 DEF Consumed
  <1>12. Head(ExtentBlocks) = Block(v + h, m + n)  BY <1>1, <1>4, <1>10, <1>11, ExtentFirst
  <1>13. PICK r \in Points(ring) :
           /\ Step(ring, Block(v + h, m), p1, r) /\ Step(ring, Block((v + h) + m, n), r, q)
           /\ Before(p1, r) /\ Before(r, q) /\ r.at = (v + h) + m
    <2>1. Step(ring, Block(v + h, m + n), p1, q)  BY <1>12
    <2>2. ring \in Ring /\ v + h \in Nat /\ m \in Nat /\ n \in Nat  BY <1>6, <1>10
    <2>3. PICK r \in Points(ring) : CutAt(ring, v + h, m, n, p1, r, q)  BY <2>1, <2>2, StepCut
    <2> QED BY <2>3 DEF CutAt
  <1>14. Path(ring, ReadBlocks', Start, r)
    <2>1. PICK x, b : x = ReadBlocks /\ b = ReadBlock'  OBVIOUS
    <2>2. x \in Seq(Blocks) /\ b \in Blocks /\ ReadBlocks' = Append(x, b)
      BY <2>1, <1>1, <1>3, ReadsMore
    <2>3. Path(ring, x, Start, p1) /\ Step(ring, b, p1, r) /\ Before(p1, r)  BY <2>1, <1>8, <1>13
    <2>4. Path(ring, Append(x, b), Start, r)  BY <2>2, <2>3, PathLast
    <2> QED BY <2>2, <2>4
  <1>15. Path(ring, ExtentBlocks', r, p3)
    <2>1. PICK x : x = AllExtents  OBVIOUS
    <2>2. x \in Seq(Extents) /\ x # <<>> /\ Head(x) = e /\ Sized(Extents)
      BY <2>1, <1>1, <1>4, BlockTypes, AllSized
    <2>3. k \in Nat /\ Fits(x, k)  BY <2>2, <1>4, <1>5, <1>6 DEF Fits
    <2>4. /\ RestBlocks(x, k) \in Seq(Blocks) /\ RestBlocks(x, k) # <<>>
         /\ Head(RestBlocks(x, k)) = RestBlock(Head(x), k)
         /\ Tail(RestBlocks(x, k)) = RestBlocks(Tail(x), 0)
      BY <2>2, <2>3, RestFirst
    <2>5. PICK y : y = RestBlocks(x, k)  OBVIOUS
    <2>6. y \in Seq(Blocks) /\ y # <<>> /\ Head(y) = Block((v + h) + m, n) /\ Tail(y) = Tail(ExtentBlocks)
      <3>1. RestBlock(e, k) = Block(v + k, s - k)  BY <1>4 DEF RestBlock
      <3>2. Head(y) = Block((v + h) + m, n)  BY <3>1, <2>2, <2>4, <2>5, <1>9, <1>10
      <3>3. Tail(ExtentBlocks) = RestBlocks(Tail(x), 0)  BY <2>1, <1>1, ExtentFirst
      <3> QED BY <3>2, <3>3, <2>4, <2>5
    <2>7. ExtentBlocks' = y  BY <2>1, <2>5, <1>2, <1>11 DEF ExtentBlocks, RestBlocks
    <2>8. Step(ring, Head(y), r, q) /\ Before(r, q) /\ Path(ring, Tail(y), q, p3)  BY <2>6, <1>13
    <2>9. Path(ring, y, r, p3)  BY <2>6, <2>8, PathFirst
    <2> QED BY <2>7, <2>9
  <1>16. FirstPoint(r)
    <2>1. AllExtents' # <<>> /\ Head(AllExtents') = e  BY <1>1, <1>2, <1>4
    <2>2. r.at = v + k  BY <1>10, <1>13
    <2> QED BY <2>1, <2>2, <1>4, <1>11 DEF FirstPoint
  <1> QED BY <1>14, <1>15, <1>16 DEF FirstMoves

LEMMA FirstPopsRoute ==
  ASSUME Types, FirstRead, remaining_reads = 0, FirstPops, ring \in Ring, FirstFrame,
         SetUpFirstRead \/ FirstSkips, read' \in ReadType,
         NEW p1 \in Points(ring), NEW p3 \in Points(ring), NEW q \in Points(ring),
         Consumed # 0 => p1.at = Head(AllExtents).vaddr + Consumed,
         Path(ring, ReadBlocks, Start, p1),
         Step(ring, Head(ExtentBlocks), p1, q), Before(p1, q), Path(ring, Tail(ExtentBlocks), q, p3)
  PROVE  FirstMoves(q, p3) /\ FirstPoint(q)
  <1>1. /\ reader = "FIRST_READ" /\ read_valid = FALSE /\ reads' = reads /\ remaining_reads' = remaining_reads
        /\ AllExtents # <<>> /\ head = Head(AllExtents) /\ head \in Extents
        /\ head_read <= head.size /\ head_read \in Nat /\ Aligned(head_read)
    BY DEF FirstFrame
  <1>2. ~read_more /\ AllExtents' = Tail(AllExtents) /\ head_read' = 0  BY DEF FirstPops
  <1>3. Consumed = head_read /\ Consumed' = 0  BY <1>1, <1>2 DEF Consumed
  <1>4. FirstPoint(q)  BY <1>3 DEF FirstPoint
  <1>5. ExtentBlocks' = Tail(ExtentBlocks)
    <2>1. Tail(ExtentBlocks) = RestBlocks(Tail(AllExtents), 0)  BY <1>1, ExtentFirst
    <2>2. PICK t : t = Tail(AllExtents)  OBVIOUS
    <2>3. ExtentBlocks' = RestBlocks(t, 0)  BY <2>2, <1>2, <1>3 DEF ExtentBlocks, RestBlocks
    <2> QED BY <2>1, <2>2, <2>3
  <1>6. PICK e, v, s, h : e = head /\ v = e.vaddr /\ s = Align(e.size) /\ h = head_read  OBVIOUS
  <1>7. /\ v \in Nat /\ s \in Nat /\ h \in Nat /\ h <= e.size /\ e.size \in Nat /\ e.size <= s /\ Aligned(h)
    BY <1>1, <1>6, ExtentFacts
  <1>8. PICK n : n = s - h  OBVIOUS
  <1>9. n \in Nat /\ v + h \in Nat /\ (v + h) + n = v + s  BY <1>7, <1>8
  <1>10. Head(ExtentBlocks) = Block(v + h, n)  BY <1>1, <1>3, <1>6, <1>8, ExtentFirst
  <1>11. Step(ring, Block(v + h, n), p1, q)  BY <1>10
  <1>12. CASE SetUpFirstRead
    <2>1. /\ read_valid' = TRUE /\ read'.release = TRUE /\ read'.start = head.vaddr + head_read
          /\ read'.span = Align(head.size) - head_read
          /\ read'.end = head.vaddr + Align(head.size)
      <3>1. read' = [vaddr   |-> head.vaddr + head_read,
              size    |-> first_read_size,
              last    |-> head_closed /\ ~read_more /\ head.last,
              release |-> ReleasesFirstRead,
              start   |-> head.vaddr + head_read,
              span    |-> IF read_more THEN MAX_READ_BYTES ELSE Align(head.size) - head_read,
              end     |-> head.vaddr + IF read_more THEN head_read + MAX_READ_BYTES
                                                    ELSE Align(head.size)]
            /\ read_valid' = TRUE
        BY <1>12 DEF SetUpFirstRead
      <3>2. ReleasesFirstRead = TRUE  BY DEF ReleasesFirstRead
      <3> QED BY <3>1, <3>2, <1>2
    <2>2. ReadBlock' = Block(v + h, n)
      <3>1. ReadBlock' = [release |-> read'.release, start |-> read'.start, span |-> read'.span, end |-> read'.end]
        BY DEF ReadBlock
      <3>2. ReadBlock' = [release |-> TRUE, start |-> v + h, span |-> n, end |-> v + s]
        BY <3>1, <2>1, <1>6, <1>8
      <3> QED BY <3>2, <1>9 DEF Block
    <2>3. PICK x, b : x = ReadBlocks /\ b = ReadBlock'  OBVIOUS
    <2>4. x \in Seq(Blocks) /\ b \in Blocks /\ ReadBlocks' = Append(x, b)
      BY <2>1, <2>3, <1>1, ReadsMore
    <2>5. Path(ring, x, Start, p1) /\ Step(ring, b, p1, q) /\ Before(p1, q)  BY <2>2, <2>3, <1>11
    <2>6. Path(ring, Append(x, b), Start, q)  BY <2>4, <2>5, PathLast
    <2> QED BY <2>4, <2>6, <1>4, <1>5 DEF FirstMoves
  <1>13. CASE FirstSkips
    <2>1. UNCHANGED readVars /\ head.size = head_read /\ head.size # 0  BY <1>13 DEF FirstSkips
    <2>2. s = h /\ h # 0  BY <2>1, <1>6, <1>7, AlignAligned
    <2>3. p1.at = v + h /\ n = 0
      <3>1. n = 0  BY <2>2, <1>7, <1>8
      <3>2. Consumed = h /\ Head(AllExtents) = e  BY <1>1, <1>3, <1>6
      <3>3. p1.at = Head(AllExtents).vaddr + Consumed  BY <3>2, <2>2
      <3> QED BY <3>1, <3>2, <3>3, <1>6
    <2>4. q.at = v + h /\ q.lap = p1.lap
      <3>1. q.at = (v + h) + n /\ q.lap = p1.lap  BY <2>3, <1>9, <1>11, StepOn
      <3> QED BY <3>1, <2>3, <1>9
    <2>5. q = p1  BY <2>3, <2>4 DEF Points
    <2>6. ReadBlocks' = ReadBlocks  BY <2>1, <1>1, ReadsMore
    <2> QED BY <2>5, <2>6, <1>4, <1>5 DEF FirstMoves
  <1> QED BY <1>12, <1>13

LEMMA RouteFirstReleased ==
  ASSUME Types, RouteInv, FirstRead, remaining_reads = 0
  PROVE  RouteInv'
  <1>1. /\ FirstFrame /\ read' \in ReadType /\ head_valid
        /\ FirstPops \/ FirstKeeps
        /\ SetUpFirstRead \/ (FirstSkips /\ FirstPops)
        /\ PendingBlocks' = PendingBlocks /\ GrantBlocks' = GrantBlocks /\ Frontier' = Frontier /\ Start' = Start
    BY FirstFrames
  <1>2. /\ reader = "FIRST_READ" /\ read_valid = FALSE /\ AllExtents # <<>> /\ head = Head(AllExtents)
        /\ UNCHANGED <<ring, free_bytes, unreserved, remaining_reads, reads, released_end>>
    BY <1>1 DEF FirstFrame
  <1>3. PICK p1, p2, p3, p4, p5, q \in Points(ring) :
           /\ Route(p1, p2, p3, p4, p5)
           /\ Step(ring, Head(ExtentBlocks), p2, q) /\ Before(p2, q) /\ Path(ring, Tail(ExtentBlocks), q, p3)
    BY <1>2, ExtentStep
  <1>4. /\ ring \in Ring /\ Start \in Points(ring)
        /\ Path(ring, ReadBlocks, Start, p1) /\ Path(ring, HeldBlocks, p1, p2)
        /\ Path(ring, PendingBlocks, p3, p4) /\ Path(ring, GrantBlocks, p4, p5)
        /\ p5.at = Frontier
        /\ free_bytes + unreserved + (Position(ring, p5) - released_end) = ring.size
        /\ Consumed # 0 => AllExtents # <<>> /\ p2.at = Head(AllExtents).vaddr + Consumed
    BY <1>3, RouteIs
  <1>5. HeldBlocks = <<>>  BY <1>2 DEF HeldBlocks, Holding
  <1>6. p2 = p1  BY <1>4, <1>5, PathNone
  <1>7. reader' # "REPLAY"
    <2>1. CASE FirstPops
      <3>1. /\ head.last => reader' = IF remaining_reads = 0 THEN "WAIT_FOR_STREAM" ELSE "REPLAY"
            /\ ~head.last => reader' = reader
        BY <2>1 DEF FirstPops
      <3> QED BY <3>1, <1>2
    <2>2. CASE FirstKeeps  BY <2>2, <1>2 DEF FirstKeeps
    <2> QED BY <2>1, <2>2, <1>1
  <1>8. HeldBlocks' = <<>>  BY <1>2, <1>7 DEF HeldBlocks, Holding
  <1>9. PICK r \in Points(ring) : FirstMoves(r, p3) /\ FirstPoint(r)
    <2>1. Step(ring, Head(ExtentBlocks), p1, q) /\ Before(p1, q)  BY <1>3, <1>6
    <2>2. CASE FirstPops
      <3>1. SetUpFirstRead \/ FirstSkips  BY <1>1
      <3>2. Consumed # 0 => p1.at = Head(AllExtents).vaddr + Consumed  BY <1>4, <1>6
      <3>3. FirstMoves(q, p3) /\ FirstPoint(q)
        BY <3>1, <3>2, <2>1, <2>2, <1>1, <1>3, <1>4, FirstPopsRoute
      <3> QED BY <3>3
    <2>3. CASE FirstKeeps /\ SetUpFirstRead  BY <2>1, <2>3, <1>1, <1>3, <1>4, FirstKeepsRoute
    <2> QED BY <2>2, <2>3, <1>1
  <1>10. Path(ring, HeldBlocks', r, r)  BY <1>4, <1>8, PathNone
  <1>11. free_bytes' + unreserved' + (Position(ring, p5) - released_end') = ring.size  BY <1>2, <1>4
  <1>12. Route(r, r, p3, p4, p5)'
    <2>1. /\ Path(ring, ReadBlocks', Start, r) /\ Path(ring, ExtentBlocks', r, p3)
          /\ Consumed' # 0 => AllExtents' # <<>> /\ r.at = Head(AllExtents').vaddr + Consumed'
      BY <1>9 DEF FirstMoves, FirstPoint
    <2> QED BY <2>1, <1>1, <1>2, <1>4, <1>10, <1>11 DEF Route
  <1> QED BY <1>2, <1>3, <1>9, <1>12 DEF RouteInv

LEMMA RouteFirstRead ==
  ASSUME Types, BreakInv, RouteInv, FirstRead
  PROVE  /\ RouteInv'
         /\ head_closed /\ FirstPops /\ remaining_reads # 0 => Len(segments) < 2
  <1>1. reader = "FIRST_READ"  BY FirstReadCases
  <1>2. head_closed /\ FirstPops /\ remaining_reads # 0 => Len(segments) < 2
    BY <1>1, SegmentsAtMostTwo
  <1>3. CASE remaining_reads = 0  BY <1>2, <1>3, RouteFirstReleased
  <1>4. CASE remaining_reads # 0
    <2>1. head_closed /\ FirstPops => Len(segments) < 2  BY <1>2, <1>4
    <2> QED BY <2>1, <1>2, <1>4, RouteFirstHeld
  <1> QED BY <1>3, <1>4

----
(* The route: a stream is read again.                                       *)

LEMMA HeldOne ==
  ASSUME Types, ring \in Ring, Holding, Len(segments) = 1, NEW p1 \in Points(ring), NEW p2 \in Points(ring),
         Path(ring, HeldBlocks, p1, p2)
  PROVE  Step(ring, Block(segments[1].vaddr, Align(segments[1].size)), p1, p2) /\ Before(p1, p2)
  <1>1. PICK b : b = Block(segments[1].vaddr, Align(segments[1].size))  OBVIOUS
  <1>2. HeldBlocks = <<b>>  BY <1>1, HeldIs
  <1>3. Path(ring, <<b>>, p1, p2)  BY <1>2
  <1>4. Step(ring, b, p1, p2) /\ Before(p1, p2)  BY <1>3, PathOne
  <1> QED BY <1>1, <1>4

\* The stream passes the end between its segments.
Passes(x, p1, p2) ==
  /\ x.at = seg_end(1) /\ segments[1].vaddr = p1.at /\ segments[2].vaddr = ring.base
  /\ x.at # ring.base /\ p1.lap = 0 /\ p2.lap = 1
  /\ p2.at = seg_end(2)

LEMMA HeldTwo ==
  ASSUME Types, BreakInv, reader = "REPLAY", ring \in Ring, Len(segments) = 2,
         NEW p1 \in Points(ring), NEW p2 \in Points(ring),
         Path(ring, HeldBlocks, p1, p2)
  PROVE  \E x \in Points(ring) : Passes(x, p1, p2)
  <1>1. PICK s, t : s = segments[1] /\ t = segments[2]  OBVIOUS
  <1>2. PICK a, m, b, n : a = s.vaddr /\ m = Align(s.size) /\ b = t.vaddr /\ n = Align(t.size)
    OBVIOUS
  <1>3. /\ a \in Nat /\ m \in Nat /\ b \in Nat /\ n \in Nat
        /\ Block(a, m) \in Blocks /\ Block(b, n) \in Blocks
        /\ seg_end(1) = a + m /\ seg_end(2) = b + n
    <2>1. 1 \in 1 .. Len(segments) /\ 2 \in 1 .. Len(segments)  OBVIOUS
    <2>2. s \in Segments /\ t \in Segments  BY <2>1, <1>1, SegmentFacts
    <2>3. a \in Nat /\ m \in Nat /\ b \in Nat /\ n \in Nat /\ Block(a, m) \in Blocks /\ Block(b, n) \in Blocks
      BY <2>2, <1>2, SegmentBlock
    <2>4. seg_end(1) = a + m /\ seg_end(2) = b + n  BY <1>1, <1>2 DEF seg_end
    <2> QED BY <2>3, <2>4
  <1>4. HeldBlocks = <<Block(a, m), Block(b, n)>>
    <2>1. Holding  BY DEF Holding
    <2> QED BY <2>1, <1>1, <1>2, HeldIs
  <1>5. b # a + m
    <2>1. Broken(segments[1], segments[2])  BY BreakIs
    <2> QED BY <2>1, <1>1, <1>2 DEF Broken
  <1>6. PICK x \in Points(ring) : /\ Step(ring, Block(a, m), p1, x) /\ Before(p1, x)
                                  /\ Step(ring, Block(b, n), x, p2) /\ Before(x, p2)
    <2>1. Path(ring, <<Block(a, m), Block(b, n)>>, p1, p2)  BY <1>4
    <2> QED BY <2>1, <1>3, PathTwo
  <1>7. x.at = a + m /\ p1.lap \in 0 .. 1 /\ (a # p1.at => x.lap = 1)  BY <1>3, <1>6, StepBroken
  <1>8. x.lap = 0 /\ p2.lap = 1 /\ b = ring.base /\ p2.at = b + n
    BY <1>3, <1>5, <1>6, <1>7, StepBroken
  <1>9. a = p1.at  BY <1>7, <1>8
  <1>10. p1.lap = 0  BY <1>6, <1>7, <1>8 DEF Before
  <1>11. Passes(x, p1, p2)  BY <1>1, <1>2, <1>3, <1>5, <1>7, <1>8, <1>9, <1>10 DEF Passes
  <1> QED BY <1>11

LEMMA ReplayIn ==
  ASSUME Types, BreakInv, RouteInv
  PROVE  ReplayFits
  <1> SUFFICES ASSUME reader = "REPLAY", Len(segments) = 2 PROVE seg_end(1) <= ring_end
    BY DEF ReplayFits
  <1>1. PICK p1, p2, p3, p4, p5 \in Points(ring) : Route(p1, p2, p3, p4, p5)  BY DEF RouteInv
  <1>2. ring \in Ring /\ Path(ring, HeldBlocks, p1, p2) /\ ring_end = ring.base + ring.size
    BY <1>1, RouteIs
  <1>3. PICK x \in Points(ring) : Passes(x, p1, p2)  BY <1>2, HeldTwo
  <1>4. x.at <= End(ring) /\ x.at = seg_end(1)  BY <1>2, <1>3, PointFacts DEF Passes
  <1> QED BY <1>2, <1>4 DEF End

\* What is read for the last time is the whole stream.
Releases(p1, p2) == Step(ring, ReadBlock', p1, p2) /\ Before(p1, p2)

LEMMA ReplayReleases ==
  ASSUME Types, BreakInv, Replay, remaining_reads = 1, Final, ring \in Ring,
         NEW p1 \in Points(ring), NEW p2 \in Points(ring), Path(ring, HeldBlocks, p1, p2)
  PROVE  Releases(p1, p2)
  <1>1. reader = "REPLAY" /\ ReadsAgain  BY ReplayCases
  <1>2. Holding  BY <1>1 DEF Holding
  <1>3. /\ read'.release = TRUE /\ read'.start = segments[1].vaddr /\ read'.span = stream_span
        /\ read'.end = IF wrapped THEN seg_end(2) ELSE seg_end(1)
    <2>1. read' = [vaddr   |-> segments[replay_seg + 1].vaddr,
              size    |-> segments[replay_seg + 1].size,
              last    |-> Final,
              release |-> remaining_reads = 1 /\ Final,
              start   |-> segments[1].vaddr,
              span    |-> stream_span,
              end     |-> IF wrapped THEN seg_end(2) ELSE seg_end(1)]
      BY <1>1 DEF ReadsAgain
    <2>2. (remaining_reads = 1 /\ Final) = TRUE  BY DEF Final
    <2> QED BY <2>1, <2>2
  <1>4. ReadBlock' = [release |-> TRUE, start |-> segments[1].vaddr, span |-> stream_span,
                      end |-> IF wrapped THEN seg_end(2) ELSE seg_end(1)]
    <2>1. ReadBlock' = [release |-> read'.release, start |-> read'.start, span |-> read'.span, end |-> read'.end]
      BY DEF ReadBlock
    <2> QED BY <2>1, <1>3
  <1>5. PICK l : l = Len(segments)  OBVIOUS
  <1>6. l \in 1 .. 2
    <2>1. segments \in Seq(Segments) /\ l <= 2 /\ replay_seg \in Nat /\ replay_seg < l /\ l \in Nat
      BY <1>1, <1>5 DEF Types, ReaderTypes
    <2> QED BY <2>1
  <1>7. \A i \in 1 .. l : /\ segments[i].vaddr \in Nat /\ Align(segments[i].size) \in Nat
                          /\ seg_end(i) = segments[i].vaddr + Align(segments[i].size)
    BY <1>5, SegmentFacts
  <1>8. CASE l = 1
    <2>1. ~wrapped  BY <1>5, <1>8 DEF wrapped
    <2>2. PICK a, m : a = segments[1].vaddr /\ m = Align(segments[1].size)  OBVIOUS
    <2>3. a \in Nat /\ m \in Nat /\ seg_end(1) = a + m  BY <2>2, <1>7, <1>8
    <2>4. stream_span = m  BY <2>1, <2>2, <2>3 DEF stream_span
    <2>5. ReadBlock' = Block(a, m)  BY <2>1, <2>2, <2>3, <2>4, <1>4 DEF Block
    <2>6. Step(ring, Block(a, m), p1, p2) /\ Before(p1, p2)  BY <2>2, <1>2, <1>5, <1>8, HeldOne
    <2> QED BY <2>5, <2>6 DEF Releases
  <1>9. CASE l = 2
    <2>1. wrapped  BY <1>5, <1>9 DEF wrapped
    <2>2. PICK x \in Points(ring) : Passes(x, p1, p2)  BY <1>1, <1>5, <1>9, HeldTwo
    <2>3. /\ x.at = seg_end(1) /\ segments[1].vaddr = p1.at /\ segments[2].vaddr = ring.base
          /\ x.at # ring.base /\ p1.lap = 0 /\ p2.lap = 1 /\ p2.at = seg_end(2)
      BY <2>2 DEF Passes
    <2>4. PICK a, m, b, n, z : /\ a = segments[1].vaddr /\ m = Align(segments[1].size)
                               /\ b = ring.base /\ n = Align(segments[2].size) /\ z = ring.size
      OBVIOUS
    <2>5. a \in Nat /\ m \in Nat /\ n \in Nat /\ seg_end(1) = a + m /\ seg_end(2) = b + n
      BY <2>3, <2>4, <1>7, <1>9
    <2>6. b \in Nat /\ z \in Nat /\ b <= a + m /\ a + m <= b + z /\ a + m # b
      <3>1. x.at = a + m /\ b <= x.at /\ x.at <= End(ring) /\ b \in Nat /\ z \in Nat
        BY <2>3, <2>4, <2>5, PointFacts
      <3> QED BY <3>1, <2>3, <2>4 DEF End
    <2>7. stream_span = m + (((b + z) - (a + m)) + n)
      <3>1. ring_end = b + z  BY <2>4 DEF ring_end
      <3>2. stream_span = Align(segments[1].size) + ((ring_end - seg_end(1)) + Align(segments[2].size))
        BY <2>1 DEF stream_span
      <3> QED BY <3>1, <3>2, <2>4, <2>5
    <2>8. PICK d : d = ReadBlock'  OBVIOUS
    <2>9. d.release = TRUE /\ d.start = a /\ d.span = m + (((b + z) - (a + m)) + n) /\ d.end = b + n
      BY <2>1, <2>4, <2>5, <2>7, <2>8, <1>4
    <2>10. d.end # d.start + d.span /\ d.end + z = d.start + d.span
      <3>1. a + (m + (((b + z) - (a + m)) + n)) = (b + z) + n  BY <2>5, <2>6
      <3>2. (b + n) + z = (b + z) + n /\ (b + n) # (b + z) + n  BY <2>5, <2>6
      <3> QED BY <3>1, <3>2, <2>9
    <2>11. PassesWithin(ring, d, p1, p2)  BY <2>3, <2>4, <2>9, <2>10 DEF PassesWithin
    <2>12. Step(ring, d, p1, p2)  BY <2>3, <2>5, <2>9, <2>11 DEF Step
    <2>13. Before(p1, p2)  BY <2>3 DEF Before
    <2> QED BY <2>8, <2>12, <2>13 DEF Releases
  <1> QED BY <1>6, <1>8, <1>9

LEMMA RouteReplay ==
  ASSUME Types, BreakInv, RouteInv, Replay
  PROVE  RouteInv'
  <1>1. /\ reader = "REPLAY" /\ read_valid = FALSE /\ read_valid' = TRUE /\ ReadsAgain
         /\ UNCHANGED <<writerVars, unreserved, streamVars, tailVars, extents, segments,
                 head_read, reads, requestVars, released_end, memory, streams, enqueued, output>>
    BY ReplayCases
  <1>2. UNCHANGED <<ring, writer, transfer_vaddr, free_bytes, pending>>
    BY <1>1 DEF writerVars, streamVars
  <1>3. PendingBlocks' = PendingBlocks /\ GrantBlocks' = GrantBlocks /\ Frontier' = Frontier /\ Start' = Start
    BY <1>1, <1>2, BlocksKept
  <1>4. read' \in ReadType
    <2>1. ReplayFits  BY ReplayIn
    <2>2. Types'  BY <2>1, ReplayTypes
    <2> QED BY <2>2 DEF Types, ReadTypes
  <1>5. PICK p1, p2, p3, p4, p5 \in Points(ring) : Route(p1, p2, p3, p4, p5)  BY DEF RouteInv
  <1>6. /\ ring \in Ring /\ Start \in Points(ring)
        /\ Path(ring, ReadBlocks, Start, p1) /\ Path(ring, HeldBlocks, p1, p2)
        /\ Path(ring, ExtentBlocks, p2, p3)
        /\ Path(ring, PendingBlocks, p3, p4) /\ Path(ring, GrantBlocks, p4, p5)
        /\ p5.at = Frontier
        /\ free_bytes + unreserved + (Position(ring, p5) - released_end) = ring.size
    BY <1>5, RouteIs
  <1>7. AllExtents' = AllExtents  BY <1>1 DEF AllExtents, tailVars
  <1>8. Consumed = 0 /\ reader' # "FIRST_READ"
    <2>1. reader' \in {"WAIT_FOR_STREAM", "REPLAY"}  BY <1>1 DEF ReadsAgain
    <2> QED BY <2>1, <1>1 DEF Consumed
  <1>9. Consumed' = 0  BY <1>8 DEF Consumed
  <1>10. ExtentBlocks' = ExtentBlocks  BY <1>7, <1>8, <1>9 DEF ExtentBlocks, RestBlocks
  <1>11. free_bytes' + unreserved' + (Position(ring, p5) - released_end') = ring.size
    BY <1>1, <1>2, <1>6
  <1>12. CASE remaining_reads = 1 /\ Final
    <2>1. reader' = "WAIT_FOR_STREAM"  BY <1>1, <1>12 DEF ReadsAgain
    <2>2. HeldBlocks' = <<>>  BY <2>1 DEF HeldBlocks, Holding
    <2>3. Path(ring, HeldBlocks', p2, p2)  BY <2>2, <1>6, PathNone
    <2>4. Step(ring, ReadBlock', p1, p2) /\ Before(p1, p2)
      <3>1. Releases(p1, p2)  BY <1>6, <1>12, ReplayReleases
      <3> QED BY <3>1 DEF Releases
    <2>5. Path(ring, ReadBlocks', Start, p2)
      <3>1. PICK x, b : x = ReadBlocks /\ b = ReadBlock'  OBVIOUS
      <3>2. x \in Seq(Blocks) /\ b \in Blocks /\ ReadBlocks' = Append(x, b)
        BY <3>1, <1>1, <1>4, ReadsMore
      <3>3. Path(ring, x, Start, p1) /\ Step(ring, b, p1, p2) /\ Before(p1, p2)  BY <3>1, <2>4, <1>6
      <3>4. Path(ring, Append(x, b), Start, p2)  BY <3>2, <3>3, <1>6, PathLast
      <3> QED BY <3>2, <3>4
    <2>6. Route(p2, p2, p3, p4, p5)'  BY <2>3, <2>5, <1>2, <1>3, <1>6, <1>9, <1>10, <1>11 DEF Route
    <2> QED BY <2>6, <1>2, <1>5 DEF RouteInv
  <1>13. CASE ~ (remaining_reads = 1 /\ Final)
    <2>1. reader' = "REPLAY" /\ ~read'.release
      <3>1. read'.release = (remaining_reads = 1 /\ Final)  BY <1>1 DEF ReadsAgain
      <3>2. reader' = "REPLAY"  BY <1>1, <1>13 DEF ReadsAgain
      <3> QED BY <3>1, <3>2, <1>13
    <2>2. HeldBlocks' = HeldBlocks  BY <2>1, <1>1 DEF HeldBlocks, Holding, RestBlocks
    <2>3. Path(ring, ReadBlocks', Start, p1)  BY <2>1, <1>1, <1>4, <1>6, ReadsHold
    <2>4. Route(p1, p2, p3, p4, p5)'  BY <2>2, <2>3, <1>2, <1>3, <1>6, <1>9, <1>10, <1>11 DEF Route
    <2> QED BY <2>4, <1>2, <1>5 DEF RouteInv
  <1> QED BY <1>12, <1>13

----
(* The route: a read is done, and what it read for the last time is         *)
(* released.                                                                *)

LEMMA ReadFirst ==
  ASSUME Types, reads # <<>>
  PROVE  /\ ReadBlocks # <<>> /\ Head(ReadBlocks) = Head(reads) /\ Head(reads) \in Blocks
         /\ reads' = Tail(reads) /\ UNCHANGED readVars => ReadBlocks' = Tail(ReadBlocks)
  <1>1. reads \in Seq(ReleaseType) /\ read \in ReadType /\ Blocks = ReleaseType
    BY DEF Types, ReadTypes, ReleaseType, Blocks
  <1>2. PICK x, y : x = reads /\ y = (IF read_valid THEN <<ReadBlock>> ELSE <<>>)  OBVIOUS
  <1>3. x \in Seq(Blocks) /\ y \in Seq(Blocks) /\ x # <<>>
    <2>1. ReadBlock \in Blocks  BY <1>1 DEF ReadType, ReadBlock, Blocks
    <2> QED BY <2>1, <1>1, <1>2
  <1>4. ReadBlocks = x \o y  BY <1>2 DEF ReadBlocks
  <1>5. x \o y # <<>> /\ Head(x \o y) = Head(x) /\ Tail(x \o y) = Tail(x) \o y /\ Head(x) \in Blocks
    BY <1>3
  <1>6. ASSUME reads' = Tail(reads), UNCHANGED readVars PROVE ReadBlocks' = Tail(x) \o y
    <2>1. read' = read /\ read_valid' = read_valid  BY <1>6 DEF readVars
    <2>2. ReadBlock' = ReadBlock  BY <2>1 DEF ReadBlock
    <2> QED BY <2>1, <2>2, <1>2, <1>6 DEF ReadBlocks
  <1> QED BY <1>2, <1>4, <1>5, <1>6

LEMMA ReleaseIn ==
  ASSUME Types, RouteInv, NEW r \in Blocks
  PROVE  ReleaseFits(r)
  <1>1. PICK p1, p2, p3, p4, p5 \in Points(ring) : Route(p1, p2, p3, p4, p5)  BY DEF RouteInv
  <1>2. released_end <= ring_end /\ released_end \in Nat /\ ring_end = ring.base + ring.size /\ ring.base \in Nat /\ ring.size \in Nat
    BY <1>1, RouteIs
  <1>3. PICK d, n : d = ring_end - released_end /\ n = r.span  OBVIOUS
  <1>4. d \in Nat /\ n \in Nat  BY <1>2, <1>3 DEF Blocks
  <1>5. released_bytes(r) = (IF r.start # released_end THEN d ELSE 0) + n
    BY <1>3 DEF released_bytes
  <1>6. released_bytes(r) \in Nat  BY <1>4, <1>5
  <1> QED BY <1>6 DEF ReleaseFits

\* The bytes that are released are those up to the end of the read.
LEMMA ReleasedBytes ==
  ASSUME Types, ring \in Ring, Start \in Points(ring), NEW r \in Blocks, r.release,
         NEW q \in Points(ring), Step(ring, r, Start, q)
  PROVE  Position(ring, q) = released_end + released_bytes(r) /\ q.at = r.end /\ released_bytes(r) \in Int
  <1>1. PICK a, n, e, b, z, l : a = r.start /\ n = r.span /\ e = r.end /\ b = ring.base /\ z = ring.size /\ l = released_end
    OBVIOUS
  <1>2. a \in Nat /\ n \in Nat /\ e \in Nat /\ b \in Nat /\ z \in Nat /\ l \in Nat
    BY <1>1 DEF Blocks, Ring, Types, ReadTypes
  <1>3. Start.at = l /\ Start.lap = 0  BY <1>1 DEF Start
  <1>4. ring_end = b + z  BY <1>1 DEF ring_end
  <1>5. released_bytes(r) = (IF a # l THEN (b + z) - l ELSE 0) + n  BY <1>1, <1>4 DEF released_bytes
  <1>6. q.at = e /\ (Plain(r, Start, q) \/ PassesWithin(ring, r, Start, q) \/ PassesBefore(ring, r, Start, q))
    BY <1>1 DEF Step
  <1>7. CASE Plain(r, Start, q)
    <2>1. a = l /\ q.lap = 0 /\ e = a + n  BY <1>1, <1>3, <1>7 DEF Plain
    <2>2. Position(ring, q) = e  BY <2>1, <1>6, PositionFacts
    <2>3. released_bytes(r) = 0 + n  BY <2>1, <1>5
    <2>4. e = l + (0 + n) /\ 0 + n \in Int  BY <2>1, <1>2
    <2> QED BY <2>2, <2>3, <2>4, <1>1, <1>6
  <1>8. CASE PassesWithin(ring, r, Start, q)
    <2>1. a = l /\ q.lap = 1 /\ e + z = a + n  BY <1>1, <1>3, <1>8 DEF PassesWithin
    <2>2. Position(ring, q) = e + z  BY <2>1, <1>1, <1>6, PositionFacts
    <2>3. released_bytes(r) = 0 + n  BY <2>1, <1>5
    <2>4. e + z = l + (0 + n) /\ 0 + n \in Int  BY <2>1, <1>2
    <2> QED BY <2>2, <2>3, <2>4, <1>1, <1>6
  <1>9. CASE PassesBefore(ring, r, Start, q)
    <2>1. a # l /\ a = b /\ q.lap = 1 /\ e = a + n  BY <1>1, <1>3, <1>9 DEF PassesBefore
    <2>2. Position(ring, q) = e + z  BY <2>1, <1>1, <1>6, PositionFacts
    <2>3. released_bytes(r) = ((b + z) - l) + n  BY <2>1, <1>5
    <2>4. e + z = l + (((b + z) - l) + n) /\ ((b + z) - l) + n \in Int  BY <2>1, <1>2
    <2> QED BY <2>2, <2>3, <2>4, <1>1, <1>6
  <1> QED BY <1>6, <1>7, <1>8, <1>9

LEMMA DownFacts ==
  ASSUME NEW g \in Ring, NEW p \in Points(g), p.lap = 1
  PROVE  /\ Down(p) \in Points(g) /\ Down(p).at = p.at
         /\ Position(g, Down(p)) = Position(g, p) - g.size
  <1>1. Down(p) \in Points(g) /\ Down(p).at = p.at /\ Down(p).lap = 0  BY DEF Down, Points
  <1>2. Position(g, Down(p)) = p.at /\ Position(g, p) = p.at + g.size  BY <1>1, PositionFacts
  <1>3. p.at \in Nat /\ g.size \in Nat  BY PointFacts
  <1>4. (p.at + g.size) - g.size = p.at  BY <1>3
  <1> QED BY <1>1, <1>2, <1>4

\* What a step of the StreamReader keeps.
ReceiveFrame ==
  /\ ring' = ring /\ free_bytes' = free_bytes /\ AllExtents' = AllExtents
  /\ HeldBlocks' = HeldBlocks /\ ExtentBlocks' = ExtentBlocks /\ Consumed' = Consumed
  /\ PendingBlocks' = PendingBlocks /\ GrantBlocks' = GrantBlocks /\ Frontier' = Frontier

LEMMA RouteReleases ==
  ASSUME Types, reads # <<>>, ReceiveFrame, ReadBlocks' = Tail(ReadBlocks), Head(reads).release,
         unreserved' = unreserved + released_bytes(Head(reads)), released_end' = Head(reads).end,
         RouteInv
  PROVE  RouteInv'
  <1>1. PICK p1, p2, p3, p4, p5 \in Points(ring) : Route(p1, p2, p3, p4, p5)  BY DEF RouteInv
  <1>2. /\ ring \in Ring /\ Start \in Points(ring) /\ released_end \in Nat /\ ring.size \in Nat
        /\ Path(ring, ReadBlocks, Start, p1) /\ Path(ring, HeldBlocks, p1, p2)
        /\ Path(ring, ExtentBlocks, p2, p3)
        /\ Path(ring, PendingBlocks, p3, p4) /\ Path(ring, GrantBlocks, p4, p5)
        /\ p5.at = Frontier
        /\ free_bytes + unreserved + (Position(ring, p5) - released_end) = ring.size
        /\ Consumed # 0 => AllExtents # <<>> /\ p2.at = Head(AllExtents).vaddr + Consumed
    BY <1>1, RouteIs
  <1>3. PICK r : r = Head(reads)  OBVIOUS
  <1>4. ReadBlocks # <<>> /\ Head(ReadBlocks) = r /\ r \in Blocks /\ ReadBlocks \in Seq(Blocks) /\ Tail(ReadBlocks) \in Seq(Blocks)
    <2>1. ReadBlocks # <<>> /\ Head(ReadBlocks) = r /\ r \in Blocks /\ ReadBlocks \in Seq(Blocks)
      BY <1>3, ReadFirst, BlockTypes
    <2> QED BY <2>1, TailOn
  <1>5. PICK q \in Points(ring) : Step(ring, r, Start, q) /\ Before(Start, q) /\ Path(ring, Tail(ReadBlocks), q, p1)
    BY <1>2, <1>4, PathFirst
  <1>6. Position(ring, q) = released_end + released_bytes(r) /\ q.at = r.end /\ released_bytes(r) \in Int
    BY <1>2, <1>3, <1>4, <1>5, ReleasedBytes
  <1>7. PICK f, u, l, z, k, d, n : /\ f = free_bytes /\ u = unreserved /\ l = released_end /\ z = ring.size
                                   /\ k = Position(ring, p5) /\ d = Position(ring, q) /\ n = released_bytes(r)
    OBVIOUS
  <1>8. /\ f \in Nat /\ u \in Nat /\ l \in Nat /\ z \in Nat /\ k \in Nat /\ d \in Nat /\ n \in Int
        /\ d = l + n /\ f + u + (k - l) = z
    <2>1. f \in Nat /\ u \in Nat  BY <1>7 DEF Types, WriterTypes
    <2>2. k \in Nat /\ d \in Nat  BY <1>2, <1>7, PositionFacts
    <2> QED BY <2>1, <2>2, <1>2, <1>6, <1>7
  <1>9. f + (u + n) + (k - d) = z  BY <1>8
  <1>10. /\ ring' = ring /\ free_bytes' = f /\ unreserved' = u + n /\ AllExtents' = AllExtents
         /\ HeldBlocks' = HeldBlocks /\ ExtentBlocks' = ExtentBlocks /\ Consumed' = Consumed
         /\ PendingBlocks' = PendingBlocks /\ GrantBlocks' = GrantBlocks /\ Frontier' = Frontier
         /\ released_end' = q.at
    BY <1>3, <1>6, <1>7 DEF ReceiveFrame
  <1>11. q.lap \in 0 .. 1  BY <1>2, PositionFacts
  <1>12. CASE q.lap = 0
    <2>1. Start' = q
      <3>1. Start' = [at |-> q.at, lap |-> 0]  BY <1>10 DEF Start
      <3> QED BY <3>1, <1>12 DEF Points
    <2>2. d = q.at  BY <1>2, <1>7, <1>12, PositionFacts
    <2>3. free_bytes' + unreserved' + (Position(ring, p5) - released_end') = ring.size
      BY <2>2, <1>7, <1>9, <1>10
    <2>4. Path(ring, ReadBlocks', q, p1)  BY <1>5
    <2>5. Route(p1, p2, p3, p4, p5)'  BY <2>1, <2>3, <2>4, <1>2, <1>10 DEF Route
    <2> QED BY <2>5, <1>1, <1>10 DEF RouteInv
  <1>13. CASE q.lap = 1
    <2>1. Path(ring, ReadBlocks', Down(q), Down(p1)) /\ p1.lap = 1
      <3>1. Path(ring, Tail(ReadBlocks), Down(q), Down(p1)) /\ p1.lap = 1
        BY <1>2, <1>4, <1>5, <1>13, PathDown
      <3> QED BY <3>1
    <2>2. /\ HeldBlocks \in Seq(Blocks) /\ ExtentBlocks \in Seq(Blocks)
          /\ PendingBlocks \in Seq(Blocks) /\ GrantBlocks \in Seq(Blocks)
      BY BlockTypes
    <2>3. Path(ring, HeldBlocks, Down(p1), Down(p2)) /\ p2.lap = 1  BY <2>1, <2>2, <1>2, PathDown
    <2>4. Path(ring, ExtentBlocks, Down(p2), Down(p3)) /\ p3.lap = 1  BY <2>2, <2>3, <1>2, PathDown
    <2>5. Path(ring, PendingBlocks, Down(p3), Down(p4)) /\ p4.lap = 1  BY <2>2, <2>4, <1>2, PathDown
    <2>6. Path(ring, GrantBlocks, Down(p4), Down(p5)) /\ p5.lap = 1  BY <2>2, <2>5, <1>2, PathDown
    <2>7. /\ Down(q) \in Points(ring) /\ Down(p1) \in Points(ring) /\ Down(p2) \in Points(ring)
          /\ Down(p3) \in Points(ring) /\ Down(p4) \in Points(ring) /\ Down(p5) \in Points(ring)
          /\ Down(p2).at = p2.at /\ Down(p5).at = p5.at
          /\ Position(ring, Down(p5)) = k - z /\ q.at = d - z
      <3>1. Down(q) \in Points(ring) /\ Down(q).at = q.at /\ Position(ring, Down(q)) = d - z
        BY <1>2, <1>7, <1>13, DownFacts
      <3>2. /\ Down(p1) \in Points(ring) /\ Down(p2) \in Points(ring) /\ Down(p2).at = p2.at
            /\ Down(p3) \in Points(ring) /\ Down(p4) \in Points(ring)
        BY <2>1, <2>3, <2>4, <2>5, <1>2, DownFacts
      <3>3. Down(p5) \in Points(ring) /\ Down(p5).at = p5.at /\ Position(ring, Down(p5)) = k - z
        BY <2>6, <1>2, <1>7, DownFacts
      <3>4. d = q.at + z /\ q.at \in Nat  BY <1>2, <1>7, <1>13, PositionFacts, PointFacts
      <3>5. q.at = d - z  BY <3>4, <1>8
      <3> QED BY <3>1, <3>2, <3>3, <3>5
    <2>8. Start' = Down(q)  BY <1>10 DEF Start, Down
    <2>9. free_bytes' + unreserved' + (Position(ring, Down(p5)) - released_end') = ring.size
      <3>1. (k - z) - (d - z) = k - d  BY <1>8
      <3> QED BY <3>1, <2>7, <1>7, <1>9, <1>10
    <2>10. Consumed' # 0 => AllExtents' # <<>> /\ Down(p2).at = Head(AllExtents').vaddr + Consumed'
      BY <2>7, <1>2, <1>10
    <2>11. Route(Down(p1), Down(p2), Down(p3), Down(p4), Down(p5))'
      <3>1. PICK s, s1, s2, s3, s4, s5 : /\ s = Down(q) /\ s1 = Down(p1) /\ s2 = Down(p2) /\ s3 = Down(p3)
                                         /\ s4 = Down(p4) /\ s5 = Down(p5)
        OBVIOUS
      <3>2. /\ Start' = s /\ s \in Points(ring)
            /\ Path(ring, ReadBlocks', s, s1) /\ Path(ring, HeldBlocks, s1, s2)
            /\ Path(ring, ExtentBlocks, s2, s3)
            /\ Path(ring, PendingBlocks, s3, s4) /\ Path(ring, GrantBlocks, s4, s5)
            /\ s5.at = Frontier
            /\ free_bytes' + unreserved' + (Position(ring, s5) - released_end') = ring.size
            /\ Consumed' # 0 => AllExtents' # <<>> /\ s2.at = Head(AllExtents').vaddr + Consumed'
        BY <3>1, <2>1, <2>3, <2>4, <2>5, <2>6, <2>7, <2>8, <2>9, <2>10, <1>2
      <3>3. Route(s1, s2, s3, s4, s5)'  BY <3>2, <1>10 DEF Route
      <3> QED BY <3>1, <3>3
    <2> QED BY <2>7, <2>11, <1>10 DEF RouteInv
  <1> QED BY <1>11, <1>12, <1>13

LEMMA RouteDrops ==
  ASSUME Types, reads # <<>>, ReceiveFrame, ReadBlocks' = Tail(ReadBlocks), ~Head(reads).release,
         unreserved' = unreserved, released_end' = released_end, RouteInv
  PROVE  RouteInv'
  <1>1. PICK p1, p2, p3, p4, p5 \in Points(ring) : Route(p1, p2, p3, p4, p5)  BY DEF RouteInv
  <1>2. /\ ring \in Ring /\ Start \in Points(ring)
        /\ Path(ring, ReadBlocks, Start, p1) /\ Path(ring, HeldBlocks, p1, p2)
        /\ Path(ring, ExtentBlocks, p2, p3)
        /\ Path(ring, PendingBlocks, p3, p4) /\ Path(ring, GrantBlocks, p4, p5)
        /\ p5.at = Frontier
        /\ free_bytes + unreserved + (Position(ring, p5) - released_end) = ring.size
        /\ Consumed # 0 => AllExtents # <<>> /\ p2.at = Head(AllExtents).vaddr + Consumed
    BY <1>1, RouteIs
  <1>3. ReadBlocks # <<>> /\ Head(ReadBlocks) = Head(reads) /\ ReadBlocks \in Seq(Blocks)
    BY ReadFirst, BlockTypes
  <1>4. PICK q \in Points(ring) : Step(ring, Head(reads), Start, q) /\ Path(ring, Tail(ReadBlocks), q, p1)
    BY <1>2, <1>3, PathFirst
  <1>5. q = Start  BY <1>4 DEF Step
  <1>6. Start' = Start  BY BlocksKept
  <1>7. Route(p1, p2, p3, p4, p5)'  BY <1>2, <1>4, <1>5, <1>6 DEF Route, ReceiveFrame
  <1> QED BY <1>1, <1>7 DEF RouteInv, ReceiveFrame

LEMMA RouteReceive ==
  ASSUME Types, OwnerInv, RouteInv, Receive
  PROVE  /\ RouteInv' /\ Types' /\ Answers /\ reads # <<>>
         /\ UNCHANGED <<writerVars, streamVars, tailVars, extents, replayVars, head_read,
                 readVars, request, memory, streams, enqueued>>
  <1>1. outstanding # <<>>  BY DEF Receive
  <1>2. reads # <<>>  BY <1>1, OwnerReads
  <1>3. ReleaseFits(Head(reads))  BY <1>2, ReadFirst, ReleaseIn
  <1>4. /\ Types' /\ Answers
        /\ UNCHANGED <<writerVars, streamVars, tailVars, extents, replayVars, head_read,
                 readVars, request, memory, streams, enqueued>>
    BY <1>2, <1>3, ReceiveTypes
  <1>5. UNCHANGED <<ring, writer, transfer_vaddr, free_bytes, pending, reader, remaining_reads, segments>>
    BY <1>4 DEF writerVars, streamVars, replayVars
  <1>6. AllExtents' = AllExtents  BY <1>4 DEF AllExtents, tailVars
  <1>7. HeldBlocks' = HeldBlocks /\ ExtentBlocks' = ExtentBlocks /\ Consumed' = Consumed
    BY <1>4, <1>5, <1>6, BlocksKept
  <1>8. PendingBlocks' = PendingBlocks /\ GrantBlocks' = GrantBlocks /\ Frontier' = Frontier
    BY <1>5, BlocksKept
  <1>9. ReceiveFrame  BY <1>5, <1>6, <1>7, <1>8 DEF ReceiveFrame
  <1>10. RouteInv'
    <2>1. /\ Head(outstanding).buffer_end => reads' = Tail(reads)
          /\ ~Head(outstanding).buffer_end => reads' = reads
          /\ \/ Head(outstanding).buffer_end /\ Head(reads).release
                /\ unreserved' = unreserved + released_bytes(Head(reads)) /\ released_end' = Head(reads).end
             \/ ~ (Head(outstanding).buffer_end /\ Head(reads).release)
                /\ unreserved' = unreserved /\ released_end' = released_end
      BY <1>4 DEF Answers
    <2>2. CASE Head(outstanding).buffer_end
      <3>1. ReadBlocks' = Tail(ReadBlocks)  BY <2>1, <2>2, <1>2, <1>4, ReadFirst
      <3>2. CASE Head(reads).release
        <4>1. unreserved' = unreserved + released_bytes(Head(reads)) /\ released_end' = Head(reads).end
          BY <2>1, <2>2, <3>2
        <4> QED BY <4>1, <3>1, <3>2, <1>2, <1>9, RouteReleases
      <3>3. CASE ~Head(reads).release
        <4>1. unreserved' = unreserved /\ released_end' = released_end  BY <2>1, <2>2, <3>3
        <4> QED BY <4>1, <3>1, <3>3, <1>2, <1>9, RouteDrops
      <3> QED BY <3>2, <3>3
    <2>3. CASE ~Head(outstanding).buffer_end
      <3>1. reads' = reads /\ unreserved' = unreserved /\ released_end' = released_end
        BY <2>1, <2>3
      <3>2. UNCHANGED <<writerVars, unreserved, pending, reader, remaining_reads, segments, head_read,
                     readVars, reads, released_end>>
        BY <3>1, <1>4, <1>5
      <3> QED BY <3>2, <1>6, RouteKept
    <2> QED BY <2>2, <2>3
  <1> QED BY <1>2, <1>4, <1>10

----
(* The invariant of the replay buffer.                                      *)

LEMMA InvInit == Init => Inv
  <1> SUFFICES ASSUME Init PROVE Inv  OBVIOUS
  <1>1. /\ ring = [base |-> 0, size |-> 0] /\ writer = "ALLOCATE" /\ transfer_vaddr = 0
        /\ free_bytes = 0 /\ unreserved = 0 /\ pending = <<>>
        /\ tail_valid = FALSE /\ extents = <<>>
        /\ reader = "WAIT_FOR_STREAM" /\ read_valid = FALSE
        /\ reads = <<>> /\ released_end = 0
        /\ request = [vaddr |-> 0, remaining |-> 0, last |-> FALSE] /\ outstanding = <<>>
    BY DEF Init
  <1>2. Types  BY InitTypes
  <1>3. OwnerInv
    <2>1. PICK o, f : o = outstanding /\ f = [i \in 1 .. 1 |-> 1]  OBVIOUS
    <2>2. o = <<>> /\ Len(o) = 0 /\ f \in [1 .. 1 -> Nat \ {0}] /\ f[1] = 1  BY <2>1, <1>1
    <2>3. \A i \in 1 .. 1 : \A j \in i .. 1 : f[i] <= f[j]
      <3>1. ASSUME NEW i \in 1 .. 1, NEW j \in i .. 1 PROVE f[i] <= f[j]
        <4>1. i = 1 /\ j = 1  OBVIOUS
        <4> QED BY <4>1, <2>2
      <3> QED BY <3>1
    <2>4. Owns(f, o, 1)  BY <2>2, <2>3 DEF Owns
    <2>5. Working = 1
      <3>1. PICK x, n : x = reads /\ n = request.remaining  OBVIOUS
      <3>2. x = <<>> /\ Len(x) = 0 /\ n = 0  BY <3>1, <1>1
      <3>3. Working = 0 + 1  BY <3>1, <3>2 DEF Working, One
      <3> QED BY <3>3
    <2>6. Owns(f, outstanding, Working)  BY <2>1, <2>4, <2>5
    <2> QED BY <2>6, <1>1, <1>2, OwnerIs
  <1>4. AllExtents = <<>>  BY <1>1 DEF AllExtents
  <1>5. BreakInv
    <2>1. HeldExtents = <<>>  BY <1>1 DEF HeldExtents
    <2>2. PICK u : u = Unread  OBVIOUS
    <2>3. u = <<>> /\ Len(u) = 0  BY <2>1, <2>2, <1>4 DEF Unread
    <2>4. Breaks(u)  BY <2>3 DEF Breaks
    <2> QED BY <2>2, <2>3, <2>4, <1>1 DEF BreakInv, Ended
  <1>6. RouteInv
    <2>1. ring \in Ring /\ ring.base = 0 /\ ring.size = 0  BY <1>1 DEF Ring
    <2>2. PICK g, p : g = ring /\ p = [at |-> 0, lap |-> 0]  OBVIOUS
    <2>3. p \in Points(g) /\ p.at = 0 /\ p.lap = 0  BY <2>1, <2>2 DEF Points, End
    <2>4. Start = p  BY <2>2, <1>1 DEF Start
    <2>5. ReadBlocks = <<>> /\ HeldBlocks = <<>> /\ GrantBlocks = <<>> /\ Consumed = 0 /\ Frontier = 0
      BY <1>1 DEF ReadBlocks, HeldBlocks, Holding, GrantBlocks, Consumed, Frontier
    <2>6. ExtentBlocks = <<>>  BY <1>4, NoBlocks DEF ExtentBlocks
    <2>7. PendingBlocks = <<>>  BY <1>1, NoBlocks DEF PendingBlocks
    <2>8. Path(g, <<>>, p, p)  BY <2>1, <2>2, <2>3, PathNone
    <2>9. free_bytes + unreserved + (Position(g, p) - released_end) = g.size
      <3>1. Position(g, p) = 0  BY <2>1, <2>2, <2>3, PositionFacts
      <3> QED BY <3>1, <2>1, <2>2, <1>1
    <2>10. Route(p, p, p, p, p)  BY <2>2, <2>3, <2>4, <2>5, <2>6, <2>7, <2>8, <2>9 DEF Route
    <2> QED BY <2>2, <2>3, <2>10 DEF RouteInv
  <1> QED BY <1>2, <1>3, <1>5, <1>6 DEF Inv

\* Actions that leave the reader's work and the outstanding transfers alone.
LEMMA InvWriter ==
  ASSUME Inv, (\E r \in Rings : Configure(r)) \/ Grant \/ Issue \/ Unreserve
  PROVE  Inv'
  <1>1. Types /\ OwnerInv /\ BreakInv /\ RouteInv  BY DEF Inv
  <1>2. ASSUME NEW r \in Rings, Configure(r) PROVE Inv'
    <2>1. Types'  BY <1>1, <1>2, ConfigureTypes
    <2>2. UNCHANGED <<streamVars, tailVars, extents, replayVars, reads, requestVars>>
      BY <1>2 DEF Configure
    <2>3. OwnerInv'  BY <2>2, <1>1, OwnerKept
    <2>4. BreakInv'
      <3>1. UNCHANGED <<tailVars, extents, reader, remaining_reads, segments, pending>>
        BY <2>2 DEF streamVars, replayVars
      <3> QED BY <3>1, <1>1, BreakKept
    <2>5. RouteInv'  BY <1>1, <1>2, RouteConfigure
    <2> QED BY <2>1, <2>3, <2>4, <2>5 DEF Inv
  <1>3. ASSUME Grant PROVE Inv'
    <2>1. GrantFits
      <3>1. writer = "ALLOCATE"  BY <1>3 DEF Grant
      <3> QED BY <3>1, <1>1, RouteInGrant
    <2>2. Types'  BY <2>1, <1>1, <1>3, GrantTypes
    <2>3. UNCHANGED <<streamVars, tailVars, extents, replayVars, reads, requestVars>>
      BY <1>3 DEF Grant
    <2>4. OwnerInv'  BY <2>3, <1>1, OwnerKept
    <2>5. BreakInv'
      <3>1. UNCHANGED <<tailVars, extents, reader, remaining_reads, segments, pending>>
        BY <2>3 DEF streamVars, replayVars
      <3> QED BY <3>1, <1>1, BreakKept
    <2>6. RouteInv'  BY <1>1, <1>3, RouteGrant
    <2> QED BY <2>2, <2>4, <2>5, <2>6 DEF Inv
  <1>4. ASSUME Issue PROVE Inv'
    <2>1. Types'  BY <1>1, <1>4, IssueTypes
    <2>2. UNCHANGED <<reads, requestVars>>  BY <1>4 DEF Issue
    <2>3. OwnerInv'  BY <2>2, <1>1, OwnerKept
    <2>4. BreakInv'  BY <1>1, <1>4, BreakIssue
    <2>5. RouteInv'  BY <1>1, <1>4, RouteIssue
    <2> QED BY <2>1, <2>3, <2>4, <2>5 DEF Inv
  <1>5. ASSUME Unreserve PROVE Inv'
    <2>1. Types'  BY <1>1, <1>5, UnreserveTypes
    <2>2. UNCHANGED <<streamVars, tailVars, extents, replayVars, reads, requestVars>>
      BY <1>5 DEF Unreserve
    <2>3. OwnerInv'  BY <2>2, <1>1, OwnerKept
    <2>4. BreakInv'
      <3>1. UNCHANGED <<tailVars, extents, reader, remaining_reads, segments, pending>>
        BY <2>2 DEF streamVars, replayVars
      <3> QED BY <3>1, <1>1, BreakKept
    <2>5. RouteInv'  BY <1>1, <1>5, RouteUnreserve
    <2> QED BY <2>1, <2>3, <2>4, <2>5 DEF Inv
  <1> QED BY <1>2, <1>3, <1>4, <1>5

LEMMA InvExtents ==
  ASSUME Inv, Link \/ CloseTail \/ MoveTail \/ TakeNumReads
  PROVE  Inv'
  <1>1. Types /\ OwnerInv /\ BreakInv /\ RouteInv  BY DEF Inv
  <1>2. UNCHANGED <<reads, requestVars>>  BY DEF Link, CloseTail, MoveTail, TakeNumReads
  <1>3. OwnerInv'  BY <1>1, <1>2, OwnerKept
  <1>4. ASSUME Link PROVE Inv'
    <2>1. Types' /\ BreakInv' /\ RouteInv'  BY <1>1, <1>4, LinkTypes, BreakLink, RouteLink
    <2> QED BY <2>1, <1>3 DEF Inv
  <1>5. ASSUME CloseTail PROVE Inv'
    <2>1. Types' /\ BreakInv' /\ RouteInv'
      BY <1>1, <1>5, CloseTailTypes, BreakCloseTail, RouteCloseTail
    <2> QED BY <2>1, <1>3 DEF Inv
  <1>6. ASSUME MoveTail PROVE Inv'
    <2>1. Types' /\ BreakInv' /\ RouteInv'
      BY <1>1, <1>6, MoveTailTypes, BreakMoveTail, RouteMoveTail
    <2> QED BY <2>1, <1>3 DEF Inv
  <1>7. ASSUME TakeNumReads PROVE Inv'
    <2>1. Types' /\ BreakInv' /\ RouteInv'
      BY <1>1, <1>7, TakeNumReadsTypes, BreakTakeNumReads, RouteTakeNumReads
    <2> QED BY <2>1, <1>3 DEF Inv
  <1> QED BY <1>4, <1>5, <1>6, <1>7

LEMMA InvReads ==
  ASSUME Inv, FirstRead \/ Replay
  PROVE  Inv'
  <1>1. Types /\ OwnerInv /\ BreakInv /\ RouteInv  BY DEF Inv
  <1>2. UNCHANGED <<reads, requestVars>>  BY DEF FirstRead, Replay
  <1>3. OwnerInv'  BY <1>1, <1>2, OwnerKept
  <1>4. ASSUME FirstRead PROVE Inv'
    <2>1. RouteInv' /\ (head_closed /\ FirstPops /\ remaining_reads # 0 => Len(segments) < 2)
      BY <1>1, <1>4, RouteFirstRead
    <2>2. Types'  BY <1>1, <1>4, FirstReadTypes
    <2>3. BreakInv'  BY <2>1, <1>1, <1>4, BreakFirstRead
    <2> QED BY <2>1, <2>2, <2>3, <1>3 DEF Inv
  <1>5. ASSUME Replay PROVE Inv'
    <2>1. RouteInv' /\ BreakInv' /\ ReplayFits  BY <1>1, <1>5, RouteReplay, BreakReplay, ReplayIn
    <2>2. Types'  BY <2>1, <1>1, <1>5, ReplayTypes
    <2> QED BY <2>1, <2>2, <1>3 DEF Inv
  <1> QED BY <1>4, <1>5

LEMMA InvStreamReader ==
  ASSUME Inv, IssueRead \/ RequestTransfer \/ Receive
  PROVE  Inv'
  <1>1. Types /\ OwnerInv /\ BreakInv /\ RouteInv  BY DEF Inv
  <1>2. ASSUME IssueRead PROVE Inv'
    <2>1. Types' /\ Takes /\ ReadBlock \in ReleaseType
           /\ UNCHANGED <<writerVars, unreserved, streamVars, tailVars, extents, replayVars,
                 head_read, read, released_end, memory, streams, enqueued, output>>
      BY <1>1, <1>2, IssueReadTypes
    <2>2. UNCHANGED <<tailVars, extents, reader, remaining_reads, segments, pending>>
      BY <2>1 DEF streamVars, replayVars
    <2>3. BreakInv'  BY <2>2, <1>1, BreakKept
    <2>4. OwnerInv'  BY <2>1, <1>1, OwnerTakes
    <2>5. RouteInv'  BY <1>1, <1>2, RouteIssueRead
    <2> QED BY <2>1, <2>3, <2>4, <2>5 DEF Inv
  <1>3. ASSUME RequestTransfer PROVE Inv'
    <2>1. Types' /\ (\E q : Asks(q))
           /\ UNCHANGED <<writerVars, unreserved, streamVars, tailVars, extents, replayVars,
                 head_read, readVars, reads, released_end, memory, streams, enqueued, output>>
      BY <1>1, <1>3, RequestTransferTypes
    <2>2. UNCHANGED <<tailVars, extents, reader, remaining_reads, segments, pending>>
      BY <2>1 DEF streamVars, replayVars
    <2>3. BreakInv'  BY <2>2, <1>1, BreakKept
    <2>4. OwnerInv'  BY <2>1, <1>1, OwnerAsks
    <2>5. RouteInv'  BY <1>1, <1>3, RouteRequestTransfer
    <2> QED BY <2>1, <2>3, <2>4, <2>5 DEF Inv
  <1>4. ASSUME Receive PROVE Inv'
    <2>1. /\ RouteInv' /\ Types' /\ Answers /\ reads # <<>>
          /\ UNCHANGED <<writerVars, streamVars, tailVars, extents, replayVars, head_read,
                 readVars, request, memory, streams, enqueued>>
      BY <1>1, <1>4, RouteReceive
    <2>2. UNCHANGED <<tailVars, extents, reader, remaining_reads, segments, pending>>
      BY <2>1 DEF streamVars, replayVars
    <2>3. BreakInv'  BY <2>2, <1>1, BreakKept
    <2>4. OwnerInv'  BY <2>1, <1>1, OwnerAnswers
    <2> QED BY <2>1, <2>3, <2>4 DEF Inv
  <1> QED BY <1>2, <1>3, <1>4

LEMMA InvNext == Inv /\ [Next]_vars => Inv'
  <1> SUFFICES ASSUME Inv, [Next]_vars PROVE Inv'  OBVIOUS
  <1>1. CASE UNCHANGED vars
    <2>1. Types /\ OwnerInv /\ BreakInv /\ RouteInv  BY DEF Inv
    <2>2. UNCHANGED <<writerVars, unreserved, streamVars, tailVars, extents, replayVars, head_read,
                      readVars, reads, requestVars, released_end, memory, streams, enqueued, output>>
      BY <1>1 DEF vars
    <2>3. Types'
      <3>1. UNCHANGED reader  BY <2>2 DEF replayVars
      <3> QED BY <2>1, <2>2, <3>1, KeepTypes DEF Types
    <2>4. OwnerInv'  BY <2>1, <2>2, OwnerKept
    <2>5. BreakInv'
      <3>1. UNCHANGED <<tailVars, extents, reader, remaining_reads, segments, pending>>
        BY <2>2 DEF streamVars, replayVars
      <3> QED BY <3>1, <2>1, BreakKept
    <2>6. RouteInv'  BY <2>1, <1>1, RouteStutters
    <2> QED BY <2>3, <2>4, <2>5, <2>6 DEF Inv
  <1>2. CASE Next  BY <1>2, InvWriter, InvExtents, InvReads, InvStreamReader DEF Next, ConfigureRing
  <1> QED BY <1>1, <1>2

LEMMA InvAlways == SafeSpec => []Inv
  BY InvInit, InvNext, PTL DEF SafeSpec

\* Where the way ends is not before where it starts.
LEMMA EndsAfterStart ==
  ASSUME Types, RouteInv
  PROVE  free_bytes + unreserved <= ring.size /\ free_bytes \in Nat /\ unreserved \in Nat
  <1>1. PICK p1, p2, p3, p4, p5 \in Points(ring) : Route(p1, p2, p3, p4, p5)  BY DEF RouteInv
  <1>2. /\ ring \in Ring /\ Start \in Points(ring) /\ released_end \in Nat /\ ring.base \in Nat /\ ring.size \in Nat
        /\ released_end <= ring_end /\ ring_end = ring.base + ring.size
        /\ Path(ring, ReadBlocks, Start, p1) /\ Path(ring, HeldBlocks, p1, p2)
        /\ Path(ring, ExtentBlocks, p2, p3)
        /\ Path(ring, PendingBlocks, p3, p4) /\ Path(ring, GrantBlocks, p4, p5)
        /\ free_bytes + unreserved + (Position(ring, p5) - released_end) = ring.size
    BY <1>1, RouteIs
  <1>3. Before(Start, p1) /\ Before(p1, p2) /\ Before(p2, p3) /\ Before(p3, p4) /\ Before(p4, p5)
    <2>1. /\ ReadBlocks \in Seq(Blocks) /\ HeldBlocks \in Seq(Blocks) /\ ExtentBlocks \in Seq(Blocks)
          /\ PendingBlocks \in Seq(Blocks) /\ GrantBlocks \in Seq(Blocks)
      BY BlockTypes
    <2> QED BY <2>1, <1>2, PathEnds
  <1>4. Before(Start, p5)
    <2>1. Before(Start, p2)  BY <1>2, <1>3, BeforeOn
    <2>2. Before(Start, p3)  BY <2>1, <1>2, <1>3, BeforeOn
    <2>3. Before(Start, p4)  BY <2>2, <1>2, <1>3, BeforeOn
    <2> QED BY <2>3, <1>2, <1>3, BeforeOn
  <1>5. Start.at = released_end /\ Start.lap = 0  BY DEF Start
  <1>6. p5.at \in Nat /\ p5.lap \in 0 .. 1 /\ ring.base <= p5.at  BY <1>2, PointFacts
  <1>7. released_end <= Position(ring, p5) /\ Position(ring, p5) \in Nat
    <2>1. CASE p5.lap = 0
      <3>1. Position(ring, p5) = p5.at  BY <2>1, <1>2, PositionFacts
      <3> QED BY <3>1, <2>1, <1>4, <1>5, <1>6 DEF Before
    <2>2. CASE p5.lap = 1
      <3>1. Position(ring, p5) = p5.at + ring.size  BY <2>2, <1>2, PositionFacts
      <3>2. PICK a, b, l, z : a = p5.at /\ b = ring.base /\ l = released_end /\ z = ring.size
        OBVIOUS
      <3>3. a \in Nat /\ b \in Nat /\ l \in Nat /\ z \in Nat /\ l <= b + z /\ b <= a
        BY <3>2, <1>2, <1>6
      <3>4. l <= a + z /\ a + z \in Nat  BY <3>3
      <3> QED BY <3>1, <3>2, <3>4
    <2> QED BY <2>1, <2>2, <1>6
  <1>8. free_bytes \in Nat /\ unreserved \in Nat  BY DEF Types, WriterTypes
  <1>9. PICK f, u, k, l, z : f = free_bytes /\ u = unreserved /\ k = Position(ring, p5) /\ l = released_end /\ z = ring.size
    OBVIOUS
  <1>10. f \in Nat /\ u \in Nat /\ k \in Nat /\ l \in Nat /\ z \in Nat /\ l <= k /\ f + u + (k - l) = z
    BY <1>2, <1>7, <1>8, <1>9
  <1>11. f + u <= z  BY <1>10
  <1> QED BY <1>8, <1>9, <1>11

LEMMA SeqWithin ==
  ASSUME NEW R, NEW T, \A r \in R : r \in T, NEW x \in Seq(R)
  PROVE  x \in Seq(T)
  <1>1. PICK n : n = Len(x)  OBVIOUS
  <1>2. n \in Nat /\ x \in [1 .. n -> R]  BY <1>1
  <1>3. x \in [1 .. n -> T]  BY <1>2
  <1> QED BY <1>2, <1>3

LEMMA InvTypeOK == Inv => TypeOK
  <1> SUFFICES ASSUME Inv PROVE TypeOK  OBVIOUS
  <1>1. Types /\ RouteInv  BY DEF Inv
  <1>2. WriterTypes /\ StreamTypes /\ TailTypes /\ ReaderTypes /\ HeadRead /\ ReadTypes /\ RequestTypes
    BY <1>1 DEF Types
  <1>3. /\ ring \in [base : Nat, size : Nat] /\ configured \in BOOLEAN
        /\ writer \in {"ALLOCATE", "WRITE"} /\ transfer_vaddr \in Nat
    BY <1>2 DEF WriterTypes, Ring
  <1>4. free_bytes \in Nat /\ unreserved \in Nat /\ free_bytes + unreserved <= ring.size
    BY <1>1, EndsAfterStart
  <1>5. pending \in Seq([vaddr : Nat, size : Nat, last : BOOLEAN, stream : Nat, offset : Nat])
    <2>1. PICK T : T = [vaddr : Nat, size : Nat, last : BOOLEAN, stream : Nat, offset : Nat]
      OBVIOUS
    <2>2. \A t \in Transfers : t \in T  BY <2>1 DEF Transfers
    <2>3. pending \in Seq(Transfers)  BY <1>2 DEF StreamTypes
    <2>4. pending \in Seq(T)  BY <2>2, <2>3, SeqWithin
    <2> QED BY <2>1, <2>4
  <1>6. written \in 0 .. Len(streams) /\ offset \in Nat  BY <1>2 DEF StreamTypes
  <1>7. tail \in Extent /\ tail_valid \in BOOLEAN /\ tail_closed \in BOOLEAN
    BY <1>2 DEF TailTypes, Extents
  <1>8. extents \in Seq(Extent)  BY <1>1, UnreadFacts
  <1>9. /\ reader \in {"WAIT_FOR_STREAM", "FIRST_READ", "REPLAY"}
        /\ remaining_reads \in Nat
        /\ segments \in Seq([vaddr : Nat, size : Nat]) /\ replay_seg \in 0 .. 1
        /\ enqueued \in 0 .. Len(streams)
    BY <1>2 DEF ReaderTypes, Segments
  <1>10. head_read \in Nat  BY <1>2, AlignAligned DEF HeadRead
  <1>11. read \in ReadType /\ read_valid \in BOOLEAN /\ reads \in Seq(ReleaseType) /\ released_end \in Nat
    BY <1>2 DEF ReadTypes
  <1>12. /\ request \in [vaddr : Nat, remaining : Nat, last : BOOLEAN]
         /\ outstanding \in Seq([vaddr : Nat, len : 0 .. TRANSFER, buffer_end : BOOLEAN,
                          buffer_last : BOOLEAN])
    BY <1>2 DEF RequestTypes, Requests
  <1> QED BY <1>3, <1>4, <1>5, <1>6, <1>7, <1>8, <1>9, <1>10, <1>11, <1>12 DEF TypeOK

\* The way there is when all streams were read.
LEMMA InvNoLeaks == Inv => NoMemoryLeaks
  <1> SUFFICES ASSUME Inv, configured, Idle
               PROVE  free_bytes + unreserved
                        + (IF writer = "WRITE"
                             THEN TRANSFER + (IF transfer_vaddr # released_end THEN ring_end - released_end ELSE 0)
                             ELSE 0)
                      = ring.size
    BY DEF NoMemoryLeaks
  <1>1. Types /\ RouteInv  BY DEF Inv
  <1>2. /\ pending = <<>> /\ ~tail_valid /\ extents = <<>>
        /\ reader = "WAIT_FOR_STREAM" /\ ~read_valid /\ reads = <<>>
    BY DEF Idle
  <1>3. PICK p1, p2, p3, p4, p5 \in Points(ring) : Route(p1, p2, p3, p4, p5)  BY <1>1 DEF RouteInv
  <1>4. /\ ring \in Ring /\ Start \in Points(ring) /\ released_end \in Nat /\ ring.base \in Nat /\ ring.size \in Nat
        /\ released_end <= ring_end /\ ring_end = ring.base + ring.size
        /\ Path(ring, ReadBlocks, Start, p1) /\ Path(ring, HeldBlocks, p1, p2)
        /\ Path(ring, ExtentBlocks, p2, p3)
        /\ Path(ring, PendingBlocks, p3, p4) /\ Path(ring, GrantBlocks, p4, p5)
        /\ free_bytes + unreserved + (Position(ring, p5) - released_end) = ring.size
    BY <1>1, <1>3, RouteIs
  <1>5. AllExtents = <<>>  BY <1>2 DEF AllExtents
  <1>6. ReadBlocks = <<>> /\ HeldBlocks = <<>>  BY <1>2 DEF ReadBlocks, HeldBlocks, Holding
  <1>7. ExtentBlocks = <<>> /\ PendingBlocks = <<>>
    BY <1>2, <1>5, NoBlocks DEF ExtentBlocks, PendingBlocks
  <1>8. p4 = Start  BY <1>4, <1>6, <1>7, PathNone
  <1>9. Start.at = released_end /\ Start.lap = 0  BY DEF Start
  <1>10. PICK f, u, k, l, b, z : /\ f = free_bytes /\ u = unreserved /\ k = Position(ring, p5) /\ l = released_end
                                 /\ b = ring.base /\ z = ring.size
    OBVIOUS
  <1>11. /\ f \in Nat /\ u \in Nat /\ k \in Nat /\ l \in Nat /\ b \in Nat /\ z \in Nat /\ f + u + (k - l) = z
         /\ ring_end = b + z /\ TRANSFER \in Nat /\ transfer_vaddr \in Nat
    <2>1. f \in Nat /\ u \in Nat /\ transfer_vaddr \in Nat  BY <1>1, <1>10 DEF Types, WriterTypes
    <2>2. k \in Nat /\ TRANSFER \in Nat  BY <1>4, <1>10, PositionFacts, Sizes
    <2> QED BY <2>1, <2>2, <1>4, <1>10
  <1>12. CASE writer # "WRITE"
    <2>1. p5 = Start  BY <1>4, <1>8, <1>12, PathNone DEF GrantBlocks
    <2>2. k = l  BY <2>1, <1>4, <1>9, <1>10, PositionFacts
    <2>3. f + u + 0 = z  BY <2>2, <1>11
    <2> QED BY <2>3, <1>10, <1>12
  <1>13. CASE writer = "WRITE"
    <2>1. PICK v, T : v = transfer_vaddr /\ T = TRANSFER  OBVIOUS
    <2>2. v \in Nat /\ T \in Nat  BY <2>1, <1>11
    <2>3. Step(ring, Block(v, T), Start, p5)
      <3>1. GrantBlocks = <<Block(v, T)>>  BY <2>1, <1>13 DEF GrantBlocks
      <3> QED BY <3>1, <1>4, <1>8, PathOne
    <2>4. /\ p5.at = v + T
          /\ v # l => p5.lap = 1 /\ v = b
          /\ v = l => p5.lap = 0
      BY <2>2, <2>3, <1>4, <1>9, <1>10, StepBroken
    <2>5. f + u + (T + (IF v # l THEN (b + z) - l ELSE 0)) = z
      <3>1. CASE v = l
        <4>1. k = l + T  BY <2>4, <3>1, <1>4, <1>10, PositionFacts
        <4> QED BY <4>1, <3>1, <2>2, <1>11
      <3>2. CASE v # l
        <4>1. k = (b + T) + z  BY <2>4, <3>2, <1>4, <1>10, PositionFacts
        <4>2. k - l = T + ((b + z) - l)  BY <4>1, <2>2, <1>11
        <4> QED BY <4>2, <3>2, <1>11
      <3> QED BY <3>1, <3>2
    <2> QED BY <2>1, <2>5, <1>10, <1>11, <1>13
  <1> QED BY <1>12, <1>13

(* Every variable has its type; free_bytes neither runs below 0 nor, with    *)
(* what is under way to it, beyond the size of the ring buffer: no transfer  *)
(* is granted, issued or released of memory that is counted twice.           *)
THEOREM ReplayTypesCorrect == SafeSpec => []TypeOK
  BY InvAlways, InvTypeOK, PTL

(* When all streams were read, all memory of the ring buffer is counted as   *)
(* free, but for the transfer the StreamWriter holds: what is released is    *)
(* what was reserved, the bytes skipped at the end included.                 *)
THEOREM NoMemoryIsLost == SafeSpec => []NoMemoryLeaks
  BY InvAlways, InvNoLeaks, PTL

(* A stream that is kept to be read again never has a third segment: the     *)
(* assertion of the reader cannot fail.                                      *)
THEOREM AtMostTwoSegments == SafeSpec => []TwoSegments
  <1>1. Inv => TwoSegments  BY SegmentsAtMostTwo DEF Inv
  <1> QED BY <1>1, InvAlways, PTL

=============================================================================
