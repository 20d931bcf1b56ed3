-------------------------- MODULE NumberInduction --------------------------
(***************************************************************************)
(* Induction for the proofs.  The provers cannot instantiate the library's *)
(* theorems, which take the formula as a parameter.  What the proofs need   *)
(* of induction is that a set of numbers has a least one; the set says      *)
(* which numbers satisfy the formula.                                      *)
(***************************************************************************)
EXTENDS Integers, FiniteSetTheorems, TLAPS

\* A nonempty set has a highest member: the one with the fewest members above it.
LEMMA HighestExists ==
  ASSUME NEW n \in Nat \ {0}, NEW S, S # {}, S \subseteq 0 .. n - 1
  PROVE  \E i \in S : \A j \in S : j <= i
  <1> DEFINE Above(i) == {j \in S : i < j}
             F == {Above(i) : i \in S}
  <1>1. IsFiniteSet(S)
    <2>1. IsFiniteSet(0 .. n - 1)
      BY FS_Interval
    <2> QED
      BY <2>1, FS_Subset
  <1>2. IsWellFoundedOn(StrictSubsetOrdering(S), SUBSET S)
    <2>1. FiniteSubsetsOf(S) = SUBSET S
      BY <1>1, FS_FiniteSubsetsOfFinite
    <2> QED
      BY <2>1, FS_StrictSubsetOrderingWellFounded
  <1>3. F \subseteq SUBSET S /\ F # {}
    OBVIOUS
  <1>4. PICK least \in F : \A A \in F : ~ (<<A, least>> \in StrictSubsetOrdering(S))
    <2> HIDE DEF F
    <2> QED
      BY <1>2, <1>3, WFMin
  <1>5. PICK i \in S : least = Above(i)
    OBVIOUS
  <1>6. ASSUME NEW j \in S, j > i PROVE FALSE
    <2>0. i \in Int /\ j \in Int /\ \A k \in S : k \in Int
      OBVIOUS
    <2>1. j \in Above(i) /\ j \notin Above(j) /\ Above(j) \subseteq Above(i)
      <3>1. j \in Above(i)
        BY <1>6
      <3>2. j \notin Above(j)
        BY <2>0
      <3>3. ASSUME NEW k \in S, j < k PROVE i < k
        BY <2>0, <1>6, <3>3
      <3> QED
        BY <3>1, <3>2, <3>3
    <2>2. Above(j) \in F /\ Above(j) \in SUBSET S /\ Above(i) \in SUBSET S
      OBVIOUS
    <2> HIDE DEF F, Above
    <2>3. <<Above(j), Above(i)>> \in StrictSubsetOrdering(S)
      BY <2>1, <2>2 DEF StrictSubsetOrdering
    <2> QED
      BY <2>2, <2>3, <1>4, <1>5
  <1>7. i \in Nat /\ \A j \in S : j \in Nat
    OBVIOUS
  <1> QED
    BY <1>6, <1>7

\* A set that holds 0 and the successor of every member holds all numbers.
LEMMA SetInduction ==
  ASSUME NEW S, 0 \in S, \A n \in Nat : n \in S => n + 1 \in S
  PROVE  \A n \in Nat : n \in S
  <1> SUFFICES ASSUME NEW n \in Nat, n \notin S PROVE FALSE
    OBVIOUS
  <1> DEFINE T == {n - j : j \in {i \in 0 .. n : i \notin S}}
  <1>1. T # {} /\ T \subseteq 0 .. (n + 1) - 1
    OBVIOUS
  <1>2. n + 1 \in Nat \ {0}
    OBVIOUS
  <1>3. PICK t \in T : \A u \in T : u <= t
    <2> HIDE DEF T
    <2> QED
      BY <1>1, <1>2, HighestExists
  <1>4. PICK i \in 0 .. n : i \notin S /\ t = n - i
    OBVIOUS
  <1>5. i # 0 /\ i - 1 \in 0 .. n
    BY <1>4
  <1>6. i - 1 \in S
    <2>1. i - 1 \notin S => n - (i - 1) \in T
      BY <1>5
    <2>2. ~ (n - (i - 1) <= t)
      BY <1>4
    <2> QED
      BY <1>3, <2>1, <2>2
  <1>7. i - 1 \in Nat /\ (i - 1) + 1 = i
    BY <1>5
  <1> QED
    BY <1>4, <1>6, <1>7

=============================================================================
