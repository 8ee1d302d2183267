-------------------------- MODULE LimitedMapProofs --------------------------
(***************************************************************************)
(* Lemmas about the operators of LimitedMap, for every N >= 2: an          *)
(* insertion keeps the newest entry and the values of all others, and the  *)
(* map never holds more than N entries.                                    *)
(***************************************************************************)
EXTENDS LimitedMap, FiniteSetTheorems, WellFoundedInduction, TLAPS

(* A non-empty set of naturals has a first element, which is unique. *)
LEMMA FirstExists ==
  ASSUME NEW S, S \subseteq Nat, S # {} PROVE IsFirst(S, First(S))
<1>1. \E x \in S : \A y \in S : ~(<<y, x>> \in OpToRel(<, Nat))
  BY NatLessThanWellFounded, WFMin
<1>2. PICK x \in S : \A y \in S : ~(<<y, x>> \in OpToRel(<, Nat))
  BY <1>1
<1>3. \A y \in S : ~(y < x)
  BY <1>2 DEF OpToRel
<1>4. IsFirst(S, x)
  BY <1>3 DEF IsFirst
<1> QED
  BY <1>4 DEF First

LEMMA FirstUnique ==
  ASSUME NEW S, S \subseteq Nat, NEW k, IsFirst(S, k) PROVE First(S) = k
<1>1. S # {}
  BY DEF IsFirst
<1>2. IsFirst(S, First(S))
  BY <1>1, FirstExists
<1>3. First(S) \in Nat /\ k \in Nat /\ First(S) <= k /\ k <= First(S)
  BY <1>2 DEF IsFirst
<1> DEFINE f == First(S)
<1>4. f \in Nat /\ f <= k /\ k <= f
  BY <1>3
<1> HIDE DEF f
<1>5. f = k
  BY <1>3, <1>4
<1> QED
  BY <1>5 DEF f

(* A non-empty map whose keys are bounded has a last key, which is unique: *)
(* it mirrors the first element of the distances to the bound.             *)
LEMMA LastExists ==
  ASSUME NEW m, NEW b \in Nat, DOMAIN m \subseteq 0..b, DOMAIN m # {}
  PROVE  IsLast(DOMAIN m, Last(m))
<1> DEFINE D == {b - k : k \in DOMAIN m}
<1>1. D \subseteq Nat /\ D # {}
  OBVIOUS
<1>2. IsFirst(D, First(D))
  BY <1>1, FirstExists
<1>3. PICK k \in DOMAIN m : First(D) = b - k
  BY <1>2 DEF IsFirst
<1>4. \A j \in DOMAIN m : b - k <= b - j
  BY <1>2, <1>3 DEF IsFirst
<1>5. IsLast(DOMAIN m, k)
  BY <1>4 DEF IsLast
<1> QED
  BY <1>5 DEF Last

LEMMA LastUnique ==
  ASSUME NEW m, NEW b \in Nat, DOMAIN m \subseteq 0..b, NEW k, IsLast(DOMAIN m, k)
  PROVE  Last(m) = k
<1>1. IsLast(DOMAIN m, Last(m))
  BY LastExists DEF IsLast
<1> QED
  BY <1>1 DEF IsLast

(* The newest key survives the eviction, because there is room for two. *)
LEMMA EvictKeepsLast ==
  ASSUME NEW m, NEW k \in DOMAIN m, DOMAIN m \subseteq Nat, IsLast(DOMAIN m, k)
  PROVE  k \in DOMAIN Evict(m)
<1>1. {j \in DOMAIN m : k <= j} = {k}
  BY DEF IsLast
<1>2. Cardinality({j \in DOMAIN m : k <= j}) = 1
  BY <1>1, FS_Singleton
<1> QED
  BY <1>2, NAssumption DEF Evict, Newest

LEMMA EvictNewest == ASSUME NEW m PROVE DOMAIN Evict(m) = Newest(DOMAIN m, N - 1)
  BY DEF Evict

(* What an insertion returns. *)
LEMMA InsertMap ==
  ASSUME NEW m, NEW k, NEW v
  PROVE  /\ DOMAIN Evict(m) \subseteq DOMAIN m
         /\ DOMAIN Insert(m, k, v) = DOMAIN Evict(m) \cup {k}
         /\ \A j \in DOMAIN Evict(m) : Insert(m, k, v)[j] = m[j]
         /\ k \notin DOMAIN Evict(m) => Insert(m, k, v)[k] = v
         /\ Insert(m, k, v) = [j \in DOMAIN Insert(m, k, v) |-> Insert(m, k, v)[j]]
  BY DEF Insert, Evict, Newest

(* The newest entry outlives every insertion, with its value. *)
LEMMA InsertKeepsLast ==
  ASSUME NEW m, NEW b \in Nat, DOMAIN m \subseteq 0..b, DOMAIN m # {}, NEW k, NEW v
  PROVE  /\ Last(m) \in DOMAIN Insert(m, k, v)
         /\ Insert(m, k, v)[Last(m)] = m[Last(m)]
<1> DEFINE l == Last(m)
<1>1. IsLast(DOMAIN m, l)
  BY LastExists
<1>2. l \in DOMAIN m /\ DOMAIN m \subseteq Nat
  BY <1>1 DEF IsLast
<1> HIDE DEF l
<1>3. l \in DOMAIN Evict(m)
  BY <1>1, <1>2, EvictKeepsLast
<1>4. l \in DOMAIN Insert(m, k, v) /\ Insert(m, k, v)[l] = m[l]
  BY <1>3 DEF Insert, Evict
<1> QED
  BY <1>4 DEF l

(* While there is room nothing is evicted; from a full map, the oldest key is. *)
LEMMA EvictWithRoom ==
  ASSUME NEW m, IsFiniteSet(DOMAIN m), DOMAIN m \subseteq Nat, Cardinality(DOMAIN m) < N
  PROVE  DOMAIN Evict(m) = DOMAIN m
<1>1. \A k \in DOMAIN m : Cardinality({j \in DOMAIN m : k <= j}) <= N - 1
  <2> SUFFICES ASSUME NEW k \in DOMAIN m
               PROVE  Cardinality({j \in DOMAIN m : k <= j}) <= N - 1
    OBVIOUS
  <2> DEFINE T == {j \in DOMAIN m : k <= j}
  <2>1. T \in SUBSET DOMAIN m
    OBVIOUS
  <2>2. Cardinality(T) <= Cardinality(DOMAIN m) /\ IsFiniteSet(T)
    BY <2>1, FS_Subset
  <2>3. Cardinality(T) \in Nat /\ Cardinality(DOMAIN m) \in Nat
    BY <2>2, FS_CardinalityType
  <2> QED
    BY <2>2, <2>3, NAssumption
<1> QED
  BY <1>1 DEF Evict, Newest

LEMMA EvictWhenFull ==
  ASSUME NEW m, IsFiniteSet(DOMAIN m), DOMAIN m \subseteq Nat, Cardinality(DOMAIN m) = N
  PROVE  /\ IsFirst(DOMAIN m, First(DOMAIN m))
         /\ DOMAIN Evict(m) = DOMAIN m \ {First(DOMAIN m)}
<1> DEFINE S == DOMAIN m
<1> DEFINE f == First(S)
<1>1. S # {}
  BY FS_EmptySet, NAssumption
<1>2. IsFirst(S, f)
  BY <1>1, FirstExists
<1>3. Cardinality({j \in S : f <= j}) = N
  <2>1. {j \in S : f <= j} = S
    BY <1>2 DEF IsFirst
  <2> QED
    BY <2>1
<1>4. ASSUME NEW k \in S \ {f} PROVE Cardinality({j \in S : k <= j}) <= N - 1
  <2> DEFINE T == {j \in S : k <= j}
  <2> DEFINE R == S \ {f}
  <2>1. T \in SUBSET R
    BY <1>2 DEF IsFirst
  <2>2. IsFiniteSet(R) /\ Cardinality(R) = N - 1
    <3>1. f \in S
      BY <1>2 DEF IsFirst
    <3> QED
      BY <3>1, FS_RemoveElement
  <2>3. Cardinality(T) <= Cardinality(R)
    <3> HIDE DEF T, R
    <3> QED
      BY <2>1, <2>2, FS_Subset
  <2> QED
    BY <2>2, <2>3
<1>5. f \notin DOMAIN Evict(m)
  BY <1>3, NAssumption DEF Evict, Newest
<1>6. S \ {f} \subseteq DOMAIN Evict(m)
  BY <1>4 DEF Evict, Newest
<1>7. DOMAIN Evict(m) \subseteq S
  BY DEF Evict, Newest
<1> HIDE DEF S, f
<1>8. DOMAIN Evict(m) = S \ {f}
  BY <1>5, <1>6, <1>7
<1> QED
  BY <1>2, <1>8 DEF S, f

(* An insertion leaves at most N entries. *)
LEMMA InsertBounded ==
  ASSUME NEW m, NEW k \in Nat, NEW v, IsFiniteSet(DOMAIN m), DOMAIN m \subseteq Nat,
         Cardinality(DOMAIN m) <= N
  PROVE  /\ IsFiniteSet(DOMAIN Insert(m, k, v))
         /\ Cardinality(DOMAIN Insert(m, k, v)) <= N
<1>0. Cardinality(DOMAIN m) \in Nat
  BY FS_CardinalityType
<1>1. IsFiniteSet(DOMAIN Evict(m)) /\ Cardinality(DOMAIN Evict(m)) <= N - 1
  <2>1. CASE Cardinality(DOMAIN m) < N
    BY <2>1, <1>0, EvictWithRoom, NAssumption
  <2>2. CASE Cardinality(DOMAIN m) = N
    <3>1. /\ First(DOMAIN m) \in DOMAIN m
          /\ DOMAIN Evict(m) = DOMAIN m \ {First(DOMAIN m)}
      BY <2>2, EvictWhenFull DEF IsFirst
    <3>2. /\ IsFiniteSet(DOMAIN m \ {First(DOMAIN m)})
          /\ Cardinality(DOMAIN m \ {First(DOMAIN m)}) = N - 1
      BY <3>1, <2>2, FS_RemoveElement
    <3> QED
      BY <3>1, <3>2, NAssumption
  <2> QED
    BY <2>1, <2>2, <1>0, NAssumption
<1>2. Cardinality(DOMAIN Evict(m)) \in Nat
  BY <1>1, FS_CardinalityType
<1>3. DOMAIN Insert(m, k, v) = DOMAIN Evict(m) \cup {k}
  BY InsertMap
<1> DEFINE E == DOMAIN Evict(m)
<1> HIDE DEF E
<1>4. /\ IsFiniteSet(E \cup {k})
      /\ Cardinality(E \cup {k}) = IF k \in E THEN Cardinality(E) ELSE Cardinality(E) + 1
  BY <1>1, FS_AddElement DEF E
<1>5. Cardinality(E \cup {k}) <= N
  BY <1>1, <1>2, <1>4, NAssumption DEF E
<1> QED
  BY <1>3, <1>4, <1>5 DEF E
-----------------------------------------------------------------------------
(* The newest keys of a set.                                               *)

\* With a key, all newer ones are among the newest.
LEMMA NewestAbove ==
  ASSUME NEW S, S \subseteq Nat, IsFiniteSet(S), NEW n \in Nat, NEW k \in Newest(S, n)
  PROVE  {j \in Newest(S, n) : k <= j} = {j \in S : k <= j}
<1> SUFFICES ASSUME NEW j \in S, k <= j
             PROVE  Cardinality({i \in S : j <= i}) <= n
  BY DEF Newest
<1> DEFINE A == {i \in S : j <= i}
<1> DEFINE B == {i \in S : k <= i}
<1>1. k \in S /\ Cardinality(B) <= n
  BY DEF Newest
<1>2. A \in SUBSET B
  <2>1. \A i \in S : j <= i => k <= i
    BY <1>1
  <2> QED
    BY <2>1
<1>3. B \in SUBSET S
  OBVIOUS
<1>4. IsFiniteSet(B)
  BY <1>3, FS_Subset
<1>5. Cardinality(A) <= Cardinality(B) /\ IsFiniteSet(A)
  BY <1>2, <1>4, FS_Subset
<1>6. Cardinality(A) \in Nat /\ Cardinality(B) \in Nat
  BY <1>4, <1>5, FS_CardinalityType
<1> HIDE DEF A, B
<1>7. Cardinality(A) <= n
  BY <1>1, <1>5, <1>6
<1> QED
  BY <1>7 DEF A

LEMMA NewestNested ==
  ASSUME NEW S, S \subseteq Nat, IsFiniteSet(S), NEW n \in Nat, NEW m \in Nat, m <= n
  PROVE  Newest(Newest(S, n), m) = Newest(S, m)
<1>1. ASSUME NEW k \in Newest(S, m) PROVE k \in Newest(Newest(S, n), m)
  <2>1. {j \in S : k <= j} \in SUBSET S
    OBVIOUS
  <2>2. Cardinality({j \in S : k <= j}) \in Nat
    BY <2>1, FS_Subset, FS_CardinalityType
  <2>3. k \in Newest(S, n)
    BY <2>2 DEF Newest
  <2>4. {j \in Newest(S, n) : k <= j} = {j \in S : k <= j}
    BY <2>3, NewestAbove
  <2>5. Cardinality({j \in S : k <= j}) <= m
    BY DEF Newest
  <2> QED
    BY <2>3, <2>4, <2>5 DEF Newest
<1>2. ASSUME NEW k \in Newest(Newest(S, n), m) PROVE k \in Newest(S, m)
  <2>1. k \in Newest(S, n) /\ Cardinality({j \in Newest(S, n) : k <= j}) <= m
    BY DEF Newest
  <2>2. {j \in Newest(S, n) : k <= j} = {j \in S : k <= j}
    BY <2>1, NewestAbove
  <2> QED
    BY <2>1, <2>2 DEF Newest
<1> QED
  BY <1>1, <1>2

LEMMA NewestPlus ==
  ASSUME NEW S, S \subseteq Nat, IsFiniteSet(S), NEW n \in Nat,
         NEW t \in Nat, \A j \in S : j < t
  PROVE  Newest(S \cup {t}, n + 1) = Newest(S, n) \cup {t}
<1>1. Cardinality({j \in S \cup {t} : t <= j}) = 1
  <2>1. \A j \in S \cup {t} : t <= j <=> j = t
    OBVIOUS
  <2>2. {j \in S \cup {t} : t <= j} = {t}
    BY <2>1
  <2> QED
    BY <2>2, FS_Singleton
<1>2. ASSUME NEW k \in S
      PROVE  k \in Newest(S \cup {t}, n + 1) <=> k \in Newest(S, n)
  <2> DEFINE A == {j \in S : k <= j}
  <2>1. {j \in S \cup {t} : k <= j} = A \cup {t} /\ t \notin A /\ A \in SUBSET S
    OBVIOUS
  <2> HIDE DEF A
  <2>2. IsFiniteSet(A) /\ Cardinality(A) \in Nat
    BY <2>1, FS_Subset, FS_CardinalityType
  <2>3. Cardinality(A \cup {t}) = Cardinality(A) + 1
    BY <2>1, <2>2, FS_AddElement
  <2>4. Cardinality(A \cup {t}) <= n + 1 <=> Cardinality(A) <= n
    BY <2>2, <2>3
  <2> QED
    BY <2>1, <2>4 DEF Newest, A
<1>3. t \in Newest(S \cup {t}, n + 1)
  BY <1>1 DEF Newest
<1> QED
  BY <1>2, <1>3 DEF Newest

\* The last key is always among the newest.
LEMMA NewestHasLast ==
  ASSUME NEW S, S \subseteq Nat, NEW k, IsLast(S, k), NEW n \in Nat, 1 <= n
  PROVE  k \in Newest(S, n)
<1>1. k \in S /\ \A j \in S : k <= j <=> j = k
  BY DEF IsLast
<1>2. {j \in S : k <= j} = {k}
  BY <1>1
<1>3. Cardinality({j \in S : k <= j}) = 1
  BY <1>2, FS_Singleton
<1> QED
  BY <1>1, <1>3 DEF Newest
=============================================================================
