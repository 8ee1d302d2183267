-------------------------- MODULE IndicatorProofs --------------------------
(***************************************************************************)
(* Why ProcessIndicator's loop is right although it modifies the values of *)
(* the input in place and begins with one that it has modified before: the *)
(* invariant Settled, from which follow ModifiedOnce and the refinement of *)
(* QuoteWindow, for all modifiers, for every size of the maps from two up, *)
(* and for clocks that may go back.                                        *)
(***************************************************************************)
EXTENDS TradingCycleProofs

(***************************************************************************)
(* What relates the input of an indicator to its output, while the loop    *)
(* still has to visit the keys of pending; got are the quotes received and *)
(* f is the modifier.  The last key of the output is in the input, and the *)
(* loop has to visit what is newer; what is newer is as it was received.   *)
(***************************************************************************)
Settled(in, out, pending, got, f) ==
  /\ DOMAIN out = {} => DOMAIN in = pending
  /\ \A l \in DOMAIN out : IsLast(DOMAIN out, l) =>
       /\ l \in DOMAIN in
       /\ \A k \in pending : l <= k
       /\ \A k \in DOMAIN in : l < k => k \in pending
  /\ \A k \in DOMAIN in : (\A j \in DOMAIN out : j < k) => <<k, in[k]>> \in got
  /\ \A k \in DOMAIN out : \E v \in Values : <<k, v>> \in got /\ out[k] = f[v]
  /\ Cardinality(DOMAIN out) <= N

LEMMA MapFacts ==
  ASSUME NEW S, NEW m, IsMap(m, S)
  PROVE  /\ DOMAIN m \subseteq 0..MaxTime /\ DOMAIN m \subseteq Nat /\ MaxTime \in Nat
         /\ IsFiniteSet(DOMAIN m)
         /\ DOMAIN m # {} => IsLast(DOMAIN m, Last(m))
<1>1. DOMAIN m \subseteq 0..MaxTime /\ DOMAIN m \subseteq Nat /\ MaxTime \in Nat
  BY TimesFacts DEF IsMap
<1>2. IsFiniteSet(0..MaxTime)
  BY <1>1, FS_Interval
<1>3. IsFiniteSet(DOMAIN m)
  BY <1>1, <1>2, FS_Subset
<1> QED
  BY <1>1, <1>3, LastExists

(* The key that the loop visits is the output's last one, or newer than the *)
(* whole output, and then its value is as it was received.                  *)
LEMMA VisitedKey ==
  ASSUME NEW in, IsMap(in, Values), NEW out, IsMap(out, Values), NEW got, NEW f,
         NEW ks, ks # {}, ks \subseteq DOMAIN in, Settled(in, out, ks, got, f)
  PROVE  /\ First(ks) \in ks /\ First(ks) \in Times /\ \A j \in ks : First(ks) <= j
         /\ \/ IsLast(DOMAIN out, First(ks))
            \/ /\ \A j \in DOMAIN out : j < First(ks)
               /\ <<First(ks), in[First(ks)]>> \in got
<1>1. IsFirst(ks, First(ks))
  BY MapFacts, FirstExists
<1>2. First(ks) \in ks /\ First(ks) \in Times /\ \A j \in ks : First(ks) <= j
  BY <1>1 DEF IsFirst, IsMap
<1>3. CASE DOMAIN out = {}
  BY <1>2, <1>3 DEF Settled
<1>4. CASE DOMAIN out # {}
  <2>1. PICK l \in DOMAIN out : IsLast(DOMAIN out, l)
    BY <1>4, MapFacts DEF IsLast
  <2>2. l <= First(ks) /\ l \in Nat /\ First(ks) \in Nat
    BY <1>2, <2>1, TimesFacts, MapFacts DEF Settled
  <2>3. CASE l = First(ks)
    BY <1>2, <2>1, <2>3
  <2>4. CASE l < First(ks)
    <3>1. \A j \in DOMAIN out : j < First(ks)
      BY <2>1, <2>2, <2>4, MapFacts DEF IsLast
    <3> QED
      BY <1>2, <3>1 DEF Settled
  <2> QED
    BY <2>2, <2>3, <2>4
<1> QED
  BY <1>3, <1>4

-----------------------------------------------------------------------------
(* One iteration of the loop.                                              *)

LEMMA ProcessSettles ==
  ASSUME NEW in, IsMap(in, Values), NEW out, IsMap(out, Values), NEW got,
         NEW f \in [Values -> Values],
         NEW ks, ks # {}, ks \subseteq DOMAIN in, Settled(in, out, ks, got, f),
         NEW k, k = First(ks), NEW v, v = f[in[k]]
  PROVE  Settled([in EXCEPT ![k] = v], Insert(out, k, v), ks \ {k}, got, f)
<1> DEFINE new == Insert(out, k, v)
<1> DEFINE E == DOMAIN Evict(out)
<1> DEFINE ip == [in EXCEPT ![k] = v]
<1>1. /\ k \in ks /\ k \in Nat /\ k \in DOMAIN in /\ \A j \in ks : k <= j
      /\ \/ IsLast(DOMAIN out, k)
         \/ (\A j \in DOMAIN out : j < k) /\ <<k, in[k]>> \in got
  BY VisitedKey, TimesFacts
<1>2. E \subseteq DOMAIN out /\ DOMAIN new = E \cup {k}
  BY DEF Insert, Evict, Newest
<1>3. /\ \A j \in E : new[j] = out[j]
      /\ k \notin E => new[k] = v
  BY DEF Insert, Evict, Newest
<1>4. Cardinality(DOMAIN new) <= N
  BY <1>1, MapFacts, InsertBounded DEF Settled
<1>5. DOMAIN ip = DOMAIN in /\ \A j \in DOMAIN in : j # k => ip[j] = in[j]
  OBVIOUS
<1>6. DOMAIN out \subseteq Nat /\ DOMAIN in \subseteq Nat
  BY MapFacts
<1>7. in[k] \in Values
  BY <1>1 DEF IsMap
<1>8. CASE IsLast(DOMAIN out, k)
  <2>1. k \in E
    BY <1>6, <1>8, EvictKeepsLast DEF IsLast
  <2> HIDE DEF new, E, ip
  <2>2. DOMAIN new = E
    BY <1>2, <2>1
  <2>3. \A l \in DOMAIN new : IsLast(DOMAIN new, l) => l = k
    BY <1>2, <1>6, <1>8, <2>1, <2>2 DEF IsLast
  <2>4. \A j \in DOMAIN in : k < j => j \in ks \ {k}
    BY <1>1, <1>6, <1>8 DEF Settled, IsLast
  <2>5. \A j \in DOMAIN ip : (\A i \in DOMAIN new : i < j) => <<j, ip[j]>> \in got
    <3> SUFFICES ASSUME NEW j \in DOMAIN in, \A i \in DOMAIN new : i < j
                 PROVE  <<j, ip[j]>> \in got
      BY <1>5
    <3>1. k < j
      BY <2>1, <2>2
    <3>2. \A i \in DOMAIN out : i < j
      BY <1>1, <1>6, <1>8, <3>1 DEF IsLast
    <3>3. ip[j] = in[j]
      BY <1>1, <1>5, <3>1
    <3> QED
      BY <3>2, <3>3 DEF Settled
  <2>6. \A j \in DOMAIN new : \E w \in Values : <<j, w>> \in got /\ new[j] = f[w]
    BY <1>2, <1>3, <2>2 DEF Settled
  <2>7. Settled(ip, new, ks \ {k}, got, f)
    BY <1>1, <1>4, <1>5, <2>1, <2>2, <2>3, <2>4, <2>5, <2>6 DEF Settled
  <2> QED
    BY <2>7 DEF new, ip
<1>9. CASE (\A j \in DOMAIN out : j < k) /\ <<k, in[k]>> \in got
  <2> HIDE DEF new, E, ip
  <2>1. k \notin E /\ new[k] = v
    BY <1>1, <1>2, <1>3, <1>6, <1>9
  <2>2. \A l \in DOMAIN new : IsLast(DOMAIN new, l) => l = k
    BY <1>1, <1>2, <1>6, <1>9 DEF IsLast
  <2>3. \A j \in DOMAIN in : k < j => j \in ks \ {k}
    <3>1. CASE DOMAIN out = {}
      BY <1>1, <3>1 DEF Settled
    <3>2. CASE DOMAIN out # {}
      <4>1. PICK l \in DOMAIN out : IsLast(DOMAIN out, l)
        BY <3>2, MapFacts DEF IsLast
      <4> QED
        BY <1>1, <1>6, <1>9, <4>1 DEF Settled
    <3> QED
      BY <3>1, <3>2
  <2>4. \A j \in DOMAIN ip : (\A i \in DOMAIN new : i < j) => <<j, ip[j]>> \in got
    <3> SUFFICES ASSUME NEW j \in DOMAIN in, \A i \in DOMAIN new : i < j
                 PROVE  <<j, ip[j]>> \in got
      BY <1>5
    <3>1. k < j
      BY <1>2
    <3>2. \A i \in DOMAIN out : i < j
      BY <1>1, <1>6, <1>9, <3>1
    <3>3. ip[j] = in[j]
      BY <1>1, <1>5, <3>1
    <3> QED
      BY <3>2, <3>3 DEF Settled
  <2>5. \A j \in DOMAIN new : \E w \in Values : <<j, w>> \in got /\ new[j] = f[w]
    BY <1>2, <1>3, <1>7, <1>9, <2>1 DEF Settled
  <2>6. Settled(ip, new, ks \ {k}, got, f)
    BY <1>1, <1>2, <1>4, <1>5, <2>2, <2>3, <2>4, <2>5 DEF Settled
  <2> QED
    BY <2>6 DEF new, ip
<1> QED
  BY <1>1, <1>8, <1>9

-----------------------------------------------------------------------------
(* A quote enters the input.                                               *)

LEMMA InsertSettles ==
  ASSUME NEW in, IsMap(in, Values), NEW out, IsMap(out, Values), NEW got, NEW f,
         Settled(in, out, {}, got, f),
         NEW t \in Times, t \notin DOMAIN in, NEW w, NEW new, new = Insert(in, t, w),
         NEW ks, ks = {k \in DOMAIN new : FirstToUse(new, out) <= k}
  PROVE  Settled(new, out, ks, got \cup {<<t, w>>}, f)
<1> DEFINE E == DOMAIN Evict(in)
<1>1. E \subseteq DOMAIN in /\ DOMAIN new = E \cup {t}
  BY DEF Insert, Evict, Newest
<1>2. new[t] = w /\ \A j \in E : new[j] = in[j]
  BY DEF Insert, Evict, Newest
<1>3. \A j \in DOMAIN new : (\A i \in DOMAIN out : i < j) => <<j, new[j]>> \in got \cup {<<t, w>>}
  BY <1>1, <1>2 DEF Settled
<1>4. CASE DOMAIN out = {}
  <2>1. DOMAIN new = {t}
    BY <1>1, <1>4 DEF Settled
  <2>2. IsFirst({t}, First({t}))
    BY FirstExists, TimesFacts
  <2>3. FirstToUse(new, out) = t
    BY <1>4, <2>1, <2>2 DEF FirstToUse, IsFirst
  <2>4. ks = DOMAIN new
    BY <2>1, <2>3, TimesFacts
  <2> QED
    BY <1>3, <1>4, <2>4 DEF Settled
<1>5. CASE DOMAIN out # {}
  <2> DEFINE l == Last(out)
  <2>1. IsLast(DOMAIN out, l)
    BY <1>5, MapFacts
  <2> HIDE DEF l
  <2>2. l \in DOMAIN in /\ \A k \in DOMAIN in : ~(l < k)
    BY <2>1 DEF Settled, IsLast
  <2>3. IsLast(DOMAIN in, l)
    BY <2>2, MapFacts DEF IsLast
  <2>4. l \in E
    BY <2>2, <2>3, MapFacts, EvictKeepsLast
  <2>5. FirstToUse(new, out) = l
    BY <1>1, <1>5, <2>4 DEF FirstToUse, l
  <2>6. \A j \in DOMAIN out : IsLast(DOMAIN out, j) => j = l
    BY <2>1, MapFacts DEF IsLast
  <2>7. ks = {k \in DOMAIN new : l <= k}
    BY <2>5
  <2>8. DOMAIN new \subseteq Nat /\ l \in Nat
    BY <1>1, <2>2, MapFacts, TimesFacts
  <2>9. \A k \in DOMAIN out : \E x \in Values :
          <<k, x>> \in got \cup {<<t, w>>} /\ out[k] = f[x]
    BY DEF Settled
  <2>10. l \in DOMAIN new /\ \A k \in DOMAIN new : l < k => k \in ks
    BY <1>1, <2>4, <2>7, <2>8
  <2>11. Cardinality(DOMAIN out) <= N
    BY DEF Settled
  <2> HIDE DEF E
  <2> QED
    BY <1>3, <1>5, <2>6, <2>7, <2>9, <2>10, <2>11 DEF Settled
<1> QED
  BY <1>4, <1>5

-----------------------------------------------------------------------------
(* The invariant of the thread.                                            *)

\* The keys that the loop of ProcessIndicator still has to visit for i.
Pending(i) == IF pc = "process" /\ current = i THEN keys ELSE {}

AllSettled ==
  \A i \in Indicators : Settled(input[i], output[i], Pending(i), received[i], Modifier[i])

LEMMA InitSettled == Init => AllSettled
<1> SUFFICES ASSUME Init, NEW i \in Indicators
             PROVE  Settled(input[i], output[i], Pending(i), received[i], Modifier[i])
  BY DEF AllSettled
<1>1. input[i] = Empty /\ output[i] = Empty /\ Pending(i) = {} /\ DOMAIN Empty = {}
  BY DEF Init, Pending, Empty
<1>2. Cardinality(DOMAIN Empty) <= N
  BY <1>1, FS_EmptySet, NAssumption
<1> QED
  BY <1>1, <1>2 DEF Settled

LEMMA StepSettled == ASSUME Typed, AllSettled, [Next]_vars PROVE AllSettled'
<1>0. \A i \in Indicators : IsMap(input[i], Values) /\ IsMap(output[i], Values)
  BY DEF Typed, TypeOK
<1>1. ASSUME NEW i \in Indicators, InsertQuote(i) PROVE AllSettled'
  <2>1. pc # "process" /\ clock \in Times /\ clock \notin DOMAIN input[i]
    BY <1>1 DEF InsertQuote, Typed, Flow
  <2>2. ASSUME NEW j \in Indicators, j # i
        PROVE  Settled(input[j], output[j], Pending(j), received[j], Modifier[j])'
    <3>1. /\ input'[j] = input[j] /\ output'[j] = output[j] /\ received'[j] = received[j]
          /\ Pending(j) = {} /\ Pending(j)' = {}
      BY <1>1, <2>1, <2>2 DEF InsertQuote, Pending, Typed, TypeOK, IsFamily
    <3> QED
      BY <3>1 DEF AllSettled
  <2>3. Settled(input[i], output[i], Pending(i), received[i], Modifier[i])'
    <3>1. Settled(input[i], output[i], {}, received[i], Modifier[i])
      BY <2>1 DEF AllSettled, Pending
    <3>2. /\ input'[i] = Insert(input[i], clock, mdata[i])
          /\ received'[i] = received[i] \cup {<<clock, mdata[i]>>}
          /\ output'[i] = output[i]
          /\ Pending(i)' = {k \in DOMAIN input'[i] : FirstToUse(input'[i], output[i]) <= k}
      BY <1>1 DEF InsertQuote, Pending, Typed, TypeOK, IsFamily
    <3> HIDE DEF Pending
    <3>3. Settled(input'[i], output[i], Pending(i)',
                  received[i] \cup {<<clock, mdata[i]>>}, Modifier[i])
      BY <1>0, <2>1, <3>1, <3>2, InsertSettles
    <3> QED
      BY <3>2, <3>3
  <2> QED
    BY <2>2, <2>3 DEF AllSettled
<1>2. CASE ProcessKey
  <2> DEFINE i == current
  <2> DEFINE k == First(keys)
  <2> DEFINE v == Modifier[i][input[i][k]]
  <2>1. i \in Indicators /\ keys \subseteq DOMAIN input[i] /\ keys # {} /\ pc = "process"
    BY <1>2 DEF ProcessKey, Typed, Flow
  <2>2. Settled(input[i], output[i], keys, received[i], Modifier[i])
    BY <2>1 DEF AllSettled, Pending
  <2>3. Modifier[i] \in [Values -> Values]
    BY <2>1, ObjectsAssumption
  <2>4. Settled([input[i] EXCEPT ![k] = v], Insert(output[i], k, v), keys \ {k},
                received[i], Modifier[i])
    BY <1>0, <2>1, <2>2, <2>3, ProcessSettles
  <2> HIDE DEF k, v
  <2>5. /\ input' = [input EXCEPT ![i] = [@ EXCEPT ![k] = v]]
        /\ output' = [output EXCEPT ![i] = Insert(@, k, v)]
        /\ keys' = keys \ {k}
        /\ UNCHANGED <<pc, current, received>>
    BY <1>2 DEF ProcessKey, history, k, v
  <2>6. ASSUME NEW j \in Indicators, j # i
        PROVE  Settled(input[j], output[j], Pending(j), received[j], Modifier[j])'
    <3>1. /\ input'[j] = input[j] /\ output'[j] = output[j] /\ received'[j] = received[j]
          /\ Pending(j)' = Pending(j)
      BY <2>5, <2>6 DEF Pending, Typed, TypeOK, IsFamily
    <3> QED
      BY <3>1 DEF AllSettled
  <2>7. Settled(input[i], output[i], Pending(i), received[i], Modifier[i])'
    <3>1. /\ input'[i] = [input[i] EXCEPT ![k] = v]
          /\ output'[i] = Insert(output[i], k, v)
          /\ received'[i] = received[i] /\ Pending(i)' = keys \ {k} /\ i' = i
      BY <2>1, <2>5 DEF Pending, Typed, TypeOK, IsFamily
    <3> QED
      BY <2>4, <3>1
  <2> QED
    BY <2>5, <2>6, <2>7 DEF AllSettled
<1>3. ASSUME UNCHANGED <<input, output, received>>,
             \A i \in Indicators : Pending(i)' = Pending(i)
      PROVE  AllSettled'
  BY <1>3 DEF AllSettled
<1>4. CASE IndicatorDone
  <2>1. \A i \in Indicators : Pending(i)' = Pending(i)
    BY <1>4 DEF IndicatorDone, Pending
  <2> QED
    BY <1>3, <1>4, <2>1 DEF IndicatorDone, maps, history
<1>5. CASE \/ Look \/ RequestThrows \/ CloseWindow \/ UpdatesDone \/ CompareKey
           \/ DecideRule \/ RulesDone \/ CycleDone \/ UNCHANGED vars
           \/ \E i \in Indicators : DropQuote(i) \/ \E v \in Values : ReceiveQuote(i, v)
           \/ \E r \in Rules : VisitRule(r) \/ Transact(r)
  <2>1. UNCHANGED <<input, output, received>>
    BY <1>5 DEF vars, maps, history, Look, ReceiveQuote, RequestThrows, CloseWindow,
      DropQuote, UpdatesDone, VisitRule, CompareKey, DecideRule, RulesDone, Transact,
      CycleDone
  <2>2. (pc = "process" /\ UNCHANGED <<pc, current, keys>>) \/ (pc # "process" /\ pc' # "process")
    BY <1>5 DEF vars, maps, history, Look, ReceiveQuote, RequestThrows, CloseWindow,
      DropQuote, UpdatesDone, VisitRule, CompareKey, DecideRule, RulesDone, Transact,
      CycleDone
  <2>3. \A i \in Indicators : Pending(i)' = Pending(i)
    BY <2>2 DEF Pending
  <2> QED
    BY <1>3, <2>1, <2>3
<1> QED
  BY <1>1, <1>2, <1>4, <1>5 DEF Next, Over

LEMMA SettledInvariant == Spec => []AllSettled
  BY InitSettled, StepSettled, TypedInvariant, PTL DEF Spec

(***************************************************************************)
(* Every value of an output is its quote, modified exactly once.           *)
(***************************************************************************)
THEOREM ModifiesOnce == Spec => []ModifiedOnce
<1>1. AllSettled => ModifiedOnce
  BY DEF AllSettled, Settled, ModifiedOnce
<1> QED
  BY <1>1, SettledInvariant, PTL

-----------------------------------------------------------------------------
(* The refinement of QuoteWindow.                                          *)

\* out with v at k, without the key gone.
Entered(out, gone, k, v) ==
  [t \in (DOMAIN out \ gone) \cup {k} |-> IF t = k THEN v ELSE out[t]]
Without(out, u) == [t \in DOMAIN out \ {u} |-> out[t]]
IsFull(out) == Cardinality(DOMAIN out) = N

\* How the iteration that visits k makes new of the output.
Slides(in, out, got, k, v, new) ==
  \/ new = out
  \/ IsFull(out) /\ \E u \in Times : IsFirst(DOMAIN out, u) /\ new = Without(out, u)
  \/ /\ <<k, in[k]>> \in got /\ in[k] \in Values /\ \A t \in DOMAIN out : t < k
     /\ \/ ~IsFull(out) /\ new = Entered(out, {}, k, v)
        \/ /\ IsFull(out)
           /\ \E u \in Times : IsFirst(DOMAIN out, u) /\ new = Entered(out, {u}, k, v)

(* An iteration of the loop changes nothing, or lets the oldest quote leave *)
(* a full output, or lets a quote enter, in its place when there is no room. *)
LEMMA ProcessSlides ==
  ASSUME NEW in, IsMap(in, Values), NEW out, IsMap(out, Values), NEW got, NEW f,
         NEW ks, ks # {}, ks \subseteq DOMAIN in, Settled(in, out, ks, got, f),
         NEW k, k = First(ks), NEW v, NEW new, new = Insert(out, k, v)
  PROVE  Slides(in, out, got, k, v, new)
<1> DEFINE E == DOMAIN Evict(out)
<1> DEFINE u == First(DOMAIN out)
<1>1. /\ k \in ks /\ k \in Times /\ k \in DOMAIN in
      /\ \/ IsLast(DOMAIN out, k)
         \/ (\A j \in DOMAIN out : j < k) /\ <<k, in[k]>> \in got
  BY VisitedKey
<1>2. in[k] \in Values
  BY <1>1 DEF IsMap
<1>3. /\ new = [j \in E \cup {k} |-> IF j \in E THEN out[j] ELSE v]
      /\ E \subseteq DOMAIN out
  BY DEF Insert, Evict, Newest
<1>4. /\ out = [t \in DOMAIN out |-> out[t]] /\ DOMAIN out \subseteq Nat
      /\ IsFiniteSet(DOMAIN out) /\ Cardinality(DOMAIN out) \in Nat
  BY MapFacts, FS_CardinalityType DEF IsMap
<1>5. /\ ~IsFull(out) => E = DOMAIN out
      /\ IsFull(out) => IsFirst(DOMAIN out, u) /\ u \in Times /\ E = DOMAIN out \ {u}
  <2>1. CASE ~IsFull(out)
    <3>1. Cardinality(DOMAIN out) < N
      BY <1>4, <2>1, NAssumption DEF IsFull, Settled
    <3> QED
      BY <1>4, <2>1, <3>1, EvictWithRoom
  <2>2. CASE IsFull(out)
    <3>1. IsFirst(DOMAIN out, u) /\ E = DOMAIN out \ {u}
      BY <1>4, <2>2, EvictWhenFull DEF IsFull
    <3>2. u \in Times
      BY <3>1 DEF IsFirst, IsMap
    <3> QED
      BY <2>2, <3>1, <3>2
  <2> QED
    BY <2>1, <2>2
<1>6. IsLast(DOMAIN out, k) => k \in E
  BY <1>4, EvictKeepsLast DEF IsLast
<1> HIDE DEF E, u
<1>7. CASE IsLast(DOMAIN out, k)
  <2>1. new = [j \in E |-> out[j]]
    BY <1>3, <1>6, <1>7
  <2> QED
    BY <1>4, <1>5, <2>1 DEF Without, Slides
<1>8. CASE (\A j \in DOMAIN out : j < k) /\ <<k, in[k]>> \in got
  <2>1. k \notin DOMAIN out
    BY <1>1, <1>4, <1>8
  <2>2. new = [j \in E \cup {k} |-> IF j = k THEN v ELSE out[j]]
    BY <1>3, <2>1
  <2>3. CASE ~IsFull(out)
    BY <1>2, <1>5, <1>8, <2>2, <2>3 DEF Entered, Slides
  <2>4. CASE IsFull(out)
    BY <1>2, <1>5, <1>8, <2>2, <2>4 DEF Entered, Slides
  <2> QED
    BY <2>3, <2>4
<1> QED
  BY <1>1, <1>7, <1>8

(* FiniteSets is instantiated once more with QuoteWindow. *)
LEMMA SameCardinality == ASSUME NEW S PROVE Window!Cardinality(S) = Cardinality(S)
  BY DEF Window!Cardinality, Cardinality

LEMMA StepSlides == ASSUME Typed, AllSettled, [Next]_vars PROVE [Window!Next]_(Window!vars)
<1>0. \A i \in Indicators : IsMap(input[i], Values) /\ IsMap(output[i], Values)
  BY DEF Typed, TypeOK
<1>1. ASSUME NEW i \in Indicators, InsertQuote(i) PROVE Window!Next
  <2>1. clock \in Times /\ mdata[i] \in Values
    BY <1>1 DEF InsertQuote, Typed, TypeOK, Flow
  <2>2. Window!Receive(i, clock, mdata[i])
    BY <1>1 DEF InsertQuote, Window!Receive
  <2> QED
    BY <2>1, <2>2 DEF Window!Next
<1>2. CASE ProcessKey
  <2> DEFINE i == current
  <2> DEFINE out == output[current]
  <2> DEFINE in == input[current]
  <2> DEFINE k == First(keys)
  <2> DEFINE v == Modifier[current][input[current][k]]
  <2> DEFINE new == Insert(out, k, v)
  <2>1. i \in Indicators /\ keys \subseteq DOMAIN in /\ keys # {} /\ pc = "process"
    BY <1>2 DEF ProcessKey, Typed, Flow
  <2>2. Settled(in, out, keys, received[i], Modifier[i])
    BY <2>1 DEF AllSettled, Pending
  <2>3. k \in Times /\ IsMap(in, Values) /\ IsMap(out, Values)
    BY <1>0, <2>1, <2>2, VisitedKey
  <2>4. output' = [output EXCEPT ![i] = new] /\ received' = received
    BY <1>2 DEF ProcessKey, history
  <2>5. output = [j \in Indicators |-> output[j]]
    BY DEF Typed, TypeOK, IsFamily
  <2>6. Slides(in, out, received[i], k, v, new)
    <3> HIDE DEF v, in, out, i
    <3> QED
      BY <2>1, <2>2, <2>3, ProcessSlides
  <2> HIDE DEF new, k
  <2>7. CASE new = out
    BY <2>4, <2>5, <2>7 DEF Window!vars
  <2>8. ASSUME NEW u \in Times, IsFull(out), IsFirst(DOMAIN out, u), new = Without(out, u)
        PROVE  Window!Next
    <3>1. Window!Full(i) /\ Window!Oldest(i, u)
      BY <2>8, SameCardinality DEF IsFull, IsFirst, Window!Full, Window!Oldest
    <3>2. output' = [output EXCEPT ![i] = [t \in DOMAIN @ \ {u} |-> @[t]]]
      BY <2>1, <2>4, <2>8 DEF Without
    <3>3. Window!Leave(i, u)
      BY <2>4, <3>1, <3>2 DEF Window!Leave
    <3>4. \E t \in Times, w \in Values : TRUE
      <4>1. Last(out) \in Times /\ out[Last(out)] \in Values
        BY <2>3, <2>8, MapFacts DEF IsFirst, IsLast, IsMap
      <4> QED
        BY <4>1
    <3> QED
      BY <2>1, <3>3, <3>4 DEF Window!Next
  <2>9. ASSUME <<k, in[k]>> \in received[i], in[k] \in Values, \A t \in DOMAIN out : t < k,
               NEW gone, new = Entered(out, gone, k, v)
        PROVE  Window!Change(i, gone, k, in[k])
    <3>1. output' = [output EXCEPT ![i] = [t \in (DOMAIN @ \ gone) \cup {k} |->
                                             IF t = k THEN Modifier[i][in[k]] ELSE @[t]]]
      BY <2>1, <2>4, <2>9 DEF Entered
    <3> QED
      BY <2>4, <2>9, <3>1 DEF Window!Change
  <2>10. ASSUME <<k, in[k]>> \in received[i], in[k] \in Values, \A t \in DOMAIN out : t < k,
                ~IsFull(out), new = Entered(out, {}, k, v)
         PROVE  Window!Next
    <3>1. Window!Enter(i, k, in[k])
      BY <2>9, <2>10, SameCardinality DEF IsFull, Window!Full, Window!Enter
    <3> QED
      BY <2>1, <2>3, <2>10, <3>1 DEF Window!Next
  <2>11. ASSUME <<k, in[k]>> \in received[i], in[k] \in Values, \A t \in DOMAIN out : t < k,
                IsFull(out), NEW u \in Times, IsFirst(DOMAIN out, u),
                new = Entered(out, {u}, k, v)
         PROVE  Window!Next
    <3>1. Window!Slide(i, u, k, in[k])
      BY <2>9, <2>11, SameCardinality DEF IsFull, IsFirst, Window!Full, Window!Oldest, Window!Slide
    <3> QED
      BY <2>1, <2>3, <2>11, <3>1 DEF Window!Next
  <2> QED
    BY <2>6, <2>7, <2>8, <2>10, <2>11 DEF Slides
<1>3. CASE \/ Look \/ RequestThrows \/ CloseWindow \/ IndicatorDone \/ UpdatesDone
           \/ CompareKey \/ DecideRule \/ RulesDone \/ CycleDone \/ UNCHANGED vars
           \/ \E i \in Indicators : DropQuote(i) \/ \E v \in Values : ReceiveQuote(i, v)
           \/ \E r \in Rules : VisitRule(r) \/ Transact(r)
  BY <1>3 DEF Window!vars, vars, maps, history, Look, ReceiveQuote, RequestThrows,
    CloseWindow, DropQuote, IndicatorDone, UpdatesDone, VisitRule, CompareKey,
    DecideRule, RulesDone, Transact, CycleDone
<1> QED
  BY <1>1, <1>2, <1>3 DEF Next, Over

(***************************************************************************)
(* An indicator's output is a window over the quotes it received, each     *)
(* modified once, in which a quote enters last and leaves first.           *)
(***************************************************************************)
THEOREM ImplementsQuoteWindow == Spec => OutputIsWindow
<1>1. Init => Window!Init
  BY DEF Init, Window!Init, Empty
<1>2. Typed /\ AllSettled /\ [Next]_vars => [Window!Next]_(Window!vars)
  BY StepSlides
<1> QED
  BY <1>1, <1>2, TypedInvariant, SettledInvariant, PTL DEF Spec, OutputIsWindow, Window!Spec
=============================================================================
