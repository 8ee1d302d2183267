---------------------------- MODULE TradesProofs ----------------------------
(***************************************************************************)
(* What the thread of a strategy makes of its quotes as long as the system *)
(* clock goes forward: outputs are current and rules trade on the quotes   *)
(* of their cycle, for all indicators, signals and rules, all modifiers    *)
(* and relations, and for maps of every size from two up.                  *)
(***************************************************************************)
EXTENDS IndicatorProofs

-----------------------------------------------------------------------------
(* While the clock goes forward: the quotes in the maps.                   *)

Firsts(A) == {p[1] : p \in A}
Moments(i) == Firsts(received[i])
Before(i) == Moments(i) \ {clock}

\* The quote of i still has to be given to the indicator.
Waits(i) == pc \in {"update", "process"} /\ i \in todo

\* The time stamp of this cycle is the newest and belongs to one quote.
Stamped ==
  /\ \A i \in Indicators : \A t \in Moments(i) : t <= clock
  /\ pc \notin {"window", "ended", "died"} => \A i \in Indicators :
       /\ clock \in Moments(i) <=> mdata[i] # None /\ ~Waits(i)
       /\ \A v : <<clock, v>> \in received[i] => v = mdata[i]

\* The input has the newest quotes.  The output has them as well, but while the loop
\* still has to visit the new one: then it may lack the oldest.
Processed(i) ==
  /\ DOMAIN input[i] = Newest(Moments(i), N)
  /\ clock \notin Pending(i) => Pending(i) = {} /\ DOMAIN output[i] = Newest(Moments(i), N)
  /\ clock \in Pending(i) =>
       /\ DOMAIN output[i] \subseteq Before(i)
       /\ Newest(DOMAIN output[i], N - 1) = Newest(Before(i), N - 1)
       /\ \A k \in Pending(i) \ {clock} : IsLast(DOMAIN output[i], k)

Forward == back = 0 => Stamped /\ \A i \in Indicators : Processed(i)

LEMMA MomentFacts ==
  ASSUME Typed, NEW i \in Indicators
  PROVE  /\ Moments(i) \subseteq Times /\ Moments(i) \subseteq Nat /\ IsFiniteSet(Moments(i))
         /\ Before(i) \subseteq Nat /\ IsFiniteSet(Before(i)) /\ clock \in Nat
         /\ MaxTime \in Nat /\ Moments(i) \subseteq 0..MaxTime
<1>1. Moments(i) \subseteq Times
  BY DEF Moments, Firsts, Typed, TypeOK
<1>2. Moments(i) \subseteq Nat /\ Moments(i) \subseteq 0..MaxTime /\ MaxTime \in Nat
  BY <1>1, TimesFacts
<1>3. IsFiniteSet(0..MaxTime)
  BY <1>2, FS_Interval
<1>4. IsFiniteSet(Moments(i)) /\ Before(i) \in SUBSET Moments(i)
  BY <1>2, <1>3, FS_Subset DEF Before
<1>5. IsFiniteSet(Before(i))
  BY <1>4, FS_Subset
<1>6. clock \in Nat
  BY <1>2 DEF Typed, TypeOK
<1> QED
  BY <1>1, <1>2, <1>4, <1>5, <1>6

\* A quote adds its time.
LEMMA FirstsPlus ==
  ASSUME NEW A, NEW t, NEW v
  PROVE  Firsts(A \cup {<<t, v>>}) = Firsts(A) \cup {t}
<1> DEFINE q == <<t, v>>
<1>1. q[1] = t
  OBVIOUS
<1> HIDE DEF q
<1>2. Firsts(A \cup {q}) = Firsts(A) \cup {q[1]}
  BY DEF Firsts
<1> QED
  BY <1>1, <1>2 DEF q

LEMMA FirstIn == ASSUME NEW A, NEW t, NEW v, <<t, v>> \in A PROVE t \in Firsts(A)
<1>1. <<t, v>>[1] = t
  OBVIOUS
<1> QED
  BY <1>1 DEF Firsts

LEMMA SizeFacts == N \in Nat /\ N - 1 \in Nat /\ 1 <= N - 1 /\ N - 1 <= N /\ N - 1 + 1 = N
  BY NAssumption

LEMMA MapOf ==
  ASSUME Typed, NEW i \in Indicators
  PROVE  /\ IsMap(input[i], Values) /\ IsMap(output[i], Values)
         /\ Pending(i) \subseteq DOMAIN input[i]
BY DEF Typed, TypeOK, Flow, Pending

\* What does not look at the maps.
LEMMA ProcessedKept ==
  ASSUME NEW i \in Indicators, Processed(i),
         UNCHANGED <<clock, input, output, received, Pending(i)>>
  PROVE  Processed(i)'
BY DEF Processed, Before, Moments

-----------------------------------------------------------------------------
(* A quote enters an input.                                                *)

LEMMA InsertProcessed ==
  ASSUME Typed, Stamped, NEW i \in Indicators, Processed(i), InsertQuote(i)
  PROVE  Processed(i)'
<1>1. /\ pc = "update" /\ i \in todo /\ clock \notin DOMAIN input[i]
      /\ pc' = "process" /\ current' = i /\ UNCHANGED <<output, clock>>
  BY DEF InsertQuote
<1>2. /\ input'[i] = Insert(input[i], clock, mdata[i])
      /\ received'[i] = received[i] \cup {<<clock, mdata[i]>>}
      /\ Pending(i)' = {k \in DOMAIN input'[i] : FirstToUse(input'[i], output[i]) <= k}
  BY DEF InsertQuote, Pending, Typed, TypeOK, IsFamily
<1>3. Moments(i)' = Moments(i) \cup {clock}
  <2>1. Firsts(received[i] \cup {<<clock, mdata[i]>>}) = Firsts(received[i]) \cup {clock}
    BY FirstsPlus
  <2> QED
    BY <1>2, <2>1 DEF Moments
<1>4. clock \notin Moments(i) /\ \A t \in Moments(i) : t < clock
  BY <1>1, MomentFacts DEF Stamped, Waits
<1>5. Before(i)' = Moments(i)
  BY <1>1, <1>3, <1>4 DEF Before
<1>6. Pending(i) = {}
  BY <1>1 DEF Pending
<1> DEFINE S == Moments(i)
<1> DEFINE out == output[i]
<1>7. DOMAIN input[i] = Newest(S, N) /\ DOMAIN out = Newest(S, N)
  BY <1>6 DEF Processed
<1>8. /\ Newest(Newest(S, N), N - 1) = Newest(S, N - 1)
      /\ Newest(S \cup {clock}, N) = Newest(S, N - 1) \cup {clock}
      /\ Newest(S, N) \subseteq S /\ Newest(S, N - 1) \subseteq Newest(S, N)
  <2>1. /\ S \subseteq Nat /\ IsFiniteSet(S) /\ clock \in Nat
        /\ N \in Nat /\ N - 1 \in Nat /\ N - 1 <= N /\ (N - 1) + 1 = N
    BY MomentFacts, SizeFacts
  <2> HIDE DEF S
  <2>2. Newest(Newest(S, N), N - 1) = Newest(S, N - 1)
    BY <2>1, NewestNested
  <2>3. Newest(S \cup {clock}, (N - 1) + 1) = Newest(S, N - 1) \cup {clock}
    BY <1>4, <2>1, NewestPlus DEF S
  <2>4. Newest(S, N) \subseteq S /\ Newest(Newest(S, N), N - 1) \subseteq Newest(S, N)
    BY DEF Newest
  <2> QED
    BY <2>1, <2>2, <2>3, <2>4
<1>9. DOMAIN input'[i] = Newest(S, N - 1) \cup {clock}
  <2>1. DOMAIN Insert(input[i], clock, mdata[i]) = DOMAIN Evict(input[i]) \cup {clock}
    BY InsertMap
  <2>2. DOMAIN Evict(input[i]) = Newest(DOMAIN input[i], N - 1)
    BY EvictNewest
  <2> QED
    BY <1>2, <1>7, <1>8, <2>1, <2>2
<1>10. DOMAIN input'[i] = Newest(Moments(i)', N)
  BY <1>3, <1>8, <1>9
<1>11. DOMAIN input'[i] \subseteq Nat /\ \A k \in DOMAIN input'[i] : k <= clock
  BY <1>4, <1>8, <1>9, MomentFacts
<1>12. DOMAIN out # {} => /\ IsLast(DOMAIN out, Last(out)) /\ Last(out) \in Newest(S, N - 1)
                          /\ FirstToUse(input'[i], out) = Last(out)
  <2> SUFFICES ASSUME DOMAIN out # {}
               PROVE  /\ IsLast(DOMAIN out, Last(out)) /\ Last(out) \in Newest(S, N - 1)
                      /\ FirstToUse(input'[i], out) = Last(out)
    OBVIOUS
  <2>1. IsLast(DOMAIN out, Last(out)) /\ DOMAIN out \subseteq Nat
    BY MapOf, MapFacts
  <2>2. Last(out) \in Newest(DOMAIN out, N - 1)
    BY <2>1, SizeFacts, NewestHasLast
  <2>3. Last(out) \in Newest(S, N - 1)
    BY <1>7, <1>8, <2>2
  <2> QED
    BY <1>9, <2>1, <2>3 DEF FirstToUse
<1>13. FirstToUse(input'[i], out) \in DOMAIN input'[i]
  <2>1. CASE DOMAIN out # {}
    BY <1>9, <1>12, <2>1
  <2>2. CASE DOMAIN out = {}
    <3>1. IsFirst(DOMAIN input'[i], First(DOMAIN input'[i]))
      BY <1>9, <1>11, FirstExists
    <3> QED
      BY <2>2, <3>1 DEF FirstToUse, IsFirst
  <2> QED
    BY <2>1, <2>2
<1>14. clock \in Pending(i)'
  BY <1>2, <1>9, <1>11, <1>13
<1>15. \A k \in Pending(i)' \ {clock} : IsLast(DOMAIN out, k)
  <2> SUFFICES ASSUME NEW k \in DOMAIN input'[i], k # clock,
                      FirstToUse(input'[i], out) <= k
               PROVE  IsLast(DOMAIN out, k)
    BY <1>2
  <2>1. k \in DOMAIN out
    BY <1>7, <1>8, <1>9
  <2>2. IsLast(DOMAIN out, Last(out)) /\ Last(out) <= k /\ DOMAIN out \subseteq Nat
    BY <1>12, <2>1, MapOf, MapFacts
  <2> QED
    BY <2>1, <2>2 DEF IsLast
<1> HIDE DEF S, out
<1>16. DOMAIN out \subseteq Before(i)' /\ Newest(DOMAIN out, N - 1) = Newest(Before(i)', N - 1)
  BY <1>5, <1>7, <1>8 DEF S
<1> QED
  BY <1>1, <1>10, <1>14, <1>15, <1>16 DEF Processed, out

-----------------------------------------------------------------------------
(* An iteration of the loop.                                               *)

LEMMA ProcessProcessed ==
  ASSUME Typed, Stamped, NEW i \in Indicators, i = current, Processed(i), ProcessKey
  PROVE  Processed(i)'
<1> DEFINE k == First(keys)
<1> DEFINE v == Modifier[i][input[i][k]]
<1> DEFINE out == output[i]
<1> DEFINE new == Insert(out, k, v)
<1>1. /\ pc = "process" /\ keys # {} /\ Pending(i) = keys /\ keys \subseteq DOMAIN input[i]
      /\ Pending(i)' = keys \ {k} /\ UNCHANGED <<clock, received>>
  BY DEF ProcessKey, Pending, Typed, Flow, history
<1>2. /\ DOMAIN input'[i] = DOMAIN input[i]
      /\ output'[i] = new
  BY DEF ProcessKey, Typed, TypeOK, IsFamily
<1>3. IsFirst(keys, k)
  BY <1>1, MapOf, MapFacts, FirstExists
<1>4. /\ clock \in keys /\ DOMAIN input[i] = Newest(Moments(i), N)
      /\ DOMAIN out \subseteq Before(i)
      /\ Newest(DOMAIN out, N - 1) = Newest(Before(i), N - 1)
      /\ \A j \in keys \ {clock} : IsLast(DOMAIN out, j)
  BY <1>1 DEF Processed
<1>5. Moments(i)' = Moments(i) /\ Before(i)' = Before(i)
  BY <1>1 DEF Moments, Before
<1>6. DOMAIN new = Newest(Before(i), N - 1) \cup {k}
  <2> HIDE DEF k, v, out
  <2>1. DOMAIN Insert(out, k, v) = DOMAIN Evict(out) \cup {k}
    BY InsertMap
  <2>2. DOMAIN Evict(out) = Newest(DOMAIN out, N - 1)
    BY EvictNewest
  <2> QED
    BY <1>4, <2>1, <2>2 DEF out
<1>7. /\ Before(i) \subseteq Nat /\ IsFiniteSet(Before(i)) /\ clock \in Nat
      /\ N \in Nat /\ N - 1 \in Nat /\ N - 1 <= N - 1 /\ 1 <= N - 1 /\ (N - 1) + 1 = N
  BY MomentFacts, SizeFacts
<1>8. clock \in Moments(i) /\ \A t \in Before(i) : t < clock
  <2>1. clock \in Moments(i)
    BY <1>1, <1>4 DEF Newest
  <2>2. \A t \in Before(i) : t <= clock /\ t # clock
    BY DEF Stamped, Before
  <2> QED
    BY <1>7, <2>1, <2>2
<1>9. CASE k # clock
  <2>1. IsLast(DOMAIN out, k) /\ DOMAIN out \subseteq Nat
    BY <1>3, <1>4, <1>9, MapOf, MapFacts DEF IsFirst
  <2>2. k \in Newest(DOMAIN out, N - 1)
    BY <1>7, <2>1, NewestHasLast
  <2>3. DOMAIN new = Newest(Before(i), N - 1)
    BY <1>4, <1>6, <2>2
  <2>4. Newest(DOMAIN new, N - 1) = Newest(Before(i), N - 1)
    BY <1>7, <2>3, NewestNested
  <2>5. DOMAIN new \subseteq Before(i)
    BY <2>3 DEF Newest
  <2>6. keys \ {k} = {clock}
    BY <1>3, <1>4, <1>9, <2>1 DEF IsFirst, IsLast
  <2> HIDE DEF new, k
  <2> QED
    BY <1>1, <1>2, <1>4, <1>5, <2>4, <2>5, <2>6 DEF Processed
<1>10. CASE k = clock
  <2>1. keys = {clock}
    <3>1. \A j \in keys : j \in Moments(i) /\ clock <= j
      BY <1>1, <1>3, <1>4, <1>10 DEF IsFirst, Newest
    <3>2. \A j \in keys : j \in Nat /\ j <= clock
      BY <3>1, MomentFacts DEF Stamped
    <3>3. \A j \in keys : j = clock
      BY <1>7, <3>1, <3>2
    <3> QED
      BY <1>4, <3>3
  <2>2. Before(i) \cup {clock} = Moments(i)
    BY <1>8 DEF Before
  <2>3. Newest(Before(i) \cup {clock}, (N - 1) + 1) = Newest(Before(i), N - 1) \cup {clock}
    BY <1>7, <1>8, NewestPlus
  <2>4. DOMAIN new = Newest(Moments(i), N)
    BY <1>6, <1>7, <1>10, <2>2, <2>3
  <2>5. keys \ {k} = {}
    BY <1>10, <2>1
  <2> HIDE DEF new, k
  <2> QED
    BY <1>1, <1>2, <1>4, <1>5, <2>4, <2>5 DEF Processed
<1> QED
  BY <1>9, <1>10

-----------------------------------------------------------------------------
(* The invariant of the quotes.                                            *)

LEMMA InitForward == Init => Forward
<1> SUFFICES ASSUME Init PROVE Forward
  OBVIOUS
<1>1. \A i \in Indicators : Moments(i) = {} /\ Pending(i) = {} /\ received[i] = {}
  BY DEF Init, Moments, Firsts, Pending
<1>2. Stamped
  BY <1>1 DEF Init, Stamped, Waits
<1>3. ASSUME NEW i \in Indicators PROVE Processed(i)
  <2>1. DOMAIN input[i] = {} /\ DOMAIN output[i] = {} /\ Newest({}, N) = {}
    BY DEF Init, Empty, Newest
  <2> QED
    BY <1>1, <2>1 DEF Processed
<1> QED
  BY <1>2, <1>3 DEF Forward

LEMMA StepForward == ASSUME Typed, Forward, [Next]_vars PROVE Forward'
<1> SUFFICES ASSUME back' = 0 PROVE Stamped' /\ \A i \in Indicators : Processed(i)'
  BY DEF Forward
<1>0. /\ back = 0 /\ Stamped /\ \A i \in Indicators : Processed(i)
      /\ \A i \in Indicators : /\ Moments(i) \subseteq Nat /\ DOMAIN input[i] \subseteq Moments(i)
                               /\ Moments(i) = Firsts(received[i])
      /\ clock \in Nat
  <2>1. back = 0
    BY DEF Typed, TypeOK, Next, Over, vars, Look, ReceiveQuote, RequestThrows, CloseWindow,
      DropQuote, InsertQuote, ProcessKey, IndicatorDone, UpdatesDone, VisitRule, CompareKey,
      DecideRule, RulesDone, Transact, CycleDone
  <2>2. Stamped /\ \A i \in Indicators : Processed(i)
    BY <2>1 DEF Forward
  <2>3. ASSUME NEW i \in Indicators PROVE DOMAIN input[i] \subseteq Moments(i)
    BY <2>2 DEF Processed, Newest
  <2>4. ASSUME NEW i \in Indicators
        PROVE  Moments(i) \subseteq Nat /\ Moments(i) = Firsts(received[i])
    BY MomentFacts DEF Moments
  <2>5. clock \in Nat
    BY TimesFacts DEF Typed, TypeOK
  <2> QED
    BY <2>1, <2>2, <2>3, <2>4, <2>5
<1>1. ASSUME NEW i \in Indicators, InsertQuote(i)
      PROVE  Stamped' /\ \A j \in Indicators : Processed(j)'
  <2>1. /\ pc = "update" /\ pc' = "process" /\ i \in todo /\ todo' = todo \ {i}
        /\ current' = i /\ UNCHANGED <<clock, mdata, output>>
        /\ received'[i] = received[i] \cup {<<clock, mdata[i]>>}
        /\ mdata[i] # None
        /\ \A j \in Indicators \ {i} : input'[j] = input[j] /\ received'[j] = received[j]
    BY <1>1 DEF InsertQuote, Typed, TypeOK, Flow, IsFamily
  <2>2. /\ Moments(i)' = Moments(i) \cup {clock}
        /\ \A j \in Indicators \ {i} : /\ Moments(j)' = Moments(j)
                                       /\ Waits(j)' = Waits(j)
                                       /\ Pending(j) = {} /\ Pending(j)' = {}
        /\ Waits(i) /\ ~Waits(i)'
    <3>1. Firsts(received[i] \cup {<<clock, mdata[i]>>}) = Firsts(received[i]) \cup {clock}
      BY FirstsPlus
    <3>2. Moments(i)' = Moments(i) \cup {clock}
      BY <2>1, <3>1 DEF Moments
    <3> QED
      BY <2>1, <3>2 DEF Moments, Waits, Pending
  <2>3. \A v : <<clock, v>> \in received[i] => clock \in Moments(i)
    BY FirstIn DEF Moments
  <2>4. Stamped'
    BY <1>0, <2>1, <2>2, <2>3 DEF Stamped
  <2>5. ASSUME NEW j \in Indicators \ {i} PROVE Processed(j)'
    BY <1>0, <2>1, <2>2 DEF Processed
  <2> QED
    BY <1>0, <1>1, <2>4, <2>5, InsertProcessed
<1>2. CASE ProcessKey
  <2>1. /\ UNCHANGED <<pc, clock, mdata, todo, current, received>>
        /\ pc = "process" /\ current \in Indicators
        /\ \A j \in Indicators \ {current} : input'[j] = input[j] /\ output'[j] = output[j]
    BY <1>2 DEF ProcessKey, history, Typed, TypeOK, Flow, IsFamily
  <2>2. Stamped'
    BY <1>0, <2>1 DEF Stamped, Waits, Moments
  <2>3. ASSUME NEW j \in Indicators \ {current} PROVE Processed(j)'
    BY <1>0, <2>1 DEF Processed, Pending, Before, Moments
  <2> QED
    BY <1>0, <1>2, <2>1, <2>2, <2>3, ProcessProcessed
<1>3. ASSUME UNCHANGED <<input, output, received>>, \A i \in Indicators : Pending(i) = Pending(i)',
             \/ UNCHANGED clock
             \/ \A i \in Indicators : Pending(i) = {}
      PROVE  \A i \in Indicators : Processed(i)'
  <2>1. \A i \in Indicators : Moments(i)' = Moments(i)
    BY <1>3 DEF Moments
  <2>2. CASE UNCHANGED clock
    BY <1>0, <1>3, <2>1, <2>2 DEF Processed, Before
  <2>3. CASE \A i \in Indicators : Pending(i) = {}
    BY <1>0, <1>3, <2>1, <2>3 DEF Processed
  <2> QED
    BY <1>3, <2>2, <2>3
<1>4. CASE CloseWindow
  <2>1. /\ pc = "window" /\ pc' = "update" /\ clock < clock' /\ clock' \in Nat
        /\ todo' = {i \in Indicators : mdata[i] # None}
        /\ UNCHANGED <<mdata, input, output, received>>
    BY <1>0, <1>4, TimesFacts DEF CloseWindow, maps, history
  <2>2. \A i \in Indicators : \A t \in Moments(i) : t < clock'
    BY <1>0, <2>1 DEF Stamped
  <2>3. \A i \in Indicators : Moments(i)' = Moments(i) /\ (Waits(i)' <=> mdata[i] # None)
    BY <2>1 DEF Moments, Waits
  <2>4. \A i \in Indicators : \A v : <<clock', v>> \in received[i] => clock' \in Moments(i)
    BY FirstIn DEF Moments
  <2>5. Stamped'
    BY <1>0, <2>1, <2>2, <2>3, <2>4 DEF Stamped
  <2>6. \A i \in Indicators : Pending(i) = {} /\ Pending(i)' = {}
    BY <2>1 DEF Pending
  <2> QED
    BY <1>3, <2>1, <2>5, <2>6
<1>5. ASSUME NEW i \in Indicators, DropQuote(i) PROVE FALSE
  BY <1>0, <1>5 DEF DropQuote, Stamped, Waits
<1>6. CASE IndicatorDone
  <2>1. /\ UNCHANGED <<clock, mdata, todo, input, output, received>>
        /\ pc = "process" /\ pc' = "update" /\ keys = {}
    BY <1>6 DEF IndicatorDone, maps, history
  <2>2. \A i \in Indicators : Pending(i) = {} /\ Pending(i)' = {}
    BY <2>1 DEF Pending
  <2>3. \A i \in Indicators : Waits(i)' = Waits(i) /\ Moments(i)' = Moments(i)
    BY <2>1 DEF Waits, Moments
  <2>4. Stamped'
    BY <1>0, <2>1, <2>3 DEF Stamped
  <2> QED
    BY <1>3, <2>1, <2>2, <2>4
<1>7. CASE UpdatesDone
  <2>1. /\ UNCHANGED <<clock, mdata, input, output, received>>
        /\ pc = "update" /\ pc' = "rules" /\ todo = {}
    BY <1>7 DEF UpdatesDone, maps, history
  <2>2. \A i \in Indicators : Pending(i) = {} /\ Pending(i)' = {}
    BY <2>1 DEF Pending
  <2>3. \A i \in Indicators : ~Waits(i)' /\ ~Waits(i) /\ Moments(i)' = Moments(i)
    BY <2>1 DEF Waits, Moments
  <2>4. Stamped'
    BY <1>0, <2>1, <2>3 DEF Stamped
  <2> QED
    BY <1>3, <2>1, <2>2, <2>4
<1>8. CASE \/ Look \/ RequestThrows \/ \E i \in Indicators, v \in Values : ReceiveQuote(i, v)
  <2>1. /\ UNCHANGED <<clock, input, output, received>> /\ pc \in {"look", "window"}
        /\ pc' \in {"window", "died", "ended"}
    BY <1>8 DEF Look, RequestThrows, ReceiveQuote, maps, history
  <2>2. \A i \in Indicators : Pending(i) = {} /\ Pending(i)' = {} /\ Moments(i)' = Moments(i)
    BY <2>1 DEF Pending, Moments
  <2>3. Stamped'
    BY <1>0, <2>1, <2>2 DEF Stamped
  <2> QED
    BY <1>3, <2>1, <2>2, <2>3
<1>9. CASE \/ CompareKey \/ DecideRule \/ RulesDone \/ CycleDone
           \/ \E r \in Rules : VisitRule(r) \/ Transact(r)
  <2>1. /\ UNCHANGED <<clock, mdata, input, output, received>>
        /\ pc \in {"rules", "signal", "trade"} /\ pc' \in {"rules", "signal", "trade", "look"}
    BY <1>9 DEF CompareKey, DecideRule, RulesDone, CycleDone, VisitRule, Transact, maps, history
  <2>2. \A i \in Indicators : /\ Pending(i) = {} /\ Pending(i)' = {} /\ Moments(i)' = Moments(i)
                              /\ ~Waits(i)' /\ ~Waits(i)
    BY <2>1 DEF Pending, Moments, Waits
  <2>3. Stamped'
    BY <1>0, <2>1, <2>2 DEF Stamped
  <2> QED
    BY <1>3, <2>1, <2>2, <2>3
<1>10. CASE UNCHANGED vars
  <2>1. UNCHANGED <<pc, clock, mdata, todo, current, keys, input, output, received>>
    BY <1>10 DEF vars, maps, history
  <2>2. \A i \in Indicators : /\ Pending(i)' = Pending(i) /\ Moments(i)' = Moments(i)
                              /\ Waits(i)' = Waits(i)
    BY <2>1 DEF Pending, Moments, Waits
  <2>3. Stamped'
    BY <1>0, <2>1, <2>2 DEF Stamped
  <2> QED
    BY <1>3, <2>1, <2>2, <2>3
<1> QED
  BY <1>1, <1>2, <1>4, <1>5, <1>6, <1>7, <1>8, <1>9, <1>10 DEF Next, Over

LEMMA ForwardInvariant == Spec => []Forward
  BY InitForward, StepForward, TypedInvariant, PTL DEF Spec

\* A quote of this cycle is the newest entry of the output.
LEMMA NewestEntry ==
  ASSUME Typed, Stamped, NEW i \in Indicators, Processed(i), pc \in {"rules", "signal"}
  PROVE  /\ DOMAIN output[i] = Newest(Moments(i), N)
         /\ clock \in DOMAIN output[i] <=> mdata[i] # None
         /\ mdata[i] # None => IsLast(DOMAIN output[i], clock) /\ Last(output[i]) = clock
<1>1. /\ DOMAIN output[i] = Newest(Moments(i), N) /\ DOMAIN output[i] \subseteq Moments(i)
      /\ clock \in Moments(i) <=> mdata[i] # None
  BY DEF Processed, Pending, Stamped, Waits, Newest
<1>2. CASE mdata[i] # None
  <2>1. IsLast(Moments(i), clock)
    BY <1>1, <1>2 DEF IsLast, Stamped
  <2>2. clock \in Newest(Moments(i), N)
    BY <2>1, MomentFacts, SizeFacts, NewestHasLast
  <2>3. IsLast(DOMAIN output[i], clock)
    BY <1>1, <2>1, <2>2 DEF IsLast
  <2>4. Last(output[i]) = clock
    BY <2>3, MapOf, MapFacts, LastUnique
  <2> QED
    BY <1>1, <1>2, <2>3, <2>4 DEF IsLast
<1> QED
  BY <1>1, <1>2

(***************************************************************************)
(* As long as the clock goes forward, the rules of a cycle find every      *)
(* quote of the cycle at the end of its output, and behind it the newest   *)
(* quotes that the map has room for, none left out.                        *)
(***************************************************************************)
THEOREM OutputsAreCurrent == Spec => []OutputsCurrent
<1>1. Typed /\ Forward => OutputsCurrent
  BY NewestEntry DEF Forward, OutputsCurrent, Moments, Firsts
<1> QED
  BY <1>1, TypedInvariant, ForwardInvariant, PTL

-----------------------------------------------------------------------------
(* While the clock goes forward: the signals and the decisions.            *)

\* The signal has a value for the last quote of its left indicator.
LastKnown(s) ==
  \A t \in Moments(Left[s]) : (\A u \in Moments(Left[s]) : u <= t) => t \in DOMAIN signal[s]

Compared(r) ==
  /\ pc \in {"rules", "signal"} /\ r \notin todo
  /\ ~(pc = "signal" /\ r = current /\ clock \in keys)
Between(r) == pc \in {"look", "trade"} \/ mdata[Left[SignalOf[r]]] = None

\* What the comparison of this cycle's quotes gives.
Verdict(s) ==
  IF mdata[Right[s]] = None THEN "unset"
  ELSE BoolToSignalValue(<<Modifier[Left[s]][mdata[Left[s]]],
                           Modifier[Right[s]][mdata[Right[s]]]>> \in Relation[s])

\* What the rule sees in its signal.
Sees(r) == LET data == signal[SignalOf[r]]
           IN DOMAIN data # {} /\ data[Last(data)] = Wanted[r]
Decides(r) == SignalOf[r] \in Comparisons /\ Sees(r)

Decided(r) ==
  \/ pc = "rules" /\ r \notin todo
  \/ pc = "signal" /\ r \notin todo \cup {current}

Signalled ==
  \A s \in Signals :
    /\ DOMAIN signal[s] \subseteq Moments(Left[s])
    /\ pc \in {"update", "process"} => clock \notin DOMAIN signal[s]
    /\ pc \in {"rules", "signal"} /\ mdata[Left[s]] # None /\ clock \in DOMAIN signal[s]
         => signal[s][clock] = Verdict(s)
Judged ==
  /\ pc = "signal" => current \notin todo
  /\ \A r \in Rules :
       /\ Compared(r) \/ Between(r) => LastKnown(SignalOf[r])
       /\ Between(r) => (r \in previous <=> Decides(r))
       /\ Decided(r) => (r \in trades <=> Decides(r))
       /\ pc # "trade" /\ ~Decided(r) => r \notin trades

Acts == back = 0 => Signalled /\ Judged
\* A newest value is there: the signal's last entry, which a comparison keeps.
LEMMA KnownLast ==
  ASSUME Typed, NEW s \in Signals, LastKnown(s), Moments(Left[s]) # {},
         DOMAIN signal[s] \subseteq Moments(Left[s])
  PROVE  /\ DOMAIN signal[s] # {} /\ Last(signal[s]) \in DOMAIN signal[s]
         /\ \A t \in Moments(Left[s]) : t <= Last(signal[s])
<1> DEFINE M == Moments(Left[s])
<1> DEFINE id == [t \in M |-> t]
<1>0. Left[s] \in Indicators
  BY ObjectsAssumption
<1>1. M \subseteq 0..MaxTime /\ MaxTime \in Nat /\ M \subseteq Nat
  BY <1>0, MomentFacts
<1>2. DOMAIN id = M /\ M # {}
  OBVIOUS
<1> HIDE DEF id, M
<1>3. IsLast(M, Last(id))
  BY <1>1, <1>2, LastExists
<1> DEFINE l == Last(id)
<1> HIDE DEF l
<1>4. l \in M /\ \A t \in M : t <= l
  BY <1>3 DEF IsLast, l
<1>5. l \in DOMAIN signal[s] /\ DOMAIN signal[s] \subseteq M
  BY <1>4 DEF LastKnown, M
<1>6. IsLast(DOMAIN signal[s], l)
  BY <1>4, <1>5 DEF IsLast
<1>7. Last(signal[s]) = l
  BY <1>1, <1>5, <1>6, LastUnique
<1> QED
  BY <1>4, <1>5, <1>7 DEF M

-----------------------------------------------------------------------------
(* A comparison.                                                           *)

LEMMA CompareFacts ==
  ASSUME Typed, CompareKey, NEW s, s = SignalOf[current], NEW k, k = First(keys)
  PROVE  /\ pc = "signal" /\ current \in Rules /\ s \in Signals
         /\ k \in keys /\ k \in DOMAIN output[Left[s]] /\ k \in Nat
         /\ \A j \in keys : k <= j
         /\ keys' = keys \ {k}
         /\ \A z \in Signals \ {s} : signal'[z] = signal[z]
         /\ k \in DOMAIN signal'[s]
         /\ \E v : signal'[s] \in {signal[s], Insert(signal[s], k, v)}
         /\ k \notin DOMAIN signal[s] =>
              signal'[s][k] = IF k \in DOMAIN output[Right[s]]
                              THEN BoolToSignalValue(<<output[Left[s]][k], output[Right[s]][k]>>
                                                       \in Relation[s])
                              ELSE "unset"
         /\ UNCHANGED <<pc, clock, back, mdata, todo, current, input, output, trades, history>>
<1>1. /\ pc = "signal" /\ current \in Rules /\ s \in Signals /\ keys # {}
      /\ keys \subseteq DOMAIN output[Left[s]]
      /\ UNCHANGED <<pc, clock, back, mdata, todo, current, input, output, trades, history>>
      /\ keys' = keys \ {k}
  BY ObjectsAssumption DEF CompareKey, Typed, Flow
<1>2. Left[s] \in Indicators
  BY <1>1, ObjectsAssumption
<1>3. keys \subseteq Nat
  BY <1>1, <1>2, MapOf, MapFacts
<1>4. k \in keys /\ \A j \in keys : k <= j
  BY <1>1, <1>3, FirstExists DEF IsFirst
<1> DEFINE v == IF k \in DOMAIN output[Right[s]]
                THEN BoolToSignalValue(<<output[Left[s]][k], output[Right[s]][k]>> \in Relation[s])
                ELSE "unset"
<1> DEFINE new == Insert(signal[s], k, v)
<1>5. \/ k \in DOMAIN signal[s] /\ UNCHANGED signal
      \/ signal' = [signal EXCEPT ![s] = Insert(@, k, v)]
  BY DEF CompareKey
<1>6. k \in DOMAIN new /\ (k \notin DOMAIN signal[s] => new[k] = v)
  <2> DEFINE m == signal[s]
  <2> HIDE DEF v, m
  <2>1. /\ DOMAIN Evict(m) \subseteq DOMAIN m
        /\ DOMAIN Insert(m, k, v) = DOMAIN Evict(m) \cup {k}
        /\ k \notin DOMAIN Evict(m) => Insert(m, k, v)[k] = v
    BY InsertMap
  <2> QED
    BY <2>1 DEF m
<1>7. IsFamily(signal, Signals)
  BY DEF Typed, TypeOK
<1> HIDE DEF v
<1>8. CASE UNCHANGED signal /\ k \in DOMAIN signal[s]
  BY <1>1, <1>3, <1>4, <1>8
<1>9. CASE signal' = [signal EXCEPT ![s] = Insert(@, k, v)]
  <2>1. signal'[s] = new /\ \A z \in Signals \ {s} : signal'[z] = signal[z]
    BY <1>1, <1>7, <1>9 DEF IsFamily
  <2>2. \E w : signal'[s] \in {signal[s], Insert(signal[s], k, w)}
    BY <2>1
  <2> HIDE DEF new
  <2> QED
    BY <1>1, <1>3, <1>4, <1>6, <2>1, <2>2 DEF v
<1> QED
  BY <1>5, <1>8, <1>9

\* The newest value survives, and stays the newest.
LEMMA CompareKeeps ==
  ASSUME Typed, NEW s \in Signals, NEW k \in Moments(Left[s]), NEW v, NEW new,
         new \in {signal[s], Insert(signal[s], k, v)},
         DOMAIN signal[s] \subseteq Moments(Left[s])
  PROVE  /\ DOMAIN new \subseteq Moments(Left[s])
         /\ DOMAIN signal[s] # {} => /\ Last(signal[s]) \in DOMAIN new
                                     /\ new[Last(signal[s])] = signal[s][Last(signal[s])]
         /\ LastKnown(s) => /\ DOMAIN signal[s] # {} /\ DOMAIN new # {}
                            /\ Last(new) = Last(signal[s])
                            /\ new[Last(new)] = signal[s][Last(signal[s])]
                            /\ \A t \in Moments(Left[s]) :
                                 (\A u \in Moments(Left[s]) : u <= t) => t \in DOMAIN new
<1> DEFINE M == Moments(Left[s])
<1>0. Left[s] \in Indicators
  BY ObjectsAssumption
<1>1. M \subseteq 0..MaxTime /\ MaxTime \in Nat /\ M \subseteq Nat /\ M # {}
  BY <1>0, MomentFacts
<1>2. DOMAIN new \subseteq M
  <2>1. CASE new = signal[s]
    BY <2>1
  <2>2. CASE new = Insert(signal[s], k, v)
    <3>1. /\ DOMAIN Evict(signal[s]) \subseteq DOMAIN signal[s]
          /\ DOMAIN Insert(signal[s], k, v) = DOMAIN Evict(signal[s]) \cup {k}
      BY InsertMap
    <3> QED
      BY <2>2, <3>1
  <2> QED
    BY <2>1, <2>2
<1>3. ASSUME DOMAIN signal[s] # {}
      PROVE  Last(signal[s]) \in DOMAIN new /\ new[Last(signal[s])] = signal[s][Last(signal[s])]
  <2>1. DOMAIN signal[s] \subseteq 0..MaxTime
    BY <1>1
  <2>2. Last(signal[s]) \in DOMAIN signal[s]
    BY <1>1, <1>3, <2>1, LastExists DEF IsLast
  <2>3. CASE new = signal[s]
    BY <2>2, <2>3
  <2>4. CASE new = Insert(signal[s], k, v)
    BY <1>1, <1>3, <2>1, <2>4, InsertKeepsLast
  <2> QED
    BY <2>3, <2>4
<1>4. ASSUME LastKnown(s)
      PROVE  /\ DOMAIN signal[s] # {} /\ DOMAIN new # {}
             /\ Last(new) = Last(signal[s])
             /\ new[Last(new)] = signal[s][Last(signal[s])]
             /\ \A t \in M : (\A u \in M : u <= t) => t \in DOMAIN new
  <2> DEFINE l == Last(signal[s])
  <2>1. DOMAIN signal[s] # {} /\ l \in DOMAIN signal[s] /\ \A t \in M : t <= l
    BY <1>1, <1>4, KnownLast
  <2>2. l \in DOMAIN new /\ new[l] = signal[s][l] /\ l \in M
    BY <1>3, <2>1
  <2> HIDE DEF l, M
  <2>3. IsLast(DOMAIN new, l)
    BY <1>2, <2>1, <2>2 DEF IsLast
  <2>4. DOMAIN new \subseteq 0..MaxTime
    BY <1>1, <1>2
  <2>5. Last(new) = l
    BY <1>1, <2>3, <2>4, LastUnique
  <2>6. ASSUME NEW t \in M, \A u \in M : u <= t PROVE t \in DOMAIN new
    <3>1. t \in Nat /\ l \in Nat /\ t <= l /\ l <= t
      BY <1>1, <2>1, <2>2, <2>6
    <3> QED
      BY <2>2, <3>1
  <2> QED
    BY <2>1, <2>2, <2>5, <2>6 DEF l
<1> QED
  BY <1>2, <1>3, <1>4

\* This cycle's entry of an output is its quote, modified.
LEMMA EntryOfCycle ==
  ASSUME Typed, AllSettled, Stamped, NEW i \in Indicators, Processed(i), pc \in {"rules", "signal"},
         clock \in DOMAIN output[i]
  PROVE  output[i][clock] = Modifier[i][mdata[i]]
<1>1. PICK v \in Values : <<clock, v>> \in received[i] /\ output[i][clock] = Modifier[i][v]
  BY DEF AllSettled, Settled
<1>2. v = mdata[i]
  BY <1>1 DEF Stamped
<1> QED
  BY <1>1, <1>2

Quoted == Stamped /\ \A i \in Indicators : Processed(i)

LEMMA ComparedSignals ==
  ASSUME Typed, AllSettled, Quoted, Signalled, CompareKey
  PROVE  Signalled'
<1>0. PICK s, k : s = SignalOf[current] /\ k = First(keys)
  OBVIOUS
<1>1. /\ s = SignalOf[current] /\ k = First(keys)
      /\ pc = "signal" /\ current \in Rules /\ s \in Signals
      /\ k \in keys /\ k \in DOMAIN output[Left[s]] /\ k \in Nat
      /\ \A z \in Signals \ {s} : signal'[z] = signal[z]
      /\ \E v : signal'[s] \in {signal[s], Insert(signal[s], k, v)}
      /\ k \notin DOMAIN signal[s] =>
           signal'[s][k] = IF k \in DOMAIN output[Right[s]]
                           THEN BoolToSignalValue(<<output[Left[s]][k], output[Right[s]][k]>>
                                                    \in Relation[s])
                           ELSE "unset"
      /\ UNCHANGED <<pc, clock, mdata, received>>
  BY <1>0, CompareFacts DEF history
<1>2. Left[s] \in Indicators /\ Right[s] \in Indicators
  BY <1>1, ObjectsAssumption
<1>3. k \in Moments(Left[s])
  BY <1>1, <1>2, NewestEntry DEF Quoted, Newest
<1>4. /\ \A z : Moments(z)' = Moments(z) /\ Verdict(z)' = Verdict(z)
      /\ pc' = "signal"
  BY <1>1 DEF Moments, Verdict
<1>5. DOMAIN signal[s] \subseteq Moments(Left[s])
  BY <1>1 DEF Signalled
<1>6. PICK v : signal'[s] \in {signal[s], Insert(signal[s], k, v)}
  BY <1>1
<1>7. /\ DOMAIN signal'[s] \subseteq Moments(Left[s])
      /\ DOMAIN signal[s] # {} => /\ Last(signal[s]) \in DOMAIN signal'[s]
                                  /\ signal'[s][Last(signal[s])] = signal[s][Last(signal[s])]
  <2>1. PICK new : new = signal'[s]
    OBVIOUS
  <2>2. new \in {signal[s], Insert(signal[s], k, v)}
    BY <1>6, <2>1
  <2>3. s \in Signals
    BY <1>1
  <2>4. /\ DOMAIN new \subseteq Moments(Left[s])
        /\ DOMAIN signal[s] # {} => /\ Last(signal[s]) \in DOMAIN new
                                    /\ new[Last(signal[s])] = signal[s][Last(signal[s])]
        /\ LastKnown(s) => /\ DOMAIN signal[s] # {} /\ DOMAIN new # {}
                           /\ Last(new) = Last(signal[s])
                           /\ new[Last(new)] = signal[s][Last(signal[s])]
                           /\ \A t \in Moments(Left[s]) :
                                (\A u \in Moments(Left[s]) : u <= t) => t \in DOMAIN new
    BY <1>3, <1>5, <2>2, <2>3, CompareKeeps
  <2> QED
    BY <2>1, <2>4
<1>8. ASSUME mdata[Left[s]] # None, clock \in DOMAIN signal'[s]
      PROVE  signal'[s][clock] = Verdict(s)
  <2>1. CASE clock \in DOMAIN signal[s]
    <3>1. DOMAIN signal[s] \subseteq 0..MaxTime /\ MaxTime \in Nat
      BY <1>2, <1>5, MomentFacts
    <3>2. IsLast(DOMAIN signal[s], clock)
      BY <1>2, <1>5, <2>1 DEF IsLast, Quoted, Stamped
    <3>3. Last(signal[s]) = clock
      BY <3>1, <3>2, LastUnique
    <3>4. signal'[s][clock] = signal[s][clock]
      BY <1>7, <2>1, <3>3
    <3> QED
      BY <1>1, <1>8, <2>1, <3>4 DEF Signalled
  <2>2. CASE clock \notin DOMAIN signal[s]
    <3>1. k = clock
      <4> DEFINE m == signal[s]
      <4> HIDE DEF m
      <4>1. DOMAIN Evict(m) \subseteq DOMAIN m /\ DOMAIN Insert(m, k, v) = DOMAIN Evict(m) \cup {k}
        BY InsertMap
      <4> QED
        BY <1>6, <1>8, <2>2, <4>1 DEF m
    <3>2. output[Left[s]][clock] = Modifier[Left[s]][mdata[Left[s]]]
      BY <1>1, <1>2, <3>1, EntryOfCycle DEF Quoted
    <3>3. CASE mdata[Right[s]] = None
      <4>1. clock \notin DOMAIN output[Right[s]]
        BY <1>1, <1>2, <3>3, NewestEntry DEF Quoted
      <4> QED
        BY <1>1, <2>2, <3>1, <3>3, <4>1 DEF Verdict
    <3>4. CASE mdata[Right[s]] # None
      <4>1. clock \in DOMAIN output[Right[s]]
        BY <1>1, <1>2, <3>4, NewestEntry DEF Quoted
      <4>2. output[Right[s]][clock] = Modifier[Right[s]][mdata[Right[s]]]
        BY <1>1, <1>2, <4>1, EntryOfCycle DEF Quoted
      <4> QED
        BY <1>1, <2>2, <3>1, <3>2, <3>4, <4>1, <4>2 DEF Verdict
    <3> QED
      BY <3>3, <3>4
  <2> QED
    BY <2>1, <2>2
<1> QED
  BY <1>1, <1>4, <1>7, <1>8 DEF Signalled

LEMMA ComparedRules ==
  ASSUME Typed, Quoted, Signalled, Judged, CompareKey
  PROVE  Judged'
<1>0. PICK s, k : s = SignalOf[current] /\ k = First(keys)
  OBVIOUS
<1>1. /\ s = SignalOf[current] /\ k = First(keys)
      /\ pc = "signal" /\ current \in Rules /\ s \in Signals
      /\ k \in keys /\ k \in DOMAIN output[Left[s]] /\ k \in Nat
      /\ \A j \in keys : k <= j
      /\ keys' = keys \ {k}
      /\ \A z \in Signals \ {s} : signal'[z] = signal[z]
      /\ k \in DOMAIN signal'[s]
      /\ \E v : signal'[s] \in {signal[s], Insert(signal[s], k, v)}
      /\ UNCHANGED <<pc, clock, mdata, todo, current, trades, received, previous>>
  BY <1>0, CompareFacts DEF history
<1>2. Left[s] \in Indicators
  BY <1>1, ObjectsAssumption
<1>3. k \in Moments(Left[s])
  BY <1>1, <1>2, NewestEntry DEF Quoted, Newest
<1>4. \A z : Moments(z)' = Moments(z)
  BY <1>1 DEF Moments
<1>5. DOMAIN signal[s] \subseteq Moments(Left[s])
  BY <1>1 DEF Signalled
<1>6. PICK v : signal'[s] \in {signal[s], Insert(signal[s], k, v)}
  BY <1>1
\* A signal that knew its newest value still does, and it is the same value.
<1>7. ASSUME NEW r \in Rules, LastKnown(SignalOf[r])
      PROVE  LastKnown(SignalOf[r])' /\ (Decides(r)' <=> Decides(r))
  <2>1. CASE SignalOf[r] = s
    <3>1. /\ DOMAIN signal[s] # {} /\ DOMAIN signal'[s] # {}
          /\ Last(signal'[s]) = Last(signal[s])
          /\ signal'[s][Last(signal'[s])] = signal[s][Last(signal[s])]
          /\ \A t \in Moments(Left[s]) :
               (\A u \in Moments(Left[s]) : u <= t) => t \in DOMAIN signal'[s]
      <4>1. PICK new : new = signal'[s]
        OBVIOUS
      <4>2. new \in {signal[s], Insert(signal[s], k, v)} /\ LastKnown(s)
        BY <1>6, <1>7, <2>1, <4>1
      <4>3. s \in Signals
        BY <1>1
      <4>4. /\ DOMAIN new \subseteq Moments(Left[s])
            /\ DOMAIN signal[s] # {} => /\ Last(signal[s]) \in DOMAIN new
                                        /\ new[Last(signal[s])] = signal[s][Last(signal[s])]
            /\ LastKnown(s) => /\ DOMAIN signal[s] # {} /\ DOMAIN new # {}
                               /\ Last(new) = Last(signal[s])
                               /\ new[Last(new)] = signal[s][Last(signal[s])]
                               /\ \A t \in Moments(Left[s]) :
                                    (\A u \in Moments(Left[s]) : u <= t) => t \in DOMAIN new
        BY <1>3, <1>5, <4>2, <4>3, CompareKeeps
      <4> QED
        BY <4>1, <4>2, <4>4
    <3>2. Moments(Left[s])' = Moments(Left[s])
      BY <1>1 DEF Moments
    <3>4. LastKnown(s)'
      BY <3>1, <3>2 DEF LastKnown
    <3>3. Sees(r)' <=> Sees(r)
      BY <2>1, <3>1 DEF Sees
    <3> QED
      BY <2>1, <3>3, <3>4 DEF Decides
  <2>2. CASE SignalOf[r] # s
    <3>1. signal'[SignalOf[r]] = signal[SignalOf[r]]
      BY <1>1, <2>2, ObjectsAssumption
    <3>2. Moments(Left[SignalOf[r]])' = Moments(Left[SignalOf[r]])
      BY <1>1 DEF Moments
    <3>3. LastKnown(SignalOf[r])'
      BY <1>7, <3>1, <3>2 DEF LastKnown
    <3>4. Decides(r)' <=> Decides(r)
      BY <3>1 DEF Decides, Sees
    <3> QED
      BY <3>3, <3>4
  <2> QED
    BY <2>1, <2>2
<1>8. ASSUME NEW r \in Rules, Compared(r)' PROVE LastKnown(SignalOf[r])'
  <2>1. CASE Compared(r)
    BY <1>7, <2>1 DEF Judged
  <2>2. CASE ~Compared(r)
    <3>1. r = current /\ clock \in keys /\ k = clock
      BY <1>1, <1>8, <2>2 DEF Compared
    <3>2. /\ clock \in DOMAIN signal'[s] /\ clock \in Nat /\ Moments(Left[s]) \subseteq Nat
          /\ clock \in Moments(Left[s]) /\ \A t \in Moments(Left[s]) : t <= clock
      BY <1>1, <1>2, <1>3, <3>1, MomentFacts DEF Quoted, Stamped
    <3>3. ASSUME NEW t \in Moments(Left[s]), \A u \in Moments(Left[s]) : u <= t
          PROVE  t \in DOMAIN signal'[s]
      <4>1. t \in Nat /\ clock \in Nat /\ t <= clock /\ clock <= t
        BY <3>2, <3>3
      <4> QED
        BY <3>2, <4>1
    <3> QED
      BY <1>1, <1>4, <3>1, <3>3 DEF LastKnown
  <2> QED
    BY <2>1, <2>2
<1>9. \A r : /\ Between(r)' = Between(r) /\ Decided(r)' = Decided(r)
             /\ Decided(r) => Compared(r)
  BY <1>1 DEF Between, Decided, Compared
<1> QED
  BY <1>1, <1>7, <1>8, <1>9 DEF Judged

-----------------------------------------------------------------------------
(* The invariant of the signals and the decisions.                         *)

LEMMA InitActs == Init => Acts
<1> SUFFICES ASSUME Init PROVE Signalled /\ Judged
  BY DEF Acts
<1>1. \A i \in Indicators : Moments(i) = {}
  BY DEF Init, Moments, Firsts
<1>2. /\ \A s \in Signals : DOMAIN signal[s] = {} /\ Left[s] \in Indicators
      /\ \A r \in Rules : SignalOf[r] \in Signals
  BY ObjectsAssumption DEF Init, Empty
<1>3. Signalled
  BY <1>2 DEF Signalled, Init
<1>4. \A r \in Rules : LastKnown(SignalOf[r]) /\ ~Decides(r)
  BY <1>1, <1>2 DEF LastKnown, Decides, Sees
<1>5. Judged
  BY <1>4 DEF Judged, Init, Decided
<1> QED
  BY <1>3, <1>5

\* What does not look at the signals.
LEMMA SignalsKept ==
  ASSUME UNCHANGED <<signal, received>>
  PROVE  /\ \A i : Moments(i)' = Moments(i)
         /\ \A s : LastKnown(s)' = LastKnown(s)
         /\ \A r : Decides(r)' = Decides(r)
         /\ UNCHANGED mdata => \A s : Verdict(s)' = Verdict(s)
BY DEF Moments, LastKnown, Decides, Sees, Verdict

LEMMA InsertActs ==
  ASSUME Typed, Quoted, Signalled, Judged, NEW i \in Indicators, InsertQuote(i)
  PROVE  Signalled' /\ Judged'
<1>1. /\ pc = "update" /\ pc' = "process" /\ mdata[i] # None
      /\ received'[i] = received[i] \cup {<<clock, mdata[i]>>}
      /\ \A j \in Indicators \ {i} : received'[j] = received[j]
      /\ UNCHANGED <<clock, mdata, signal, trades, previous>>
  BY DEF InsertQuote, Typed, TypeOK, Flow
<1>2. Firsts(received[i] \cup {<<clock, mdata[i]>>}) = Firsts(received[i]) \cup {clock}
  BY FirstsPlus
<1>3. /\ Moments(i) \subseteq Moments(i)'
      /\ \A j \in Indicators \ {i} : Moments(j)' = Moments(j)
  BY <1>1, <1>2 DEF Moments
<1>4. \A s \in Signals : Left[s] \in Indicators
  BY ObjectsAssumption
<1>5. Signalled'
  BY <1>1, <1>3, <1>4 DEF Signalled
<1>6. ASSUME NEW r \in Rules
      PROVE  /\ Between(r)' = Between(r) /\ ~Compared(r)' /\ ~Decided(r)'
             /\ Decides(r)' = Decides(r) /\ ~Decided(r)
             /\ Between(r) => (LastKnown(SignalOf[r])' <=> LastKnown(SignalOf[r]))
  <2>1. Between(r)' = Between(r) /\ ~Compared(r)' /\ ~Decided(r)' /\ ~Decided(r)
    BY <1>1 DEF Between, Compared, Decided
  <2>2. Decides(r)' = Decides(r)
    BY <1>1 DEF Decides, Sees
  <2>3. ASSUME Between(r) PROVE Moments(Left[SignalOf[r]])' = Moments(Left[SignalOf[r]])
    BY <1>1, <1>3, <2>3, ObjectsAssumption DEF Between
  <2>4. Between(r) => (LastKnown(SignalOf[r])' <=> LastKnown(SignalOf[r]))
    BY <1>1, <2>3 DEF LastKnown
  <2> QED
    BY <2>1, <2>2, <2>4
<1>7. Judged'
  BY <1>1, <1>6 DEF Judged
<1> QED
  BY <1>5, <1>7

LEMMA StepActs ==
  ASSUME Typed, AllSettled, Forward, Acts, [Next]_vars
  PROVE  Acts'
<1> SUFFICES ASSUME back' = 0 PROVE Signalled' /\ Judged'
  BY DEF Acts
<1>0. Quoted /\ Signalled /\ Judged
  <2>1. back = 0
    BY DEF Typed, TypeOK, Next, Over, vars, Look, ReceiveQuote, RequestThrows, CloseWindow,
      DropQuote, InsertQuote, ProcessKey, IndicatorDone, UpdatesDone, VisitRule, CompareKey,
      DecideRule, RulesDone, Transact, CycleDone
  <2> QED
    BY <2>1 DEF Forward, Acts, Quoted
<1>1. ASSUME UNCHANGED <<signal, received>>
      PROVE  /\ \A i : Moments(i)' = Moments(i)
             /\ \A s : LastKnown(s)' = LastKnown(s)
             /\ \A r : Decides(r)' = Decides(r)
             /\ UNCHANGED mdata => \A s : Verdict(s)' = Verdict(s)
  BY <1>1, SignalsKept
<1>2. ASSUME NEW i \in Indicators, InsertQuote(i) PROVE Signalled' /\ Judged'
  BY <1>0, <1>2, InsertActs
<1>3. CASE CompareKey
  BY <1>0, <1>3, ComparedSignals, ComparedRules
<1>4. CASE Look
  <2>1. /\ pc = "look" /\ pc' \in {"window", "ended"}
        /\ UNCHANGED <<clock, trades, signal, received, previous>>
    BY <1>4 DEF Look, maps, history
  <2>2. \A r \in Rules : Between(r) /\ ~Compared(r)' /\ ~Decided(r) /\ ~Decided(r)'
    BY <2>1 DEF Between, Compared, Decided
  <2> QED
    BY <1>0, <1>1, <2>1, <2>2 DEF Signalled, Judged
<1>5. CASE RequestThrows \/ \E i \in Indicators, v \in Values : ReceiveQuote(i, v)
  <2>1. /\ pc = "window" /\ pc' \in {"window", "died"}
        /\ UNCHANGED <<clock, trades, signal, received, previous>>
        /\ \A i \in Indicators : mdata'[i] = None => mdata[i] = None
    BY <1>5 DEF RequestThrows, ReceiveQuote, maps, history, Typed, TypeOK
  <2>2. \A r \in Rules : /\ Between(r)' => Between(r)
                         /\ ~Compared(r)' /\ ~Decided(r) /\ ~Decided(r)'
    BY <2>1, ObjectsAssumption DEF Between, Compared, Decided
  <2> QED
    BY <1>0, <1>1, <2>1, <2>2 DEF Signalled, Judged
<1>6. CASE CloseWindow
  <2>1. /\ pc = "window" /\ pc' = "update" /\ clock < clock' /\ clock' \in Nat /\ clock \in Nat
        /\ UNCHANGED <<mdata, trades, signal, received, previous>>
    BY <1>6, TimesFacts DEF CloseWindow, maps, history, Typed, TypeOK
  <2>2. \A r \in Rules : Between(r)' = Between(r) /\ ~Compared(r)' /\ ~Decided(r) /\ ~Decided(r)'
    BY <2>1 DEF Between, Compared, Decided
  <2>3. ASSUME NEW s \in Signals PROVE clock' \notin DOMAIN signal[s]
    <3>1. Left[s] \in Indicators
      BY ObjectsAssumption
    <3>2. \A t \in Moments(Left[s]) : t \in Nat /\ t <= clock
      BY <1>0, <3>1, MomentFacts DEF Quoted, Stamped
    <3> QED
      BY <1>0, <2>1, <3>2 DEF Signalled
  <2> QED
    BY <1>0, <1>1, <2>1, <2>2, <2>3 DEF Signalled, Judged
<1>7. CASE \/ ProcessKey \/ IndicatorDone \/ \E i \in Indicators : DropQuote(i)
  <2>1. /\ pc \in {"update", "process"} /\ pc' \in {"update", "process"}
        /\ UNCHANGED <<clock, mdata, trades, signal, received, previous>>
    BY <1>7 DEF ProcessKey, IndicatorDone, DropQuote, maps, history
  <2>2. \A r \in Rules : Between(r)' = Between(r) /\ ~Compared(r)' /\ ~Decided(r) /\ ~Decided(r)'
    BY <2>1 DEF Between, Compared, Decided
  <2> QED
    BY <1>0, <1>1, <2>1, <2>2 DEF Signalled, Judged
<1>8. CASE UpdatesDone
  <2>1. /\ pc = "update" /\ pc' = "rules" /\ todo' = Rules
        /\ UNCHANGED <<clock, mdata, trades, signal, received, previous>>
    BY <1>8 DEF UpdatesDone, maps, history
  <2>2. \A r \in Rules : Between(r)' = Between(r) /\ ~Compared(r)' /\ ~Decided(r) /\ ~Decided(r)'
    BY <2>1 DEF Between, Compared, Decided
  <2> QED
    BY <1>0, <1>1, <2>1, <2>2 DEF Signalled, Judged
<1>9. ASSUME NEW r \in Rules, VisitRule(r) PROVE Signalled' /\ Judged'
  <2>1. /\ pc = "rules" /\ pc' = "signal" /\ r \in todo /\ todo' = todo \ {r} /\ current' = r
        /\ keys' = DOMAIN output[Left[SignalOf[r]]]
        /\ UNCHANGED <<clock, mdata, trades, signal, received, previous>>
    BY <1>9 DEF VisitRule, maps, history
  <2>2. mdata[Left[SignalOf[r]]] # None => clock \in keys'
    BY <1>0, <2>1, NewestEntry, ObjectsAssumption DEF Quoted
  <2>3. \A q \in Rules : /\ Between(q)' = Between(q)
                         /\ Compared(q)' => Compared(q) \/ Between(q)
                         /\ Decided(q)' <=> Decided(q)
    BY <2>1, <2>2 DEF Between, Compared, Decided
  <2> QED
    BY <1>0, <1>1, <2>1, <2>3 DEF Signalled, Judged
<1>10. CASE DecideRule
  <2>1. /\ pc = "signal" /\ pc' = "rules" /\ current \in Rules /\ keys = {}
        /\ trades' = IF Decides(current) THEN trades \cup {current} ELSE trades
        /\ UNCHANGED <<clock, mdata, todo, signal, received, previous>>
    BY <1>10 DEF DecideRule, maps, history, Decides, Sees, Typed, Flow
  <2>2. \A q \in Rules : /\ Between(q)' = Between(q)
                         /\ Compared(q)' <=> Compared(q)
                         /\ Decided(q)' <=> q \notin todo
                         /\ Decided(q) <=> q \notin todo \cup {current}
    BY <2>1 DEF Between, Compared, Decided
  <2>3. Signalled'
    BY <1>0, <1>1, <2>1 DEF Signalled
  <2>4. \A q \in Rules : Decided(q)' => (q \in trades' <=> Decides(q))
    BY <1>0, <2>1, <2>2 DEF Judged
  <2>5. \A q \in Rules : ~Decided(q)' => q \notin trades'
    <3>1. \A q \in Rules : Decides(current) /\ q = current /\ q \in todo => FALSE
      BY <1>0, <2>1 DEF Judged
    <3> QED
      BY <1>0, <2>1, <2>2, <3>1 DEF Judged
  <2> QED
    BY <1>0, <1>1, <2>1, <2>2, <2>3, <2>4, <2>5 DEF Judged
<1>11. CASE RulesDone
  <2>1. /\ pc = "rules" /\ pc' = "trade" /\ todo = {} /\ previous' = trades
        /\ UNCHANGED <<clock, mdata, trades, signal, received>>
    BY <1>11 DEF RulesDone, maps
  <2>2. \A r \in Rules : Between(r)' /\ Compared(r) /\ Decided(r) /\ ~Decided(r)' /\ ~Compared(r)'
    BY <2>1 DEF Between, Compared, Decided
  <2> QED
    BY <1>0, <1>1, <2>1, <2>2 DEF Signalled, Judged
<1>12. CASE CycleDone \/ \E r \in Rules : Transact(r)
  <2>1. /\ pc = "trade" /\ pc' \in {"trade", "look"} /\ (pc' = "look" => trades' = {})
        /\ UNCHANGED <<clock, mdata, signal, received, previous>>
    BY <1>12 DEF CycleDone, Transact, maps, history
  <2>2. \A r \in Rules : Between(r) /\ Between(r)' /\ ~Decided(r)' /\ ~Compared(r)'
    BY <2>1 DEF Between, Compared, Decided
  <2> QED
    BY <1>0, <1>1, <2>1, <2>2 DEF Signalled, Judged
<1>13. CASE UNCHANGED vars
  <2>1. UNCHANGED <<pc, clock, mdata, todo, current, keys, trades, signal, received, previous>>
    BY <1>13 DEF vars, maps, history
  <2>2. \A r \in Rules : /\ Between(r)' = Between(r) /\ Compared(r)' = Compared(r)
                         /\ Decided(r)' = Decided(r)
    BY <2>1 DEF Between, Compared, Decided
  <2> QED
    BY <1>0, <1>1, <2>1, <2>2 DEF Signalled, Judged
<1> QED
  BY <1>2, <1>3, <1>4, <1>5, <1>6, <1>7, <1>8, <1>9, <1>10, <1>11, <1>12, <1>13 DEF Next, Over

LEMMA ActsInvariant == Spec => []Acts
  BY InitActs, StepActs, TypedInvariant, SettledInvariant, ForwardInvariant, PTL DEF Spec

LEMMA ActsDecide ==
  ASSUME Typed, Forward, Acts
  PROVE  TradesDecided
<1> SUFFICES ASSUME pc = "rules", back = 0, NEW r \in Rules, r \notin todo
             PROVE  LET s == SignalOf[r]
                        l == Left[s]
                        q == Right[s]
                        holds == <<Modifier[l][mdata[l]], Modifier[q][mdata[q]]>> \in Relation[s]
                    IN r \in trades <=>
                         /\ s \in Comparisons
                         /\ IF mdata[l] = None THEN r \in previous
                            ELSE mdata[q] # None /\ BoolToSignalValue(holds) = Wanted[r]
  BY DEF TradesDecided
<1> DEFINE s == SignalOf[r]
<1> DEFINE l == Left[s]
<1>1. s \in Signals /\ l \in Indicators /\ Wanted[r] # "unset"
  BY ObjectsAssumption
<1>2. /\ Stamped /\ Processed(l) /\ Signalled /\ Judged
  BY <1>1 DEF Forward, Acts
<1>3. /\ LastKnown(s) /\ (r \in trades <=> Decides(r))
      /\ mdata[l] = None => (r \in previous <=> Decides(r))
  BY <1>2 DEF Judged, Compared, Decided, Between
<1>4. CASE mdata[l] = None
  BY <1>3, <1>4 DEF Decides
<1>5. CASE mdata[l] # None
  <2>1. clock \in Moments(l) /\ \A t \in Moments(l) : t <= clock
    BY <1>1, <1>2, <1>5 DEF Stamped, Waits
  <2>2. clock \in DOMAIN signal[s] /\ DOMAIN signal[s] \subseteq Moments(l)
    BY <1>1, <1>2, <1>3, <2>1 DEF LastKnown, Signalled
  <2>3. signal[s][clock] = Verdict(s)
    BY <1>1, <1>2, <1>5, <2>2 DEF Signalled
  <2>4. IsLast(DOMAIN signal[s], clock)
    BY <2>1, <2>2 DEF IsLast
  <2>5. DOMAIN signal[s] \subseteq 0..MaxTime /\ MaxTime \in Nat
    BY <1>1, <2>2, MomentFacts
  <2>6. Last(signal[s]) = clock
    BY <2>4, <2>5, LastUnique
  <2>7. Decides(r) <=> s \in Comparisons /\ Verdict(s) = Wanted[r]
    BY <2>2, <2>3, <2>6 DEF Decides, Sees
  <2> QED
    BY <1>1, <1>3, <1>5, <2>7 DEF Verdict
<1> QED
  BY <1>4, <1>5

(***************************************************************************)
(* As long as the clock goes forward, a rule on a comparison trades in a   *)
(* cycle just when the relation of this cycle's quotes, each modified      *)
(* once, is the wanted one; without a second quote it does not, and        *)
(* without a first one it does what it did in the cycle before.            *)
(***************************************************************************)
THEOREM TradesAreDecided == Spec => []TradesDecided
  BY ActsDecide, TypedInvariant, ForwardInvariant, ActsInvariant, PTL
=============================================================================
