------------------------- MODULE TradingCycleProofs -------------------------
(***************************************************************************)
(* Theorems about TradingCycle, for all indicators, signals, rules, values *)
(* and clocks, and for maps of every size from two entries up.             *)
(***************************************************************************)
EXTENDS TradingCycle, LimitedMapProofs

LEMMA TimesFacts == Times \subseteq Nat /\ Times \subseteq 0..MaxTime /\ MaxTime \in Nat
  BY ObjectsAssumption DEF Times

LEMMA InsertIsMap ==
  ASSUME NEW S, NEW m, IsMap(m, S), NEW k \in Times, NEW v \in S
  PROVE  IsMap(Insert(m, k, v), S)
<1> DEFINE new == Insert(m, k, v)
<1> DEFINE kept == DOMAIN Evict(m)
<1>1. /\ kept \subseteq DOMAIN m /\ DOMAIN new = kept \cup {k}
      /\ \A j \in kept : new[j] = m[j]
      /\ k \notin kept => new[k] = v
      /\ new = [j \in DOMAIN new |-> new[j]]
  BY DEF Insert, Evict, Newest
<1> HIDE DEF new, kept
<1>2. DOMAIN new \subseteq Times
  BY <1>1 DEF IsMap
<1>3. \A j \in DOMAIN new : new[j] \in S
  BY <1>1 DEF IsMap
<1>4. new \in [DOMAIN new -> S]
  BY <1>1, <1>3
<1> QED
  BY <1>2, <1>4 DEF new, IsMap

-----------------------------------------------------------------------------
(* Types.                                                                  *)

(* What each loop knows of its variables. *)
Flow ==
  /\ pc = "update" => todo \subseteq {i \in Indicators : mdata[i] # None} /\ clock \in Times
  /\ pc = "process" => /\ current \in Indicators /\ keys \subseteq DOMAIN input[current]
                       /\ todo \subseteq {i \in Indicators : mdata[i] # None}
                       /\ clock \in Times
  /\ pc = "rules" => todo \subseteq Rules
  /\ pc = "signal" => /\ current \in Rules /\ todo \subseteq Rules
                      /\ keys \subseteq DOMAIN output[Left[SignalOf[current]]]

Typed == TypeOK /\ Flow

LEMMA InitTyped == Init => Typed
  BY ObjectsAssumption DEF Init, Typed, TypeOK, Flow, PC, Times, IsMap, IsFamily, Empty

LEMMA StepTyped == ASSUME Typed, [Next]_vars PROVE Typed'
<1> USE DEF Typed, TypeOK, Flow, PC, maps, history
<1>1. CASE Look
  BY <1>1 DEF Look
<1>2. ASSUME NEW i \in Indicators, NEW v \in Values, ReceiveQuote(i, v) PROVE Typed'
  BY <1>2 DEF ReceiveQuote
<1>3. CASE RequestThrows
  BY <1>3 DEF RequestThrows
<1>4. CASE CloseWindow
  BY <1>4, ObjectsAssumption DEF CloseWindow, Times
<1>5. ASSUME NEW i \in Indicators, DropQuote(i) PROVE Typed'
  BY <1>5 DEF DropQuote
<1>6. ASSUME NEW i \in Indicators, InsertQuote(i) PROVE Typed'
  <2>1. mdata[i] \in Values /\ clock \in Times
    BY <1>6 DEF InsertQuote
  <2>2. IsMap(Insert(input[i], clock, mdata[i]), Values)
    BY <2>1, InsertIsMap
  <2>3. IsFamily(input', Indicators) /\ \A j \in Indicators : IsMap(input'[j], Values)
    BY <1>6, <2>2 DEF InsertQuote, IsFamily
  <2>4. received' \in [Indicators -> SUBSET (Times \X Values)]
    BY <1>6, <2>1 DEF InsertQuote
  <2>5. keys' \subseteq DOMAIN input'[i]
    BY <1>6 DEF InsertQuote
  <2>6. TypeOK'
    BY <1>6, <2>3, <2>4, <2>5 DEF InsertQuote, IsMap
  <2>7. Flow'
    BY <1>6, <2>1, <2>5 DEF InsertQuote
  <2> QED
    BY <2>6, <2>7
<1>7. CASE ProcessKey
  <2> DEFINE k == First(keys)
  <2> DEFINE v == Modifier[current][input[current][k]]
  <2>1. current \in Indicators /\ keys \subseteq DOMAIN input[current] /\ keys # {}
    BY <1>7 DEF ProcessKey
  <2>2. k \in keys /\ k \in Times
    BY <2>1, FirstExists, TimesFacts DEF IsFirst, IsMap
  <2>3. v \in Values
    BY <2>1, <2>2, ObjectsAssumption DEF IsMap
  <2> HIDE DEF k, v
  <2>4. /\ input' = [input EXCEPT ![current][k] = v]
        /\ output' = [output EXCEPT ![current] = Insert(@, k, v)]
        /\ keys' = keys \ {k}
    BY <1>7 DEF ProcessKey, k, v
  <2>5. IsMap(Insert(output[current], k, v), Values)
    BY <2>1, <2>2, <2>3, InsertIsMap
  <2>6. IsFamily(output', Indicators) /\ \A j \in Indicators : IsMap(output'[j], Values)
    BY <2>1, <2>4, <2>5 DEF IsFamily
  <2>7. IsFamily(input', Indicators) /\ \A j \in Indicators : IsMap(input'[j], Values)
    BY <2>1, <2>2, <2>3, <2>4 DEF IsFamily, IsMap
  <2>8. DOMAIN input'[current] = DOMAIN input[current]
    BY <2>1, <2>4 DEF IsFamily
  <2> QED
    BY <1>7, <2>1, <2>4, <2>6, <2>7, <2>8 DEF ProcessKey
<1>8. CASE IndicatorDone
  BY <1>8 DEF IndicatorDone
<1>9. CASE UpdatesDone
  BY <1>9 DEF UpdatesDone
<1>10. ASSUME NEW r \in Rules, VisitRule(r) PROVE Typed'
  BY <1>10, ObjectsAssumption DEF VisitRule, IsMap
<1>11. ASSUME NEW r \in Rules, Transact(r) PROVE Typed'
  BY <1>11 DEF Transact
<1>12. CASE CompareKey
  <2>1. current \in Rules /\ SignalOf[current] \in Signals
    BY <1>12, ObjectsAssumption DEF CompareKey
  <2>2. First(keys) \in Times
    BY <1>12, FirstExists, TimesFacts DEF CompareKey, IsFirst
  <2>3. \A b : BoolToSignalValue(b) \in SignalValues /\ "unset" \in SignalValues
    BY DEF BoolToSignalValue, SignalValues
  <2>4. \A v \in SignalValues : 
          IsMap(Insert(signal[SignalOf[current]], First(keys), v), SignalValues)
    BY <2>1, <2>2, InsertIsMap
  <2>5. IsFamily(signal', Signals) /\ \A s \in Signals : IsMap(signal'[s], SignalValues)
    BY <1>12, <2>1, <2>3, <2>4 DEF CompareKey, IsFamily
  <2> QED
    BY <1>12, <2>5 DEF CompareKey
<1>13. CASE DecideRule
  BY <1>13 DEF DecideRule
<1>14. CASE RulesDone
  BY <1>14 DEF RulesDone
<1>15. CASE CycleDone
  BY <1>15 DEF CycleDone
<1>16. CASE UNCHANGED vars
  BY <1>16 DEF vars
<1> QED
  BY <1>1, <1>2, <1>3, <1>4, <1>5, <1>6, <1>7, <1>8, <1>9, <1>10, <1>11, <1>12,
     <1>13, <1>14, <1>15, <1>16 DEF Next, Over

LEMMA TypedInvariant == Spec => []Typed
  BY InitTyped, StepTyped, PTL DEF Spec

(***************************************************************************)
(* Every reachable state of a strategy's thread is well typed; among other *)
(* things a signal never holds a value that the comparison cannot give.    *)
(***************************************************************************)
THEOREM TypeCorrect == Spec => []TypeOK
<1>1. Typed => TypeOK
  BY DEF Typed
<1> QED
  BY <1>1, TypedInvariant, PTL

-----------------------------------------------------------------------------
(* Signals.                                                                *)

KeepsNewest ==
  \A s \in Signals : DOMAIN signal[s] # {} =>
    /\ Last(signal[s]) \in DOMAIN signal'[s]
    /\ signal'[s][Last(signal[s])] = signal[s][Last(signal[s])]

LEMMA StepKeepsNewest == ASSUME Typed, [Next]_vars PROVE KeepsNewest
<1>1. ASSUME UNCHANGED signal PROVE KeepsNewest
  <2> SUFFICES ASSUME NEW s \in Signals, DOMAIN signal[s] # {}
               PROVE  Last(signal[s]) \in DOMAIN signal[s]
    BY <1>1 DEF KeepsNewest
  <2>1. DOMAIN signal[s] \subseteq 0..MaxTime
    BY TimesFacts DEF Typed, TypeOK, IsMap
  <2> QED
    BY <2>1, TimesFacts, LastExists DEF IsLast
<1>2. CASE CompareKey
  <2> SUFFICES ASSUME NEW s \in Signals, DOMAIN signal[s] # {}
               PROVE  /\ Last(signal[s]) \in DOMAIN signal'[s]
                      /\ signal'[s][Last(signal[s])] = signal[s][Last(signal[s])]
    BY DEF KeepsNewest
  <2>1. PICK k, v : signal' \in {signal, [signal EXCEPT ![SignalOf[current]] = Insert(@, k, v)]}
    BY <1>2 DEF CompareKey
  <2>2. signal'[s] = signal[s] \/ signal'[s] = Insert(signal[s], k, v)
    BY <2>1 DEF Typed, TypeOK, IsFamily
  <2>3. DOMAIN signal[s] \subseteq 0..MaxTime
    BY TimesFacts DEF Typed, TypeOK, IsMap
  <2>4. CASE signal'[s] = signal[s]
    BY <2>3, <2>4, TimesFacts, LastExists DEF IsLast
  <2>5. CASE signal'[s] = Insert(signal[s], k, v)
    BY <2>3, <2>5, TimesFacts, InsertKeepsLast
  <2> QED
    BY <2>2, <2>4, <2>5
<1>3. CASE ~CompareKey
  <2>1. UNCHANGED signal
    BY <1>3 DEF Next, Over, vars, maps, Look, ReceiveQuote, RequestThrows, CloseWindow,
      DropQuote, InsertQuote, ProcessKey, IndicatorDone, UpdatesDone, VisitRule,
      DecideRule, RulesDone, Transact, CycleDone
  <2> QED
    BY <1>1, <2>1
<1> QED
  BY <1>2, <1>3

(***************************************************************************)
(* The newest value of a signal, on which its rules act, survives every    *)
(* comparison of later cycles and every eviction, whatever the clock does: *)
(* this is why N >= 2 is needed.                                           *)
(***************************************************************************)
THEOREM NewestSurvives == Spec => NewestSignalKept
<1>1. Typed /\ [Next]_vars => [KeepsNewest]_vars
  BY StepKeepsNewest
<1>2. Spec => [][KeepsNewest]_vars
  BY <1>1, TypedInvariant, PTL DEF Spec
<1> QED
  BY <1>2 DEF NewestSignalKept, KeepsNewest
=============================================================================
