-------------------------- MODULE CatalogueProofs --------------------------
(* Theorems about Catalogue, for any sets of labels. *)
EXTENDS Catalogue, SequenceTheorems, TLAPS

-----------------------------------------------------------------------------
(* Registries.                                                             *)

\* A registry stays one when an object is added under a label of the set.
LEMMA RegistryWith ==
  ASSUME NEW L, NEW O, NEW f, IsRegistry(f, L, O), NEW l \in L, NEW o \in O
  PROVE  IsRegistry(With(f, l, o), L, O)
BY DEF IsRegistry, With

LEMMA RegistryWithout ==
  ASSUME NEW L, NEW O, NEW f, IsRegistry(f, L, O), NEW l
  PROVE  IsRegistry(Without(f, l), L, O)
BY DEF IsRegistry, Without, Restrict

LEMMA EmptyRegistry ==
  ASSUME NEW L, NEW O
  PROVE  IsRegistry(<< >>, L, O) /\ DOMAIN << >> = {}
BY DEF IsRegistry

\* What is picked on a keyboard is a sequence of labels.
LEMMA PicksAreSequences ==
  ASSUME NEW inds \in Picks
  PROVE  inds \in Seq(Indicators)
BY CatalogueAssumption DEF Picks

\* The indicators of a set of rules are indicators.
LEMMA IndsOfType ==
  ASSUME IsRegistry(rules, Rules, RuleObjects), NEW rs \in SUBSET DOMAIN rules
  PROVE  IndsOf(rs) \subseteq Indicators
<1>1. ASSUME NEW r \in rs PROVE Range(rules[r].inds) \subseteq Indicators
  BY <1>1, RangeOfSeq DEF IsRegistry, RuleObjects
<1> QED
  BY <1>1 DEF IndsOf

-----------------------------------------------------------------------------
(* Types.                                                                  *)

\* After the process has died there is nothing left to be wrong.
LEMMA DieTypes ==
  ASSUME TypeOK, NEW cause \in {"end_erased", "request", "signal"}, Die(cause)
  PROVE  TypeOK'
BY EmptyRegistry DEF Die, TypeOK

\* Every reachable state has the types of TypeOK; what is online is registered.
THEOREM TypeCorrect == Spec => []TypeOK
<1>1. Init => TypeOK
  BY EmptyRegistry DEF Init, TypeOK
<1>2. TypeOK /\ [Next]_vars => TypeOK'
  <2> SUFFICES ASSUME TypeOK, [Next]_vars PROVE TypeOK'
    OBVIOUS
  <2> USE DEF engineVars
  <2>1. CASE NewIndicator
    BY <2>1 DEF NewIndicator, AddIndicator, TypeOK
  <2>2. CASE DropIndicator
    BY <2>2, DieTypes DEF DropIndicator, RemoveIndicator, TypeOK
  <2>3. CASE NewSignal
    <3>1. PICK l \in Signals, inds \in Picks : AddSignal(l, inds)
      BY <2>3 DEF NewSignal
    <3> QED
      BY <3>1, RegistryWith, PicksAreSequences DEF AddSignal, TypeOK
  <2>4. CASE DropSignal
    BY <2>4, RegistryWithout DEF DropSignal, RemoveSignal, TypeOK
  <2>5. CASE NewRule
    <3>1. PICK l \in Rules, s \in Signals : AddRule(l, s)
      BY <2>5 DEF NewRule
    <3>2. [signal |-> s, inds |-> signals[s]] \in RuleObjects
      BY <3>1 DEF AddRule, TypeOK, IsRegistry, RuleObjects
    <3> QED
      BY <3>1, <3>2, RegistryWith DEF AddRule, TypeOK
  <2>6. CASE DropRule
    BY <2>6, RegistryWithout DEF DropRule, RemoveRule, TypeOK
  <2>7. CASE NewStrategy
    <3>1. PICK l \in Strategies, picks \in RulePicks : AddStrategy(l, picks)
      BY <2>7 DEF NewStrategy
    <3> DEFINE chosen == Range(picks) \cap DOMAIN rules
    <3>2. chosen \subseteq Rules /\ IndsOf(chosen) \subseteq Indicators
      BY IndsOfType DEF TypeOK, IsRegistry
    <3>3. [rules |-> chosen, inds |-> IndsOf(chosen)] \in StrategyObjects
      BY <3>2 DEF StrategyObjects
    <3>4. IsRegistry(strategies', Strategies, StrategyObjects)
      BY <3>1, <3>3, RegistryWith DEF AddStrategy, TypeOK
    <3>5. DOMAIN strategies \subseteq DOMAIN strategies'
      BY <3>1 DEF AddStrategy, With
    <3> QED
      BY <3>1, <3>4, <3>5 DEF AddStrategy, TypeOK
  <2>8. CASE running = None /\ OverStrategies
    <3>1. PICK l \in Strategies : RemoveStrategy(l) \/ StopStrategy(l) \/ StartStrategy(l)
      BY <2>8 DEF OverStrategies
    <3>2. CASE RemoveStrategy(l)
      BY <2>8, <3>2, RegistryWithout DEF RemoveStrategy, TypeOK, Without, Restrict
    <3>3. CASE StopStrategy(l)
      BY <2>8, <3>3 DEF StopStrategy, TypeOK
    <3>4. CASE StartStrategy(l)
      BY <3>4 DEF StartStrategy, TypeOK
    <3> QED
      BY <3>1, <3>2, <3>3, <3>4
  <2>9. CASE Cycle
    BY <2>9, DieTypes DEF Cycle, vars, TypeOK
  <2>10. CASE UNCHANGED vars
    BY <2>10 DEF vars, TypeOK
  <2> QED
    BY <2>1, <2>2, <2>3, <2>4, <2>5, <2>6, <2>7, <2>8, <2>9, <2>10 DEF Next, Operate, Dead
<1> QED
  BY <1>1, <1>2, PTL DEF Spec

-----------------------------------------------------------------------------
(* An operator who removes only what nothing uses.                         *)

\* The dialogue for a signal asks for two taps (ui.tcc:381).
SignalsOfTwo == \A s \in DOMAIN signals : Len(signals[s]) = 2

Closed == ReferencesClosed /\ SignalsOfTwo

LEMMA DieClosed ==
  ASSUME NEW cause, Die(cause)
  PROVE  Closed'
<1>1. DOMAIN signals' = {} /\ DOMAIN rules' = {} /\ DOMAIN strategies' = {}
  BY EmptyRegistry DEF Die
<1> QED
  BY <1>1 DEF Closed, ReferencesClosed, SignalsClosed, RulesClosed, StrategiesClosed, SignalsOfTwo

\* The strategies' part is kept when the objects they name are.
LEMMA StrategiesKept ==
  ASSUME StrategiesClosed,
         DOMAIN strategies' \subseteq DOMAIN strategies,
         \A l \in DOMAIN strategies' :
            /\ strategies'[l] = strategies[l]
            /\ strategies[l].inds \subseteq indicators'
            /\ \A r \in strategies[l].rules : r \in DOMAIN rules' /\ rules'[r] = rules[r]
  PROVE  StrategiesClosed'
<1> SUFFICES ASSUME NEW l \in DOMAIN strategies'
             PROVE  (Complete(l) /\ strategies[l].inds = IndsOf(strategies[l].rules))'
  BY DEF StrategiesClosed
<1> DEFINE rs == strategies[l].rules
<1>1. strategies[l].inds = IndsOf(rs) /\ rs \subseteq DOMAIN rules
  BY DEF StrategiesClosed, Complete
<1>2. UNION {Range(rules'[r].inds) : r \in rs} = UNION {Range(rules[r].inds) : r \in rs}
  OBVIOUS
<1> QED
  BY <1>1, <1>2 DEF Complete, IndsOf

\* The indicators of a set of rules are indicators of their signals.
LEMMA RulesAreFed ==
  ASSUME SignalsClosed, RulesClosed, NEW r \in DOMAIN rules
  PROVE  Range(rules[r].inds) \subseteq indicators
BY DEF SignalsClosed, RulesClosed

\* A cycle finds the two indicators of every rule it finds.
LEMMA AllProcessable ==
  ASSUME Closed
  PROVE  Unprocessable = {}
<1> SUFFICES ASSUME NEW r \in DOMAIN rules PROVE Processable(rules[r].inds)
  BY DEF Unprocessable
<1>1. Range(rules[r].inds) \subseteq indicators
  BY RulesAreFed DEF Closed, ReferencesClosed
<1>2. Len(rules[r].inds) = 2
  BY DEF Closed, ReferencesClosed, RulesClosed, SignalsOfTwo
<1> QED
  BY <1>1, <1>2 DEF Processable

\* Closed is inductive for such an operator.
LEMMA ClosedStep ==
  ASSUME UnusedOnly, TypeOK, Closed, [Next]_vars
  PROVE  Closed'
<1> USE DEF Closed, ReferencesClosed
<1>1. CASE NewIndicator
  <2>1. /\ indicators \subseteq indicators'
        /\ UNCHANGED <<signals, rules, strategies>>
    BY <1>1 DEF NewIndicator, AddIndicator
  <2>2. StrategiesClosed'
    BY <2>1, StrategiesKept DEF StrategiesClosed, Complete
  <2> QED
    BY <2>1, <2>2 DEF SignalsClosed, RulesClosed, SignalsOfTwo
<1>2. CASE DropIndicator
  <2>1. PICK l \in Indicators : MayRemove("indicator", l) /\ RemoveIndicator(l)
    BY <1>2 DEF DropIndicator
  <2>2. CASE Die("end_erased")
    BY <2>2, DieClosed
  <2>3. CASE indicators' = indicators \ {l} /\ UNCHANGED <<signals, rules, strategies>>
    <3>1. \A s \in DOMAIN signals : l \notin Range(signals[s])
      BY <2>1 DEF MayRemove, Used
    <3>2. \A r \in DOMAIN rules : l \notin Range(rules[r].inds)
      BY <3>1 DEF RulesClosed
    <3>3. \A k \in DOMAIN strategies : l \notin strategies[k].inds
      BY <3>2 DEF StrategiesClosed, Complete, IndsOf
    <3>4. StrategiesClosed'
      BY <2>3, <3>3, StrategiesKept DEF StrategiesClosed, Complete
    <3> QED
      BY <2>3, <3>1, <3>4 DEF SignalsClosed, RulesClosed, SignalsOfTwo
  <2> QED
    BY <2>1, <2>2, <2>3 DEF RemoveIndicator, engineVars
<1>3. CASE NewSignal
  <2>1. PICK l \in Signals, inds \in Picks :
          Len(inds) = 2 /\ Range(inds) \subseteq indicators /\ AddSignal(l, inds)
    BY <1>3 DEF NewSignal
  <2>2. /\ l \notin DOMAIN signals /\ signals' = With(signals, l, inds)
        /\ UNCHANGED <<indicators, rules, strategies>>
    BY <2>1 DEF AddSignal, engineVars
  <2>3. SignalsClosed' /\ SignalsOfTwo'
    BY <2>1, <2>2 DEF SignalsClosed, SignalsOfTwo, With
  <2>4. RulesClosed'
    BY <2>2 DEF RulesClosed, With
  <2>5. StrategiesClosed'
    BY <2>2, StrategiesKept DEF StrategiesClosed, Complete
  <2> QED
    BY <2>3, <2>4, <2>5
<1>4. CASE DropSignal
  <2>1. PICK l \in Signals : MayRemove("signal", l) /\ RemoveSignal(l)
    BY <1>4 DEF DropSignal
  <2>2. /\ signals' = Without(signals, l)
        /\ UNCHANGED <<indicators, rules, strategies>>
    BY <2>1 DEF RemoveSignal, engineVars
  <2>3. \A r \in DOMAIN rules : rules[r].signal # l
    BY <2>1 DEF MayRemove, Used
  <2>4. SignalsClosed' /\ SignalsOfTwo'
    BY <2>2 DEF SignalsClosed, SignalsOfTwo, Without, Restrict
  <2>5. RulesClosed'
    BY <2>2, <2>3 DEF RulesClosed, Without, Restrict
  <2>6. StrategiesClosed'
    BY <2>2, StrategiesKept DEF StrategiesClosed, Complete
  <2> QED
    BY <2>4, <2>5, <2>6
<1>5. CASE NewRule
  <2>1. PICK l \in Rules, s \in Signals : AddRule(l, s)
    BY <1>5 DEF NewRule
  <2>2. /\ s \in DOMAIN signals /\ l \notin DOMAIN rules
        /\ rules' = With(rules, l, [signal |-> s, inds |-> signals[s]])
        /\ UNCHANGED <<indicators, signals, strategies>>
    BY <2>1 DEF AddRule, engineVars
  <2>3. RulesClosed'
    BY <2>2 DEF RulesClosed, With
  <2>4. \A r \in DOMAIN rules : r \in DOMAIN rules' /\ rules'[r] = rules[r]
    BY <2>2 DEF With
  <2>5. StrategiesClosed'
    BY <2>2, <2>4, StrategiesKept DEF StrategiesClosed, Complete
  <2> QED
    BY <2>2, <2>3, <2>5 DEF SignalsClosed, SignalsOfTwo
<1>6. CASE DropRule
  <2>1. PICK l \in Rules : MayRemove("rule", l) /\ RemoveRule(l)
    BY <1>6 DEF DropRule
  <2>2. /\ rules' = Without(rules, l)
        /\ UNCHANGED <<indicators, signals, strategies>>
    BY <2>1 DEF RemoveRule, engineVars
  <2>3. \A k \in DOMAIN strategies : l \notin strategies[k].rules
    BY <2>1 DEF MayRemove, Used
  <2>4. RulesClosed'
    BY <2>2 DEF RulesClosed, Without, Restrict
  <2>5. \A k \in DOMAIN strategies, r \in Rules : r \in strategies[k].rules =>
           r \in DOMAIN rules' /\ rules'[r] = rules[r]
    BY <2>2, <2>3 DEF StrategiesClosed, Complete, Without, Restrict
  <2>6. \A k \in DOMAIN strategies : strategies[k].rules \subseteq Rules
    BY DEF StrategiesClosed, Complete, TypeOK, IsRegistry
  <2>7. StrategiesClosed'
    BY <2>2, <2>5, <2>6, StrategiesKept DEF StrategiesClosed, Complete
  <2> QED
    BY <2>2, <2>4, <2>7 DEF SignalsClosed, SignalsOfTwo
<1>7. CASE NewStrategy
  <2>1. PICK l \in Strategies, picks \in RulePicks : AddStrategy(l, picks)
    BY <1>7 DEF NewStrategy
  <2> DEFINE chosen == Range(picks) \cap DOMAIN rules
             new == [rules |-> chosen, inds |-> IndsOf(chosen)]
  <2>2. /\ strategies' = With(strategies, l, new)
        /\ UNCHANGED <<indicators, signals, rules>>
    BY <2>1 DEF AddStrategy, engineVars
  <2>3. IndsOf(chosen) \subseteq indicators
    BY RulesAreFed DEF IndsOf
  <2>4. ASSUME NEW k \in DOMAIN strategies'
        PROVE  (Complete(k) /\ strategies[k].inds = IndsOf(strategies[k].rules))'
    <3>1. CASE k = l
      <4>1. strategies'[k] = new
        BY <2>2, <3>1 DEF With
      <4>2. strategies'[k].rules = chosen /\ strategies'[k].inds = IndsOf(chosen)
        BY <4>1
      <4> HIDE DEF chosen
      <4>3. Complete(k)'
        BY <2>2, <2>3, <4>2 DEF Complete, chosen
      <4>4. IndsOf(strategies[k].rules)' = IndsOf(chosen)
        BY <2>2, <4>2 DEF IndsOf
      <4> QED
        BY <4>2, <4>3, <4>4
    <3>2. CASE k # l
      <4>1. k \in DOMAIN strategies /\ strategies'[k] = strategies[k]
        BY <2>2, <2>4, <3>2 DEF With
      <4>2. Complete(k) /\ strategies[k].inds = IndsOf(strategies[k].rules)
        BY <4>1 DEF StrategiesClosed
      <4>3. Complete(k)'
        BY <2>2, <4>1, <4>2 DEF Complete
      <4>4. IndsOf(strategies[k].rules)' = IndsOf(strategies[k].rules)
        BY <2>2, <4>1 DEF IndsOf
      <4> QED
        BY <4>1, <4>2, <4>3, <4>4
    <3> QED
      BY <3>1, <3>2
  <2> QED
    BY <2>2, <2>4 DEF SignalsClosed, RulesClosed, StrategiesClosed, SignalsOfTwo
<1>8. CASE OverStrategies
  <2>1. PICK l \in Strategies : RemoveStrategy(l) \/ StopStrategy(l) \/ StartStrategy(l)
    BY <1>8 DEF OverStrategies
  <2>2. /\ UNCHANGED <<indicators, signals, rules>>
        /\ DOMAIN strategies' \subseteq DOMAIN strategies
        /\ \A k \in DOMAIN strategies' : strategies'[k] = strategies[k]
    BY <2>1 DEF RemoveStrategy, StopStrategy, StartStrategy, Without, Restrict
  <2>3. StrategiesClosed'
    BY <2>2, StrategiesKept DEF StrategiesClosed, Complete
  <2> QED
    BY <2>2, <2>3 DEF SignalsClosed, RulesClosed, SignalsOfTwo
<1>9. CASE Cycle
  <2>1. (\E cause \in {"request", "signal"} : Die(cause)) \/ UNCHANGED vars
    BY <1>9 DEF Cycle
  <2>2. CASE UNCHANGED vars
    BY <2>2 DEF vars, SignalsClosed, RulesClosed, StrategiesClosed, SignalsOfTwo, Complete, IndsOf
  <2> QED
    BY <2>1, <2>2, DieClosed
<1>10. CASE UNCHANGED vars
  BY <1>10 DEF vars, SignalsClosed, RulesClosed, StrategiesClosed, SignalsOfTwo, Complete, IndsOf
<1> QED
  BY <1>1, <1>2, <1>3, <1>4, <1>5, <1>6, <1>7, <1>8, <1>9, <1>10 DEF Next, Operate, Dead

LEMMA ClosedInit ==
  ASSUME Init
  PROVE  Closed
<1>1. DOMAIN signals = {} /\ DOMAIN rules = {} /\ DOMAIN strategies = {}
  BY EmptyRegistry DEF Init
<1> QED
  BY <1>1 DEF Closed, ReferencesClosed, SignalsClosed, RulesClosed, StrategiesClosed, SignalsOfTwo

\* With such an operator no reference ever dangles and no copy is ever stale.
THEOREM CarefulIsClosed == UnusedOnly => (Spec => []ReferencesClosed)
<1> SUFFICES ASSUME UnusedOnly PROVE Spec => []ReferencesClosed
  OBVIOUS
<1>1. Init => Closed
  BY ClosedInit
<1>2. TypeOK /\ Closed /\ [Next]_vars => Closed'
  BY ClosedStep
<1>3. Closed => ReferencesClosed
  BY DEF Closed
<1> QED
  BY <1>1, <1>2, <1>3, TypeCorrect, PTL DEF Spec

\* With such an operator no cycle dies of its signals.
THEOREM CarefulIsProcessable == UnusedOnly => (Spec => []NoSignalKills)
<1> SUFFICES ASSUME UnusedOnly PROVE Spec => []NoSignalKills
  OBVIOUS
<1>1. Init => Closed /\ NoSignalKills
  BY ClosedInit DEF Init, NoSignalKills
<1>2. TypeOK /\ Closed /\ NoSignalKills /\ [Next]_vars => Closed' /\ NoSignalKills'
  <2> SUFFICES ASSUME TypeOK, Closed, NoSignalKills, [Next]_vars PROVE NoSignalKills'
    BY ClosedStep
  <2>1. CASE DropIndicator
    BY <2>1 DEF DropIndicator, RemoveIndicator, Die, NoSignalKills, engineVars
  <2>2. CASE Cycle
    BY <2>2, AllProcessable DEF Cycle, Die, NoSignalKills, vars, engineVars
  <2>3. CASE UNCHANGED crash
    BY <2>3 DEF NoSignalKills
  <2> QED
    BY <2>1, <2>2, <2>3 DEF Next, Operate, Dead, vars, engineVars, NewIndicator, AddIndicator,
       NewSignal, AddSignal, DropSignal, RemoveSignal, NewRule, AddRule, DropRule, RemoveRule,
       NewStrategy, AddStrategy, OverStrategies, RemoveStrategy, StopStrategy, StartStrategy
<1> QED
  BY <1>1, <1>2, TypeCorrect, PTL DEF Spec

-----------------------------------------------------------------------------
(* An operator who never uses the label of a removed rule again.           *)

\* A removed rule's label is not used again, so a rule that a strategy finds is
\* the one it was created with; a strategy that trades was looked up completely.
OncePerLabel ==
  /\ DOMAIN rules \cap past = {}
  /\ \A l \in DOMAIN strategies : strategies[l].rules \subseteq DOMAIN rules \cup past
Copied == \A l \in DOMAIN strategies : \A r \in strategies[l].rules \cap DOMAIN rules :
  Range(rules[r].inds) \subseteq strategies[l].inds
Started == running # None => Complete(running)

Fresh == OncePerLabel /\ Copied /\ Started

LEMMA FreshInit ==
  ASSUME Init
  PROVE  Fresh
<1>1. DOMAIN rules = {} /\ DOMAIN strategies = {}
  BY EmptyRegistry DEF Init
<1> QED
  BY <1>1 DEF Init, Fresh, OncePerLabel, Copied, Started

LEMMA DieFresh ==
  ASSUME NEW cause, Die(cause)
  PROVE  Fresh'
<1>1. DOMAIN rules' = {} /\ DOMAIN strategies' = {} /\ running' = None
  BY EmptyRegistry DEF Die
<1> QED
  BY <1>1 DEF Fresh, OncePerLabel, Copied, Started

\* Commands are executed only while no strategy trades, and no command but a Start
\* begins one.
LEMMA StillNone ==
  ASSUME running = None, UNCHANGED running
  PROVE  Started'
BY DEF Started

\* Fresh is inductive for such an operator.
LEMMA FreshStep ==
  ASSUME FreshRules, TypeOK, Fresh, [Next]_vars
  PROVE  Fresh'
<1> USE DEF Fresh, engineVars
<1>1. CASE running = None /\ (NewIndicator \/ NewSignal \/ DropSignal)
  <2>1. UNCHANGED <<rules, strategies, past, running>>
    BY <1>1 DEF NewIndicator, AddIndicator, NewSignal, AddSignal, DropSignal, RemoveSignal
  <2> QED
    BY <1>1, <2>1, StillNone DEF OncePerLabel, Copied
<1>2. CASE running = None /\ DropIndicator
  <2>1. Die("end_erased") \/ UNCHANGED <<rules, strategies, past, running>>
    BY <1>2 DEF DropIndicator, RemoveIndicator
  <2> QED
    BY <1>2, <2>1, DieFresh, StillNone DEF OncePerLabel, Copied
<1>3. CASE running = None /\ NewRule
  <2>1. PICK l \in Rules, s \in Signals : l \notin past /\ AddRule(l, s)
    BY <1>3 DEF NewRule
  <2>2. /\ l \notin DOMAIN rules
        /\ rules' = With(rules, l, [signal |-> s, inds |-> signals[s]])
        /\ UNCHANGED <<strategies, past, running>>
    BY <2>1 DEF AddRule
  <2>3. OncePerLabel'
    BY <2>1, <2>2 DEF OncePerLabel, With
  <2>4. \A k \in DOMAIN strategies : l \notin strategies[k].rules
    BY <2>1, <2>2 DEF OncePerLabel
  <2>5. Copied'
    BY <2>2, <2>4 DEF Copied, With
  <2> QED
    BY <1>3, <2>2, <2>3, <2>5, StillNone
<1>4. CASE running = None /\ DropRule
  <2>1. PICK l \in Rules : RemoveRule(l)
    BY <1>4 DEF DropRule
  <2>2. /\ rules' = Without(rules, l) /\ past' = past \cup {l}
        /\ UNCHANGED <<strategies, running>>
    BY <2>1 DEF RemoveRule
  <2>3. OncePerLabel'
    BY <2>2 DEF OncePerLabel, Without, Restrict
  <2>4. Copied'
    BY <2>2 DEF Copied, Without, Restrict
  <2> QED
    BY <1>4, <2>2, <2>3, <2>4, StillNone
<1>5. CASE running = None /\ NewStrategy
  <2>1. PICK l \in Strategies, picks \in RulePicks : AddStrategy(l, picks)
    BY <1>5 DEF NewStrategy
  <2> DEFINE chosen == Range(picks) \cap DOMAIN rules
             new == [rules |-> chosen, inds |-> IndsOf(chosen)]
  <2>2. strategies' = With(strategies, l, new) /\ UNCHANGED <<rules, past, running>>
    BY <2>1 DEF AddStrategy
  <2>3. \A r \in chosen : Range(rules[r].inds) \subseteq new.inds
    BY DEF IndsOf
  <2>4. new.rules = chosen /\ chosen \subseteq DOMAIN rules
    OBVIOUS
  <2> HIDE DEF new
  <2>5. OncePerLabel'
    BY <2>2, <2>4 DEF OncePerLabel, With
  <2>6. Copied'
    BY <2>2, <2>3, <2>4 DEF Copied, With
  <2> QED
    BY <1>5, <2>2, <2>5, <2>6, StillNone
<1>6. CASE running = None /\ OverStrategies
  <2>1. PICK l \in Strategies : RemoveStrategy(l) \/ StopStrategy(l) \/ StartStrategy(l)
    BY <1>6 DEF OverStrategies
  <2>2. /\ UNCHANGED <<indicators, rules, past>>
        /\ DOMAIN strategies' \subseteq DOMAIN strategies
        /\ \A k \in DOMAIN strategies' : strategies'[k] = strategies[k]
    BY <2>1 DEF RemoveStrategy, StopStrategy, StartStrategy, Without, Restrict
  <2>3. OncePerLabel' /\ Copied'
    BY <2>2 DEF OncePerLabel, Copied
  <2>4. CASE RemoveStrategy(l) \/ StopStrategy(l)
    BY <1>6, <2>3, <2>4, StillNone DEF RemoveStrategy, StopStrategy
  <2>5. CASE StartStrategy(l)
    BY <2>3, <2>5 DEF StartStrategy, Started, Complete
  <2> QED
    BY <2>1, <2>4, <2>5
<1>7. CASE UNCHANGED vars
  BY <1>7 DEF vars, OncePerLabel, Copied, Started, Complete
<1>8. CASE Cycle
  BY <1>7, <1>8, DieFresh DEF Cycle
<1> QED
  BY <1>1, <1>2, <1>3, <1>4, <1>5, <1>6, <1>7, <1>8 DEF Next, Operate, Dead

\* Whatever was removed before, a strategy that trades has its rules and feeds
\* every indicator that they compare, if no label of a rule is used twice.
THEOREM FreshIsFed == FreshRules => (Spec => []RunsOnItsInputs)
<1> SUFFICES ASSUME FreshRules PROVE Spec => []RunsOnItsInputs
  OBVIOUS
<1>1. Init => Fresh
  BY FreshInit
<1>2. TypeOK /\ Fresh /\ [Next]_vars => Fresh'
  BY FreshStep
<1>3. TypeOK /\ Fresh => RunsOnItsInputs
  BY DEF TypeOK, Fresh, Copied, Started, Complete, RunsOnItsInputs
<1> QED
  BY <1>1, <1>2, <1>3, TypeCorrect, PTL DEF Spec
=============================================================================
