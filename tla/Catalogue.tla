----------------------------- MODULE Catalogue -----------------------------
(***************************************************************************)
(* The registries of algo::Engine as the Controller edits them, and the    *)
(* references between the objects in them.                                 *)
(*                                                                         *)
(* A signal names its indicators; a rule holds its signal by pointer and   *)
(* copies the names of the indicators; a strategy names its rules and      *)
(* copies the indicators they had when it was created.  Nothing checks a   *)
(* reference when an object is removed: the menus ask the operator to      *)
(* remove only what is not used (UnusedOnly).                              *)
(*                                                                         *)
(* One thread executes the commands, and a Start that succeeds keeps it    *)
(* until the process ends (StrategyEngine), so an action is a whole        *)
(* command, and no command follows while a strategy runs.                  *)
(***************************************************************************)
EXTENDS Functions, Naturals, Sequences

CONSTANTS Indicators, Signals, Rules, Strategies,  \* labels
          None,        \* no strategy
          UnusedOnly,  \* the operator removes only what nothing uses
          FreshRules,  \* the operator never uses the label of a removed rule again
          MaxPicks     \* bounds the taps on the keyboard of an Add dialogue

ASSUME CatalogueAssumption ==
  /\ None \notin Strategies
  /\ UnusedOnly \in BOOLEAN /\ FreshRules \in BOOLEAN
  /\ MaxPicks \in Nat

VARIABLES
  indicators,  \* labels in Engine::indicators
  modifiers,   \* labels in Engine::modifiers
  signals,     \* label in Engine::signals -> indicator_labels_ of the signal
  rules,       \* label in Engine::rules -> its signal and that signal's indicators
  strategies,  \* label in Engine::strategies -> rule_labels_, indicator_labels_
  online,      \* labels in Engine::active_strategies
  running,     \* the strategy that trades
  crash,       \* why the process died
  past         \* history: labels of rules that were removed

engineVars == <<online, running, crash>>
vars == <<indicators, modifiers, signals, rules, strategies, engineVars, past>>

Picks == UNION {[1..n -> Indicators] : n \in 0..MaxPicks}
RulePicks == UNION {[1..n -> Rules] : n \in 0..MaxPicks}
RuleObjects == [signal : Signals, inds : Seq(Indicators)]
StrategyObjects == [rules : SUBSET Rules, inds : SUBSET Indicators]

\* A map from some of the labels in L to objects in O; a map without a label, and
\* with another.
IsRegistry(f, L, O) == DOMAIN f \subseteq L /\ f \in [DOMAIN f -> O]
Without(f, l) == Restrict(f, DOMAIN f \ {l})
With(f, l, o) == [x \in DOMAIN f \cup {l} |-> IF x = l THEN o ELSE f[x]]

Init ==
  /\ indicators = {} /\ modifiers = {}
  /\ signals = << >> /\ rules = << >> /\ strategies = << >>
  /\ online = {} /\ running = None /\ crash = "none"
  /\ past = {}

\* The process ends, and all its memory with it.
Die(cause) ==
  /\ indicators' = {} /\ modifiers' = {}
  /\ signals' = << >> /\ rules' = << >> /\ strategies' = << >>
  /\ online' = {} /\ running' = None
  /\ crash' = cause
  /\ UNCHANGED past

-----------------------------------------------------------------------------
(* Indicators and their modifiers.                                         *)

\* addModifier throws for a label that it has, before the indicator is added.
AddIndicator(l, modified) ==
  /\ modified => l \notin modifiers
  /\ modifiers' = IF modified THEN modifiers \cup {l} ELSE modifiers
  /\ indicators' = indicators \cup {l}
  /\ UNCHANGED <<signals, rules, strategies, engineVars, past>>

\* The modifier of the label is erased when it is NOT found: that is, end() is
\* erased, and what follows is undefined.  A modifier that is there stays.
RemoveIndicator(l) ==
  /\ l \in indicators
  /\ \/ /\ indicators' = indicators \ {l}
        /\ UNCHANGED <<modifiers, signals, rules, strategies, engineVars, past>>
     \/ l \notin modifiers /\ Die("end_erased")

-----------------------------------------------------------------------------
(* Signals and rules.                                                      *)

\* Mutant: an indicator that is picked twice is kept once.
AddSignal_Distinct(l, inds) ==
  /\ l \notin DOMAIN signals
  /\ signals' = With(signals, l, IF Len(inds) = 2 /\ inds[1] = inds[2]
                               THEN SubSeq(inds, 1, 1) ELSE inds)
  /\ UNCHANGED <<indicators, modifiers, rules, strategies, engineVars, past>>

AddSignal(l, inds) ==
  /\ l \notin DOMAIN signals
  /\ signals' = With(signals, l, inds)
  /\ UNCHANGED <<indicators, modifiers, rules, strategies, engineVars, past>>

RemoveSignal(l) ==
  /\ l \in DOMAIN signals
  /\ signals' = Without(signals, l)
  /\ UNCHANGED <<indicators, modifiers, rules, strategies, engineVars, past>>

\* The constructor takes the signal under its label, or throws.
AddRule(l, s) ==
  /\ s \in DOMAIN signals
  /\ l \notin DOMAIN rules
  /\ rules' = With(rules, l, [signal |-> s, inds |-> signals[s]])
  /\ UNCHANGED <<indicators, modifiers, signals, strategies, engineVars, past>>

RemoveRule(l) ==
  /\ l \in DOMAIN rules
  /\ rules' = Without(rules, l)
  /\ past' = past \cup {l}
  /\ UNCHANGED <<indicators, modifiers, signals, strategies, engineVars>>

-----------------------------------------------------------------------------
(* Strategies.                                                             *)

IndsOf(rs) == UNION {Range(rules[r].inds) : r \in rs}

\* Mutant: the strategy keeps the indicators of its first rule only.
AddStrategy_FirstRule(l, picks) ==
  LET chosen == Range(picks) \cap DOMAIN rules
  IN /\ l \notin DOMAIN strategies
     /\ chosen # {}
     /\ \A i, j \in DOMAIN picks : picks[i] = picks[j] /\ picks[i] \in chosen => i = j
     /\ strategies' = With(strategies, l, [rules |-> chosen,
                                           inds |-> IndsOf(chosen \cap {picks[1]})])
     /\ UNCHANGED <<indicators, modifiers, signals, rules, engineVars, past>>

\* Picks that are rules no more are passed over; without a rule, or with one
\* picked twice (Strategy::addRule throws), there is no strategy.
AddStrategy(l, picks) ==
  LET chosen == Range(picks) \cap DOMAIN rules
  IN /\ l \notin DOMAIN strategies
     /\ chosen # {}
     /\ \A i, j \in DOMAIN picks : picks[i] = picks[j] /\ picks[i] \in chosen => i = j
     /\ strategies' = With(strategies, l, [rules |-> chosen, inds |-> IndsOf(chosen)])
     /\ UNCHANGED <<indicators, modifiers, signals, rules, engineVars, past>>

\* Mutant: the strategy is not stopped.
RemoveStrategy_StillOnline(l) ==
  /\ l \in DOMAIN strategies
  /\ strategies' = Without(strategies, l)
  /\ UNCHANGED <<indicators, modifiers, signals, rules, engineVars, past>>

\* A strategy that is online is stopped first.
RemoveStrategy(l) ==
  /\ l \in DOMAIN strategies
  /\ strategies' = Without(strategies, l)
  /\ online' = online \ {l}
  /\ UNCHANGED <<indicators, modifiers, signals, rules, running, crash, past>>

StopStrategy(l) ==
  /\ l \in online
  /\ online' = online \ {l}
  /\ UNCHANGED <<indicators, modifiers, signals, rules, strategies, running, crash, past>>

\* Mutant: the rules are looked up, the indicators are not.
Complete_RulesOnly(l) == strategies[l].rules \subseteq DOMAIN rules

\* initializeTradingContracts looks up all indicators and rules of the strategy.
Complete(l) == /\ strategies[l].inds \subseteq indicators
               /\ strategies[l].rules \subseteq DOMAIN rules

\* The label is online before the contracts are looked up, and stays so when
\* that fails: for a label that is missing, or in a request.
StartStrategy(l) ==
  /\ l \in DOMAIN strategies
  /\ l \notin online
  /\ online' = online \cup {l}
  /\ running' \in {None} \cup {s \in {l} : Complete(s)}
  /\ UNCHANGED <<indicators, modifiers, signals, rules, strategies, crash, past>>

-----------------------------------------------------------------------------
(* The trading cycle of the strategy that runs.                            *)

\* Signal::ProcessSignal asserts that there are two indicators and looks them up.
Processable(inds) == Len(inds) = 2 /\ Range(inds) \subseteq indicators

\* A cycle passes over the rules and indicators that it does not find in the
\* registries, but the signal of a rule it finds must be processable.
Unprocessable == {r \in strategies[running].rules \cap DOMAIN rules :
                     ~Processable(rules[r].inds)}

Cycle ==
  /\ running # None
  /\ \/ Unprocessable = {} /\ UNCHANGED vars
     \/ \E cause \in {"request"} \cup {"signal" : r \in Unprocessable} : Die(cause)

-----------------------------------------------------------------------------
(* What the operator does.  A dialogue is finished before the next one     *)
(* begins, so what it offered is still there when it ends.                 *)

Used(kind, l) ==
  CASE kind = "indicator" -> \E s \in DOMAIN signals : l \in Range(signals[s])
    [] kind = "signal" -> \E r \in DOMAIN rules : rules[r].signal = l
    [] kind = "rule" -> \E s \in DOMAIN strategies : l \in strategies[s].rules

MayRemove(kind, l) == UnusedOnly => ~Used(kind, l)

\* The dialogue for a new indicator refuses the label of a modifier as well.
NewIndicator == \E l \in Indicators, modified \in BOOLEAN :
  l \notin indicators \cup modifiers /\ AddIndicator(l, modified)

DropIndicator == \E l \in Indicators : MayRemove("indicator", l) /\ RemoveIndicator(l)

\* "Select exactly two Indicators to include": two taps.
NewSignal == \E l \in Signals, inds \in Picks :
  Len(inds) = 2 /\ Range(inds) \subseteq indicators /\ AddSignal(l, inds)

DropSignal == \E l \in Signals : MayRemove("signal", l) /\ RemoveSignal(l)

NewRule == \E l \in Rules, s \in Signals : (FreshRules => l \notin past) /\ AddRule(l, s)

DropRule == \E l \in Rules : MayRemove("rule", l) /\ RemoveRule(l)

NewStrategy == \E l \in Strategies, picks \in RulePicks :
  Range(picks) \subseteq DOMAIN rules /\ AddStrategy(l, picks)

OverStrategies == \E l \in Strategies : RemoveStrategy(l) \/ StopStrategy(l) \/ StartStrategy(l)

Operate ==
  /\ running = None
  /\ \/ NewIndicator \/ DropIndicator
     \/ NewSignal \/ DropSignal
     \/ NewRule \/ DropRule
     \/ NewStrategy \/ OverStrategies

Dead == crash # "none" /\ UNCHANGED vars

Next == \/ crash = "none" /\ (Operate \/ Cycle)
        \/ Dead

Spec == Init /\ [][Next]_vars

-----------------------------------------------------------------------------
(* Properties.                                                             *)

TypeOK ==
  /\ indicators \subseteq Indicators /\ modifiers \subseteq Indicators
  /\ IsRegistry(signals, Signals, Seq(Indicators))
  /\ IsRegistry(rules, Rules, RuleObjects)
  /\ IsRegistry(strategies, Strategies, StrategyObjects)
  /\ online \subseteq DOMAIN strategies
  /\ running \in online \cup {None}
  /\ crash \in {"none", "end_erased", "request", "signal"}
  /\ past \subseteq Rules

\* What the parts refer to is registered, and the copies that rules and
\* strategies keep agree with the originals.
SignalsClosed == \A s \in DOMAIN signals : Range(signals[s]) \subseteq indicators
RulesClosed == \A r \in DOMAIN rules : /\ rules[r].signal \in DOMAIN signals
                                      /\ signals[rules[r].signal] = rules[r].inds
StrategiesClosed == \A l \in DOMAIN strategies :
  Complete(l) /\ strategies[l].inds = IndsOf(strategies[l].rules)

\* No reference dangles and no copy is stale (rule.cpp:58-59, strategy.cpp:27-38),
\* although nothing checks that when an object is removed and its label used for
\* another one.  For an operator who removes only what nothing uses.
ReferencesClosed == SignalsClosed /\ RulesClosed /\ StrategiesClosed

\* The process does not die of an assertion or a failed lookup in
\* Signal::ProcessSignal (signals.cpp:92-95), however objects were removed and
\* their labels used again before.  For the same operator.
NoSignalKills == crash # "signal"

\* A strategy that trades has all its rules, every indicator they compare exists,
\* and getMarketData feeds it: initializeTradingContracts (strategy.cpp:41-98)
\* protects the cycle against whatever was removed, as long as no rule that it
\* finds is a new one under an old label.
RunsOnItsInputs ==
  running # None =>
    /\ strategies[running].rules \subseteq DOMAIN rules
    /\ \A r \in strategies[running].rules :
         Range(rules[r].inds) \subseteq strategies[running].inds \cap indicators

\* An indicator that is removed takes its modifier with it (controller.cpp:145).
\* Violated: a modifier that is there stays, and its label is taken for ever.
ModifierGoesWithIndicator == modifiers \subseteq indicators
=============================================================================
