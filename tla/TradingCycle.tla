---------------------------- MODULE TradingCycle ----------------------------
(***************************************************************************)
(* ActiveStrategy::runStrategy from the inside: in a cycle, the strategy's *)
(* thread collects quotes for 30 seconds, gives them to its indicators,    *)
(* evaluates its rules, each of which brings its signal up to date, and    *)
(* sends the transactions of the trades.                                   *)
(*                                                                         *)
(* One action is one iteration of a loop of the code.  The thread is alone *)
(* with these objects: while a strategy runs, the only caller that could   *)
(* edit or remove them waits for the thread (StrategyEngine,               *)
(* RunnerIsWaitedFor).                                                     *)
(***************************************************************************)
EXTENDS LimitedMap

CONSTANTS
  Indicators,  \* labels of indicators
  Signals,     \* labels of signals
  Rules,       \* labels of the strategy's rules
  Values,      \* values of quotes, as received and as modified
  Modifier,    \* Modifier[i][v]: what the modifier of i makes of v, or v
  Left, Right, \* the two indicators that a signal compares
  Relation,    \* the pairs of values for which the relation of a signal holds
  Comparisons, \* the signals of type Comparison; the other types have no use yet
  SignalOf,    \* the signal of a rule
  Wanted,      \* the signal value on which a rule trades
  None,        \* no quote, indicator or rule
  MaxTime,     \* bounds the clock, and with it the cycles
  MaxStep,     \* bounds how far the clock goes forward in a cycle
  MaxBack      \* bounds how often the system clock is set back

SignalValues == {"unset", "True", "False"}
Times == 1..MaxTime

ASSUME ObjectsAssumption ==
  /\ Modifier \in [Indicators -> [Values -> Values]]
  /\ Left \in [Signals -> Indicators] /\ Right \in [Signals -> Indicators]
  /\ Relation \in [Signals -> SUBSET (Values \X Values)]
  /\ Comparisons \subseteq Signals
  /\ SignalOf \in [Rules -> Signals]
  /\ Wanted \in [Rules -> {"True", "False"}]
  /\ None \notin Values /\ None \notin Indicators /\ None \notin Rules
  /\ MaxTime \in Nat /\ MaxStep \in Nat /\ MaxBack \in Nat

VARIABLES
  pc,        \* the loop the thread is in
  clock,     \* the last time stamp
  back,      \* how often the clock has been set back
  mdata,     \* the quote of the current window for each indicator, or None
  todo,      \* the indicators or rules that the loop still has to visit
  current,   \* the indicator or rule in the inner loop
  keys,      \* the keys that the inner loop still has to visit
  input,     \* Indicator::input_value_
  output,    \* Indicator::output_value_
  signal,    \* Signal::signal_
  trades,    \* rules that have generated a trade in this cycle
  received,  \* history: the times and values of the quotes put into input
  previous   \* history: the rules that traded in the previous cycle

history == <<received, previous>>
maps == <<input, output, signal>>
vars == <<pc, clock, back, mdata, todo, current, keys, maps, trades, history>>

PC == {"look", "window", "update", "process", "rules", "signal", "trade", "ended", "died"}

\* m is a map from times to S; f is a family indexed by S.
IsMap(m, S) == DOMAIN m \subseteq Times /\ m \in [DOMAIN m -> S]
IsFamily(f, S) == f = [x \in S |-> f[x]]

TypeOK ==
  /\ pc \in PC
  /\ clock \in 0..MaxTime /\ back \in 0..MaxBack
  /\ mdata \in [Indicators -> Values \cup {None}]
  /\ todo \subseteq Indicators \cup Rules
  /\ current \in Indicators \cup Rules \cup {None}
  /\ keys \subseteq Times
  /\ IsFamily(input, Indicators) /\ IsFamily(output, Indicators)
  /\ \A i \in Indicators : IsMap(input[i], Values) /\ IsMap(output[i], Values)
  /\ IsFamily(signal, Signals)
  /\ \A s \in Signals : IsMap(signal[s], SignalValues)
  /\ trades \subseteq Rules /\ previous \subseteq Rules
  /\ received \in [Indicators -> SUBSET (Times \X Values)]

Init ==
  /\ pc = "look" /\ clock = 0 /\ back = 0
  /\ mdata = [i \in Indicators |-> None]
  /\ todo = {} /\ current = None /\ keys = {}
  /\ input = [i \in Indicators |-> Empty]
  /\ output = [i \in Indicators |-> Empty]
  /\ signal = [s \in Signals |-> Empty]
  /\ trades = {}
  /\ received = [i \in Indicators |-> {}] /\ previous = {}

-----------------------------------------------------------------------------
(* runStrategy, and the window of getMarketData.                           *)

\* while (engine.isStrategyActive(*this))
Look ==
  /\ pc = "look"
  /\ \/ /\ clock < MaxTime
        /\ pc' = "window"
        /\ mdata' = [i \in Indicators |-> None]
     \/ pc' = "ended" /\ UNCHANGED mdata
  /\ UNCHANGED <<clock, back, todo, current, keys, maps, trades, history>>

\* Of the quotes that a contract has in the window, mdata.insert keeps the
\* first.  Coinbase may have none.
ReceiveQuote(i, v) ==
  /\ pc = "window"
  /\ mdata[i] = None
  /\ mdata' = [mdata EXCEPT ![i] = v]
  /\ UNCHANGED <<pc, clock, back, todo, current, keys, maps, trades, history>>

\* A request that throws leaves the thread function: the process ends.
RequestThrows ==
  /\ pc = "window"
  /\ pc' = "died"
  /\ UNCHANGED <<clock, back, mdata, todo, current, keys, maps, trades, history>>

\* All the quotes of the window get the same time stamp, in seconds: later than
\* the last one, unless the system clock has been set back.
CloseWindow ==
  /\ pc = "window"
  /\ \/ \E t \in Times : clock < t /\ t <= clock + MaxStep /\ clock' = t /\ back' = back
     \/ \E t \in Times : t <= clock /\ back < MaxBack /\ clock' = t /\ back' = back + 1
  /\ pc' = "update"
  /\ todo' = {i \in Indicators : mdata[i] # None}
  /\ UNCHANGED <<mdata, current, keys, maps, trades, history>>

-----------------------------------------------------------------------------
(* Indicators::updateIndicator for each indicator that has a quote.        *)

\* A quote whose time stamp is there is dropped.
DropQuote(i) ==
  /\ pc = "update" /\ i \in todo
  /\ clock \in DOMAIN input[i]
  /\ todo' = todo \ {i}
  /\ UNCHANGED <<pc, clock, back, mdata, current, keys, maps, trades, history>>

\* ProcessIndicator begins with the last key of the output, if the input has it.
FirstToUse_Begin(in, out) == First(DOMAIN in)  \* mutant: from the first key
FirstToUse(in, out) ==
  IF DOMAIN out # {} /\ Last(out) \in DOMAIN in THEN Last(out) ELSE First(DOMAIN in)

InsertQuote(i) ==
  /\ pc = "update" /\ i \in todo
  /\ clock \notin DOMAIN input[i]
  /\ input' = [input EXCEPT ![i] = Insert(@, clock, mdata[i])]
  /\ received' = [received EXCEPT ![i] = @ \cup {<<clock, mdata[i]>>}]
  /\ keys' = {k \in DOMAIN input'[i] : FirstToUse(input'[i], output[i]) <= k}
  /\ todo' = todo \ {i}
  /\ current' = i
  /\ pc' = "process"
  /\ UNCHANGED <<clock, back, mdata, output, signal, trades, previous>>

\* The loop modifies the value in the input, in place, and inserts a copy of it.
ProcessKey ==
  /\ pc = "process" /\ keys # {}
  /\ LET k == First(keys)
         v == Modifier[current][input[current][k]]
     IN /\ input' = [input EXCEPT ![current][k] = v]
        /\ output' = [output EXCEPT ![current] = Insert(@, k, v)]
        /\ keys' = keys \ {k}
  /\ UNCHANGED <<pc, clock, back, mdata, todo, current, signal, trades, history>>

IndicatorDone ==
  /\ pc = "process" /\ keys = {}
  /\ pc' = "update"
  /\ current' = None
  /\ UNCHANGED <<clock, back, mdata, todo, keys, maps, trades, history>>

UpdatesDone ==
  /\ pc = "update" /\ todo = {}
  /\ pc' = "rules"
  /\ todo' = Rules
  /\ UNCHANGED <<clock, back, mdata, current, keys, maps, trades, history>>

-----------------------------------------------------------------------------
(* processRules: Rule::ProcessSignal, which first runs Signal::ProcessSignal. *)

VisitRule(r) ==
  /\ pc = "rules" /\ r \in todo
  /\ keys' = DOMAIN output[Left[SignalOf[r]]]
  /\ todo' = todo \ {r}
  /\ current' = r
  /\ pc' = "signal"
  /\ UNCHANGED <<clock, back, mdata, maps, trades, history>>

BoolToSignalValue_Zero(b) == IF b THEN "True" ELSE "Zero"  \* mutant
BoolToSignalValue(b) == IF b THEN "True" ELSE "False"

\* A value that is there is not replaced; a moment without a quote of the second
\* indicator is inserted without a look.
CompareKey ==
  /\ pc = "signal" /\ keys # {}
  /\ LET s == SignalOf[current]
         k == First(keys)
         left == output[Left[s]]
         right == output[Right[s]]
         holds == <<left[k], right[k]>> \in Relation[s]
     IN /\ \/ /\ k \in DOMAIN right \ DOMAIN signal[s]
              /\ signal' = [signal EXCEPT ![s] = Insert(@, k, BoolToSignalValue(holds))]
           \/ /\ k \in DOMAIN right \cap DOMAIN signal[s]
              /\ UNCHANGED signal
           \/ /\ k \notin DOMAIN right
              /\ signal' = [signal EXCEPT ![s] = Insert(@, k, "unset")]
        /\ keys' = keys \ {k}
  /\ UNCHANGED <<pc, clock, back, mdata, todo, current, input, output, trades, history>>

\* Mutant: the rule looks at the oldest value.
DecideRule_Oldest ==
  /\ pc = "signal" /\ keys = {}
  /\ LET data == signal[SignalOf[current]]
     IN trades' = IF /\ SignalOf[current] \in Comparisons
                     /\ DOMAIN data # {} /\ data[First(DOMAIN data)] = Wanted[current]
                  THEN trades \cup {current} ELSE trades
  /\ current' = None
  /\ pc' = "rules"
  /\ UNCHANGED <<clock, back, mdata, todo, keys, maps, history>>

\* The rule looks at the newest value only, and only at that of a comparison.
DecideRule ==
  /\ pc = "signal" /\ keys = {}
  /\ LET data == signal[SignalOf[current]]
     IN trades' = IF /\ SignalOf[current] \in Comparisons
                     /\ DOMAIN data # {} /\ data[Last(data)] = Wanted[current]
                  THEN trades \cup {current} ELSE trades
  /\ current' = None
  /\ pc' = "rules"
  /\ UNCHANGED <<clock, back, mdata, todo, keys, maps, history>>

RulesDone ==
  /\ pc = "rules" /\ todo = {}
  /\ previous' = trades
  /\ pc' = "trade"
  /\ UNCHANGED <<clock, back, mdata, todo, current, keys, maps, trades, received>>

\* implementTransaction; it cannot be told from its result whether it succeeded.
Transact(r) ==
  /\ pc = "trade" /\ r \in trades
  /\ trades' = trades \ {r}
  /\ UNCHANGED <<pc, clock, back, mdata, todo, current, keys, maps, history>>

CycleDone ==
  /\ pc = "trade" /\ trades = {}
  /\ pc' = "look"
  /\ UNCHANGED <<clock, back, mdata, todo, current, keys, maps, trades, history>>

-----------------------------------------------------------------------------
Over == pc \in {"ended", "died"} /\ UNCHANGED vars

Next == \/ Look \/ RequestThrows \/ CloseWindow
        \/ \E i \in Indicators : \/ \E v \in Values : ReceiveQuote(i, v)
                                 \/ DropQuote(i) \/ InsertQuote(i)
        \/ ProcessKey \/ IndicatorDone \/ UpdatesDone
        \/ \E r \in Rules : VisitRule(r) \/ Transact(r)
        \/ CompareKey \/ DecideRule \/ RulesDone \/ CycleDone
        \/ Over

Spec == Init /\ [][Next]_vars

-----------------------------------------------------------------------------
(* Properties.                                                             *)

\* Although ProcessIndicator modifies the input in place and begins each time
\* with a value it has modified before, every value in an output is its quote
\* modified exactly once.
ModifiedOnce ==
  \A i \in Indicators : \A k \in DOMAIN output[i] :
    \E v \in Values : <<k, v>> \in received[i] /\ output[i][k] = Modifier[i][v]

\* An output is a window over the quotes: see QuoteWindow.
Window == INSTANCE QuoteWindow WITH window <- output
OutputIsWindow == Window!Spec

\* While the clock goes forward: when the updates are done, every quote of this
\* cycle is the newest entry of its indicator's output, and the output has the
\* times of the input: the newest N quotes, none lost.
OutputsCurrent ==
  pc = "rules" /\ back = 0 =>
    \A i \in Indicators :
      /\ mdata[i] # None => Last(output[i]) = clock
      /\ DOMAIN output[i] = Newest({p[1] : p \in received[i]}, N)

\* While the clock goes forward: what a rule on a comparison decides in a cycle.
\* With quotes of both indicators it trades just when the relation of their
\* modified values is the wanted one; with a quote of the left indicator only it
\* does not trade; and without a quote of the left one it repeats the previous
\* cycle's decision, trade included: the last value of the signal is still the
\* last.  A rule on a signal of another type never trades.
TradesDecided ==
  pc = "rules" /\ back = 0 =>
    \A r \in Rules \ todo :
      LET s == SignalOf[r]
          l == Left[s]
          q == Right[s]
          holds == <<Modifier[l][mdata[l]], Modifier[q][mdata[q]]>> \in Relation[s]
      IN r \in trades <=>
           /\ s \in Comparisons
           /\ IF mdata[l] = None THEN r \in previous
              ELSE mdata[q] # None /\ BoolToSignalValue(holds) = Wanted[r]

\* The newest value of a signal, the one its rules act on, is never replaced:
\* not by the comparisons of later cycles, in which the window of the right
\* indicator may have moved past it, and not by an eviction.
NewestSignalKept ==
  [][\A s \in Signals : DOMAIN signal[s] # {} =>
       /\ Last(signal[s]) \in DOMAIN signal'[s]
       /\ signal'[s][Last(signal[s])] = signal[s][Last(signal[s])]]_vars
=============================================================================
