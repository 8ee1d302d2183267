------------------------------ MODULE Dialogue ------------------------------
(***************************************************************************)
(* The dialogues of the Telegram bot, step by step, with the Controller's  *)
(* registries (Catalogue) and its configuration (RobotConfig) behind them. *)
(*                                                                         *)
(* A chat is asked one question at a time, the one of its last message.    *)
(* The answers of all chats go into one set of forms (ObjectsCtorsData),   *)
(* whose flags have no value when the process starts.  A dialogue may be   *)
(* left at any step.  The last question of a dialogue stays the chat's     *)
(* question, so its answer may arrive again; the request for a label may   *)
(* be answered at any later time, also after a restart, since only its     *)
(* text is looked at.                                                      *)
(*                                                                         *)
(* One thread handles the updates: an action is a whole handler.  What a   *)
(* handler sends, hides or appends in the chat is left out, and a handler  *)
(* that only answers or throws before it has changed anything is no step.  *)
(***************************************************************************)
EXTENDS RobotConfig

CONSTANTS Users,        \* chats
          Indicators, Signals, Rules, Strategies,  \* labels
          MaxPicks,     \* bounds the taps on the keyboards that wait for "finished"
          MaxMenus,     \* bounds how often a chat's command opens a dialogue
          MaxRestarts   \* bounds how often the process is started again

ASSUME DialogueAssumption ==
  /\ None \notin Indicators \cup Signals \cup Strategies
  /\ Files # {}

VARIABLES
  up,        \* UI::is_ui_ok, and the process lives
  asks,      \* chat -> what its current message asks for (user_activity)
  prompts,   \* chat -> kinds of label its messages so far have asked for
  form,      \* kind of object -> the label answered and the is_..._initialized flags
  picks,     \* the indicators tapped for a signal and the rules for a strategy
  modifier,  \* InitIndicator::modifier: empty, "none", or another one
  trigger,   \* InitRule::signal_label
  answered,  \* history: kind -> the answers given since one was last registered
  indicators, modifiers, signals, rules, strategies, online, running, crash, past,
  menus, restarts

C == INSTANCE Catalogue WITH UnusedOnly <- FALSE, FreshRules <- FALSE

registry == <<indicators, modifiers, signals, rules, strategies, online, running, crash, past>>
forms == <<form, picks, modifier, trigger, answered>>
chat == <<asks, prompts, menus>>
vars == <<up, restarts, chat, forms, registry, config>>

Kinds == {"indicator", "signal", "rule", "strategy", "contract"}

\* The flags of a form, and those that isInitialized wants: a contract is content
\* with one ticker.  The last answer for a rule sets four more with it.
Fields == [indicator |-> {"label", "ticker", "side", "modifier"},
           signal    |-> {"label", "picks", "type", "relation"},
           rule      |-> {"label", "ticker", "side", "signal", "value", "quantity", "slippage"},
           strategy  |-> {"label", "picks"},
           contract  |-> {"label", "qs", "cb"}]
InitIndicator_Sideless(set) == {"label", "ticker", "modifier"} \subseteq set  \* mutant
InitIndicator(set) == Fields.indicator \subseteq set
InitSignal_Always(set) == TRUE                           \* mutant
InitSignal(set) == Fields.signal \subseteq set
InitRule(set) == Fields.rule \subseteq set
InitStrategy(set) == Fields.strategy \subseteq set
InitContract(set) == "label" \in set /\ set \cap {"qs", "cb"} # {}

Cleared == [label |-> None, set |-> {}]

\* What is in the flags at start, of all combinations the two extremes.
Garbage == {[k \in Kinds |-> Cleared],
            [k \in Kinds |-> [label |-> None, set |-> Fields[k]]]}

\* A session begins: Controller::init has loaded the file, no chat has a question.
Init ==
  /\ up = TRUE /\ asks = [u \in Users |-> "none"] /\ prompts = [u \in Users |-> {}]
  /\ menus = 0 /\ restarts = 0
  /\ picks = [signal |-> << >>, strategy |-> << >>] /\ modifier = "empty"
  /\ answered = [k \in Kinds |-> {}]
  /\ modifiers = {} /\ online = {} /\ running = None
  /\ crash = "none" /\ past = {}
  /\ file \in Files /\ conf = file /\ tpk \in KeysIn(file) /\ offered = Listed(file)
  /\ kept = Range(file)
  /\ \/ \* the process has just been started
        /\ form \in Garbage /\ trigger = None
        /\ indicators = {} /\ signals = << >> /\ rules = << >> /\ strategies = << >>
     \/ \* an indicator, a signal, a rule and maybe a strategy have been registered
        \E i \in Indicators, s \in Signals, r \in Rules :
          /\ form = [k \in Kinds |-> IF k = "rule" THEN [label |-> r, set |-> Fields[k]]
                                                   ELSE Cleared]
          /\ trigger = s
          /\ indicators = {i} /\ signals = [x \in {s} |-> <<i, i>>]
          /\ rules = [x \in {r} |-> [signal |-> s, inds |-> <<i, i>>]]
          /\ \/ strategies = << >>
             \/ \E a \in Strategies :
                  strategies = [x \in {a} |-> [rules |-> {r}, inds |-> {i}]]

-----------------------------------------------------------------------------
(* How a chat is asked and answers.                                        *)

\* The UI thread waits for events: it is not in a Start that has succeeded.
Listening == up /\ running = None

Asked(u, event) == Listening /\ asks[u] = event
Ask(u, event) == asks' = [asks EXCEPT ![u] = event] /\ UNCHANGED <<prompts, menus>>

\* Answers with their flags; they are remembered as given.
Fill(k, fields) ==
  /\ form' = [form EXCEPT ![k].set = @ \cup fields]
  /\ answered' = [answered EXCEPT ![k] = @ \cup fields]

\* A label is requested without an event; the answer is recognised by the text of
\* the message it replies to.
AskLabel(u, k) ==
  /\ asks' = [asks EXCEPT ![u] = "none"]
  /\ prompts' = [prompts EXCEPT ![u] = @ \cup {k}]
  /\ UNCHANGED menus
Labels(u, k, l) ==
  /\ Listening /\ k \in prompts[u]
  /\ form' = [form EXCEPT ![k] = [label |-> l, set |-> @.set \cup {"label"}]]
  /\ answered' = [answered EXCEPT ![k] = @ \cup {"label"}]

\* The usual step: an answer that is one field of a form, and the next question.
Step(u, event, k, field, next) ==
  /\ Asked(u, event)
  /\ Fill(k, {field})
  /\ Ask(u, next)
  /\ UNCHANGED <<up, restarts, picks, modifier, trigger, registry, config>>

\* The process ends, and its memory with it.  The chats keep their messages.
NoAnswers ==
  /\ asks' = [u \in Users |-> "none"] /\ UNCHANGED <<prompts, menus>>
  /\ picks' = [signal |-> << >>, strategy |-> << >>] /\ modifier' = "empty" /\ trigger' = None
  /\ answered' = [k \in Kinds |-> {}]
NoForms == NoAnswers /\ form' = [k \in Kinds |-> Cleared]
NoObjects ==
  /\ indicators' = {} /\ modifiers' = {} /\ signals' = << >> /\ rules' = << >>
  /\ strategies' = << >> /\ online' = {} /\ running' = None /\ crash' = "none"
  /\ UNCHANGED past
End == up' = FALSE /\ NoForms /\ NoObjects /\ UNCHANGED restarts

-----------------------------------------------------------------------------
(* The commands and the menus.                                             *)

\* /dashboard, and the menu group that is chosen on it.
Dashboard(u, event) ==
  /\ Listening /\ menus < MaxMenus
  /\ asks' = [asks EXCEPT ![u] = event] /\ menus' = menus + 1
  /\ UNCHANGED <<up, restarts, prompts, forms, registry, config>>

\* A menu shows its keyboard once; "List" changes nothing.
Menu(u, event, k, keyboards) ==
  /\ Asked(u, event)
  /\ AskLabel(u, k) \/ \E e \in keyboards : Ask(u, e)
  /\ UNCHANGED <<up, restarts, forms, registry, config>>

IndicatorMenu(u) == Menu(u, "setup_Indicators", "indicator",
                         {"removeIndicator" : i \in indicators})
SignalMenu(u) == Menu(u, "setup_Signals", "signal", {"removeSignal" : s \in DOMAIN signals})
RuleMenu(u) == Menu(u, "setup_Rules", "rule", {"removeRule" : r \in DOMAIN rules})
StrategyMenu(u) == Menu(u, "setup_Strategies", "strategy",
  IF strategies = << >> THEN {} ELSE {"removeStrategy", "startStrategy", "stopStrategy"})

\* "Remove" does nothing, and "List" loads the file first.
ContractMenu(u) ==
  \/ Menu(u, "setup_Contracts", "contract", {})
  \/ /\ Asked(u, "setup_Contracts")
     /\ LoadFromIni
     /\ UNCHANGED <<up, restarts, chat, forms, registry>>

KeyMenu(u) ==
  /\ Asked(u, "setup_TezosPrivateKey")
  /\ Ask(u, "replaceTezosPrivateKey")
  /\ UNCHANGED <<up, restarts, forms, registry, config>>

\* The key is taken as it is; the process may end in the write.
ReplaceKey(u, key) ==
  /\ Asked(u, "replaceTezosPrivateKey")
  /\ \/ UpdateKey(key) /\ UNCHANGED <<up, restarts, chat, forms, registry>>
     \/ EndInWrite({WithKey(conf, key)}) /\ End

\* "Type yes to stop the bot".
StopUI(u) ==
  /\ Asked(u, "stopUI_Farewell")
  /\ End /\ Gone /\ UNCHANGED <<file, kept>>

-----------------------------------------------------------------------------
(* Indicators.                                                             *)

\* Mutant: the modifiers are not asked.
LabelIndicator_NotModifiers(u, l) ==
  /\ l \notin indicators
  /\ Labels(u, "indicator", l)
  /\ LoadFromIni
  /\ IF Loads THEN Ask(u, "addIndicator_Ticker") ELSE UNCHANGED chat
  /\ UNCHANGED <<up, restarts, picks, modifier, trigger, registry>>

\* Mutant: the contracts are not loaded again.
LabelIndicator_NoLoad(u, l) ==
  /\ l \notin indicators \cup modifiers
  /\ Labels(u, "indicator", l)
  /\ Ask(u, "addIndicator_Ticker")
  /\ UNCHANGED <<up, restarts, picks, modifier, trigger, registry, config>>

\* The label is taken before the file is loaded, which throws when it has no key.
LabelIndicator(u, l) ==
  /\ l \notin indicators \cup modifiers
  /\ Labels(u, "indicator", l)
  /\ LoadFromIni
  /\ IF Loads THEN Ask(u, "addIndicator_Ticker") ELSE UNCHANGED chat
  /\ UNCHANGED <<up, restarts, picks, modifier, trigger, registry>>

TickerOfIndicator(u) == /\ offered # {}
                        /\ Step(u, "addIndicator_Ticker", "indicator", "ticker",
                                "addIndicator_TradeSide")
SideOfIndicator(u) == Step(u, "addIndicator_TradeSide", "indicator", "side",
                           "addIndicator_ModifierType")

\* Controller::addIndicator with the last answer.  Without all answers, or when it
\* throws, the form stays as it is: getModifierMethod throws for an empty modifier,
\* which the form has at first and after it was cleared.
AddIndicator(m) ==
  LET f == [form.indicator EXCEPT !.set = @ \cup {"modifier"}]
      with == m # "none"
      adds == InitIndicator(f.set) /\ m # "empty" /\ ~(with /\ f.label \in modifiers)
  IN /\ \/ /\ adds
           /\ C!AddIndicator(f.label, with)
           /\ form' = [form EXCEPT !.indicator = Cleared] /\ modifier' = "empty"
           /\ answered' = [answered EXCEPT !.indicator = {}]
        \/ /\ ~adds
           /\ Fill("indicator", {"modifier"}) /\ modifier' = m
           /\ UNCHANGED registry
     /\ UNCHANGED <<up, restarts, chat, picks, trigger, config>>

NoModifier(u) == Asked(u, "addIndicator_ModifierType") /\ AddIndicator("none")
ModifierType(u) ==
  /\ Asked(u, "addIndicator_ModifierType")
  /\ modifier' = "add"
  /\ Ask(u, "addIndicator_ModifierValue")
  /\ UNCHANGED <<up, restarts, form, picks, trigger, answered, registry, config>>
ModifierValue(u) == Asked(u, "addIndicator_ModifierValue") /\ AddIndicator(modifier)

\* The end of a handler that removes an object: the process may have died in it.
Removed ==
  \/ crash' = "none" /\ UNCHANGED <<up, restarts, chat, forms, config>>
  \/ crash' # "none" /\ up' = FALSE /\ NoForms /\ Gone /\ UNCHANGED <<restarts, file, kept>>
RemoveIndicator(u, l) == Asked(u, "removeIndicator") /\ C!RemoveIndicator(l) /\ Removed

-----------------------------------------------------------------------------
(* Signals.                                                                *)

LabelSignal(u, l) ==
  /\ l \notin DOMAIN signals
  /\ Labels(u, "signal", l)
  /\ Ask(u, "addSignal_Indicators")
  /\ UNCHANGED <<up, restarts, picks, modifier, trigger, registry, config>>

\* A tap on a keyboard that stays: it is added to what was tapped before, in this
\* dialogue or in one that was left.
Tap(u, event, k, l) ==
  /\ Asked(u, event)
  /\ Len(picks[k]) < MaxPicks
  /\ picks' = [picks EXCEPT ![k] = Append(@, l)]
  /\ UNCHANGED <<up, restarts, chat, form, modifier, trigger, answered, registry, config>>
PickIndicator(u, i) == i \in indicators /\ Tap(u, "addSignal_Indicators", "signal", i)
PicksOfSignal(u) == Step(u, "addSignal_Indicators", "signal", "picks", "addSignal_SignalType")
TypeOfSignal(u) == Step(u, "addSignal_SignalType", "signal", "type", "addSignal_Relation")

RelationOfSignal(u) ==
  /\ Asked(u, "addSignal_Relation")
  /\ LET f == [form.signal EXCEPT !.set = @ \cup {"relation"}]
         adds == InitSignal(f.set) /\ f.label \notin DOMAIN signals
     IN \/ /\ adds
           /\ C!AddSignal(f.label, picks.signal)
           /\ form' = [form EXCEPT !.signal = Cleared]
           /\ picks' = [picks EXCEPT !.signal = << >>]
           /\ answered' = [answered EXCEPT !.signal = {}]
        \/ /\ ~adds
           /\ Fill("signal", {"relation"})
           /\ UNCHANGED <<picks, registry>>
  /\ UNCHANGED <<up, restarts, chat, modifier, trigger, config>>

RemoveSignal(u, l) == Asked(u, "removeSignal") /\ C!RemoveSignal(l) /\ Removed

-----------------------------------------------------------------------------
(* Rules.                                                                  *)

\* The contracts are offered as they were last loaded.
LabelRule(u, l) ==
  /\ l \notin DOMAIN rules
  /\ Labels(u, "rule", l)
  /\ Ask(u, "addRule_TradingTicker")
  /\ UNCHANGED <<up, restarts, picks, modifier, trigger, registry, config>>

TickerOfRule(u) == /\ offered # {}
                   /\ Step(u, "addRule_TradingTicker", "rule", "ticker", "addRule_TradeSide")
SideOfRule(u) == Step(u, "addRule_TradeSide", "rule", "side", "addRule_SignalLabel")
SignalOfRule(u, s) ==
  /\ Asked(u, "addRule_SignalLabel") /\ s \in DOMAIN signals
  /\ Fill("rule", {"signal"}) /\ trigger' = s
  /\ Ask(u, "addRule_SignalValue")
  /\ UNCHANGED <<up, restarts, picks, modifier, registry, config>>
ValueOfRule(u) == Step(u, "addRule_SignalValue", "rule", "value", "addRule_OrderQuantity")
QuantityOfRule(u) == Step(u, "addRule_OrderQuantity", "rule", "quantity", "addRule_Slippage")

\* Controller::addRule, which throws as well for a quantity or slippage that is no
\* number, clears the form of the strategy and not its own.
SlippageOfRule(u) ==
  /\ Asked(u, "addRule_Slippage")
  /\ LET f == [form.rule EXCEPT !.set = @ \cup {"slippage"}]
     IN \/ /\ InitRule(f.set)
           /\ C!AddRule(f.label, trigger)
           /\ form' = [form EXCEPT !.rule = f, !.strategy = Cleared]
           /\ picks' = [picks EXCEPT !.strategy = << >>]
           /\ answered' = [answered EXCEPT !.rule = {}]
        \/ /\ Fill("rule", {"slippage"})
           /\ UNCHANGED <<picks, registry>>
  /\ UNCHANGED <<up, restarts, chat, modifier, trigger, config>>

RemoveRule(u, l) == Asked(u, "removeRule") /\ C!RemoveRule(l) /\ Removed

-----------------------------------------------------------------------------
(* Strategies and contracts.                                               *)

LabelStrategy(u, l) ==
  /\ l \notin DOMAIN strategies
  /\ Labels(u, "strategy", l)
  /\ Ask(u, "addStrategy")
  /\ UNCHANGED <<up, restarts, picks, modifier, trigger, registry, config>>

PickRule(u, r) == r \in DOMAIN rules /\ Tap(u, "addStrategy", "strategy", r)

\* A rule is found, and none twice: Strategy::addRule throws.
Composable(l, taps) ==
  LET found == Range(taps) \cap DOMAIN rules
  IN /\ l \notin DOMAIN strategies /\ found # {}
     /\ \A i, j \in DOMAIN taps : taps[i] = taps[j] /\ taps[i] \in found => i = j

\* "finished": Controller::addStrategy.  With a rule that was tapped twice it
\* throws, and then the taps stay for the next dialogue.
RulesOfStrategy(u) ==
  /\ Asked(u, "addStrategy")
  /\ LET f == [form.strategy EXCEPT !.set = @ \cup {"picks"}]
     IN \/ /\ InitStrategy(f.set)
           /\ C!AddStrategy(f.label, picks.strategy)
           /\ form' = [form EXCEPT !.strategy = Cleared]
           /\ picks' = [picks EXCEPT !.strategy = << >>]
           /\ answered' = [answered EXCEPT !.strategy = {}]
        \/ /\ ~(InitStrategy(f.set) /\ Composable(f.label, picks.strategy))
           /\ Fill("strategy", {"picks"})
           /\ UNCHANGED <<picks, registry>>
  /\ UNCHANGED <<up, restarts, chat, modifier, trigger, config>>

RemoveStrategy(u, l) == Asked(u, "removeStrategy") /\ C!RemoveStrategy(l) /\ Removed
StopStrategy(u, l) == Asked(u, "stopStrategy") /\ C!StopStrategy(l) /\ Removed
StartStrategy(u, l) == Asked(u, "startStrategy") /\ C!StartStrategy(l) /\ Removed

\* The label is looked for among names of the form "label.ticker": one that is a
\* contract's is never found there, and the contract is entered again.
LabelContract(u, l) ==
  /\ Labels(u, "contract", l)
  /\ Ask(u, "addContract_TickerQS")
  /\ UNCHANGED <<up, restarts, picks, modifier, trigger, registry, config>>
TickerQS(u) == Step(u, "addContract_TickerQS", "contract", "qs", "addContract_TickerCB")

\* Controller::addContract: when updateIni throws, the form stays as it is.
TickerCB(u) ==
  /\ Asked(u, "addContract_TickerCB")
  /\ LET f == [form.contract EXCEPT !.set = @ \cup {"cb"}]
     IN \/ /\ InitContract(f.set)
           /\ UpdateContract(f.label)
           /\ \/ /\ Writable(conf')
                 /\ form' = [form EXCEPT !.contract = Cleared]
                 /\ answered' = [answered EXCEPT !.contract = {}]
              \/ ~Writable(conf') /\ Fill("contract", {"cb"})
           /\ UNCHANGED <<up, restarts, chat, picks, modifier, trigger, registry>>
        \/ InitContract(f.set) /\ EndInWrite(WithContract(conf, f.label)) /\ End
        \/ /\ ~InitContract(f.set)
           /\ Fill("contract", {"cb"})
           /\ UNCHANGED <<up, restarts, chat, picks, modifier, trigger, registry, config>>

-----------------------------------------------------------------------------
(* The process ends, or is ended, at any time, and is started again, when   *)
(* its file has a key.  The chats keep their messages.                      *)

Restart ==
  /\ restarts < MaxRestarts
  /\ restarts' = restarts + 1
  /\ NoAnswers /\ NoObjects /\ form' \in Garbage
  /\ LoadFirst /\ up' = Loads

Menus == {"setup_Indicators", "setup_Signals", "setup_Rules", "setup_Strategies",
          "setup_Contracts", "setup_TezosPrivateKey"}

Answer(u) ==
  \/ \E e \in Menus \cup {"stopUI_Farewell"} : Dashboard(u, e)
  \/ IndicatorMenu(u) \/ SignalMenu(u) \/ RuleMenu(u) \/ StrategyMenu(u)
  \/ ContractMenu(u) \/ KeyMenu(u) \/ (\E k \in Keys : ReplaceKey(u, k)) \/ StopUI(u)
  \/ \E i \in Indicators : LabelIndicator(u, i) \/ RemoveIndicator(u, i) \/ PickIndicator(u, i)
  \/ TickerOfIndicator(u) \/ SideOfIndicator(u)
  \/ NoModifier(u) \/ ModifierType(u) \/ ModifierValue(u)
  \/ \E s \in Signals : LabelSignal(u, s) \/ RemoveSignal(u, s) \/ SignalOfRule(u, s)
  \/ PicksOfSignal(u) \/ TypeOfSignal(u) \/ RelationOfSignal(u)
  \/ \E r \in Rules : LabelRule(u, r) \/ RemoveRule(u, r) \/ PickRule(u, r)
  \/ TickerOfRule(u) \/ SideOfRule(u) \/ ValueOfRule(u) \/ QuantityOfRule(u)
  \/ SlippageOfRule(u)
  \/ \E a \in Strategies : \/ LabelStrategy(u, a) \/ RemoveStrategy(u, a)
                           \/ StopStrategy(u, a) \/ StartStrategy(u, a)
  \/ RulesOfStrategy(u)
  \/ (\E c \in Contracts : LabelContract(u, c)) \/ TickerQS(u) \/ TickerCB(u)

Next == (\E u \in Users : Answer(u)) \/ Restart

Spec == Init /\ [][Next]_vars

-----------------------------------------------------------------------------
(* Properties.                                                             *)

Questions == {"none", "stopUI_Farewell", "replaceTezosPrivateKey",
  "addIndicator_Ticker", "addIndicator_TradeSide", "addIndicator_ModifierType",
  "addIndicator_ModifierValue", "removeIndicator", "addSignal_Indicators",
  "addSignal_SignalType", "addSignal_Relation", "removeSignal", "addRule_TradingTicker",
  "addRule_TradeSide", "addRule_SignalLabel", "addRule_SignalValue",
  "addRule_OrderQuantity", "addRule_Slippage", "removeRule", "addStrategy",
  "removeStrategy", "stopStrategy", "startStrategy", "addContract_TickerQS",
  "addContract_TickerCB"} \cup Menus

LabelsOf == [indicator |-> Indicators, signal |-> Signals, rule |-> Rules,
             strategy |-> Strategies, contract |-> Contracts]
IsFamily(f) == f = [k \in Kinds |-> f[k]]

TypeOK ==
  /\ up \in BOOLEAN /\ asks \in [Users -> Questions] /\ prompts \in [Users -> SUBSET Kinds]
  /\ IsFamily(form) /\ IsFamily(answered)
  /\ \A k \in Kinds : /\ form[k] \in [label : LabelsOf[k] \cup {None}, set : SUBSET Fields[k]]
                      /\ answered[k] \subseteq Fields[k]
  /\ picks \in [signal : Seq(Indicators), strategy : Seq(Rules)]
  /\ modifier \in {"empty", "none", "add"} /\ trigger \in Signals \cup {None}
  /\ ConfigTypeOK /\ C!TypeOK

\* A label that was found free and waits in a form is still free: the dialogues
\* of two chats can be given the same label, and last answers come twice, but the
\* form is one, and it is emptied when its object is registered.  So the last
\* step never throws because of the label (signals.cpp:138, modifiers.h:70).  Not
\* so for rules, whose form is never emptied.
LabelsFree ==
  /\ form.indicator.label \notin indicators \cup modifiers
  /\ form.signal.label \notin DOMAIN signals
  /\ form.strategy.label \notin DOMAIN strategies

\* Whatever the flags held at start, whoever leaves or repeats a dialogue, and
\* whichever chats answer: an object is registered only when all its answers were
\* given after the last one of its kind was.
WholeObjects ==
  [][/\ ~(indicators' \subseteq indicators) =>
          Fields.indicator \subseteq answered.indicator \cup {"modifier"}
     /\ ~(DOMAIN signals' \subseteq DOMAIN signals) =>
          Fields.signal \subseteq answered.signal \cup {"relation"}
     /\ ~(DOMAIN strategies' \subseteq DOMAIN strategies) =>
          Fields.strategy \subseteq answered.strategy \cup {"picks"}]_vars

\* A contract that the robot has to keep is offered from the next indicator dialogue
\* on.  (One that took the name of the key's section is in the file and never offered.)
StoredIsOffered ==
  [][\A u \in Users : asks[u] # asks'[u] /\ asks'[u] = "addIndicator_Ticker"
        => \A s \in kept : s.name = KeySection \/ s.name \in offered']_vars
=============================================================================
