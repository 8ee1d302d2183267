# Strategy_Trading: a TLA+ model

Strategy_Trading is a trading robot that is operated through a Telegram chat.
A user creates *indicators* (quotes of a contract, possibly modified),
*signals* (a relation between two indicators), *rules* (what to trade on which
value of a signal) and *strategies* (sets of rules), then starts and stops the
strategies. This directory holds TLA+ modules that model the program, TLC
configurations that check them on small instances, and proofs for TLAPS.

Paths below are relative to `src/project_files/` unless they begin with `src/`.

## The system

| Part | State | Operations | Interacts with |
|---|---|---|---|
| UI (`ui/`) | one `ctors` object with the answers of the current dialogues, shared by all chats; `user_activity` (which answer a chat is expected to give) | menus, dialogues, `run` | calls `Controller::processEvent` from the one thread of `UI::run` (`ui.tcc:34-60`), which reports exceptions to the chat and goes on |
| Controller (`app_controller/`) | the engine, the configuration, `ctors` | add/remove/list of every kind of object, start, stop | the registries of the engine |
| `algo::Engine` (`strategy/strategy_engine.*`) | the registries, `active_strategies`, three mutexes | `activateStrategy`, `deactivateStrategy`, `isStrategyActive` | `threads::Engine`; read by the strategies' threads |
| `threads::Engine` (`strategy/threads_engine.h`) | `thread_map`, `label_to_id`, `id_to_label` | `addThread`, `interruptThread` | called with `mtx3` or `mtx2` held |
| Strategy (`strategy/strategy.*`) | labels of its rules and of their indicators | `initializeTradingContracts`, `processRules`, `getMarketData` | looks rules and indicators up by label |
| Indicator (`strategy/indicator.*`) | two limited maps: quotes as received and as modified | `updateIndicator` | fed by the strategy, read by signals |
| Signal (`strategy/signals.*`) | a limited map from times to truth values | `ProcessSignal` | reads the outputs of two indicators by label |
| Rule (`strategy/rule.*`) | a pointer to its signal, the wanted value | `ProcessSignal` | makes trades |
| Limited map (`primitives/maps.h`) | at most 60 entries | `insert` with eviction | everything that keeps a history |
| Sources (`dexes/`) | the contracts of indicators and rules, the quotes of a window | look up tokens at the factories of Quipuswap, ask Coinbase and tzkt for prices, build the command of a transaction | called by a strategy's start and by its cycles; may have no quote, or throw |
| Curl client (`curl_client/`) | a handler per data processor: method, buffers, code and type of the last response | `Implement` | libcurl, whose callbacks append to the buffers |
| JSON (`json/`) | none | `Load`, `Print` | used by the curl client and by Sources |
| Configuration (`robot_config/`) | an ini file and its copy in memory, one tree with a section for the key and one for each contract; the contracts that are offered | `loadFromIni`, `updateIni` | Controller, dialogues |

What is hard here, and what makes each part correct:

* **Threads.** A Start runs in the caller's thread, creates the strategy's
  thread and joins it with `mtx3` held; a Stop erases the thread from the maps
  that the Start uses, and the strategy's thread sees the Stop only when its
  loop looks. Correct means: the locks exclude on every exit, a Start waits for
  its own thread, a stopped strategy ends, a Stop is never blocked by a Start,
  no container is used by two threads at once, nothing dangles.
* **Failure in the middle.** Start may fail after it has put the label online;
  an exception inside a cycle ends the process. Nothing but the configuration is
  persisted.
* **In-place data.** An indicator overwrites its input with the modified value
  and starts every time at an entry it has processed before; the limited map
  evicts before it looks; `insert` never replaces. Correct means: every value
  modified once, no quote lost before its time, the newest value of a signal
  never replaced, and trades decided on the current relation.
* **Time.** Quotes are stamped with the system clock, which may be set back.
* **References by label.** Objects refer to each other by label or pointer, and
  the registry lets a user remove what others refer to.
* **Dialogues.** All chats fill one object with flags that have no initial
  value, are cleared on some paths and left set on others; a chat may leave a
  dialogue, answer an old question or the last one twice. Correct means: only
  objects that were answered for as a whole are registered, the last step of a
  dialogue never fails because of a label that was checked at its first.
* **One file for everything.** The key and the contracts are sections of one tree,
  under labels that nobody checks, and every save truncates the file and writes the
  tree again, maybe not to its end. Correct means: what the robot says it stored is
  in the file and is what the robot uses, for as long as nothing that was stored
  over it or before it, and no end of the process inside a write, takes it away.
* **The network.** A reply may be broken off, noticed or not, mislabelled, or no
  JSON, and what it leaves behind is in the handler when the next request
  begins. Correct means: a reply is read as what was sent or not at all, a quote
  is a price of its own market in this window, and a trade names its own token.

The complete list is `hazards` in `PROJECT.json`, each at its line with the
properties that cover it or the reason why none does.

## Modules

| Module | Models |
|---|---|
| `StrategyEngine` | `algo::Engine` start/stop, `threads::Engine`, the runner's loop, add/remove of strategies |
| `StrategyLifecycle` | abstract specification: what a strategy's life is, without threads |
| `MCStrategyEngine` | the symmetry set for TLC |
| `StrategyEngineProofs` | theorems about `StrategyEngine` |
| `LimitedMap` | `types::MapLimitedSize` as operators on functions |
| `TradingCycle` (extends `LimitedMap`) | a strategy's thread from the inside: quotes, indicators, signals, rules, trades |
| `QuoteWindow` | abstract specification: what an indicator promises to its readers |
| `MCTradingCycle` | the objects of the instances: a modified and a plain indicator, a compared signal, one of a type no rule acts on |
| `Catalogue` | the Controller's registries and the references between the objects in them |
| `MCCatalogue` | the symmetry set for TLC |
| `CatalogueProofs` | theorems about `Catalogue` |
| `LimitedMapProofs`, `TradingCycleProofs`, `IndicatorProofs`, `TradesProofs` | theorems about maps, the cycle, its indicators, its outputs and trades |
| `RobotConfig` | `config::RobotConfig`: the ini file, its tree in memory, loading, saving, and what boost does with labels that are paths |
| `Dialogue` (extends `RobotConfig`, instantiates `Catalogue`) | every menu, question and answer of the UI over the shared forms |
| `MCDialogue` | labels of contracts, the files at start, the symmetry set for TLC |
| `DialogueProofs` | theorems about `Dialogue` and `RobotConfig` |
| `JsonNode` | `Json::Node`, documents, and what is thrown instead of one |
| `Json` (extends `JsonNode`) | `Json::Load` and `Json::Print` as operators on texts of symbols |
| `HttpRequest` (extends `JsonNode`) | one request of the curl client over the state of its handler; libcurl and the network as external actions; the loader is a parameter |
| `Sources` (extends `JsonNode`) | `initializeTradingContracts`, `getNewMarketData` and `makeCommand` with what the servers may answer, each request a single step |
| `HttpSources` (extends `HttpRequest`, `Sources`) | the requests of `Sources` through the handler; implements `Sources` |
| `MCSources` (extends `HttpSources`, `Json`) | the loader of `Json`, an indicator at each exchange, rules for tokens of both standards, listings and replies |
| `SourcesProofs` | theorems about `Sources`, `HttpRequest` and `HttpSources` |

Definitions whose comment says *mutant* are wrong on purpose: each replaces
the definition whose name it extends, and shows that some property notices.

### StrategyEngine

A *caller* is a thread that executes commands. The program has one. The
mutexes, and the TODO "make ui a separate thread" (`src/main.cpp:17`), are for
several, so the set of callers is a parameter: properties of the shipped
program are checked and proved with one, those the mutexes are for with any
number.

A caller's `pc` names the statement it executes next; one action is one access
to state that threads share. The states of `activateStrategy` are, in order,
`start_lock` (line 40), `start_check` (41-43), `start_insert` (44),
`start_init` (46), `start_spawn` (47), then `addThread` (`threads_engine.h`):
`add_thread` (41), `add_label` (42), `add_id` (43), `join_at` and `join` (44).
Those of `deactivateStrategy` are `stop_lock`, `stop_check`, `stop_interrupt`
(59) and `stop_erase` (60); `removeStrategy` adds `remove_check` and
`remove_erase`. The two lookups of a check are one action, since the caller
holds the only lock under which their outcome could change for its own label;
what `DataRace` adds is that the lookup itself is not safe.

`strategies` and `active` are the registered and the online labels;
`thread_map` says for each id whether its `boost::thread` is absent, joinable or
joined. Thread ids are reused once the thread has ended, as the system does,
so `ThreadIds` bounds the live threads and not their number.

Undefined behaviour is a choice. With a dangling iterator, a `boost::thread`
destroyed inside its `join()`, the erasure of `end()`, or two unguarded accesses
of which one writes, the process may go on with what is in memory or may die
(`crash` says why; `Die` clears the rest, as the end of a process does). Where
the memory of an erased node would be *read*, only the second is modelled
(`Dangles`): the label in it is a string that was freed. In `Join`, the thread
that is gone from the map can still be waited for, because boost holds a
second pointer to it while it waits.

Not every death of the process is of the engine's making. Its own causes are
`OwnCauses`; the others are an exception of a trading cycle (`cycle_failure`) and a
request of `initializeTradingContracts` that ends the process (`init_failure`, see
`Crash` in `Sources`). A removal may end it as well (`end_erased` in `Catalogue`).

Not in the module: the listing commands, which change nothing, and the
construction of the command's answer.

### TradingCycle

A cycle is: `look` (the loop condition), `window` (30 seconds in which each
indicator may get a quote, the first of them being kept), `update` with the
inner loop `process` (`ProcessIndicator`), `rules` with the inner loop `signal`
(`Signal::ProcessSignal`, then `Rule::ProcessSignal`), `trade`. One action is
one iteration. The sets visited in a loop are visited in any order; the keys of
a map in their own.

The thread is alone with these objects, which is not an assumption of
convenience: `RunnerIsWaitedFor` of `StrategyEngine` says that while a strategy
runs, the only caller waits for it, so nobody edits the registries.

Values are elements of a set, modifiers are arbitrary functions on it and
relations arbitrary sets of pairs; times are natural numbers (seconds). Signal
values compare as in `signals.cpp:53-61`: an unset value equals nothing, not
even another one, and a rule can only want `True` or `False`.

`received` (what went into each input) and `previous` (which rules traded in the
cycle before) are history variables: no action reads them.

### Catalogue

One action is one command, since one thread executes them, and none is executed
while a strategy trades (`RunnerIsWaitedFor`). A registry is a function on the
labels it has. Of a signal the model keeps `indicator_labels_`; of a rule the
label of its signal and, for the pointer it holds, that signal's indicators; of
a strategy `rule_labels_` and `indicator_labels_`, which are copies made when it
was created. The operators `AddSignal`, `AddRule`, ... are the handlers of
`controller.cpp` with everything they call; a handler that throws or answers that
it found nothing changes nothing in the registries and is no step.

The second half of the module is the operator: dialogues that are finished
before the next one begins (`NewSignal`, ...), and two habits. With
`UnusedOnly` he follows what the menus ask for ("please make sure the Indicator
you are deleting is not used", `ui.tcc:222`, 351, 602); with `FreshRules` he
never uses the label of a removed rule again (`past` remembers them). What
initializeTradingContracts looks up (`Complete`) is less than what a cycle
looks up (`Processable`), and each of the habits closes the gap in its own way.

Removing an indicator that has no modifier erases `end()`: the process may go on
or die (`end_erased`).

### Dialogue

One action is one handler of an update: the UI has one thread. `asks[u]` is the
event that chat `u` is expected to answer (`user_activity`), and `form` holds,
per kind of object, the label and the `is_..._initialized` flags of the object
in `ctors`; an answer other than a label matters only through its flag, except for
what the Controller makes of it (`picks`, `modifier`, `trigger`). After
`clear()` the name of the modifier is empty, and an answer that comes once more makes
`getModifierMethod` throw (`AddIndicator`).
The requests for a label are messages that are recognised by their text
(`ui.tcc:984`), so a chat may answer each one it has ever got (`prompts`), at
any time and as often as it likes. The last question of a dialogue stays, so its
answer may come again: from the user, or from a new `TgLongPoll` that
starts with update 0 after an exception (`ui.tcc:42`).

The commands themselves are the operators of `Catalogue`, taken with `INSTANCE` and
both of its habits off. `Restart` is a crash or an end of the process
at any moment followed by a new start: registries and forms are gone, the
flags have any value (`Garbage` takes the two extremes), the file is read, which
fails when it has no key, and the chats keep their messages.
Other initial states have one indicator, signal and rule, and maybe a strategy, so
that the dialogues about strategies come within the bound on the dialogues.

`answered` (the answers since the last registration) is a history variable.

Rules are not in `LabelsFree` and `WholeObjects`: `addRule` clears the
form of the *strategy* (`controller.cpp:296`), and both are false for rules.
Nothing in the repository says that they should hold, so this is a hazard in
`PROJECT.json` and not a finding.

### RobotConfig

`file` is what is on disk, `conf` the tree in memory, `tpk` the key that the robot
signs with, `offered` the list that the dialogues show, which only `loadFromIni`
fills. A tree is a sequence of sections with different names; of a section the
model keeps whether it holds a key, a contract or a part of one (`holds`), and
whether it has a node that an ini file has no place for (`deep`).

Key and contracts share the tree (`bot_config.cpp:53` and `:62`), and `ui.tcc:773-778`
takes any text for a label, so three things happen that the code does not
mention. A contract labelled `tezos` takes the place of the key, the next key takes
its place, and a load skips it (line 112); while it is there, a load throws and no process can
start. A label with a dot is a path: `FirstPart` is the section it leads into, and
the tree is no longer `Writable`. Then `write_ini`, which has truncated the
file, throws when it comes to that section (`Written`), after `tpk` and the tree in
memory have changed. And a process may end inside any write, with any part of it in the
file (`Cuts`, `EndInWrite`).

`kept`, a history variable, says what the robot has to keep in spite of it: the
sections that it has said it stored, and what took the place of one of those. A section
leaves `kept` only when something is stored under its name (`Keep`), when a
label is a path into it or into a section before it (`KeepBefore`: the file ends
there from then on), or when the process ends inside a write. `ConfigDurable` says
that `kept` is in the file at every moment and that a key in it is `tpk`;
`StoredIsOffered` that its contracts are offered when an indicator's dialogue has
loaded the file. What is excepted is lost in the code: the code gives no stronger
guarantee than this, and the README of the repository promises none.

`boost::property_tree` is external: `put_child` replaces or appends a section, and
`read_ini` and `write_ini` are inverse to each other on trees that can be written.
This takes labels and keys that an ini file keeps: not empty, without line
breaks, brackets, or blanks around them.

### Json, HttpRequest, Sources and HttpSources

A text is a sequence of symbols, a run of letters being one. `Load` follows the
loader function by function, leniencies included (text behind the first node,
commas left out or doubled), and refuses where the code throws `ParsingError`. Numbers
are kept as they are written: their rounding is not modelled.

`HttpRequest` has the handler as it is between requests: after a failure the headers
and the part of the body that came stay in its buffers, and only `clearBuffers`
of the next request removes them. `Implement` splits and joins the path, sets
the method, lets libcurl append, chooses between text and JSON by the headers and
moves the buffers out. `Transfers` is the network: whole, broken off with or
without an error, without or with several content types, an HTML page,
codes that are in the table of known ones or not. `CURLOPT_ERRORBUFFER` gets the
address of a `std::string` (`curl_handler.cpp:202`), which libcurl writes to at the
start of each transfer and when one fails: the process may die at any request
or go on unharmed. The loader is the
parameter `Parse`, so that the module declares no recursive operator; `MCSources`
gives it the `Load` of `Json`.

`Sources` follows a strategy from Start: `AskFactory` is one request to one
factory with everything made of it, `AskQuote` one call of `getNewMarketData`. It
is the abstract layer: the response is one of `Responses`, a document that the
servers may send at this moment, nothing, or an exception, and any request may end
the process (`Crash`). `HttpSources` is the detailed one: the same actions over
what `Implement` makes of a transfer, for the address that the query built, by a
handler that keeps what earlier requests left in it. `ImplementsSources` says that
the second layer shows no step that the first does not have.
`TokenOf` keeps the order of the code: a token whose address is no string is marked
as set before the exception leaves. `CheckFactory` has what `tzkt_io.cpp:114-116` may
make of an entry without a value or a key, whose `find()` is not checked. The
pair of a Coinbase ticker is asserted to have two words (`data_processor.h:105`):
with more of them a build with assertions ends, which `Crash` covers, and one
without asks for the first two (`ProductQuery`). The servers are external: `listing` and
`market` are what they know, they may answer with the document asked for,
its numbers as strings or as numbers, or with any of `OddReplies`. `shown`, a
history variable, has the prices a market had since the window opened.

## Runs

| Run | Instance | Shows |
|---|---|---|
| `engine_one_caller` | 1 caller, 3 labels, 2 thread ids | `TypeOK`; `NoOwnFault`: the engine does not use a dangling iterator, erase `end()`, race for a container or lose a strategy under its thread; `RunnerIsWaitedFor`; `ImplementsLifecycle` |
| `engine_join` | 2 callers, 2 labels, 1 thread id | `LocksGuard`, `JoinsOwnThread` in every interleaving, with a thread id that is reused immediately |
| `engine_stop` | 2 callers, 1 label, 2 thread ids, fair | `StopReturns`, `StoppedRunnerEnds` |
| `engine_start_returns` | 1 caller, fair | violation: a Start need not return |
| `engine_online` | 1 caller | violation: "is online" is answered for a strategy nobody runs |
| `trading_forward` | 2 indicators, 2 signals, 3 rules, maps of 2, 5 cycles | `TypeOK`, `OutputsCurrent`, `TradesDecided` |
| `trading_clock_back` | 2 indicators, 1 rule, maps of 2, 4 time stamps, clock set back once | `ModifiedOnce`, `OutputIsWindow`, `NewestSignalKept` |
| `catalogue_careful` | 3 indicators, 2 signals, 2 rules, 2 strategies, `UnusedOnly` | `TypeOK`, `ReferencesClosed`, `NoSignalKills` |
| `catalogue_fresh` | 3 indicators, 2 signals, 2 rules, 1 strategy, `FreshRules` | `RunsOnItsInputs` |
| `catalogue_modifier` | as above, `UnusedOnly` | violation: a removed indicator leaves its modifier |
| `dialogue` | 2 chats, 2 indicators, one label of each other kind of object, 3 labels of contracts, 2 keys, 2 files at start, 2 taps, 2 menus, 1 restart | `TypeOK`, `LabelsFree`, `WholeObjects`, `ConfigDurable`, `StoredIsOffered` |
| `sources` | 2 indicators (one per exchange), 2 rules, 2 factories, 3 listings, 5 odd replies | `TypeOK`, `RepliesWhole`, `AsksServed`, `QuotesOfWindow`, `CommandsNameTokens`, `ImplementsSources` |

*Bounds.* Two callers are enough for every pair of commands to interleave, and
two ids or one that is reused for a stale entry in each of the three maps. Three
labels let a third strategy be removed while one runs and one is left online by
a failed start. Maps of two entries evict from the third quote on, so in five
cycles every map has evicted several times and, since quotes may be missing, the
windows of the two indicators of a signal move apart, which is when a signal
gets a value for a moment its second indicator has forgotten. One step back of
the clock gives both a quote that is older than the window and one whose time
is taken. `MaxTime`, `MaxStep`, `MaxBack` and `N` are the only numeric bounds.
In `trading_forward` the clock goes on by one per cycle, because without
collisions only the order of times matters.

Two signals over three indicators and two rules are enough for a label to be
used again for an object that overlaps with the old one, is disjoint from it, or
refers to something that is gone; a keyboard is tapped at most twice
(`MaxPicks`).

In `dialogue` one label per kind is the case in which the dialogues collide most; a
second indicator is registered from a form that was emptied. Two menus (`MaxMenus`)
let two chats be in the same dialogue or one in two after each other, and
requests for labels and last questions can be answered again without a menu, so
that two menus give any number of contracts and keys that are stored. The contracts are
an ordinary one, one with the name of the key's section and a path into the first,
and the file has the first one at start or not. Two taps reach the indicators a signal needs, taps of two chats
mixed, and a rule tapped twice. A restart comes at every state, and two keys
tell an old key from a new one. The 0.6 million states (chats are
symmetric) are what a run can afford, a third menu is not; the proofs have no such bounds.

In `sources` replies are cut at four places (`MCCuts`): nothing, a third, in
the closing brackets, before the last symbol. The listings have a token in the
second factory, a token of each standard, a key without address and a ticker that
no factory knows; the odd replies have a list whose entries lack a value or a key. The
ticker of Coinbase has two words; other ones are in the proofs only. Two prices per
market are enough to tell windows apart. TLC
evaluates `CodecAssumption` over every document of the instance and every place to
break it off, with the `Load` and the `PrintNode` of `Json`: there the loader and
the printer are checked against each other.

*Deadlock* is checked in all runs but those of `Catalogue`, whose instances can
run out of labels, `dialogue`, whose chats may all have been asked
nothing while the process has ended, and `sources`, where the process may have died.
`Dead` and `Over` mark where the other two modules' program really ends.

*Fairness* (`FairSpec`). Weak fairness for every thread that can run: the
operating system schedules it, commands do not stop half-way and a cycle ends.
The last is an assumption: requests have no time limit, so a server that never
answers would hold a cycle for ever. Strong fairness only for the lock of
`mtx2`, which is free again and again between commands that people type; none
for `mtx3`, which a Start may hold for ever, and none for issuing commands.

### The violations

`StartReturns`: `activateStrategy` has `mtx3` while it joins the thread, so a
Start returns only when the strategy ends. `src/tests/tests_strategy_run.cpp`
(199-200, 216-220) activates two strategies one after the other and then stops
them, from one thread; the help text (`controller.cpp:88`) says "Each strategy
can be either stopped or started". With one caller the robot does not answer
any more until the process ends.

`OnlineIsRunning`: the label enters `active_strategies` before
`initializeTradingContracts`, which may throw; a second Start then finds it
active and answers "is online" (`controller.cpp:272-275`).

`ModifierGoesWithIndicator`: `removeIndicator` erases the modifier in the branch
where it was not found (`controller.cpp:145`). The label of a removed indicator
that had a modifier is refused for as long as the process lives.

## Proofs

All theorems hold for every value of the constants under the named
assumptions of the modules (`NoneAssumption`, `NAssumption`,
`ObjectsAssumption`, `CatalogueAssumption`, `DialogueAssumption`, and five for the
sources, below). Those of the
shipped program add `SingleCaller`.

**StrategyEngine.** `MutualExclusion` (`LocksGuard`) is inductive with the types
of the program counters. `TypeCorrect` and `JoinIsOwn` need a strengthening:
`Typed` and `Bound` say that the label a caller works on is a label exactly
when it has a command, that a thread id is set exactly between its creation and
the return, and that a live thread whose id a caller in `addThread` holds was
created for that caller's label. `SafeWithOneCaller`, `WaitedFor` and
`EngineImplementsLifecycle` rest on `Alone`, which describes the single caller's
progress: the three maps agree except between the insertions of
`addThread`, every live thread is the one just created, its label stays active
and registered until the caller has returned. `RunnerIsWaitedFor` alone is not
inductive: nothing in it says that a Stop finds the maps consistent, or
that a second Start finds no thread alive. Each action of the engine is then
mapped to a step of `StrategyLifecycle` or to a stutter.

**LimitedMap.** Lemmas about the first and last key of a finite set of numbers,
what `Evict` keeps, what an insertion leaves in a map, and that it is never
longer than `N`. `N >= 2` is needed: with one entry an insertion of an existing
key would evict that very entry.

**TradingCycle.** `TypeCorrect` needs the flow of the loops (`Flow`): keys still
to visit are keys of the map that is read, `current` is of the kind the
loop is about, what is in `todo` has a quote. `NewestSurvives` follows from it and
the lemmas on insertion.

**Indicators.** `ModifiesOnce` and `ImplementsQuoteWindow` rest on `AllSettled`:
for each indicator, every key of the output holds the modified value of a quote
received at that time; a key of the input after the output's last one
holds a value as received; and the keys that the loop still has to visit are
those from the output's last one on. It explains why starting at an
entry that was modified before does no harm: only that entry is modified again,
its output refuses the second value, and no later entry was modified yet.
TLC checked `AllSettled` on the instance of `trading_clock_back` before it was
proved.

**Outputs and trades** (`TradesProofs`). Both theorems are about executions in
which the clock has not been set back. `OutputsAreCurrent` rests on `Forward`. Its
part `Stamped` says that no quote is later than the clock and that the quote of
this cycle is the only one with its time. `Processed` says that the input
has the newest `N` quotes, and so has the output, unless the loop still has to visit the
new key: then the output may lack the oldest, because the eviction
comes before the lookup, but its newest `N - 1` are there. That one-entry gap is
why `OutputsCurrent` is not inductive. `TradesAreDecided` adds `Acts`:
a signal's entry for this cycle's time is the verdict on this cycle's quotes
(`Signalled`); once a rule was visited its signal has a value for the
last quote of its left indicator, and between the cycles, or without such a quote,
`previous` is what the rule would decide again (`Judged`). The step that matters
is a comparison, which may insert under an old key that both windows have
forgotten; `CompareKeeps` shows that the newest entry survives it. TLC checked
`Forward` and `Acts` on the instance of `trading_forward` first.

**Dialogue.** The types need that a form with all flags set has a label. With flags
of any value at start that is not so by itself: for each form that is
emptied, `Whole` says that it is `Settled` (its flags are answers that were
given) or `Fresh` (nothing was registered since the process began, and a chat is asked
a question only after those before it were answered, in the order of `Given`).
A last answer of a `Fresh` form thus finds all the answers given; after the
first registration the form is `Settled` for good. `OnlyWholeObjects` follows. `LabelsFree` is
inductive because there is one form per kind and the action that registers its object
empties it: the chat that comes second finds the label of the form gone, not
taken. `StoredIsDurable` rests on `ConfigOK`: while the process lives,
each section that is kept is in the tree in memory with no deep section at or before
its place, so every write, also one that throws, brings it to the file again; and
only the key's section holds a key. `ConfigDurable` alone says nothing about the
tree, from which the next write is made. `put_child` leaves the other sections in
their places (`PutTree`), which is what keeps a contract ahead of a path that was stored later.
`StoredContractsAreOffered` adds that the dialogue of an indicator loads the file with
its first answer and goes on only when that succeeds.

**Catalogue.** `ReferencesClosed` is inductive for the careful operator, part by
part: removing an indicator keeps strategies fed because their indicators are
those of their rules, whose signals do not use it. With the two taps of a signal
it gives `NoSignalKills`. For the other operator the invariant is
`OncePerLabel` (a rule that a strategy finds is the one it was created with),
`Copied` and `Started`: `RunsOnItsInputs` says nothing about strategies
that do not run, and could not survive a Start by itself.

**Sources.** `SourcesInvariant` is about any number of indicators, rules, factories,
listings and prices. Its parts:

* `PhaseInv`: while the strategy asks factories some contract is missing, and when it
  trades none is. `AskFactory` counts the missing contracts; the step that settles
  the last one has to be the step that opens the window (`SettleMissing`).
* `ContractInv`: a contract is as new, or says what the listing says of its ticker.
  Every attempt to start may leave any subset of them set; this makes each subset
  harmless, and with `PhaseInv` it gives `CommandsNameTokens` for any number of failed
  attempts. It is inductive only with `ListedAssumption`: an address that is no
  string leaves a contract half set.
* `MarketInv`, `QuoteInv`: the price of a market is among those shown since the window
  opened, and a quote is the value of one of them. That a reply gives the value
  of *its* market is the lemma of each exchange (`CoinbaseAnswer`,
  `QuipuswapAnswer`, `FactoryAnswer`), that other documents give none needs
  `OddAssumption` (`OddQuotes`, `OddFactory`): they may be anything but a price in
digits, both pools, or a key for a ticker of the strategy. `SourcesAssumption` has the types.

`QuotesAreOfWindow`, `CommandsAreListed` and `SourcesTypeCorrect` follow.

**HttpSources.** `HInv` adds to it that libcurl sends GET whatever `method` holds
first (`CurlInv`), and it says nothing about the buffers: `RepliesAreWhole` and
`HttpImplementsSources` hold because `Implement` reads only what was cleared and
received in the same request, whatever the buffers held, and because the caller's response is assigned
also when a transfer fails. They rest on `CodecAssumption`: the loader reads each
document that is sent from its text and refuses every text that lacks an end of it.
That is an induction over nested documents; TLC checks it for those of the instance.
`HttpKeepsPromises` carries the properties of `Sources` over.

`RequestsAreServed` is about addresses of any length. `Words` and `Stringify` are
recursive functions; that they have values at all (`RecursionExists`, `SplitSteps`,
`WrittenSteps`) and what they compute is shown by induction over a set of numbers
(`UpTo`). `JoinedSplit` is that induction: after `n` symbols of the path, the words
written with a slash behind each are those symbols with a slash behind. `Stringify`
drops that last slash, so the path returns (`PathReturns`), empty words included;
`HyphenSplits` says that a pair of Coinbase has the two words its query needs.
`TextAssumption` says that tickers are texts. TLC checked `HInv` on the instance of
`sources` before it was proved.

**Model-checked only.** Liveness (`StopReturns`, `StoppedRunnerEnds`), which the
prover does not reach; and what `Load` and `PrintNode` compute, which are recursive
operators over nested documents: the theorems above take it as `CodecAssumption`.

## Not modelled, and why

* `safe_ptr.h` is empty in the repository. Its users rely on a lock per access;
  the model relies on no lock of it at all, since what the threads share beyond
  `active_strategies` they never use at the same time with one caller.
* Operations that nothing in the program calls: other methods than GET, single
  headers, queries and `ConnectionData` of the curl client, `json_builder`, the
  search in a JSON document, `createThread`, `erase` of a limited map, the
  timestamp operators of `timestamp.h:103-109`, of which `>` is at-most and `<=`
  is less-than, and the types of `portfolio.h`, `account.h`, `client.h`, `position.h`.
* The tickers and the time frame of a contract in the configuration: the dialogues
  look at labels. Labels and keys that an ini file does not keep as they are.
* What an overwritten handler does to memory beyond ending the process or not.
* The arithmetic of prices, and with it precision and overflow of `Value`: a
  price of a pair is the ordered pair of its pools.
* Requests without a time limit that never return: the fairness of the engine assumes
  that a cycle ends, and `sources` states no liveness.
* The order in which the indicators of a window are asked is that of their set; the
  30 seconds are any number of rounds.
* The scripts that sign and send transactions are external TypeScript programs; their
  output goes to the chat and is not read.
* `src/tests/tests_trading_contract.cpp` wants `TickerToDex("UNKNOWN")` to be
  unset where the code returns Quipuswap. `Sources` has what the code does; the
  ticker of a dialogue comes from the configuration, so no run is about it.
* `backlog of ideas and thoughts/` is not compiled into the program.

## What is left

1. `Robot`: `StrategyEngine`, `Catalogue`, `Dialogue` and `TradingCycle` composed in
   one module, with what each assumes of the others discharged. Today the
   joints are `RunnerIsWaitedFor` (the cycle is alone with its objects) and
   `Processable` (what a cycle looks up).
2. `Value` arithmetic with its width and the comparison of time stamps, against
   reference definitions over bounded inputs.
3. An abstract store of objects and references that `Catalogue` implements.
