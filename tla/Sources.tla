------------------------------- MODULE Sources -------------------------------
(***************************************************************************)
(* Where a strategy's quotes and tokens come from: how                     *)
(* initializeTradingContracts looks the tokens of its contracts up in the  *)
(* factories of Quipuswap, how getNewMarketData makes a quote of a reply   *)
(* of Coinbase or tzkt, and how a trade names its token in the command     *)
(* that it runs.                                                           *)
(*                                                                         *)
(* An action is one request with all that is made of its response, which   *)
(* is a document, nothing, or an exception; HttpSources says how it comes  *)
(* about.  One thread at a time makes requests: the strategy runs only     *)
(* when its initialisation is over.  The servers may answer anything in    *)
(* JSON, but what they say of a price or a token is true when they say it. *)
(***************************************************************************)
EXTENDS JsonNode, SequencesExt, FiniteSetsExt

CONSTANTS
  Indicators, Rules,  \* of the strategy, in the order of their labels
  TickerOf,           \* indicator or rule -> ticker of its trading contract
  SideOf,             \* indicator or rule -> trade side
  Factories,          \* QUIPUSWAP_FACTORIES_ADDRESSES
  Listings,           \* possible listings: ticker -> its factory and key there
  Prices,             \* ticker -> prices, or contents of the pools
  OddReplies          \* other documents that a server may send

VARIABLES
  phase,     \* what the strategy does
  active,    \* it is in active_strategies
  factory,   \* index of the factory that is asked next
  contract,  \* indicator or rule -> [set, standard, token] of its contract
  next,      \* index of the indicator whose quote is asked next
  mdata,     \* the first quote of each indicator in the window
  command,   \* the last command that a trade has run
  listing,   \* external: what the factories list
  market,    \* external: ticker -> its price now
  shown      \* history: ticker -> its prices since the window was opened

process == <<phase, active, factory, contract, next, mdata, command>>
world == <<listing, market, shown>>
vars == <<process, world>>

Order == Indicators \o Rules
Owners == Range(Indicators) \cup Range(Rules)
Tickers == {TickerOf[i] : i \in Range(Indicators)}

\* TickerToDex
IsCoinbase(ticker) == "-" \in Range(ticker)

Numeric(t) == t # << >> /\ Range(t) \subseteq DigitSet
WellFormed(ticker, p) ==
  IF IsCoinbase(ticker) THEN Numeric(p)
  ELSE p = <<p[1], p[2]>> /\ Numeric(p[1]) /\ Numeric(p[2])

ASSUME SourcesAssumption ==
  /\ Indicators \in Seq(Range(Indicators)) /\ Rules \in Seq(Range(Rules))
  /\ \A j, k \in DOMAIN Order : Order[j] = Order[k] => j = k
  /\ SideOf \in [Owners -> {"SellXTZBuyToken", "BuyXTZSellToken"}]
  /\ Factories \in Seq(Range(Factories)) /\ Factories # << >>
  /\ Tickers \subseteq DOMAIN Prices
  /\ \A t \in Tickers : \A p \in Prices[t] : WellFormed(t, p)

\* What Quipuswap lists: no pair of Coinbase, and addresses are strings.
ASSUME ListedAssumption ==
  \A l \in Listings :
    /\ IsFiniteSet(DOMAIN l)
    /\ \A t \in DOMAIN l :
         /\ ~IsCoinbase(t)
         /\ Holds(l[t].key, "dict") /\ <<"address">> \in DOMAIN l[t].key[2]
              => Has(l[t].key, <<"address">>, "string")

\* An entry that names the ticker, and one that has a key for it.
Names(e, ticker) == Has(e, <<"value">>, "string") /\ e[2][<<"value">>] = Str(ticker)
HasKey(e, ticker) == Names(e, ticker) /\ <<"key">> \in DOMAIN e[2]

\* The other documents say nothing of a price or a token: no price in digits, no two
\* pools, no entry with a key for a ticker.
ASSUME OddAssumption ==
  \A doc \in OddReplies :
    /\ Has(doc, <<"price">>, "string") => ~Numeric(doc[2][<<"price">>][2])
    /\ Has(doc, <<"storage">>, "dict") =>
         ~({<<"token_pool">>, <<"tez_pool">>} \subseteq DOMAIN doc[2][<<"storage">>][2])
    /\ Holds(doc, "array") => /\ doc[2] \in Seq(Range(doc[2]))
                              /\ \A e \in Range(doc[2]), o \in Owners : ~HasKey(e, TickerOf[o])

Unset == [set |-> FALSE, standard |-> "none", token |-> << >>]
Asking == phase = "init" \/ (phase = "window" /\ next <= Len(Indicators))
NoQuotes == [i \in Range(Indicators) |-> None]

Init ==
  /\ phase = "off" /\ active = FALSE /\ factory = 1 /\ next = 1
  /\ contract = [o \in Owners |-> Unset]
  /\ mdata = NoQuotes /\ command = << >>
  /\ listing \in Listings
  /\ \E f \in [Tickers -> UNION Range(Prices)] :
       (\A t \in Tickers : f[t] \in Prices[t]) /\ market = f
  /\ shown = [t \in Tickers |-> {market[t]}]

\* A market moves.
Move(t, p) ==
  /\ phase \in {"window", "rules"} /\ p \in Prices[t] \ {market[t]}
  /\ market' = [market EXCEPT ![t] = p]
  /\ shown' = [shown EXCEPT ![t] = @ \cup {p}]
  /\ UNCHANGED <<process, listing>>

-----------------------------------------------------------------------------
(* Documents that the servers send.                                        *)

Entry(key, node) == [k \in {<<key>>} |-> node]
Entries(key1, node1, key2, node2) ==
  [k \in {<<key1>>, <<key2>>} |-> IF k = <<key1>> THEN node1 ELSE node2]
KeysDocument(l, f) ==
  Array(SetToSeq({Dict(Entries("key", l[t].key, "value", Str(t))) :
                    t \in {u \in DOMAIN l : l[u].factory = f}}))
StorageDocument(token, tez) ==
  Dict(Entry("storage", Dict(Entries("token_pool", token, "tez_pool", tez))))
TickerDocument(p) == Dict(Entries("price", p, "time", Str(<<"time">>)))
QuoteDocuments(t, p) ==
  IF IsCoinbase(t) THEN {TickerDocument(Str(p)), TickerDocument(Integer(p))}
  ELSE {StorageDocument(Str(p[1]), Str(p[2])), StorageDocument(Integer(p[1]), Integer(p[2]))}

Documents ==
  OddReplies \cup {KeysDocument(l, f) : l \in Listings, f \in Range(Factories)}
  \cup UNION {UNION {QuoteDocuments(t, p) : p \in Prices[t]} : t \in Tickers}

-----------------------------------------------------------------------------
(* Starting.                                                               *)

\* The places of the contracts that still need a factory: of indicators only those
\* that trade at Quipuswap, and of rules all.
Missing ==
  {k \in DOMAIN Order : /\ ~contract[Order[k]].set
                        /\ k <= Len(Indicators) => ~IsCoinbase(TickerOf[Order[k]])}

OpenWindow_Keeps ==  \* mutant: the map of the quotes outlives the window
  next' = 1 /\ shown' = [t \in Tickers |-> {market[t]}] /\ UNCHANGED mdata
OpenWindow == /\ next' = 1 /\ mdata' = NoQuotes
              /\ shown' = [t \in Tickers |-> {market[t]}]

\* activateStrategy inserts first.  When the initialisation throws, the strategy
\* stays active, and starting it again does nothing until it has been stopped.
Start ==
  /\ phase = "off" /\ ~active
  /\ active' = TRUE /\ factory' = 1
  /\ IF Missing = {} THEN phase' = "window" /\ OpenWindow
                        ELSE phase' = "init" /\ UNCHANGED <<next, mdata, shown>>
  /\ UNCHANGED <<contract, command, listing, market>>
Stop ==
  /\ phase = "off" /\ active
  /\ active' = FALSE
  /\ UNCHANGED <<phase, factory, contract, next, mdata, command, world>>

\* checkFactoryForToken: what may come of the search for the first entry that names the
\* ticker.  What find() returns is not checked.  In an entry without a value some other
\* memory is compared with the ticker, and is not equal; of an entry that names the
\* ticker without a key some memory is copied as the node: it is of no kind, or Null.
\* Or the process ends, as Crash says.
CheckFactory(node, ticker) ==
  LET hits == {k \in DOMAIN node[2] : Holds(node[2][k], "dict") => Names(node[2][k], ticker)}
      hit == node[2][Min(hits)]
  IN CASE ~Holds(node, "array") -> {Thrown}
       [] Holds(node, "array") /\ hits = {} -> {Doc(Null)}
       [] OTHER -> IF HasKey(hit, ticker) THEN {Doc(hit[2][<<"key">>])}
                   ELSE IF Holds(hit, "dict") THEN {Doc(Null), Thrown} ELSE {Thrown}

\* Mutant: the contract is marked as set before the node is looked at.
TokenOf_Early(key) ==
  IF Holds(key, "string") THEN [set |-> TRUE, standard |-> "FA1_2", token |-> key[2]]
  ELSE [set |-> TRUE, standard |-> "FA2",
        token |-> IF Has(key, <<"address">>, "string") THEN key[2][<<"address">>][2]
                                                      ELSE << >>]

\* What a key says of a token: a string is FA1.2, a dictionary with an address FA2.
\* An address that is no string throws when the contract is half set.
TokenOf(key) ==
  CASE Holds(key, "string") -> [set |-> TRUE, standard |-> "FA1_2", token |-> key[2]]
    [] Holds(key, "dict") /\ <<"address">> \in DOMAIN key[2] ->
         [set |-> TRUE, standard |-> "FA2",
          token |-> IF Has(key, <<"address">>, "string") THEN key[2][<<"address">>][2]
                                                        ELSE << >>]
    [] OTHER -> Unset
Usable(key) == Holds(key, "string") \/ Has(key, <<"address">>, "string")

\* The rest of an iteration of initializeTradingContracts, with the node that
\* getContractData has found: it throws, or goes on to the next contract.
Settle(o, key) ==
  /\ contract' = [contract EXCEPT ![o] = TokenOf(key)]
  /\ factory' = 1
  /\ IF ~Usable(key) THEN phase' = "off" /\ UNCHANGED <<next, mdata, shown>>
     ELSE IF Cardinality(Missing) = 1 THEN phase' = "window" /\ OpenWindow
     ELSE UNCHANGED <<phase, next, mdata, shown>>

\* One factory in getContractData; the loop ends at the first that knows the ticker.
AskFactory(d) ==
  /\ phase = "init"
  /\ \E key \in IF d \in {None, Thrown} THEN {Thrown}
               ELSE CheckFactory(d[2], TickerOf[Order[Min(Missing)]]) :
       CASE key = Thrown -> /\ phase' = "off" /\ factory' = 1
                            /\ UNCHANGED <<contract, next, mdata, shown>>
         [] key = Doc(Null) /\ factory < Len(Factories) ->
              factory' = factory + 1 /\ UNCHANGED <<phase, contract, next, mdata, shown>>
         [] OTHER -> Settle(Order[Min(Missing)], key[2])
  /\ UNCHANGED <<active, command, listing, market>>

-----------------------------------------------------------------------------
(* The window of getMarketData.                                            *)

\* A Value of a node or of a string.
FromString_Any(t) == Doc(t)  \* mutant
FromString(t) == IF Numeric(t) THEN Doc(t) ELSE Thrown
FromJson(node) == CASE node[1] \in {"int", "float"} -> Doc(node[2])
                    [] Holds(node, "string") -> FromString(node[2])
                    [] OTHER -> Thrown

\* The price of a pair depends on the pools in the order of the side.
Price(side, pools) == IF side = "SellXTZBuyToken" THEN pools ELSE <<pools[2], pools[1]>>

\* Coinbase: no quote without a price.
CoinbaseQuote(d) ==
  IF d \in {None, Thrown} THEN d
  ELSE IF Has(d[2], <<"price">>, "string") THEN FromString(d[2][2][<<"price">>][2]) ELSE None

\* getStorage and updateToken: anything but the two pools throws.
QuipuswapQuote(d, side) ==
  IF \/ d \in {None, Thrown} \/ ~Has(d[2], <<"storage">>, "dict")
     \/ ~({<<"token_pool">>, <<"tez_pool">>} \subseteq DOMAIN d[2][2][<<"storage">>][2])
  THEN Thrown
  ELSE LET storage == d[2][2][<<"storage">>][2]
           token == FromJson(storage[<<"token_pool">>])
           tez == FromJson(storage[<<"tez_pool">>])
       IN IF Thrown \in {token, tez} THEN Thrown
          ELSE Doc(Price(side, <<token[2], tez[2]>>))

\* mdata.insert keeps what is there.
Keep(i, quote) ==
  mdata' = [mdata EXCEPT ![i] = IF @ = None THEN quote ELSE @]

\* One call of getNewMarketData; what it throws ends the process.
AskQuote(d) ==
  /\ phase = "window" /\ next <= Len(Indicators)
  /\ LET i == Indicators[next]
         quote == IF IsCoinbase(TickerOf[i]) THEN CoinbaseQuote(d) ELSE QuipuswapQuote(d, SideOf[i])
     IN IF quote = Thrown THEN phase' = "died" /\ UNCHANGED <<next, mdata>>
        ELSE next' = next + 1 /\ Keep(i, quote) /\ UNCHANGED phase
  /\ UNCHANGED <<active, factory, contract, command, world>>

\* while (time_left > 0)
NextRound ==
  /\ phase = "window" /\ next > Len(Indicators)
  /\ next' = 1
  /\ UNCHANGED <<phase, active, factory, contract, mdata, command, world>>
CloseWindow ==
  /\ phase = "window" /\ next > Len(Indicators)
  /\ phase' = "rules"
  /\ UNCHANGED <<active, factory, contract, next, mdata, command, world>>

-----------------------------------------------------------------------------
(* The trades of a cycle.                                                  *)

\* makeCommand; it throws for a contract of Coinbase or one without a factory.
MakeCommand(r) ==
  LET c == contract[r]
  IN IF IsCoinbase(TickerOf[r]) \/ c.standard = "none" THEN Thrown
     ELSE <<"command", SideOf[r], c.standard, c.token>>
Trade(r) ==
  /\ phase = "rules"
  /\ command' = MakeCommand(r)
  /\ phase' = IF command' = Thrown THEN "died" ELSE phase
  /\ UNCHANGED <<active, factory, contract, next, mdata, world>>
NextCycle ==
  /\ phase = "rules"
  /\ phase' = "window" /\ OpenWindow
  /\ UNCHANGED <<active, factory, contract, command, listing, market>>

\* A request may end the process: libcurl writes its messages, and an end before each
\* transfer, at the address of the string buf_error instead of its characters, and
\* checkFactoryForToken uses end().
Crash ==
  /\ Asking
  /\ phase' = "died"
  /\ UNCHANGED <<active, factory, contract, next, mdata, command, world>>

\* A server asked answers with one of these; what comes of it may be nothing.
Answers ==
  OddReplies \cup
  IF phase = "init" THEN {KeysDocument(listing, Factories[factory])}
  ELSE LET t == TickerOf[Indicators[next]] IN QuoteDocuments(t, market[t])
Responses == {None, Thrown} \cup {Doc(doc) : doc \in Answers}

Internal ==
  \/ Start \/ Stop \/ NextRound \/ CloseWindow \/ NextCycle
  \/ \E r \in Range(Rules) : Trade(r)
  \/ \E t \in Tickers, p \in UNION Range(Prices) : Move(t, p)
Next ==
  \/ Internal
  \/ Crash
  \/ Asking /\ \E d \in Responses : AskFactory(d) \/ AskQuote(d)

Spec == Init /\ [][Next]_vars

-----------------------------------------------------------------------------
(* Properties.                                                             *)

TypeOK ==
  /\ phase \in {"off", "init", "window", "rules", "died"} /\ active \in BOOLEAN
  /\ factory \in DOMAIN Factories /\ next \in 1..Len(Indicators) + 1
  /\ \A o \in Owners : /\ DOMAIN contract[o] = DOMAIN Unset
                        /\ contract[o].standard = "none" <=> ~contract[o].set
  /\ \A i \in Range(Indicators) :
       mdata[i] = None \/ (mdata[i][1] = "doc" /\ \A d \in Range(mdata[i][2]) :
                             IF IsCoinbase(TickerOf[i]) THEN d \in DigitSet ELSE Numeric(d))

\* The quote of an indicator is a price that its own market had since the window
\* was opened, never one of an earlier request, of a window before or of another
\* ticker.
QuotesOfWindow ==
  \A i \in Range(Indicators) :
    LET t == TickerOf[i]
        value(p) == IF IsCoinbase(t) THEN p ELSE Price(SideOf[i], p)
    IN mdata[i] = None \/ \E p \in shown[t] : mdata[i] = Doc(value(p))

\* However often the initialisation has failed and was started again, a trade finds
\* its contract set, and its command names the token that the exchange lists for
\* the ticker of the rule, with its standard.
CommandsNameTokens ==
  command = << >> \/ \E r \in {q \in Range(Rules) : TickerOf[q] \in DOMAIN listing} :
    LET key == listing[TickerOf[r]].key
    IN command = IF Holds(key, "string") THEN <<"command", SideOf[r], "FA1_2", key[2]>>
                 ELSE <<"command", SideOf[r], "FA2", key[2][<<"address">>][2]>>
=============================================================================
