----------------------------- MODULE HttpSources -----------------------------
(***************************************************************************)
(* Sources over HttpRequest: which URL each request of a strategy is for,  *)
(* what its handler makes of the transfer, and what the caller makes of    *)
(* the response.                                                           *)
(***************************************************************************)
EXTENDS HttpRequest, Sources

CONSTANT Cuts(_)  \* where a text of a length may be broken off

ASSUME CodecAssumption == Codec(Documents)
\* Addresses and tickers are texts.
ASSUME TextAssumption == \A t \in Tickers : t \in Seq(Range(t))

-----------------------------------------------------------------------------
(* Queries.                                                                *)

Tzkt == <<"https:", "/", "/", "api.tzkt.io", "/", "v1", "/">>
Coinbase == <<"https:", "/", "/", "api.exchange.coinbase.com", "/", "products", "/">>

GetStorageQuery(address) == Tzkt \o <<"contracts", "/">> \o address \o <<"/", "storage">>
GetBigMapKeysQuery(f) ==
  Tzkt \o <<"contracts", "/", f, "/", "bigmaps", "/", "token_to_exchange", "/", "keys">>
\* A pair is two words.  Of a ticker with more of them, a build with assertions makes
\* no query but ends, which Crash covers, and one without takes the first two.
ProductQuery(ticker) ==
  LET words == Words(ticker, "-")
  IN Coinbase \o words[1] \o <<"-">> \o words[2] \o <<"/", "ticker">>
QuoteQuery(t) == IF IsCoinbase(t) THEN ProductQuery(t) ELSE GetStorageQuery(t)

-----------------------------------------------------------------------------
(* The composition.                                                        *)

HttpAskFactory(doc) ==
  /\ phase = "init"
  /\ Request(GetBigMapKeysQuery(Factories[factory]), doc, Cuts(Len(Serialise(doc))))
  /\ AskFactory(DocumentOf(reply'))
HttpAskQuote(doc) ==
  /\ phase = "window" /\ next <= Len(Indicators)
  /\ Request(QuoteQuery(TickerOf[Indicators[next]]), doc, Cuts(Len(Serialise(doc))))
  /\ AskQuote(DocumentOf(reply'))

HttpNext ==
  \/ Internal /\ UNCHANGED http
  \/ Crash /\ UNCHANGED http
  \/ Asking /\ \E doc \in Answers : HttpAskFactory(doc) \/ HttpAskQuote(doc)

Begin == HttpInit /\ Init  \* a process starts
HttpSpec == Begin /\ [][HttpNext]_<<http, vars>>

-----------------------------------------------------------------------------
(* Properties.                                                             *)

\* Request takes an address apart and puts it together again for libcurl: what is asked
\* is the address that the query built, with its empty pieces.
AsksServed ==
  asked = << >> \/ asked \in {<<url, "Get">> : url \in {GetBigMapKeysQuery(f) : f \in Range(Factories)}
                                                    \cup {QuoteQuery(t) : t \in Tickers}}

\* Over transfers that fail, break off or carry the wrong type, through a handler that
\* keeps what they left, a strategy does what it does with a server that answers each
\* request with a document of that moment, with nothing, or with an exception.
ImplementsSources == Spec
=============================================================================
