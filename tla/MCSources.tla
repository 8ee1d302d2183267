----------------------------- MODULE MCSources -----------------------------
(* Constants of HttpSources for TLC: the loader and the printer of Json; an  *)
(* indicator at each exchange, a rule for a token of each standard, and      *)
(* listings in which a token is found late, is not found, or has a key       *)
(* without an address.                                                       *)
EXTENDS HttpSources, Json

MCParse(t) == LET l == Load(t) IN IF l = Refused THEN Thrown ELSE Doc(l.node)
MCIndicators == <<"fast", "slow">>
MCRules == <<"buy", "sell">>
XTZ == <<"XTZ", "-", "USD">>
KT1 == <<"KT1">>
KT2 == <<"KT2">>
MCTickerOf == [fast |-> XTZ, slow |-> KT1, buy |-> KT1, sell |-> KT2]
MCSideOf == [fast |-> "SellXTZBuyToken", slow |-> "BuyXTZSellToken",
             buy |-> "SellXTZBuyToken", sell |-> "BuyXTZSellToken"]
MCFactories == <<"F1", "F2">>
Address == Entry("address", Str(<<"T2">>))
Listed(f, key) == [factory |-> f, key |-> key]
MCListings ==
  {(KT1 :> Listed("F2", Str(<<"T1">>))) @@ (KT2 :> Listed("F1", k)) :
     k \in {Dict(Address), Dict(Entry("nat", Integer(<<"0">>)))}}
  \cup {KT1 :> Listed("F1", Str(<<"T1">>))}
MCPrices == (XTZ :> {<<"1">>, <<"2">>}) @@ (KT1 :> {<< <<"3">>, <<"5">> >>, << <<"4">>, <<"5">> >>})
MCOddReplies ==
  {Dict(Entry("message", Str(<<"no", "\"", "\n", "\\", "\t">>))),
   Dict(Entry("price", Str(<<"no">>))),
   Array(<<Dict(Entry("nat", Str(KT1))), Dict(Entry("value", Integer(<<"1">>))),
           Dict(Entry("value", Str(KT1)))>>),
   Array(<<Null, Bool(TRUE), Array(<<Dict(<< >>)>>)>>),
   Dict(Entry("storage", Dict(Entry("token_pool", Integer(<<"-", "1">>)))))}
MCCuts(n) == {0, n \div 3, n - 5, n - 1}
=============================================================================
