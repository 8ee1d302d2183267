--------------------------- MODULE MCTradingCycle ---------------------------
(* Constants of TradingCycle for TLC: a signal over a modified and a plain   *)
(* indicator with a rule for each of its values, and a signal of a type that *)
(* no rule acts on.                                                          *)
EXTENDS TradingCycle

MCIndicators == {"slow", "fast"}
MCValues == 0..1
MCModifier == [slow |-> [v \in MCValues |-> 1 - v], fast |-> [v \in MCValues |-> v]]
MCLeft == [s \in Signals |-> "slow"]
MCRight == [s \in Signals |-> "fast"]
MCRelation == [s \in Signals |-> {p \in MCValues \X MCValues : p[1] > p[2]}]
MCComparisons == Signals \ {"crossover"}
MCSignalOf == [r \in Rules |-> IF r = "cross" THEN "crossover" ELSE "above"]
MCWanted == [r \in Rules |-> IF r = "sell" THEN "False" ELSE "True"]
=============================================================================
