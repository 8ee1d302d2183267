CONSTANTS
  N = 2
  Indicators <- MCIndicators
  Signals = {"above", "crossover"}
  Rules = {"buy", "sell", "cross"}
  Values <- MCValues
  Modifier <- MCModifier
  Left <- MCLeft
  Right <- MCRight
  Relation <- MCRelation
  Comparisons <- MCComparisons
  SignalOf <- MCSignalOf
  Wanted <- MCWanted
  None = None
  MaxTime = 5
  MaxStep = 1
  MaxBack = 0
SPECIFICATION Spec
INVARIANT TypeOK
INVARIANT OutputsCurrent
INVARIANT TradesDecided
