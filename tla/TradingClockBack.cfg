CONSTANTS
  N = 2
  Indicators <- MCIndicators
  Signals = {"above"}
  Rules = {"buy"}
  Values <- MCValues
  Modifier <- MCModifier
  Left <- MCLeft
  Right <- MCRight
  Relation <- MCRelation
  Comparisons <- MCComparisons
  SignalOf <- MCSignalOf
  Wanted <- MCWanted
  None = None
  MaxTime = 4
  MaxStep = 2
  MaxBack = 1
SPECIFICATION Spec
INVARIANT ModifiedOnce
PROPERTY OutputIsWindow
PROPERTY NewestSignalKept
