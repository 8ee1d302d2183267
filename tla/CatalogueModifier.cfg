\* The labels of an instance can be used up: then the operator can do nothing.
CHECK_DEADLOCK FALSE
CONSTANTS
  Indicators = {i1, i2, i3}
  Signals = {s1, s2}
  Rules = {r1, r2}
  Strategies = {a}
  None = None
  UnusedOnly = TRUE
  FreshRules = FALSE
  MaxPicks = 2
SPECIFICATION Spec
SYMMETRY Symmetry
INVARIANT ModifierGoesWithIndicator
