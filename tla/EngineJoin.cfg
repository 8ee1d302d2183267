CONSTANTS
  Callers = {ui, ops}
  Labels = {l1, l2}
  ThreadIds = {t1}
  None = None
SPECIFICATION Spec
SYMMETRY Symmetry
INVARIANT LocksGuard
INVARIANT JoinsOwnThread
