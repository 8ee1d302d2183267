CONSTANTS
  Callers = {ui}
  Labels = {l1, l2}
  ThreadIds = {t1, t2}
  None = None
SPECIFICATION FairSpec
PROPERTY StartReturns
