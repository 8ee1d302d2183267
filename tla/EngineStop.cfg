CONSTANTS
  Callers = {ui, ops}
  Labels = {l1}
  ThreadIds = {t1, t2}
  None = None
SPECIFICATION FairSpec
PROPERTY StopReturns
PROPERTY StoppedRunnerEnds
