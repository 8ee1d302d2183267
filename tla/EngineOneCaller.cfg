CONSTANTS
  Callers = {ui}
  Labels = {l1, l2, l3}
  ThreadIds = {t1, t2}
  None = None
SPECIFICATION Spec
INVARIANT TypeOK
INVARIANT NoOwnFault
INVARIANT RunnerIsWaitedFor
PROPERTY ImplementsLifecycle
