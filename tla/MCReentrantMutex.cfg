SPECIFICATION FairSpec
CONSTANTS
  Thread = {t1, t2, t3}
  None = none
  MaxCalls = 2
  MaxSpurious = 1
INVARIANTS TypeOK MutualExclusion NoLostWakeup
PROPERTIES LockReturns Refinement
CHECK_DEADLOCK FALSE
