CONSTANTS
  Driver = {d1, d2}
  VM = {v1}
  Worker = {w1, w2}
  OneAtATime = FALSE
  MaxOps = 1
  None = None
SPECIFICATION FairSpec
PROPERTY Finishes
CHECK_DEADLOCK FALSE
