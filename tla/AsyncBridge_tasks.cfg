CONSTANTS
  Driver = {d1, d2}
  VM = {v1, v2}
  Worker = {w1, w2}
  OneAtATime = TRUE
  MaxOps = 2
  None = None
SPECIFICATION FairSpec
INVARIANTS TypeOK WakerScoped NoLostWake DroppedWhole
PROPERTY Finishes
CHECK_DEADLOCK FALSE
