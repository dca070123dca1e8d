SPECIFICATION FairSpec
CONSTANTS
  Thread = {t1, t2}
  Addr = {a}
  Inner = {i1, i2, i3}
  MaxDepth = 2
  Escape = {"thread", "userdata"}
  Nil = nil
INVARIANTS TypeOK Serialized OneLock ControlBlock OwnersKeepAlive
PROPERTIES KeyUnregistered
CHECK_DEADLOCK FALSE
