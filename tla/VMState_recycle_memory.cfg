SPECIFICATION Spec
CONSTANTS
  Thread = {t1, t2}
  Addr = {a}
  Inner = {i1, i2, i3}
  MaxDepth = 2
  Escape = {}
  Nil = nil
INVARIANTS EveryVMControlBlock
CHECK_DEADLOCK FALSE
