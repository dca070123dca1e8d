SPECIFICATION Spec
CONSTANTS
  Thread = {t1, t2}
  Addr = {a}
  Inner = {i1, i2}
  MaxDepth = 2
  Escape = {"thread"}
  Nil = nil
INVARIANTS NoUseAfterClose
CHECK_DEADLOCK FALSE
