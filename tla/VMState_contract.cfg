SPECIFICATION Spec
CONSTANTS
  Thread = {t1, t2}
  Addr = {a, b}
  Inner = {i1, i2, i3}
  MaxDepth = 2
  Escape = {}
  Nil = nil
INVARIANTS NoUseAfterClose
CHECK_DEADLOCK FALSE
