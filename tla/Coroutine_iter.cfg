CONSTANTS
  Main = Main
  Nil = Nil
  Coroutines = {A}
  MAXCCALLS = 4
  Reserve = 1
  Kinds = {"lua", "c", "pcall", "wrap"}
  Bodies = {"lua", "pcall"}
  Via = {}
  MaxFrames = 3
SPECIFICATION Spec
INVARIANT OverflowIsDeep
