CONSTANTS
  Main = Main
  Nil = Nil
  Coroutines = {A, B}
  MAXCCALLS = 3
  Reserve = 1
  Kinds = {"lua", "c", "pcall", "wrap"}
  Bodies = {"lua", "pcall"}
  Via = {Main}
  MaxFrames = 6
SPECIFICATION Spec
INVARIANT DepthBounded
