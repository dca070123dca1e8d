CONSTANTS
  Main = Main
  Nil = Nil
  Coroutines = {A, B}
  MAXCCALLS = 3
  Reserve = 1
  Kinds = {"lua", "c", "pcall", "wrap"}
  Bodies = {"lua", "pcall"}
  Via = {}
  MaxFrames = 4
SPECIFICATION Spec
INVARIANTS TypeOK ResumedOnce YieldableExact SuspendedFrames CcallsBalanced DepthBounded
PROPERTY InnermostHandler
SYMMETRY Symmetry
