SPECIFICATION SetUpvalueSpec
CONSTANTS
  Table = {g, t}
  Function = {f}
  Thread = {main}
  Upval = {u}
  String = {}
  Main = main
  Globals = g
  WeakMeta = {}
  NSlots = 2
  MaxRefs = 1
  Keys = {}
  Nil = nil
INVARIANT BlackNeverToWhite
