SPECIFICATION CloneTableSpec
CONSTANTS
  Table = {g, t}
  Function = {}
  Thread = {main, co}
  Upval = {}
  String = {}
  Main = main
  Globals = g
  WeakMeta = {}
  NSlots = 1
  MaxRefs = 1
  Keys = {}
  Nil = nil
INVARIANT NoDanglingReference
