SPECIFICATION Spec
CONSTANTS
  Table = {g}
  Function = {f}
  Thread = {main, co}
  Upval = {u}
  String = {}
  Main = main
  Globals = g
  WeakMeta = {}
  NSlots = 1
  MaxRefs = 1
  Keys = {}
  Nil = nil
INVARIANTS NoDanglingReference BlackNeverToWhite OpenUpvalues
PROPERTIES ClosesOnlyOrphans
