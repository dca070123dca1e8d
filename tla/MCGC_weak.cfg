SPECIFICATION Spec
CONSTANTS
  Table = {g, t}
  Function = {}
  Thread = {main}
  Upval = {}
  String = {s}
  Main = main
  Globals = g
  WeakMeta = {g, t}
  NSlots = 1
  MaxRefs = 1
  Keys = {t, s}
  Nil = nil
INVARIANTS NoDanglingReference BlackNeverToWhite GrayLists
PROPERTIES FreesOnlyGarbage ClearsOnlyGarbage FullCollects
