SPECIFICATION FairSpec
CONSTANTS
  Table = {g}
  Function = {f}
  Thread = {main, co}
  Upval = {}
  String = {}
  Main = main
  Globals = g
  WeakMeta = {}
  NSlots = 1
  MaxRefs = 1
  Keys = {}
  Nil = nil
INVARIANTS TypeOK ResumeChain
PROPERTY GarbageIsFreed
