CONSTANTS
  Ref = {r1, r2, r3}
  Value = {table, 1, 2}
  NilValue = NilValue
  None = None
  MaxSlots = 3
  MaxClones = 2
SPECIFICATION Spec
INVARIANTS TypeOK FreeListExact
PROPERTIES Refinement GrowsOnlyWhenFull
