CONSTANTS
  x = x
  y = y
  u1 = u1
  u2 = u2
  o1 = o1
  o2 = o2
  o3 = o3
  f1 = f1
  f2 = f2
  f3 = f3
  Null = Null
  Slots = {x, y}
  MaxStates = 5
  Objects = {o1, o2, o3}
  Flags = {f1, f2, f3}
  Users = {u1, u2}
SYMMETRY SlotSymmetry
SPECIFICATION AllSpec
INVARIANTS OneResolver CancelReaches FlagLivesAsLongAsItsOwners
CHECK_DEADLOCK FALSE
