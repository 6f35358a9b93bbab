\* Two files, two writes, two operations, one failure of any kind.
CONSTANTS
  f1 = f1
  f2 = f2
  u1 = u1
  FILES = {f1, f2}
  Users = {u1}
  TooLarge = {}
  MaxWrites = 2
  MaxOps = 2
  MaxFaults = 1
SPECIFICATION Spec
INVARIANTS
  NothingLost
  NextOpenRestores
PROPERTIES
  ClearErases
SYMMETRY Symmetry
CHECK_DEADLOCK FALSE
