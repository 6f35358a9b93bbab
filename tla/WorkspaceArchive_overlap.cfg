\* A chat is opened while a pass evicts its directory: one file, one write, one opening.
CONSTANTS
  f1 = f1
  u1 = u1
  FILES = {f1}
  Users = {u1}
  TooLarge = {3}
  MaxOps = 1
  MaxWrites = 1
  MaxFaults = 0
SPECIFICATION Spec
INVARIANT FilesKept
CHECK_DEADLOCK FALSE
