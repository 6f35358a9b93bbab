\* One file, three writes (the second too large), one operation, one failure.
CONSTANTS
  f1 = f1
  u1 = u1
  FILES = {f1}
  Users = {u1}
  TooLarge = {2}
  MaxOps = 1
  MaxWrites = 3
  MaxFaults = 1
SPECIFICATION Spec
PROPERTIES
  SettledIsArchived
  RemovedLeavesS3
CHECK_DEADLOCK FALSE
