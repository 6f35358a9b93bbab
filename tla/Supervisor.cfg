\* Two runtimes, one caller, two exits of each.
CONSTANTS
  Shards = {s1, s2}
  First = s1
  Callers = {k1}
  MaxRestarts = 2
SPECIFICATION FairSpec
INVARIANTS
  StoppedMeansDown
PROPERTIES
  TargetIsUp
  CallAnswered
CHECK_DEADLOCK FALSE
