\* One session's records over two days: a kill of the runtime and a failure of the gateway.
CONSTANTS
  LastDay = 1
  MaxTurns = 2
  MaxSteps = 1
  MaxRecords = 3
  MaxKills = 1
  MaxFailures = 1
  ChunkLines = 2
SPECIFICATION UsageFairSpec
INVARIANTS
  ReadIsCounted
PROPERTIES
  EventuallyCounted
CHECK_DEADLOCK FALSE
