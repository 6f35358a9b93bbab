\* One agent: two messages, a tool loop, one kill of the process.
CONSTANTS
  MaxMsgs = 2
  MaxSteps = 1
  MaxCalls = 1
  MaxCrashes = 1
SPECIFICATION FairSpec
INVARIANTS
  MessageOnce
  TurnsNumberedOnce
  StepsBracketed
  SettledIsDurable
PROPERTIES
  NothingSilentlyLost
  CancelledTurnIsQuiet
  CompletedTurnTookItsInput
  WaitingIsTaken
  DisposalCompletes
CHECK_DEADLOCK FALSE
