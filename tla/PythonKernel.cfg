\* Three calls of the tool, each of which may need an interpreter of its own.
CONSTANTS
  MaxCells = 3
  MaxProcesses = 3
SPECIFICATION FairSpec
INVARIANTS
  NoteIsTrue
PROPERTIES
  OutputIsOwn
  EveryCellEnds
  ImplementsQueue
CHECK_DEADLOCK FALSE
