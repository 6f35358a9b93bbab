\* Three attempts: one to be left, one to be refused and the one that takes over.
CONSTANTS
  MaxConnects = 3
  MaxTokens = 2
SPECIFICATION FairSpec
INVARIANTS
  
  FirstMessageInItsChat
PROPERTIES
  ConnectingEnds
CHECK_DEADLOCK FALSE
