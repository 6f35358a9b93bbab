\* The transport of one session: safety and progress.
CONSTANTS
  Conns = {c1, c2}
  Roles = {admin, user}
  MaxFrames = 2
  MaxLives = 2
SPECIFICATION FairSpec
INVARIANTS
  ViewIsLog
  FramesTaken
  OneOwnedAgent
PROPERTIES
  Answered
CHECK_DEADLOCK FALSE
