\* Three questions for two workers, each of which may lose its process between two of them.
CONSTANTS
  Questions = {q1, q2, q3}
  Workers = {w1, w2}
  Processes = {p1, p2, p3}
SPECIFICATION FairSpec
PROPERTIES
  AnswerIsOwn
  EveryQuestionEnds
  ImplementsQueue
CHECK_DEADLOCK FALSE
