SPECIFICATION FairSpec
CONSTANTS
  s1 = s1
  s2 = s2
  Sweeps = {s1}
  MaxRows = 3
  MaxActs = 2
CHECK_DEADLOCK FALSE
PROPERTIES
  ClosedOncePerCycle
  AnswerIsHeard
