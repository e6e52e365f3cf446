SPECIFICATION FairSpec
CONSTANTS
  m1 = m1
  m2 = m2
  w1 = w1
  w2 = w2
  Messages = {m1}
  Reminders = {}
  Mailed = {m1}
  Workers = {w1}
  NoMessage = NoMessage
  MaxAttempts = 3
  MaxAsks = 2
CHECK_DEADLOCK FALSE
INVARIANTS
  LineAtMostOnce
  NothingIsRepeated
  UnfinishedIsListed
PROPERTY SyncSettles
