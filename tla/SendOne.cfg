SPECIFICATION FairSpec
CONSTANTS
  m1 = m1
  m2 = m2
  w1 = w1
  w2 = w2
  b1 = b1
  b2 = b2
  Messages = {m1}
  Reminders = {}
  Workers = {w1, w2}
  Bodies = {b1, b2}
  NoBody = NoBody
  NoMessage = NoMessage
  NoWorker = NoWorker
  Repeated = {"sent", "unsent", "settle"}
  MaxBegun = 2
  MaxRetries = 2
  Handlers = {"redraft", "clear", "close", "sent", "unsent", "settle"}
INVARIANTS
  AtMostOncePerDecision
  FailedMeansNotSent
PROPERTIES
  OnlyApprovedTextLeaves
  OutboxSpec
  ApprovedIsResolved
CHECK_DEADLOCK FALSE
