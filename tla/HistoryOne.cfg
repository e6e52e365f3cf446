SPECIFICATION FairSpec
CONSTANTS
  m1 = m1
  r1 = r1
  MaxTicket = 2
  Mails = {m1, r1}
  Ours = {r1}
  Strangers = {}
  ThreadOf <- Threads
  PerSweep = 1
  PerMailbox = 1
  Overlap = 0
  MaxTime = 2
  Unreadable = {r1}
  PromptSweep = TRUE
INVARIANTS
  MarkedIsKept
  OneRowPerMail
  MailInWindow
PROPERTIES
  MailArrives
  ReplyGetsItsKey
