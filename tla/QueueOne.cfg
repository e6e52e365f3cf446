SPECIFICATION Spec
CONSTANTS
  j1 = j1
  j2 = j2
  a1 = a1
  w1 = w1
  w2 = w2
  TicketJobs = {j1, j2}
  AskedJobs = {a1}
  Workers = {w1}
  NoJob = NoJob
  NoWorker = NoWorker
  MaxRows = 2
  Handlers = {"redraft", "clear", "close", "drop"}
  MaxAttempts = 1
  FirmLeases = {j1, j2, a1}
CHECK_DEADLOCK FALSE
SYMMETRY TicketSymmetry
INVARIANTS
  OneAutomaticDraft
PROPERTY SettledStays
