SPECIFICATION FairSpec
CONSTANTS
  j1 = j1
  j2 = j2
  a1 = a1
  w1 = w1
  w2 = w2
  TicketJobs = {j1}
  AskedJobs = {a1}
  Workers = {w1, w2}
  NoJob = NoJob
  NoWorker = NoWorker
  MaxRows = 1
  Handlers = {"redraft"}
  MaxAttempts = 2
  FirmLeases = {j1}
CHECK_DEADLOCK FALSE
INVARIANT OneWorkerPerJob
PROPERTIES
  DoneIsDone
  JobsSettle
