SPECIFICATION FairSpec
CONSTANTS
  Stages = {"new", "contacted", "negotiation", "won"}
  MaxTicket = 1
  Active = {1}
  Leaving = {1}
  Starts = {"contacted", "unmapped"}
  MaxMoves = 2
  Prompt = TRUE
CHECK_DEADLOCK FALSE
INVARIANTS
  RemindersFitStage
  NobodyLeft
PROPERTIES
  Converges
  WorkbookFollows
  CardFollows
  LateDraftLeaves
