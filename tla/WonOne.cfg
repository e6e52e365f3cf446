SPECIFICATION FairSpec

CONSTANTS
  v = v
  w = w
  Clients <- MCClients
  Values <- MCValues
  MaxSeq = 2
  Height = 2
  MaxWrites = 3
  MaxFaults = 1
  None = None

INVARIANT QuietMeansInStep
PROPERTY HandRowsStand
PROPERTY SyncsRest

CHECK_DEADLOCK FALSE
