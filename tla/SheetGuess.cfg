SPECIFICATION Spec
CONSTANTS
  i1 = i1
  i2 = i2
  c1 = c1
  c2 = c2
  Inquiries = {i1, i2}
  Companies = {c1, c2}
  Belongs <- Together
  TypedSets <- OnlyTickets
  MaxId = 2
  MaxMoves = 1
  MaxDeletes = 1
  MaxFaults = 0
  MaxAsks = 0
  Nobody = Nobody
CHECK_DEADLOCK FALSE
INVARIANT RowStaysItsOwn
