SPECIFICATION Spec
CONSTANTS
  s1 = s1
  s2 = s2
  Sweeps = {s1, s2}
  MaxRows = 4
  MaxActs = 2
CHECK_DEADLOCK FALSE
SYMMETRY Symmetry
INVARIANTS
  TypeOK
  OneOfEachPerCycle
  LadderInOrder
PROPERTY PersonsDecisionStands
