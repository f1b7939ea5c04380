SPECIFICATION Spec
CONSTANTS
  Process = {p1, p2}
  Null = Null
  WordSize = 14
  PSECOND = 4
  MaxTime = 11
SYMMETRY ProcessSymmetry
INVARIANTS
  OwnTimeOnly
  RunTimeCharged
  DelaysDoNotAddUp
