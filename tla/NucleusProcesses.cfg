SPECIFICATION Spec
CONSTANTS
  Null = Null
  ITSem = ITSem
  Pcb = {p1, p2, p3, p4}
  UserSem = {s1, s2}
  Device <- NoDevice
  Terminal <- NoDevice
  Prios <- BothPrios
  Supports <- NoSupport
  MaxSoftBlocked = 4
SYMMETRY PcbSymmetry
INVARIANTS
  TypeOK
  OnePlace
  ProcessCountExact
  TreeOK
  YieldGivesWay
  BlockedMatchesValue
  IdleSound
PROPERTIES
  HighPriorityFirst
  Fifo
