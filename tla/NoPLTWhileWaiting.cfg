SPECIFICATION Spec
CONSTANTS
  Null = Null
  ITSem = ITSem
  Pcb = {p1, p2}
  UserSem <- NoUserSem
  Device <- NoDevice
  Terminal <- NoDevice
  Prios <- LowOnly
  Supports <- NoSupport
  MaxSoftBlocked = 2
SYMMETRY PcbSymmetry
INVARIANTS
  NoPLTWhileWaiting
