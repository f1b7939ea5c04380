SPECIFICATION Spec
CONSTANTS
  Null = Null
  ITSem = ITSem
  Pcb = {p1, p2, p3}
  UserSem = {s1}
  Device <- DiskOnly
  Terminal <- NoDevice
  Prios <- LowOnly
  Supports <- AnySupport
  MaxSoftBlocked = 3
SYMMETRY PcbSymmetry
INVARIANTS
  WaitHasWaiter
