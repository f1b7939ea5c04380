SPECIFICATION Spec
CONSTANTS
  Null = Null
  ITSem = ITSem
  Pcb = {p1, p2, p3}
  UserSem <- NoUserSem
  Device <- DiskAndTerminal
  Terminal <- TerminalOnly
  Prios <- LowOnly
  Supports <- AnySupport
  MaxSoftBlocked = 3
SYMMETRY PcbSymmetry
INVARIANTS
  DevSemOK
  SoftBlockedExact
  NoSemdExhaustion
