SPECIFICATION FairSpec
CONSTANTS
  Null = Null
  ITSem = ITSem
  Pcb = {p1, p2, p3}
  UserSem <- NoUserSem
  Device <- DiskOnly
  Terminal <- NoDevice
  Prios <- BothPrios
  Supports <- NoSupport
  MaxSoftBlocked = 3
PROPERTIES
  ClockWaitersWake
  ReadyRuns
  HighRuns
  DoIOReturns
