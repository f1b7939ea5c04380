SPECIFICATION FairSpec
CONSTANTS
  Asid = {1, 2, 3}
  Caller = {1, 2}
  MaxLength = 1
ACTION_CONSTRAINT
  OnlyCallersCall
INVARIANTS
  TypeOK
  OneHolder
  NothingHeld
  TestKillsOnlyFinished
  NoCircularWait
PROPERTIES
  EndingEnds
  SystemHalts
  ImplementsFifoLocks
