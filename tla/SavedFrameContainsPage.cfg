SPECIFICATION Spec
CONSTANTS
  Asid = {1, 2}
  Page = {0, 1}
  TextPage = {0}
  PoolSize = 2
  TLBSize = 1
  Value = {v1, v2}
  Image = v1
  Lost = Lost
INVARIANTS
  SavedFrameContainsPage
CHECK_DEADLOCK FALSE
