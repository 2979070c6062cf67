\* Liveness of one start.
SPECIFICATION LiveSpec
CONSTANTS
  a1 = a1
  a2 = a2
  w1 = w1
  w2 = w2
  Account <- OneAccount
  Nobody = Nobody
  Slot <- MCSlot
  NoSlot = NoSlot
  MaxEvents = 2
  MaxRuns = 1
  MaxChanges = 1
PROPERTIES
  PageEnds
  PageComesBack
  ServesThePage
CHECK_DEADLOCK FALSE
