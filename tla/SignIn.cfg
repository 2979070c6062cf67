\* Two accounts, two starts of the container.
SPECIFICATION Spec
CONSTANTS
  a1 = a1
  a2 = a2
  w1 = w1
  w2 = w2
  Account <- TwoAccounts
  Nobody = Nobody
  NoSlot = NoSlot
  Slot <- MCSlot
  MaxEvents = 2
  MaxRuns = 2
  MaxChanges = 2
INVARIANTS
  TypeOK
  PageEndsForAReason
  TokenIsOfThePage
PROPERTIES
  NoPageWhileOpening
SYMMETRY Symmetry
\* runSignIn ends when the process is told to stop.
CHECK_DEADLOCK FALSE
