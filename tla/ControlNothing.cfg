\* One account, which a reset does not see yet.
SPECIFICATION Spec
CONSTANTS
  a1 = a1
  a2 = a2
  p1 = p1
  p2 = p2
  r1 = r1
  r2 = r2
  NoAccount = NoAccount
  Account <- OneAccount
  Switch <- OneSwitch
  Wipe <- OneWipe
PROPERTIES
  SuccessMeansEmpty
\* Every command ends.
CHECK_DEADLOCK FALSE
