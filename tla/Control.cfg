\* Two accounts, two switches, two resets.
SPECIFICATION Spec
CONSTANTS
  a1 = a1
  a2 = a2
  p1 = p1
  p2 = p2
  r1 = r1
  r2 = r2
  NoAccount = NoAccount
  Account <- TwoAccounts
  Switch <- TwoSwitches
  Wipe <- TwoWipes
INVARIANTS
  TypeOK
  ReportedModeHolds
PROPERTIES
  DoneMeansEmpty
SYMMETRY Symmetry
\* Every command ends.
CHECK_DEADLOCK FALSE
