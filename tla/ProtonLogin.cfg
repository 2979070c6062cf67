\* A first start that may be interrupted, two pages, one account that goes away.
SPECIFICATION Spec
CONSTANTS
  Nothing = Nothing
  Torn = Torn
  MaxPairs = 2
  MaxPages = 2
  MaxChanges = 1
INVARIANTS
  TypeOK
  FingerprintKept
  PinHolds
  SignedInIsTrue
  AloneNotRefused
  SuccessIsTold
PROPERTIES
  KeepsToThePage
  ComesBack
