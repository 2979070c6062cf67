\* An Abort while the mode is set, and a second sign-in.
SPECIFICATION Spec
CONSTANTS
  c1 = c1
  c2 = c2
  u1 = u1
  u2 = u2
  NoUser = NoUser
  Client <- MCClient
  User <- OneUser
  MaxStarts = 2
  MaxAborts = 1
  CallsFail = FALSE
PROPERTY
  LateResultIsForTheLog
CHECK_DEADLOCK FALSE
