\* A retry after a challenge that fails, and a Start from there.
SPECIFICATION Spec
CONSTANTS
  c1 = c1
  c2 = c2
  u1 = u1
  u2 = u2
  NoUser = NoUser
  Client <- MCClient
  User <- MCUser
  MaxStarts = 3
  MaxAborts = 0
  CallsFail = FALSE
PROPERTY
  ClaimOnlyFromTheChallenge
CHECK_DEADLOCK FALSE
