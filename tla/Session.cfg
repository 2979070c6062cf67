\* Two handlers, one username, two sign-ins, one abort, calls that may fail.
SPECIFICATION LiveSpec
CONSTANTS
  c1 = c1
  c2 = c2
  u1 = u1
  u2 = u2
  NoUser = NoUser
  Client <- MCClient
  User <- OneUser
  MaxStarts = 2
  MaxAborts = 1
  CallsFail = TRUE
INVARIANTS
  TypeOK
  SettingModeIsServed
  NoInventedSuccess
  OneAnswerPerRequest
  SignInIsAlone
  OwnResult
PROPERTIES
  TakesItsCourse
  SettingModeEnds
  SignInIsAnswered
\* Once MaxStarts sign-ins are over, nobody has to do anything.
CHECK_DEADLOCK FALSE
