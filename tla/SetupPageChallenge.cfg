\* The bridge wants a challenge solved; nobody else signs in.
SPECIFICATION LiveSpec
CONSTANTS
  t1 = t1
  loopback = loopback
  published = published
  Tab <- OneTab
  Name <- Loopback
  Known <- Loopback
  Reports <- ChallengeReports
  MaxPages = 1
  MaxChains = 2
PROPERTY
  SignInAgain
