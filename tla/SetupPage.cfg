\* One tab that is followed and others behind the same cookie, two pages.
SPECIFICATION LiveSpec
CONSTANTS
  t1 = t1
  loopback = loopback
  published = published
  Tab <- OneTab
  Name <- TwoNames
  Known <- Loopback
  Reports <- SomeReports
  MaxPages = 2
  MaxChains = 1
INVARIANTS
  TypeOK
  AnswersItsOwnPage
  ShutOutByAnotherPage
PROPERTIES
  ComesToShow
  ComesToBeHeard
  PageGoes
