\* IMAP and SMTP, two starts of the container.
SPECIFICATION LiveSpec
CONSTANTS
  Ports = 2
  MaxStarts = 2
INVARIANTS
  TypeOK
  ConfigIsOurs
  GraceOnceConfigured
  ExitIsHonest
  SettingsHold
PROPERTIES
  RunsInOrder
  ContainerEnds
\* The container ends.
CHECK_DEADLOCK FALSE
