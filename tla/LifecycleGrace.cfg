\* One start.
SPECIFICATION Spec
CONSTANTS
  Ports = 2
  MaxStarts = 1
INVARIANT
  BridgeMayClose
CHECK_DEADLOCK FALSE
