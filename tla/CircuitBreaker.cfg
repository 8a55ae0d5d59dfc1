CONSTANTS
  Ports = {1, 2, 3}
  TableSize = 2
  FAIL_THRESHOLD = 2
  FailCap = 4
  BackoffBase = 1
  BackoffCap = 3
  ExpCap = 2
  ClockRange = 8
  MaxUp = 13
SPECIFICATION Spec
INVARIANTS TypeOK BackOffWindow
PROPERTIES Isolated NeverShortened
\* The explored uptime ends at MaxUp.
CHECK_DEADLOCK FALSE
