SPECIFICATION Spec
CONSTANTS
  Modes = {"reverse"}
  Sounds = {TRUE}
  MaxConn = 2
  MaxSends = 0
  MaxCuts = 0
CHECK_DEADLOCK FALSE
INVARIANTS OneStream
