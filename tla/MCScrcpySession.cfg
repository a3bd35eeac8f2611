SPECIFICATION Spec
CONSTANTS
  Modes = {"reverse", "forward"}
  Sounds = {TRUE, FALSE}
  MaxConn = 1
  MaxSends = 2
  MaxCuts = 1
CHECK_DEADLOCK FALSE
INVARIANTS TypeOK ControlReady
PROPERTIES CleanedUp EndIsTold
