SPECIFICATION AdbSpec
CONSTANTS
  Callers = {poll, scan}
  Hasty = {scan}
  MaxFlights = 3
  MaxDeaths = 1
INVARIANTS OneStart
PROPERTIES KilledStays Answered
CHECK_DEADLOCK FALSE
