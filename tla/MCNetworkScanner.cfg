SPECIFICATION Spec
CONSTANTS
  Pages = {one, two}
  Hosts = 3
  Addrs = 4
  Known <- OneKnown
  Workers = 2
  MaxScans = 2
INVARIANTS FoundOnce IdleIsQuiet InOrder
PROPERTIES NothingSkipped EveryoneTold
CHECK_DEADLOCK FALSE
