SPECIFICATION FairSpec
CONSTANTS
    Checks = {c1, c2}
    Applies = {a1, a2}
    Channels = {"beta", "stable"}
    MaxVersion = 1
    Installs = {"linux", "service", "local"}
    AutoUpdate = TRUE
INVARIANTS BusyMeansWorking ExitHasRelease
PROPERTIES StatusSettles
CHECK_DEADLOCK FALSE
