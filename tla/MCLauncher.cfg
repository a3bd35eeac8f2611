SPECIFICATION FairSpec
CONSTANTS
    Modes = {"local", "service"}
    Bats = {b1, b2}
    MaxEvents = 3
PROPERTIES RestartsAsked AppReturns TrayFollows
CHECK_DEADLOCK FALSE
