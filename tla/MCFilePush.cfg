SPECIFICATION FairSpec
CONSTANTS
    Files = {a, b, c}
    Chunks = 2
    Refused = {c}
    FirstIds = {2, 3}
    MaxInt16 = 4
INVARIANTS IdsMatch WholeFile TempFilesGone
PROPERTIES EveryPushReported
CHECK_DEADLOCK FALSE
