SPECIFICATION FairSpec
CONSTANTS
    MaxId = 2
    MaxMsgs = 1
    Modals = {m1}
INVARIANTS ChannelsTracked EmptyMeansUnused QuiescentAgreement
PROPERTIES ClosedForGood CloseSpreads
CHECK_DEADLOCK FALSE
