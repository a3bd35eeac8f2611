SPECIFICATION Spec
CONSTANTS
    MaxId = 1
    MaxMsgs = 3
    Modals = {m1}
INVARIANTS StreamsIntact
PROPERTIES ImplementsPipe
CHECK_DEADLOCK FALSE
