SPECIFICATION Spec
CONSTANTS
    Dev = {d1}
    Trackers = {t1}
    Server = server
    Polls = {p1, p2}
    MaxChanges = 2
    MaxUpdates = 1
INVARIANTS TypeOK UpdateDue InfoDue MapsAgree
PROPERTIES PagesSettle
CHECK_DEADLOCK FALSE
