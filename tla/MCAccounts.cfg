SPECIFICATION AccountsSpec
CONSTANTS
    MaxUsers = 3
    Reqs = {r1, r2}
    Tokens = {t1, t2}
INVARIANTS SessionsOfEnabled EveryoneSecured
PROPERTIES LastAdminStays
CHECK_DEADLOCK FALSE
