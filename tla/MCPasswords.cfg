CONSTANTS
    Requests = {r1, r2}
    Tokens = {t1, t2}
    Passwords = {p1, p2}
    Nobody = Nobody
    NoToken = NoToken
    NoPassword = NoPassword
    HistoryCount = 1
    PoolSize = 2
SPECIFICATION FairSpec
INVARIANTS
    NewestAreKept
    CleanUpCatchesUp
    ResetIsSpentOnce
    ReuseNeedsRace
PROPERTIES
    EveryRequestEnds
CHECK_DEADLOCK FALSE
