CONSTANTS
    Users = {u1}
    Requests = {r1, r2}
    NoHash = NoHash
    Lifetime = 1
    MaxTime = 1
    MaxVersion = 2
SPECIFICATION FairSpec
INVARIANTS
    OneLiveTokenPerLogin
    ChainNeverForks
    OneActiveSessionPerLogin
    LiveTokenHasActiveSession
    OrphanOnlyIfInterrupted
    LogoutEndsLogin
PROPERTIES
    DeadLoginStaysDead
    NoTokenForBlockedUser
    RotationResolves
    ImplementsContract
