CONSTANTS
    Jobs = {j1, j2}
    Malformed = {j2}
    Slots = {s1, s2, s3}
    Nobody = Nobody
    NoJob = NoJob
    Attempts = 3
    MaxStalled = 1
SPECIFICATION FairSpec
INVARIANTS
    CopiesAreStalls
PROPERTIES
    OverIsFinal
    ImplementsMail
    EveryJobEnds
CHECK_DEADLOCK FALSE
