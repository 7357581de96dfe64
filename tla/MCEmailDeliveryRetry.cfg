CONSTANTS
    Jobs = {j1, j2}
    Malformed = {j2}
    Slots = {s1, s2}
    Nobody = Nobody
    NoJob = NoJob
    Attempts = 3
    MaxStalled = 1
SPECIFICATION Spec
INVARIANT CompletedWasAccepted
CHECK_DEADLOCK FALSE
