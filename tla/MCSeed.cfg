CONSTANTS
    Seeders = {s1, s2}
    Rows = 2
    Connects <- MCConnects
    Addresses = {}
    Requests = {}
    Absent = Absent
SPECIFICATION SeedSpec
INVARIANTS
    AllSucceededIsComplete
    FailsOnlyIfDisturbed
SYMMETRY Symmetry
CHECK_DEADLOCK FALSE
