CONSTANTS
    Seeders = {s1, s2}
    Rows = 1
    Connects <- MCConnects
    Addresses = {a1}
    Requests = {r1, r2}
    Absent = Absent
    Visits = {v1, v2}
    Customer = 1
SPECIFICATION Spec
INVARIANTS
    AccountHasRole
    SuccessIsWhole
    UsedMeansVerified
    VerifiedHasCause
SYMMETRY Symmetry
CHECK_DEADLOCK FALSE
