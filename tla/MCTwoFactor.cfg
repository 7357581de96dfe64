CONSTANTS
    Requests = {r1, r2}
    OtpMaxAttempts = 2
    MaxRows = 2
    MaxTries = 4
SPECIFICATION Spec
INVARIANTS
    ExhaustedIsExpired
    TriesAreBounded
    TwoCodesNeedOverlap
    AcceptedCodeEnables
SYMMETRY Symmetry
