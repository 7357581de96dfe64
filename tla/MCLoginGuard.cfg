CONSTANTS
    Requests = {r1, r2}
    Devices = {d1, d2}
    Otps = {o1, o2}
    NoOtp = NoOtp
    MaxAttempts = 2
    OtpMaxAttempts = 1
    MaxFailed = 3
SPECIFICATION Spec
SYMMETRY InterchangeableIds
INVARIANTS
    LimitLocksAccount
    OtpGrantsOneSession
    GrantRestsOnVerifiedOtp
PROPERTY SecondFactorHolds
