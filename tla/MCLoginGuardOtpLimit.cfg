CONSTANTS
    Requests = {r1, r2}
    Devices = {d1}
    Otps = {o1, o2}
    NoOtp = NoOtp
    MaxAttempts = 2
    OtpMaxAttempts = 3
    MaxFailed = 3
SPECIFICATION Spec
SYMMETRY InterchangeableIds
INVARIANT WrongCodesExpireOtp
