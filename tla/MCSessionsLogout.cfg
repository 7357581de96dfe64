CONSTANTS
    Users = {u1}
    Requests = {r1, r2}
    NoHash = NoHash
    Lifetime = 1
    MaxTime = 1
    MaxVersion = 3
SPECIFICATION Spec
PROPERTY LogoutIsFinal
