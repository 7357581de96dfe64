----------------------------- MODULE LoginGuard -----------------------------
(***************************************************************************)
(* Password check, lockout and second factor of one account: login and     *)
(* verifyLoginOtp of AuthService                                           *)
(* (src/src/modules/auth/services/auth.service.ts), up to the session they *)
(* grant, which Sessions takes over.  No statement of these handlers reads *)
(* or writes the rows of a second account.                                 *)
(*                                                                         *)
(* login reads the user row once, and decides with that copy after several *)
(* awaits; pc[r] says which statement request r performs next.             *)
(***************************************************************************)
EXTENDS Naturals, FiniteSets

CONSTANTS
    Requests,        \* HTTP requests that may be in flight at the same time
    Devices,         \* devices (name and type) logins come from
    Otps,            \* OTPRequest rows of type LOGIN_VERIFICATION
    NoOtp,           \* "no second factor was asked for"
    MaxAttempts,     \* SECURITY.MAX_LOGIN_ATTEMPTS
    OtpMaxAttempts,  \* OTPRequest.maxAttempts
    MaxFailed        \* bound: highest failedLoginAttempts counted

ASSUME LimitsAssumption ==
    /\ MaxAttempts \in Nat \ {0}
    /\ OtpMaxAttempts \in Nat \ {0}
    /\ MaxFailed \in Nat

ASSUME RequestsAssumption == IsFiniteSet(Requests)

ASSUME NoOtpAssumption == NoOtp \notin Otps

ASSUME DevicesAssumption == Devices # {}

VARIABLES
    failed,    \* User.failedLoginAttempts
    locked,    \* User.isAccountLocked
    twoFA,     \* User.is2FAEnabled
    trusted,   \* devices with isTrusted = true
    otp,       \* status of each OTPRequest row, "none" before it is created
    from,      \* per row: the device named in its challenge token
    stale,     \* rows whose expiresAt has passed
    pc,        \* per request: the step it performs next
    snap,      \* per request: is2FAEnabled as login read it
    device,    \* per request: the device it comes from
    via,       \* per request: the row it verified or will verify, or NoOtp
    grants,    \* history: sessions granted on each row
    wrong,     \* history: wrong codes answered for each row (up to the limit)
    lockLost   \* history: a request died between the count and the lock

rows     == <<otp, from, stale>>
user     == <<failed, locked, twoFA>>
handlers == <<pc, snap, device, via>>
history  == <<grants, wrong, lockLost>>
vars     == <<user, trusted, rows, handlers, history>>

Steps == {"idle", "verify", "lock", "trust", "void", "create", "otp", "device", "grant"}

AnyDevice == CHOOSE d \in Devices : TRUE

Init ==
    /\ failed = 0 /\ locked = FALSE /\ twoFA \in BOOLEAN
    /\ trusted = {}
    /\ otp = [o \in Otps |-> "none"]
    /\ from = [o \in Otps |-> AnyDevice]
    /\ stale = {}
    /\ pc = [r \in Requests |-> "idle"]
    /\ snap = [r \in Requests |-> FALSE]
    /\ device = [r \in Requests |-> AnyDevice]
    /\ via = [r \in Requests |-> NoOtp]
    /\ grants = [o \in Otps |-> 0]
    /\ wrong = [o \in Otps |-> 0]
    /\ lockLost = FALSE

Goto(r, step) == pc' = [pc EXCEPT ![r] = step]

\* The handler returns or throws: nothing of it is left in memory.
Finish(r) ==
    /\ pc' = [pc EXCEPT ![r] = "idle"]
    /\ snap' = [snap EXCEPT ![r] = FALSE]
    /\ device' = [device EXCEPT ![r] = AnyDevice]
    /\ via' = [via EXCEPT ![r] = NoOtp]

(***************************************************************************)
(* login                                                                   *)
(***************************************************************************)
\* findUnique, and the checks on the row it returned.
LoginRead(r, d) ==
    /\ pc[r] = "idle"
    /\ ~ locked
    /\ Goto(r, "verify")
    /\ snap' = [snap EXCEPT ![r] = twoFA]
    /\ device' = [device EXCEPT ![r] = d]
    /\ UNCHANGED <<user, trusted, rows, via, history>>

\* Fault: the comparison is strict.
LimitExceeded(n) == n > MaxAttempts

LimitReached(n) == n >= MaxAttempts

\* The password is wrong: count it (atomically), and go on to lock or throw.
WrongPassword(r) ==
    /\ pc[r] = "verify"
    /\ failed < MaxFailed
    /\ failed' = failed + 1
    /\ IF LimitReached(failed + 1)
         THEN Goto(r, "lock") /\ UNCHANGED <<snap, device, via>>
         ELSE Finish(r)
    /\ UNCHANGED <<locked, twoFA, trusted, rows, history>>

Lock(r) ==
    /\ pc[r] = "lock"
    /\ locked' = TRUE
    /\ Finish(r)
    /\ UNCHANGED <<failed, twoFA, trusted, rows, history>>

\* The password is right: the counter is cleared, whatever was counted or
\* locked since the row was read.
RightPassword(r) ==
    /\ pc[r] = "verify"
    /\ failed' = 0
    /\ lockLost' = FALSE
    /\ Goto(r, "trust")
    /\ UNCHANGED <<locked, twoFA, trusted, rows, snap, device, via, grants, wrong>>

\* Fault: the second factor is skipped for everyone.
NoSecondFactor(r) == FALSE

\* "user.is2FAEnabled && !isDeviceTrusted", on the copy of the user row.
NeedsSecondFactor(r) == snap[r] /\ device[r] \notin trusted

CheckTrust(r) ==
    /\ pc[r] = "trust"
    /\ Goto(r, IF NeedsSecondFactor(r) THEN "void" ELSE "grant")
    /\ UNCHANGED <<user, trusted, rows, snap, device, via, history>>

\* Fault: every row becomes EXPIRED, whatever its status.
VoidAll(r) ==
    /\ pc[r] = "void"
    /\ otp' = [o \in Otps |-> IF otp[o] # "none" THEN "EXPIRED" ELSE "none"]
    /\ Goto(r, "create")
    /\ UNCHANGED <<user, trusted, from, stale, snap, device, via, history>>

\* createOtpRequest, first statement: PENDING rows become EXPIRED.
VoidPending(r) ==
    /\ pc[r] = "void"
    /\ otp' = [o \in Otps |-> IF otp[o] = "PENDING" THEN "EXPIRED" ELSE otp[o]]
    /\ Goto(r, "create")
    /\ UNCHANGED <<user, trusted, from, stale, snap, device, via, history>>

\* Second statement: the new row; the client gets its challenge token.
CreateOtp(r) ==
    /\ pc[r] = "create"
    /\ \E o \in Otps :
          /\ otp[o] = "none"
          /\ otp' = [otp EXCEPT ![o] = "PENDING"]
          /\ from' = [from EXCEPT ![o] = device[r]]
    /\ Finish(r)
    /\ UNCHANGED <<user, trusted, stale, history>>

(***************************************************************************)
(* verifyLoginOtp                                                          *)
(***************************************************************************)
\* The challenge token names row o; the user row is read and checked.
Submit(r, o) ==
    /\ pc[r] = "idle"
    /\ otp[o] # "none"
    /\ ~ locked
    /\ Goto(r, "otp")
    /\ via' = [via EXCEPT ![r] = o]
    /\ device' = [device EXCEPT ![r] = from[o]]
    /\ UNCHANGED <<user, trusted, rows, snap, history>>

\* Fault: a row that was used before is accepted again.
AnyStatus(o) == o \notin stale

\* What the row must say under SELECT ... FOR UPDATE.
Verifiable(o) == otp[o] = "PENDING" /\ o \notin stale

RefuseOtp(r) ==
    /\ pc[r] = "otp"
    /\ ~ Verifiable(via[r])
    /\ Finish(r)
    /\ UNCHANGED <<user, trusted, rows, history>>

\* The code is wrong.  The transaction counts it on the row and on the user,
\* may expire the one and lock the other, and then throws inside its callback:
\* all of that is rolled back, and only the history knows of the attempt.
WrongCode(r) ==
    /\ pc[r] = "otp"
    /\ Verifiable(via[r])
    /\ wrong' = [wrong EXCEPT ![via[r]] = IF @ < OtpMaxAttempts THEN @ + 1 ELSE @]
    /\ Finish(r)
    /\ UNCHANGED <<user, trusted, rows, grants, lockLost>>

\* The code is right: row and counter are updated in one transaction.
RightCode(r) ==
    /\ pc[r] = "otp"
    /\ Verifiable(via[r])
    /\ otp' = [otp EXCEPT ![via[r]] = "VERIFIED"]
    /\ failed' = 0
    /\ lockLost' = FALSE
    /\ Goto(r, "device")
    /\ UNCHANGED <<locked, twoFA, trusted, from, stale, snap, device, via, grants, wrong>>

\* upsertDevice and, if the user asked for it, updateDeviceTrust.
RememberDevice(r, trust) ==
    /\ pc[r] = "device"
    /\ trusted' = IF trust THEN trusted \cup {device[r]} ELSE trusted
    /\ Goto(r, "grant")
    /\ UNCHANGED <<user, rows, snap, device, via, history>>

(***************************************************************************)
(* Both handlers end in issueTokensAndSession.                             *)
(***************************************************************************)
Grant(r) ==
    /\ pc[r] = "grant"
    /\ grants' = [o \in Otps |-> IF o = via[r] THEN grants[o] + 1 ELSE grants[o]]
    /\ Finish(r)
    /\ UNCHANGED <<user, trusted, rows, wrong, lockLost>>

\* The process dies or a statement fails between two steps.
Fail(r) ==
    /\ pc[r] # "idle"
    /\ lockLost' = (lockLost \/ pc[r] = "lock")
    /\ Finish(r)
    /\ UNCHANGED <<user, trusted, rows, grants, wrong>>

(***************************************************************************)
(* What others do to the account meanwhile.                                *)
(***************************************************************************)
AdminLock ==
    /\ locked' = TRUE
    /\ UNCHANGED <<failed, twoFA, trusted, rows, handlers, history>>

\* POST /users/:id/unlock; resetPassword does the same to these fields.
Unlock ==
    /\ locked' = FALSE
    /\ failed' = 0
    /\ lockLost' = FALSE
    /\ UNCHANGED <<twoFA, trusted, rows, handlers, grants, wrong>>

\* The last statement of turning the second factor on or off.
SetTwoFA(on) ==
    /\ twoFA' = on
    /\ UNCHANGED <<failed, locked, trusted, rows, handlers, history>>

\* The five minutes of a row are over.
OtpExpires(o) ==
    /\ otp[o] # "none"
    /\ stale' = stale \cup {o}
    /\ UNCHANGED <<user, trusted, otp, from, handlers, history>>

Next ==
    \/ \E r \in Requests, d \in Devices : LoginRead(r, d)
    \/ \E r \in Requests, o \in Otps : Submit(r, o)
    \/ \E r \in Requests, trust \in BOOLEAN : RememberDevice(r, trust)
    \/ \E r \in Requests : WrongPassword(r)
    \/ \E r \in Requests : Lock(r)
    \/ \E r \in Requests : RightPassword(r)
    \/ \E r \in Requests : CheckTrust(r)
    \/ \E r \in Requests : VoidPending(r)
    \/ \E r \in Requests : CreateOtp(r)
    \/ \E r \in Requests : RefuseOtp(r)
    \/ \E r \in Requests : WrongCode(r)
    \/ \E r \in Requests : RightCode(r)
    \/ \E r \in Requests : Grant(r)
    \/ \E r \in Requests : Fail(r)
    \/ AdminLock
    \/ Unlock
    \/ \E on \in BOOLEAN : SetTwoFA(on)
    \/ \E o \in Otps : OtpExpires(o)

Spec == Init /\ [][Next]_vars

-----------------------------------------------------------------------------
(***************************************************************************)
(* Properties                                                              *)
(***************************************************************************)
\* Every variable has its type.
TypeOK ==
    /\ failed \in 0 .. MaxFailed /\ locked \in BOOLEAN /\ twoFA \in BOOLEAN
    /\ trusted \subseteq Devices
    /\ otp \in [Otps -> {"none", "PENDING", "EXPIRED", "VERIFIED"}]
    /\ from \in [Otps -> Devices]
    /\ stale \subseteq Otps
    /\ pc \in [Requests -> Steps]
    /\ snap \in [Requests -> BOOLEAN]
    /\ device \in [Requests -> Devices]
    /\ via \in [Requests -> Otps \cup {NoOtp}]
    /\ grants \in [Otps -> Nat]
    /\ wrong \in [Otps -> 0 .. OtpMaxAttempts]
    /\ lockLost \in BOOLEAN

\* The limit of wrong passwords is never passed unnoticed: the account is
\* locked, or a request is about to lock it, or died about to.  Counting and
\* locking are two statements, and other logins and an unlock fall in between.
LimitLocksAccount ==
    failed >= MaxAttempts =>
        locked \/ lockLost \/ \E r \in Requests : pc[r] = "lock"

\* One code opens one session, however many requests submit it at once.
OtpGrantsOneSession == \A o \in Otps : grants[o] <= 1

\* A session granted on a second factor rests on a row that is VERIFIED and
\* stays so: a later login that voids the pending rows does not reach it.
GrantRestsOnVerifiedOtp == \A o \in Otps : grants[o] > 0 => otp[o] = "VERIFIED"

\* The account asks for a second factor on every device, and no login that
\* read its row before it did is left.
Guarded ==
    /\ twoFA /\ trusted = {}
    /\ \A r \in Requests :
          /\ pc[r] \in {"verify", "trust"} => snap[r]
          /\ pc[r] = "grant" => via[r] # NoOtp

\* Turning the second factor on takes effect late but for good: once the
\* logins that had read the row before are done, no session is granted
\* without a code until it is turned off or a device is trusted.
SecondFactorHolds ==
    [][Guarded =>
          /\ \A r \in Requests : pc[r] = "grant" /\ pc'[r] = "idle" => via[r] # NoOtp
          /\ twoFA' /\ trusted' = {} => Guarded']_vars

(***************************************************************************)
(* What comments of the code say, and its steps do not keep.               *)
(***************************************************************************)
\* "Increment attempts ... within the locked transaction": a row that met its
\* limit of wrong codes is no longer PENDING.
WrongCodesExpireOtp ==
    \A o \in Otps : wrong[o] >= OtpMaxAttempts => otp[o] # "PENDING"
=============================================================================
