-------------------------- MODULE LoginGuardProofs --------------------------
(***************************************************************************)
(* Proofs about LoginGuard: its type invariant, its safety invariants and  *)
(* its action property, for every value of the constants.                  *)
(*                                                                         *)
(* The limit on wrong passwords is inductive as it stands.  That one code  *)
(* opens one session is not: it needs what a request knows between the     *)
(* transaction that verifies the code and the one that opens the session.  *)
(* From then on its row is VERIFIED, no session was granted on it yet, and *)
(* no second request is as far with the same row.                          *)
(*                                                                         *)
(* Two results are about what is granted without a code: no device is      *)
(* trusted, and no session granted, past a challenge.  The last one counts *)
(* how far the guesses in flight can exceed the limit.                     *)
(***************************************************************************)
EXTENDS LoginGuard, FiniteSetTheorems, TLAPS

\* r has verified the code of its row and has not opened the session yet.
Holding(r) == pc[r] \in {"device", "grant"} /\ via[r] # NoOtp

\* A request that submitted a code names its row; one that logs in names none.
ViaOK ==
    \A r \in Requests :
        /\ pc[r] \in {"otp", "device"} => via[r] \in Otps
        /\ pc[r] \notin {"otp", "device", "grant"} => via[r] = NoOtp

HeldRowIsFresh ==
    \A r \in Requests : Holding(r) => otp[via[r]] = "VERIFIED" /\ grants[via[r]] = 0

OneHolder ==
    \A r, s \in Requests : Holding(r) /\ Holding(s) /\ via[r] = via[s] => r = s

OtpInv ==
    /\ ViaOK
    /\ HeldRowIsFresh
    /\ OneHolder
    /\ GrantRestsOnVerifiedOtp
    /\ OtpGrantsOneSession

IInv ==
    /\ TypeOK
    /\ LimitLocksAccount
    /\ OtpInv

-----------------------------------------------------------------------------
\* Every variable keeps its type.
LEMMA TypeStep == TypeOK /\ [Next]_vars => TypeOK'
<1> SUFFICES ASSUME TypeOK, [Next]_vars PROVE TypeOK'
  OBVIOUS
<1> USE LimitsAssumption, NoOtpAssumption
    DEF TypeOK, Steps, Goto, user, rows, handlers, history
<1>0. AnyDevice \in Devices
  BY DevicesAssumption DEF AnyDevice
<1> USE <1>0 DEF Finish
<1>1. ASSUME NEW r \in Requests, NEW d \in Devices, LoginRead(r, d)
     PROVE  TypeOK'
  BY <1>1 DEF LoginRead
<1>2. ASSUME NEW r \in Requests, NEW o \in Otps, Submit(r, o)
     PROVE  TypeOK'
  BY <1>2 DEF Submit
<1>3. ASSUME NEW r \in Requests, NEW trust \in BOOLEAN, RememberDevice(r, trust)
     PROVE  TypeOK'
  BY <1>3 DEF RememberDevice
<1>4. ASSUME NEW r \in Requests, WrongPassword(r)
     PROVE  TypeOK'
  <2>1. failed \in Nat /\ failed < MaxFailed /\ MaxFailed \in Nat /\ failed' = failed + 1
    BY <1>4 DEF WrongPassword
  <2>2. failed' \in 0 .. MaxFailed
    BY <2>1
  <2>3. pc' \in [Requests -> Steps]
    BY <1>4 DEF WrongPassword
  <2>4. snap' \in [Requests -> BOOLEAN]
    BY <1>4 DEF WrongPassword
  <2>5. device' \in [Requests -> Devices] /\ via' \in [Requests -> Otps \cup {NoOtp}]
    BY <1>4 DEF WrongPassword
  <2>6. UNCHANGED <<locked, twoFA, trusted, otp, from, stale, grants, wrong, lockLost>>
    BY <1>4 DEF WrongPassword
  <2> QED
    BY <2>2, <2>3, <2>4, <2>5, <2>6
<1>5. ASSUME NEW r \in Requests, Lock(r)
     PROVE  TypeOK'
  BY <1>5 DEF Lock
<1>6. ASSUME NEW r \in Requests, RightPassword(r)
     PROVE  TypeOK'
  <2>1. failed' = 0 /\ failed' \in 0 .. MaxFailed
    BY <1>6 DEF RightPassword
  <2>2. lockLost' \in BOOLEAN
    BY <1>6 DEF RightPassword
  <2> QED
    BY <1>6, <2>1, <2>2 DEF RightPassword
<1>7. ASSUME NEW r \in Requests, CheckTrust(r)
     PROVE  TypeOK'
  BY <1>7 DEF CheckTrust
<1>8. ASSUME NEW r \in Requests, VoidPending(r)
     PROVE  TypeOK'
  BY <1>8 DEF VoidPending
<1>9. ASSUME NEW r \in Requests, CreateOtp(r)
     PROVE  TypeOK'
  BY <1>9 DEF CreateOtp
<1>10. ASSUME NEW r \in Requests, RefuseOtp(r)
      PROVE  TypeOK'
  BY <1>10 DEF RefuseOtp
<1>11. ASSUME NEW r \in Requests, WrongCode(r)
      PROVE  TypeOK'
  <2>1. via[r] \in Otps \cup {NoOtp} /\ wrong \in [Otps -> 0 .. OtpMaxAttempts]
    OBVIOUS
  <2>2. \A n \in 0 .. OtpMaxAttempts :
           (IF n < OtpMaxAttempts THEN n + 1 ELSE n) \in 0 .. OtpMaxAttempts
    OBVIOUS
  <2>3. wrong' \in [Otps -> 0 .. OtpMaxAttempts]
    BY <1>11, <2>1, <2>2 DEF WrongCode
  <2> QED
    BY <1>11, <2>3 DEF WrongCode
<1>12. ASSUME NEW r \in Requests, RightCode(r)
      PROVE  TypeOK'
  <2>1. failed' = 0 /\ failed' \in 0 .. MaxFailed
    BY <1>12 DEF RightCode
  <2>2. lockLost' \in BOOLEAN
    BY <1>12 DEF RightCode
  <2>3. otp' \in [Otps -> {"none", "PENDING", "EXPIRED", "VERIFIED"}]
    BY <1>12 DEF RightCode
  <2> QED
    BY <1>12, <2>1, <2>2, <2>3 DEF RightCode
<1>13. ASSUME NEW r \in Requests, Grant(r)
      PROVE  TypeOK'
  BY <1>13 DEF Grant
<1>14. ASSUME NEW r \in Requests, Fail(r)
      PROVE  TypeOK'
  BY <1>14 DEF Fail
<1>15. CASE AdminLock \/ Unlock \/ \E on \in BOOLEAN : SetTwoFA(on)
  <2>1. locked' \in BOOLEAN /\ twoFA' \in BOOLEAN /\ lockLost' \in BOOLEAN
    BY <1>15 DEF AdminLock, Unlock, SetTwoFA
  <2>2. failed' \in 0 .. MaxFailed
    BY <1>15 DEF AdminLock, Unlock, SetTwoFA
  <2> QED
    BY <1>15, <2>1, <2>2 DEF AdminLock, Unlock, SetTwoFA
<1>16. ASSUME NEW o \in Otps, OtpExpires(o)
       PROVE  TypeOK'
  BY <1>16 DEF OtpExpires
<1>17. CASE UNCHANGED vars
  BY <1>17 DEF vars
<1> QED
  BY <1>1, <1>2, <1>3, <1>4, <1>5, <1>6, <1>7, <1>8, <1>9,
     <1>10, <1>11, <1>12, <1>13, <1>14, <1>15, <1>16, <1>17 DEF Next

-----------------------------------------------------------------------------
\* The limit on wrong passwords is never passed unnoticed.
LEMMA LimitStep == TypeOK /\ LimitLocksAccount /\ [Next]_vars => LimitLocksAccount'
<1> SUFFICES ASSUME TypeOK, LimitLocksAccount, [Next]_vars PROVE LimitLocksAccount'
  OBVIOUS
<1> USE LimitsAssumption
    DEF TypeOK, LimitLocksAccount, LimitReached, Goto, Finish, user, rows, handlers, history
<1>1. ASSUME NEW r \in Requests, NEW d \in Devices, LoginRead(r, d)
     PROVE  LimitLocksAccount'
  BY <1>1 DEF LoginRead
<1>2. ASSUME NEW r \in Requests, NEW o \in Otps, Submit(r, o)
     PROVE  LimitLocksAccount'
  BY <1>2 DEF Submit
<1>3. ASSUME NEW r \in Requests, NEW trust \in BOOLEAN, RememberDevice(r, trust)
     PROVE  LimitLocksAccount'
  BY <1>3 DEF RememberDevice
<1>4. ASSUME NEW r \in Requests, WrongPassword(r)
     PROVE  LimitLocksAccount'
  BY <1>4 DEF WrongPassword
<1>5. ASSUME NEW r \in Requests, Lock(r)
     PROVE  LimitLocksAccount'
  BY <1>5 DEF Lock
<1>6. ASSUME NEW r \in Requests, RightPassword(r)
     PROVE  LimitLocksAccount'
  BY <1>6 DEF RightPassword
<1>7. ASSUME NEW r \in Requests, CheckTrust(r)
     PROVE  LimitLocksAccount'
  BY <1>7 DEF CheckTrust
<1>8. ASSUME NEW r \in Requests, VoidPending(r)
     PROVE  LimitLocksAccount'
  BY <1>8 DEF VoidPending
<1>9. ASSUME NEW r \in Requests, CreateOtp(r)
     PROVE  LimitLocksAccount'
  BY <1>9 DEF CreateOtp
<1>10. ASSUME NEW r \in Requests, RefuseOtp(r)
      PROVE  LimitLocksAccount'
  BY <1>10 DEF RefuseOtp
<1>11. ASSUME NEW r \in Requests, WrongCode(r)
      PROVE  LimitLocksAccount'
  BY <1>11 DEF WrongCode
<1>12. ASSUME NEW r \in Requests, RightCode(r)
      PROVE  LimitLocksAccount'
  BY <1>12 DEF RightCode
<1>13. ASSUME NEW r \in Requests, Grant(r)
      PROVE  LimitLocksAccount'
  BY <1>13 DEF Grant
<1>14. ASSUME NEW r \in Requests, Fail(r)
      PROVE  LimitLocksAccount'
  BY <1>14 DEF Fail
<1>15. CASE AdminLock \/ Unlock \/ \E on \in BOOLEAN : SetTwoFA(on)
  BY <1>15 DEF AdminLock, Unlock, SetTwoFA, handlers, rows, user
<1>16. ASSUME NEW o \in Otps, OtpExpires(o)
       PROVE  LimitLocksAccount'
  BY <1>16 DEF OtpExpires
<1>17. CASE UNCHANGED vars
  BY <1>17 DEF vars
<1> QED
  BY <1>1, <1>2, <1>3, <1>4, <1>5, <1>6, <1>7, <1>8, <1>9,
     <1>10, <1>11, <1>12, <1>13, <1>14, <1>15, <1>16, <1>17 DEF Next

-----------------------------------------------------------------------------
\* What a request that verified a code relies on stays true until it is done.
LEMMA OtpStep == TypeOK /\ OtpInv /\ [Next]_vars => OtpInv'
<1> SUFFICES ASSUME TypeOK, OtpInv, [Next]_vars PROVE OtpInv'
  OBVIOUS
<1> USE NoOtpAssumption
    DEF TypeOK, OtpInv, ViaOK, HeldRowIsFresh, OneHolder, Holding,
        GrantRestsOnVerifiedOtp, OtpGrantsOneSession, Goto, Finish,
        user, rows, handlers, history
<1>1. ASSUME NEW r \in Requests, NEW d \in Devices, LoginRead(r, d)
     PROVE  OtpInv'
  BY <1>1 DEF LoginRead
<1>2. ASSUME NEW r \in Requests, NEW o \in Otps, Submit(r, o)
     PROVE  OtpInv'
  BY <1>2 DEF Submit
<1>3. ASSUME NEW r \in Requests, NEW trust \in BOOLEAN, RememberDevice(r, trust)
     PROVE  OtpInv'
  BY <1>3 DEF RememberDevice
<1>4. ASSUME NEW r \in Requests, WrongPassword(r)
     PROVE  OtpInv'
  BY <1>4 DEF WrongPassword
<1>5. ASSUME NEW r \in Requests, Lock(r)
     PROVE  OtpInv'
  BY <1>5 DEF Lock
<1>6. ASSUME NEW r \in Requests, RightPassword(r)
     PROVE  OtpInv'
  BY <1>6 DEF RightPassword
<1>7. ASSUME NEW r \in Requests, CheckTrust(r)
     PROVE  OtpInv'
  BY <1>7 DEF CheckTrust
<1>8. ASSUME NEW r \in Requests, VoidPending(r)
     PROVE  OtpInv'
  BY <1>8 DEF VoidPending
<1>9. ASSUME NEW r \in Requests, CreateOtp(r)
     PROVE  OtpInv'
  BY <1>9 DEF CreateOtp
<1>10. ASSUME NEW r \in Requests, RefuseOtp(r)
      PROVE  OtpInv'
  BY <1>10 DEF RefuseOtp
<1>11. ASSUME NEW r \in Requests, WrongCode(r)
      PROVE  OtpInv'
  BY <1>11 DEF WrongCode
<1>12. ASSUME NEW r \in Requests, RightCode(r)
      PROVE  OtpInv'
  <2> DEFINE o == via[r]
  <2>1. /\ o \in Otps /\ o # NoOtp /\ otp[o] = "PENDING" /\ pc[r] = "otp"
        /\ otp' = [otp EXCEPT ![o] = "VERIFIED"]
        /\ pc' = [pc EXCEPT ![r] = "device"] /\ via' = via /\ grants' = grants
    BY <1>12 DEF RightCode, Verifiable
  <2>2. grants[o] = 0
    BY <2>1
  <2>3. \A s \in Requests : Holding(s) => via[s] # o
    BY <2>1
  <2>4. \A s \in Requests : s # r => (Holding(s)' <=> Holding(s))
    BY <2>1
  <2>5. ViaOK'
    BY <2>1
  <2>6. HeldRowIsFresh'
    BY <2>1, <2>2, <2>3, <2>4
  <2>7. OneHolder'
    BY <2>1, <2>3, <2>4
  <2>8. GrantRestsOnVerifiedOtp' /\ OtpGrantsOneSession'
    BY <2>1
  <2> QED
    BY <2>5, <2>6, <2>7, <2>8
<1>13. ASSUME NEW r \in Requests, Grant(r)
      PROVE  OtpInv'
  BY <1>13 DEF Grant
<1>14. ASSUME NEW r \in Requests, Fail(r)
      PROVE  OtpInv'
  BY <1>14 DEF Fail
<1>15. CASE AdminLock \/ Unlock \/ \E on \in BOOLEAN : SetTwoFA(on)
  BY <1>15 DEF AdminLock, Unlock, SetTwoFA, handlers, rows, user
<1>16. ASSUME NEW o \in Otps, OtpExpires(o)
       PROVE  OtpInv'
  BY <1>16 DEF OtpExpires
<1>17. CASE UNCHANGED vars
  BY <1>17 DEF vars
<1> QED
  BY <1>1, <1>2, <1>3, <1>4, <1>5, <1>6, <1>7, <1>8, <1>9,
     <1>10, <1>11, <1>12, <1>13, <1>14, <1>15, <1>16, <1>17 DEF Next

-----------------------------------------------------------------------------
\* The inductive invariant holds in every reachable state.
THEOREM InductiveInvariant == Spec => []IInv
<1>1. Init => IInv
  <2> SUFFICES ASSUME Init PROVE IInv
    OBVIOUS
  <2>1. AnyDevice \in Devices
    BY DevicesAssumption DEF AnyDevice
  <2>2. TypeOK
    <3>1. failed \in 0 .. MaxFailed /\ wrong \in [Otps -> 0 .. OtpMaxAttempts]
      BY LimitsAssumption DEF Init
    <3>2. locked \in BOOLEAN /\ twoFA \in BOOLEAN /\ lockLost \in BOOLEAN
      BY DEF Init
    <3>3. pc \in [Requests -> Steps] /\ snap \in [Requests -> BOOLEAN]
      BY DEF Init, Steps
    <3>4. /\ device \in [Requests -> Devices] /\ via \in [Requests -> Otps \cup {NoOtp}]
          /\ from \in [Otps -> Devices]
      BY <2>1 DEF Init
    <3>5. /\ trusted \subseteq Devices /\ stale \subseteq Otps
          /\ otp \in [Otps -> {"none", "PENDING", "EXPIRED", "VERIFIED"}]
          /\ grants \in [Otps -> Nat]
      BY DEF Init
    <3> QED
      BY <3>1, <3>2, <3>3, <3>4, <3>5 DEF TypeOK
  <2>3. LimitLocksAccount
    BY LimitsAssumption DEF Init, LimitLocksAccount
  <2>4. OtpInv
    BY DEF Init, OtpInv, ViaOK, HeldRowIsFresh, OneHolder, Holding,
           GrantRestsOnVerifiedOtp, OtpGrantsOneSession
  <2> QED
    BY <2>2, <2>3, <2>4 DEF IInv
<1>2. IInv /\ [Next]_vars => IInv'
  BY TypeStep, LimitStep, OtpStep DEF IInv
<1> QED
  BY <1>1, <1>2, PTL DEF Spec

\* Every variable has its type in every reachable state.
THEOREM TypeCorrectness == Spec => []TypeOK
<1>1. IInv => TypeOK
  BY DEF IInv
<1> QED
  BY <1>1, InductiveInvariant, PTL

\* Passing the limit of wrong passwords locks the account, is about to, or
\* died about to.
THEOREM LimitIsNoticed == Spec => []LimitLocksAccount
<1>1. IInv => LimitLocksAccount
  BY DEF IInv
<1> QED
  BY <1>1, InductiveInvariant, PTL

\* One code opens at most one session.
THEOREM OtpIsSpentOnce == Spec => []OtpGrantsOneSession
<1>1. IInv => OtpGrantsOneSession
  BY DEF IInv, OtpInv
<1> QED
  BY <1>1, InductiveInvariant, PTL

\* A session granted on a code rests on a row that stays VERIFIED.
THEOREM GrantIsBacked == Spec => []GrantRestsOnVerifiedOtp
<1>1. IInv => GrantRestsOnVerifiedOtp
  BY DEF IInv, OtpInv
<1> QED
  BY <1>1, InductiveInvariant, PTL

-----------------------------------------------------------------------------
\* Guarded lasts until the second factor is turned off or a device trusted.
LEMMA GuardedStep ==
    TypeOK /\ ViaOK /\ Guarded /\ Next /\ twoFA' /\ trusted' = {} => Guarded'
<1> SUFFICES ASSUME TypeOK, ViaOK, Guarded, Next, twoFA', trusted' = {} PROVE Guarded'
  OBVIOUS
<1> USE NoOtpAssumption
    DEF TypeOK, ViaOK, Guarded, NeedsSecondFactor, Goto, Finish,
        user, rows, handlers, history
<1>1. ASSUME NEW r \in Requests, NEW d \in Devices, LoginRead(r, d)
     PROVE  Guarded'
  BY <1>1 DEF LoginRead
<1>2. ASSUME NEW r \in Requests, NEW o \in Otps, Submit(r, o)
     PROVE  Guarded'
  BY <1>2 DEF Submit
<1>3. ASSUME NEW r \in Requests, NEW trust \in BOOLEAN, RememberDevice(r, trust)
     PROVE  Guarded'
  BY <1>3 DEF RememberDevice
<1>4. ASSUME NEW r \in Requests, WrongPassword(r)
     PROVE  Guarded'
  BY <1>4 DEF WrongPassword
<1>5. ASSUME NEW r \in Requests, Lock(r)
     PROVE  Guarded'
  BY <1>5 DEF Lock
<1>6. ASSUME NEW r \in Requests, RightPassword(r)
     PROVE  Guarded'
  BY <1>6 DEF RightPassword
<1>7. ASSUME NEW r \in Requests, CheckTrust(r)
     PROVE  Guarded'
  BY <1>7 DEF CheckTrust
<1>8. ASSUME NEW r \in Requests, VoidPending(r)
     PROVE  Guarded'
  BY <1>8 DEF VoidPending
<1>9. ASSUME NEW r \in Requests, CreateOtp(r)
     PROVE  Guarded'
  BY <1>9 DEF CreateOtp
<1>10. ASSUME NEW r \in Requests, RefuseOtp(r)
      PROVE  Guarded'
  BY <1>10 DEF RefuseOtp
<1>11. ASSUME NEW r \in Requests, WrongCode(r)
      PROVE  Guarded'
  BY <1>11 DEF WrongCode
<1>12. ASSUME NEW r \in Requests, RightCode(r)
      PROVE  Guarded'
  BY <1>12 DEF RightCode
<1>13. ASSUME NEW r \in Requests, Grant(r)
      PROVE  Guarded'
  BY <1>13 DEF Grant
<1>14. ASSUME NEW r \in Requests, Fail(r)
      PROVE  Guarded'
  BY <1>14 DEF Fail
<1>15. CASE AdminLock \/ Unlock \/ \E on \in BOOLEAN : SetTwoFA(on)
  BY <1>15 DEF AdminLock, Unlock, SetTwoFA, handlers, rows, user
<1>16. ASSUME NEW o \in Otps, OtpExpires(o)
       PROVE  Guarded'
  BY <1>16 DEF OtpExpires
<1> QED
  BY <1>1, <1>2, <1>3, <1>4, <1>5, <1>6, <1>7, <1>8, <1>9,
     <1>10, <1>11, <1>12, <1>13, <1>14, <1>15, <1>16 DEF Next

\* Turning the second factor on is effective once earlier logins are done.
THEOREM SecondFactorIsEffective == Spec => SecondFactorHolds
<1> DEFINE A == Guarded =>
                  /\ \A r \in Requests :
                        pc[r] = "grant" /\ pc'[r] = "idle" => via[r] # NoOtp
                  /\ twoFA' /\ trusted' = {} => Guarded'
<1>1. ASSUME TypeOK, ViaOK, Next PROVE A
  BY <1>1, GuardedStep DEF Guarded
<1>2. IInv /\ [Next]_vars => [A]_vars
  BY <1>1 DEF IInv, OtpInv
<1> QED
  BY <1>2, InductiveInvariant, PTL DEF Spec, SecondFactorHolds

-----------------------------------------------------------------------------
(***************************************************************************)
(* What is granted without a code.                                         *)
(***************************************************************************)
\* The code of a challenge that was sent to a login from device d was right.
HasPassed(d) == \E o \in Otps : otp[o] = "VERIFIED" /\ from[o] = d

\* verifyLoginOtp trusts the device that its challenge was made for.
TrustIsEarned == \A d \in trusted : HasPassed(d)

\* Both ways into issueTokensAndSession: the account asked for no code when
\* login read it, or this device has passed, now or earlier.
SessionsAreEarned ==
    \A r \in Requests :
        pc[r] = "grant" => (via[r] = NoOtp /\ ~ snap[r]) \/ HasPassed(device[r])

\* The device of a request is the one its challenge names.
DeviceFits ==
    \A r \in Requests :
        via[r] # NoOtp => otp[via[r]] # "none" /\ device[r] = from[via[r]]

TrustInv == TrustIsEarned /\ SessionsAreEarned /\ DeviceFits

\* A device that has passed, has passed for good: no row is written over, and
\* a new login voids the pending ones only.
LEMMA PassedStays ==
    ASSUME IInv, [Next]_vars
    PROVE  /\ \A o \in Otps : otp[o] # "none" => otp'[o] # "none" /\ from'[o] = from[o]
           /\ \A d \in Devices : HasPassed(d) => HasPassed(d)'
<1> SUFFICES /\ \A o \in Otps : otp[o] # "none" => otp'[o] # "none" /\ from'[o] = from[o]
             /\ \A o \in Otps : otp[o] = "VERIFIED" => otp'[o] = "VERIFIED"
  BY DEF HasPassed
<1> USE DEF IInv, TypeOK, rows, Verifiable
<1>1. ASSUME NEW r \in Requests, VoidPending(r) \/ CreateOtp(r) \/ RightCode(r)
      PROVE  /\ \A o \in Otps : otp[o] # "none" => otp'[o] # "none" /\ from'[o] = from[o]
             /\ \A o \in Otps : otp[o] = "VERIFIED" => otp'[o] = "VERIFIED"
  <2>1. CASE VoidPending(r)
    BY <2>1 DEF VoidPending
  <2>2. CASE CreateOtp(r)
    BY <2>2 DEF CreateOtp
  <2>3. CASE RightCode(r)
    BY <2>3 DEF RightCode
  <2> QED
    BY <1>1, <2>1, <2>2, <2>3
<1>2. CASE UNCHANGED <<otp, from>>
  BY <1>2
<1> QED
  BY <1>1, <1>2 DEF Next, vars, LoginRead, Submit, RememberDevice, WrongPassword, Lock,
     RightPassword, CheckTrust, RefuseOtp, WrongCode, Grant, Fail, AdminLock, Unlock,
     SetTwoFA, OtpExpires

LEMMA TrustStep == IInv /\ IInv' /\ TrustInv /\ [Next]_vars => TrustInv'
<1> SUFFICES ASSUME IInv, IInv', TrustInv, [Next]_vars PROVE TrustInv'
  OBVIOUS
<1>0. /\ \A o \in Otps : otp[o] # "none" => otp'[o] # "none" /\ from'[o] = from[o]
      /\ \A d \in Devices : HasPassed(d) => HasPassed(d)'
  BY PassedStays
<1>1. TypeOK /\ ViaOK /\ HeldRowIsFresh /\ TypeOK'
  BY DEF IInv, OtpInv
<1> HIDE DEF HasPassed
<1> USE <1>0, <1>1, NoOtpAssumption
    DEF TypeOK, ViaOK, TrustInv, TrustIsEarned, SessionsAreEarned, DeviceFits, Goto, user,
        rows, handlers, history
<1>2. ASSUME NEW r \in Requests, NEW d \in Devices, LoginRead(r, d)
      PROVE  TrustInv'
  BY <1>2 DEF LoginRead
<1>3. ASSUME NEW r \in Requests, NEW o \in Otps, Submit(r, o)
      PROVE  TrustInv'
  BY <1>3 DEF Submit
<1>4. ASSUME NEW r \in Requests, NEW trust \in BOOLEAN, RememberDevice(r, trust)
      PROVE  TrustInv'
  <2>1. HasPassed(device[r])
    BY <1>4 DEF RememberDevice, HasPassed, HeldRowIsFresh, Holding
  <2> QED
    BY <1>4, <2>1 DEF RememberDevice
<1>5. ASSUME NEW r \in Requests, CheckTrust(r)
      PROVE  TrustInv'
  BY <1>5 DEF CheckTrust, NeedsSecondFactor
<1>6. ASSUME NEW r \in Requests, Finish(r), UNCHANGED trusted
      PROVE  TrustInv'
  BY <1>6 DEF Finish
<1>7. ASSUME NEW r \in Requests, NEW to \in Steps \ {"grant"}, Goto(r, to),
             UNCHANGED <<trusted, snap, device, via>>
      PROVE  TrustInv'
  BY <1>7
<1>8. CASE UNCHANGED <<handlers, trusted>>
  BY <1>8
<1>9. ASSUME NEW r \in Requests, WrongPassword(r) \/ RightPassword(r) \/ VoidPending(r)
                                    \/ RightCode(r)
      PROVE  TrustInv'
  BY <1>6, <1>7, <1>9 DEF WrongPassword, RightPassword, VoidPending, RightCode, Steps
<1>10. ASSUME NEW r \in Requests, CreateOtp(r) \/ Lock(r) \/ RefuseOtp(r) \/ WrongCode(r)
                                    \/ Grant(r) \/ Fail(r)
       PROVE  TrustInv'
  BY <1>6, <1>10 DEF CreateOtp, Lock, RefuseOtp, WrongCode, Grant, Fail
<1> QED
  BY <1>2, <1>3, <1>4, <1>5, <1>8, <1>9, <1>10 DEF Next, vars, AdminLock, Unlock,
     SetTwoFA, OtpExpires

LEMMA TrustHolds == Spec => []TrustInv
<1>1. Init => TrustInv
  BY DEF Init, TrustInv, TrustIsEarned, SessionsAreEarned, DeviceFits
<1> QED
  BY <1>1, TrustStep, InductiveInvariant, PTL DEF Spec

\* No device is trusted that has not answered a challenge of its own, with
\* logins, codes and new challenges of other devices in between.
THEOREM TrustNeedsCode == Spec => []TrustIsEarned
<1>1. TrustInv => TrustIsEarned
  BY DEF TrustInv
<1> QED
  BY <1>1, TrustHolds, PTL

\* No session is granted past the second factor, on a copy of the user row
\* and a list of devices that are read at different times.
THEOREM SessionNeedsFactor == Spec => []SessionsAreEarned
<1>1. TrustInv => SessionsAreEarned
  BY DEF TrustInv
<1> QED
  BY <1>1, TrustHolds, PTL

-----------------------------------------------------------------------------
(***************************************************************************)
(* How many passwords can be tried.                                        *)
(***************************************************************************)
Guessing == {r \in Requests : pc[r] = "verify"}
Locking  == {r \in Requests : pc[r] = "lock"}

\* Until the account is locked, whoever counted at the limit or above it has
\* yet to lock it; once it is, only requests that read it before still count.
GuessesFit ==
    \/ lockLost
    \/ ~ locked /\ failed < MaxAttempts + Cardinality(Locking)
    \/ locked /\ failed + Cardinality(Guessing) < MaxAttempts + Cardinality(Requests)

\* MAX_LOGIN_ATTEMPTS is exceeded by fewer guesses than there are requests at
\* a time, unless a request dies between the count and the lock.
OvershootIsBounded ==
    lockLost \/ failed < MaxAttempts + Cardinality(Requests)

LEMMA Sizes ==
    /\ Guessing \subseteq Requests /\ Locking \subseteq Requests
    /\ Cardinality(Guessing) \in Nat /\ Cardinality(Locking) \in Nat
    /\ Cardinality(Requests) \in Nat
    /\ Cardinality(Guessing) + Cardinality(Locking) <= Cardinality(Requests)
<1>1. Guessing \subseteq Requests /\ Locking \subseteq Requests /\ Guessing \cap Locking = {}
  BY DEF Guessing, Locking
<1> HIDE DEF Guessing, Locking
<1>2. /\ IsFiniteSet(Guessing) /\ IsFiniteSet(Locking)
      /\ IsFiniteSet(Guessing \cup Locking) /\ Guessing \cup Locking \subseteq Requests
  BY <1>1, RequestsAssumption, FS_Subset, FS_Union
<1>3. /\ Cardinality(Guessing) \in Nat /\ Cardinality(Locking) \in Nat
      /\ Cardinality(Guessing \cup Locking) \in Nat /\ Cardinality(Requests) \in Nat
  BY <1>2, RequestsAssumption, FS_CardinalityType
<1>4. Cardinality(Guessing \cup Locking) <= Cardinality(Requests)
  BY <1>2, RequestsAssumption, FS_Subset
<1>5. Cardinality(Guessing \cup Locking)
          = Cardinality(Guessing) + Cardinality(Locking) - Cardinality(Guessing \cap Locking)
  BY <1>2, FS_Union
<1>6. Cardinality(Guessing \cap Locking) = 0
  BY <1>1, FS_EmptySet
<1> QED
  BY <1>1, <1>3, <1>4, <1>5, <1>6

LEMMA Grows ==
    ASSUME NEW A, A \subseteq Requests, NEW r \in Requests, r \notin A
    PROVE  Cardinality(A \cup {r}) = Cardinality(A) + 1
  BY RequestsAssumption, FS_Subset, FS_AddElement

LEMMA Shrinks ==
    ASSUME NEW A, A \subseteq Requests, NEW r \in A
    PROVE  Cardinality(A \ {r}) = Cardinality(A) - 1
  BY RequestsAssumption, FS_Subset, FS_RemoveElement

\* One request goes from one step to another.
LEMMA Moves ==
    ASSUME TypeOK, NEW r \in Requests, NEW b \in Steps, pc' = [pc EXCEPT ![r] = b]
    PROVE  /\ pc[r] # "verify" /\ b = "verify" =>
                  Cardinality(Guessing') = Cardinality(Guessing) + 1
           /\ pc[r] = "verify" /\ b # "verify" =>
                  Cardinality(Guessing') = Cardinality(Guessing) - 1
           /\ pc[r] # "verify" /\ b # "verify" => Guessing' = Guessing
           /\ pc[r] # "lock" /\ b = "lock" =>
                  Cardinality(Locking') = Cardinality(Locking) + 1
           /\ pc[r] = "lock" /\ b # "lock" =>
                  Cardinality(Locking') = Cardinality(Locking) - 1
           /\ pc[r] # "lock" /\ b # "lock" => Locking' = Locking
<1>1. Guessing \subseteq Requests /\ Locking \subseteq Requests
  BY Sizes
<1>2. /\ r \in Guessing <=> pc[r] = "verify"
      /\ r \in Locking <=> pc[r] = "lock"
  BY DEF Guessing, Locking
<1>3. /\ Guessing' = IF b = "verify" THEN Guessing \cup {r} ELSE Guessing \ {r}
      /\ Locking' = IF b = "lock" THEN Locking \cup {r} ELSE Locking \ {r}
  BY DEF TypeOK, Guessing, Locking
<1>4. Cardinality(Guessing \cup {r}) = Cardinality(Guessing) + 1 \/ r \in Guessing
  BY <1>1, Grows
<1>5. Cardinality(Locking \cup {r}) = Cardinality(Locking) + 1 \/ r \in Locking
  BY <1>1, Grows
<1>6. Cardinality(Guessing \ {r}) = Cardinality(Guessing) - 1 \/ r \notin Guessing
  BY <1>1, Shrinks
<1>7. Cardinality(Locking \ {r}) = Cardinality(Locking) - 1 \/ r \notin Locking
  BY <1>1, Shrinks
<1> QED
  BY <1>2, <1>3, <1>4, <1>5, <1>6, <1>7

LEMMA GuessStep == TypeOK /\ GuessesFit /\ [Next]_vars => GuessesFit'
<1> SUFFICES ASSUME TypeOK, GuessesFit, [Next]_vars PROVE GuessesFit'
  OBVIOUS
<1>1. /\ Cardinality(Guessing) \in Nat /\ Cardinality(Locking) \in Nat
      /\ Cardinality(Requests) \in Nat
      /\ Cardinality(Guessing) + Cardinality(Locking) <= Cardinality(Requests)
  BY Sizes
<1>2. Cardinality(Guessing') \in Nat /\ Cardinality(Guessing') <= Cardinality(Requests)
  <2>1. Guessing' \subseteq Requests
    BY DEF Guessing
  <2> QED
    BY <2>1, RequestsAssumption, FS_Subset, FS_CardinalityType
<1>3. failed \in Nat /\ locked \in BOOLEAN /\ MaxAttempts \in Nat \ {0}
  BY LimitsAssumption DEF TypeOK
<1>4. pc \in [Requests -> Steps]
  BY DEF TypeOK
<1> USE <1>1, <1>3 DEF GuessesFit
<1>5. ASSUME NEW r \in Requests, NEW d \in Devices, LoginRead(r, d) PROVE GuessesFit'
  <2>1. Locking' = Locking
    BY <1>5, Moves DEF LoginRead, Goto, Steps
  <2> QED
    BY <1>5, <2>1 DEF LoginRead, user, history
<1>6. ASSUME NEW r \in Requests, WrongPassword(r) PROVE GuessesFit'
  <2>1. UNCHANGED <<locked, lockLost>> /\ failed' = failed + 1
    BY <1>6 DEF WrongPassword, history
  <2>2. CASE LimitReached(failed + 1)
    <3>1. /\ Cardinality(Guessing') = Cardinality(Guessing) - 1
          /\ Cardinality(Locking') = Cardinality(Locking) + 1
      BY <1>6, <2>2, Moves DEF WrongPassword, Goto, Steps
    <3> QED
      BY <2>1, <3>1
  <2>3. CASE ~ LimitReached(failed + 1)
    <3>1. /\ Cardinality(Guessing') = Cardinality(Guessing) - 1
          /\ Locking' = Locking
      BY <1>6, <2>3, Moves DEF WrongPassword, Finish, Steps
    <3>2. failed + 1 < MaxAttempts
      BY <2>3 DEF LimitReached
    <3> QED
      BY <2>1, <3>1, <3>2
  <2> QED
    BY <2>2, <2>3
<1>7. ASSUME NEW r \in Requests, Lock(r) PROVE GuessesFit'
  <2>1. Guessing' = Guessing
    BY <1>7, Moves DEF Lock, Finish, Steps
  <2> QED
    BY <1>7, <2>1 DEF Lock, history
<1>8. ASSUME NEW r \in Requests, RightPassword(r) PROVE GuessesFit'
  <2>1. Cardinality(Guessing') = Cardinality(Guessing) - 1 /\ Locking' = Locking
    BY <1>8, Moves DEF RightPassword, Goto, Steps
  <2> QED
    BY <1>8, <2>1 DEF RightPassword
<1>9. ASSUME NEW r \in Requests, RightCode(r) PROVE GuessesFit'
  <2>1. Guessing' = Guessing /\ Locking' = Locking
    BY <1>9, Moves DEF RightCode, Goto, Steps
  <2> QED
    BY <1>9, <2>1 DEF RightCode
<1>10. ASSUME NEW r \in Requests, Fail(r) PROVE GuessesFit'
  <2>1. UNCHANGED <<failed, locked>> /\ lockLost' = (lockLost \/ pc[r] = "lock")
    BY <1>10 DEF Fail, user
  <2>2. pc' = [pc EXCEPT ![r] = "idle"] /\ "idle" \in Steps
    BY <1>10 DEF Fail, Finish, Steps
  <2>3. CASE pc[r] = "lock"
    BY <2>1, <2>3
  <2>4. CASE pc[r] = "verify"
    <3>1. Cardinality(Guessing') = Cardinality(Guessing) - 1 /\ Locking' = Locking
      BY <2>2, <2>4, Moves
    <3>2. lockLost => lockLost'
      BY <2>1
    <3> QED
      BY <2>1, <3>1, <3>2
  <2>5. CASE pc[r] \notin {"lock", "verify"}
    <3>1. Guessing' = Guessing /\ Locking' = Locking
      BY <2>2, <2>5, Moves
    <3> QED
      BY <2>1, <2>5, <3>1
  <2> QED
    BY <2>3, <2>4, <2>5
<1>11. ASSUME NEW r \in Requests, NEW b \in Steps \ {"verify", "lock"},
              pc[r] \notin {"verify", "lock"}, pc' = [pc EXCEPT ![r] = b],
              UNCHANGED <<user, lockLost>>
       PROVE  GuessesFit'
  <2>1. Guessing' = Guessing /\ Locking' = Locking
    BY <1>11, Moves
  <2> QED
    BY <1>11, <2>1 DEF user
<1>12. ASSUME NEW r \in Requests, NEW o \in Otps, Submit(r, o) PROVE GuessesFit'
  BY <1>11, <1>12 DEF Submit, Goto, history, Steps
<1>13. ASSUME NEW r \in Requests, NEW trust \in BOOLEAN, RememberDevice(r, trust)
       PROVE  GuessesFit'
  BY <1>11, <1>13 DEF RememberDevice, Goto, history, Steps
<1>14. ASSUME NEW r \in Requests, CheckTrust(r) PROVE GuessesFit'
  <2>1. PICK b \in {"void", "grant"} : pc' = [pc EXCEPT ![r] = b]
    BY <1>14 DEF CheckTrust, Goto
  <2> QED
    BY <1>11, <1>14, <2>1 DEF CheckTrust, history, Steps
<1>15. ASSUME NEW r \in Requests, VoidPending(r) PROVE GuessesFit'
  BY <1>11, <1>15 DEF VoidPending, Goto, history, Steps
<1>16. ASSUME NEW r \in Requests,
              CreateOtp(r) \/ RefuseOtp(r) \/ WrongCode(r) \/ Grant(r)
       PROVE  GuessesFit'
  BY <1>11, <1>16 DEF CreateOtp, RefuseOtp, WrongCode, Grant, Finish, history, Steps
<1>17. ASSUME pc' = pc PROVE Guessing' = Guessing /\ Locking' = Locking
  BY <1>17 DEF Guessing, Locking
<1>18. CASE UNCHANGED <<failed, locked, lockLost, pc>>
  BY <1>17, <1>18
<1>19. CASE AdminLock
  BY <1>17, <1>19 DEF AdminLock, handlers, history
<1>20. CASE Unlock
  BY <1>17, <1>20 DEF Unlock, handlers
<1> QED
  BY <1>5, <1>6, <1>7, <1>8, <1>9, <1>10, <1>12, <1>13, <1>14, <1>15, <1>16, <1>18, <1>19,
     <1>20 DEF Next, SetTwoFA, OtpExpires, user, handlers, history, vars

\* A limit of MAX_LOGIN_ATTEMPTS holds up to the requests in flight, however
\* their reads, counts and locks interleave with unlocks and right passwords.
THEOREM GuessesAreBounded == Spec => []OvershootIsBounded
<1>1. Init => GuessesFit
  BY Sizes, LimitsAssumption DEF Init, GuessesFit
<1>2. TypeOK /\ GuessesFit => OvershootIsBounded
  BY Sizes, LimitsAssumption DEF GuessesFit, OvershootIsBounded, TypeOK
<1> QED
  BY <1>1, <1>2, GuessStep, TypeCorrectness, PTL DEF Spec
=============================================================================
