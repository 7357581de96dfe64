----------------------------- MODULE TwoFactor -----------------------------
(***************************************************************************)
(* Switching the second factor of one account on and off: enableTwoFactor, *)
(* verifyTwoFactorOtp and disableTwoFactor                                 *)
(* (src/src/modules/auth/services/auth.service.ts), with the statements of *)
(* the repository that they are made of, and enable2FA and disable2FA of   *)
(* the user service, which set the flag at once.                           *)
(*                                                                         *)
(* There is no transaction in any of them.  A handler keeps the id of the  *)
(* row it has found and goes on with it, whatever other requests do to the *)
(* row; pc[r] says which statement request r performs next.  The rows are  *)
(* those of type TWO_FACTOR, numbered in the order of their creation; the  *)
(* codes of a login are rows of another type (LoginGuard).                 *)
(***************************************************************************)
EXTENDS Naturals, FiniteSets

CONSTANTS
    Requests,        \* HTTP requests that may be in flight at the same time
    OtpMaxAttempts,  \* OTPRequest.maxAttempts
    MaxRows,         \* bound: rows created
    MaxTries         \* bound: wrong codes counted for a row

ASSUME TwoFactorAssumption ==
    /\ IsFiniteSet(Requests)
    /\ OtpMaxAttempts \in Nat \ {0}
    /\ MaxRows \in Nat
    /\ MaxTries \in Nat

VARIABLES
    enabled,   \* User.is2FAEnabled
    made,      \* the rows 1 .. made have been created
    status,    \* OTPRequest.status, "none" before the row is created
    attempts,  \* OTPRequest.attempts
    stale,     \* rows whose expiresAt has passed
    pc,        \* per request: the statement it performs next
    on,        \* per request: the row it has found, or 0
    seen,      \* history: made when the request voided the pending rows
    upTo,      \* history, per row: the last row that its creator has voided
    cut,       \* history: rows that a request died before it expired or switched
    undone     \* history: rows that were VERIFIED when the flag was cleared

rows     == <<made, status, attempts, stale>>
handlers == <<pc, on>>
history  == <<seen, upTo, cut, undone>>
vars     == <<enabled, rows, handlers, history>>

Otps  == 1 .. MaxRows
Steps == {"idle", "void", "create", "count", "expire", "mark", "switch", "clear"}

Init ==
    /\ enabled \in BOOLEAN
    /\ made = 0
    /\ status = [o \in Otps |-> "none"]
    /\ attempts = [o \in Otps |-> 0]
    /\ stale = {}
    /\ pc = [r \in Requests |-> "idle"]
    /\ on = [r \in Requests |-> 0]
    /\ seen = [r \in Requests |-> 0]
    /\ upTo = [o \in Otps |-> 0]
    /\ cut = {}
    /\ undone = {}

Goto(r, next) == pc' = [pc EXCEPT ![r] = next]

\* The handler returns or throws: nothing of it is left in memory.
Finish(r) ==
    /\ pc' = [pc EXCEPT ![r] = "idle"]
    /\ on' = [on EXCEPT ![r] = 0]
    /\ seen' = [seen EXCEPT ![r] = 0]

Pending == {o \in Otps : status[o] = "PENDING"}

(***************************************************************************)
(* enableTwoFactor                                                         *)
(***************************************************************************)
\* The account is read; with 2FA enabled the request is refused.
Enable(r) ==
    /\ pc[r] = "idle"
    /\ ~enabled
    /\ Goto(r, "void")
    /\ UNCHANGED <<enabled, rows, on, history>>

\* Fault: codes that can still be used are not voided.
Lapsed == Pending \cap stale

Voided == Pending

\* updateMany of createOtpRequest.
Void(r) ==
    /\ pc[r] = "void"
    /\ status' = [o \in Otps |-> IF o \in Voided THEN "EXPIRED" ELSE status[o]]
    /\ seen' = [seen EXCEPT ![r] = made]
    /\ Goto(r, "create")
    /\ UNCHANGED <<enabled, made, attempts, stale, on, upTo, cut, undone>>

\* create of createOtpRequest.
Create(r) ==
    /\ pc[r] = "create"
    /\ made < MaxRows
    /\ made' = made + 1
    /\ status' = [status EXCEPT ![made + 1] = "PENDING"]
    /\ upTo' = [upTo EXCEPT ![made + 1] = seen[r]]
    /\ Finish(r)
    /\ UNCHANGED <<enabled, attempts, stale, cut, undone>>

(***************************************************************************)
(* verifyTwoFactorOtp                                                      *)
(***************************************************************************)
\* findValidOtpRequest: the newest of those that can be used.  How often it
\* was tried is not looked at.
Valid == {o \in Pending \ stale : \A p \in Pending \ stale : p <= o}

\* The row is found, and the code is its code, or not.
Submit(r, o, next) ==
    /\ pc[r] = "idle"
    /\ o \in Valid
    /\ next \in {"mark", "count"}
    /\ on' = [on EXCEPT ![r] = o]
    /\ Goto(r, next)
    /\ UNCHANGED <<enabled, rows, history>>

\* Fault: ">" for ">=".
OverLimit(tried) == tried > OtpMaxAttempts

\* Fault: "===" for ">=".
AtLimit(tried) == tried = OtpMaxAttempts

Exhausted(tried) == tried >= OtpMaxAttempts

\* incrementOtpAttempts, which returns the new count.
Count(r) ==
    /\ pc[r] = "count"
    /\ attempts[on[r]] < MaxTries
    /\ attempts' = [attempts EXCEPT ![on[r]] = @ + 1]
    /\ IF Exhausted(attempts[on[r]] + 1)
         THEN Goto(r, "expire") /\ UNCHANGED <<on, seen>>
         ELSE Finish(r)
    /\ UNCHANGED <<enabled, made, status, stale, upTo, cut, undone>>

\* expireOtpRequest, even of a row that was verified meanwhile.
Expire(r) ==
    /\ pc[r] = "expire"
    /\ status' = [status EXCEPT ![on[r]] = "EXPIRED"]
    /\ Finish(r)
    /\ UNCHANGED <<enabled, made, attempts, stale, upTo, cut, undone>>

\* Fault: the code is accepted, but the flag left alone.
MarkAlone(r) ==
    /\ pc[r] = "mark"
    /\ status' = [status EXCEPT ![on[r]] = "VERIFIED"]
    /\ Finish(r)
    /\ UNCHANGED <<enabled, made, attempts, stale, upTo, cut, undone>>

\* verifyOtpRequest, even of a row that was voided or expired meanwhile.
Mark(r) ==
    /\ pc[r] = "mark"
    /\ status' = [status EXCEPT ![on[r]] = "VERIFIED"]
    /\ Goto(r, "switch")
    /\ UNCHANGED <<enabled, made, attempts, stale, on, history>>

\* is2FAEnabled is set; the notification is queued.
Switch(r) ==
    /\ pc[r] = "switch"
    /\ enabled' = TRUE
    /\ Finish(r)
    /\ UNCHANGED <<rows, upTo, cut, undone>>

(***************************************************************************)
(* disableTwoFactor, and the user service                                  *)
(***************************************************************************)
\* The account is read and the password verified; otherwise it is refused.
Disable(r) ==
    /\ pc[r] = "idle"
    /\ enabled
    /\ Goto(r, "clear")
    /\ UNCHANGED <<enabled, rows, on, history>>

Cleared ==
    /\ enabled' = FALSE
    /\ undone' = undone \cup {o \in Otps : status[o] = "VERIFIED"}
    /\ UNCHANGED <<rows, upTo, cut>>

Clear(r) == pc[r] = "clear" /\ Finish(r) /\ Cleared

\* POST /users/me/2fa/enable and /users/me/2fa/disable.
enable2FA  == enabled' = TRUE /\ UNCHANGED <<rows, handlers, history>>
disable2FA == Cleared /\ UNCHANGED <<handlers, seen>>

(***************************************************************************)
(* Failures and time                                                       *)
(***************************************************************************)
\* A statement fails, or the process dies.
Abort(r) ==
    /\ pc[r] # "idle"
    /\ cut' = cut \cup ({on[r]} \X ({pc[r]} \cap {"expire", "switch"}))
    /\ Finish(r)
    /\ UNCHANGED <<enabled, rows, upTo, undone>>

\* The lifetime of a code ends.
Lapse(o) ==
    /\ o \in Pending \ stale
    /\ stale' = stale \cup {o}
    /\ UNCHANGED <<enabled, made, status, attempts, handlers, history>>

Next ==
    \/ \E r \in Requests : Enable(r) \/ Void(r) \/ Create(r)
    \/ \E r \in Requests, o \in Otps, next \in {"mark", "count"} : Submit(r, o, next)
    \/ \E r \in Requests : Count(r) \/ Expire(r) \/ Mark(r) \/ Switch(r)
    \/ \E r \in Requests : Disable(r) \/ Clear(r) \/ Abort(r)
    \/ enable2FA \/ disable2FA
    \/ \E o \in Otps : Lapse(o)

Spec == Init /\ [][Next]_vars

-----------------------------------------------------------------------------
(***************************************************************************)
(* Properties                                                              *)
(***************************************************************************)
\* Every variable has its type.
TypeOK ==
    /\ enabled \in BOOLEAN
    /\ made \in 0 .. MaxRows
    /\ status \in [Otps -> {"none", "PENDING", "EXPIRED", "VERIFIED"}]
    /\ attempts \in [Otps -> 0 .. MaxTries]
    /\ stale \subseteq Otps
    /\ pc \in [Requests -> Steps]
    /\ on \in [Requests -> 0 .. MaxRows]
    /\ seen \in [Requests -> 0 .. MaxRows]
    /\ upTo \in [Otps -> 0 .. MaxRows]
    /\ cut \subseteq (0 .. MaxRows) \X {"expire", "switch"}
    /\ undone \subseteq Otps

\* A code with as many wrong tries as are allowed can be used only while a
\* request is about to expire its row, or after one has died there: the count
\* and the expiry are two statements, and nothing but the expiry stops a code.
ExhaustedIsExpired ==
    \A o \in Pending :
        attempts[o] >= OtpMaxAttempts =>
            \/ \E r \in Requests : pc[r] = "expire" /\ on[r] = o
            \/ <<o, "expire">> \in cut

\* Unless a request died before it expired the row, all the wrong tries of a
\* code exceed the limit by no more than the other requests in flight: each
\* of them can have found the row before it was expired, but only once.
TriesAreBounded ==
    \A o \in Otps :
        <<o, "expire">> \notin cut =>
            attempts[o] < OtpMaxAttempts + Cardinality(Requests)

\* Of two codes that can be used, the older was created while the request for
\* the newer was between its two statements.
TwoCodesNeedOverlap ==
    \A o, p \in Pending : o < p => o > upTo[p]

\* A code that was accepted has set the flag, unless the flag was cleared
\* since, or the request that accepted it is not done, or has died.
AcceptedCodeEnables ==
    \A o \in Otps :
        status[o] = "VERIFIED" /\ ~enabled =>
            \/ \E r \in Requests : pc[r] = "switch" /\ on[r] = o
            \/ <<o, "switch">> \in cut
            \/ o \in undone
=============================================================================
