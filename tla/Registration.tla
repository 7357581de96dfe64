---------------------------- MODULE Registration ----------------------------
(***************************************************************************)
(* How accounts come to be, and how their address is verified              *)
(* (register and verifyEmail in src/src/modules/auth/services/             *)
(* auth.service.ts, createUser and verifyEmail in                          *)
(* src/src/modules/users/services/user.service.ts), in a database that the *)
(* seed script may be filling at the same time (Seed).                     *)
(*                                                                         *)
(* None of these handlers has a transaction: each is a chain of statements *)
(* with other requests, and failures, between any two.  An account is the  *)
(* User row that a request creates; its password history and its           *)
(* verification token are rows that go with it.  The addresses are none of *)
(* those that the seed script uses.                                        *)
(***************************************************************************)
EXTENDS Seed

CONSTANTS
    Visits,    \* requests that follow the link in a verification e-mail
    Customer   \* the key of the role that register gives

ASSUME CustomerAssumption == Customer \in 1 .. Rows

VARIABLES
    pc,        \* per request: what it does next
    kind,      \* per request: "register", or "create" by an administrator
    email,     \* per request: the address
    role,      \* per request: the role it gives, as it has found it
    history,   \* accounts with a row in PasswordHistory
    token,     \* per account: its EmailVerificationToken
    verified,  \* accounts whose isEmailVerified is set
    visit,     \* per visit: what it does next
    on,        \* per visit: the account of its token
    wiped,     \* history: accounts that the seed script deleted
    selfmade   \* history: accounts that set isEmailVerified themselves

requests == <<pc, kind, email, role>>
records  == <<history, token, verified>>
visits   == <<visit, on>>
vars     == <<tables, seeds, requests, records, visits, wiped, selfmade>>

Init ==
    /\ SeedInit
    /\ pc = [r \in Requests |-> "idle"]
    /\ kind = [r \in Requests |-> "none"]
    /\ email = [r \in Requests |-> Absent]
    /\ role = [r \in Requests |-> Absent]
    /\ history = {}
    /\ token = [r \in Requests |-> "none"]
    /\ verified = {}
    /\ visit = [v \in Visits |-> "idle"]
    /\ on = [v \in Visits |-> Absent]
    /\ wiped = {}
    /\ selfmade = {}

Goto(r, to) == pc' = [pc EXCEPT ![r] = to]

\* The account of request r is in the table.
Exists(r) == \E a \in Addresses : account[a] = r

(***************************************************************************)
(* register, and createUser of the user service                            *)
(***************************************************************************)
\* emailExists says no; otherwise the request is refused.  The role of
\* createUser is in the request, as the administrator has seen it.
Ask(r, k, a) ==
    /\ pc[r] = "idle"
    /\ account[a] = Absent
    /\ kind' = [kind EXCEPT ![r] = k]
    /\ email' = [email EXCEPT ![r] = a]
    /\ IF k = "register"
         THEN role' = role /\ Goto(r, "role")
         ELSE role' = [role EXCEPT ![r] = row["role"][Customer]] /\ Goto(r, "user")
    /\ UNCHANGED <<tables, seeds, records, visits, wiped, selfmade>>

\* The default role, if it is configured.
FindRole(r) ==
    /\ pc[r] = "role"
    /\ role' = [role EXCEPT ![r] = row["role"][Customer]]
    /\ Goto(r, IF row["role"][Customer] = Absent THEN "failed" ELSE "user")
    /\ UNCHANGED <<tables, seeds, kind, email, records, visits, wiped, selfmade>>

\* Fault: User.email is not unique.
RoleIsThere(r) == role[r] # Absent /\ row["role"][Customer] = role[r]

\* User.email is unique, and the role is referred to by its id.
MayInsert(r) ==
    /\ account[email[r]] = Absent
    /\ role[r] # Absent
    /\ row["role"][Customer] = role[r]

CreateUser(r) ==
    /\ pc[r] = "user"
    /\ MayInsert(r)
    /\ account' = [account EXCEPT ![email[r]] = r]
    /\ alone' = {}
    /\ Goto(r, IF kind[r] = "register" THEN "history" ELSE "done")
    /\ UNCHANGED <<row, step, landed, got, outcome, kind, email, role>>
    /\ UNCHANGED <<records, visits, wiped, selfmade>>

\* savePasswordHistory; without the User row it fails.
SaveHistory(r) ==
    /\ pc[r] = "history"
    /\ Exists(r)
    /\ history' = history \cup {r}
    /\ Goto(r, "token")
    /\ UNCHANGED <<tables, seeds, kind, email, role, token, verified, visits>>
    /\ UNCHANGED <<wiped, selfmade>>

\* createEmailVerificationToken, and the answer; the e-mail is queued.
SaveToken(r) ==
    /\ pc[r] = "token"
    /\ Exists(r)
    /\ token' = [token EXCEPT ![r] = "open"]
    /\ Goto(r, "done")
    /\ UNCHANGED <<tables, seeds, kind, email, role, history, verified, visits>>
    /\ UNCHANGED <<wiped, selfmade>>

\* A statement fails, or the process dies.
Fail(r) ==
    /\ pc[r] \in {"role", "user", "history", "token"}
    /\ Goto(r, "failed")
    /\ UNCHANGED <<tables, seeds, kind, email, role, records, visits, wiped, selfmade>>

(***************************************************************************)
(* verifyEmail                                                             *)
(***************************************************************************)
\* The lifetime of a token is over.
Expire(r) ==
    /\ token[r] = "open"
    /\ token' = [token EXCEPT ![r] = "expired"]
    /\ UNCHANGED <<tables, seeds, requests, history, verified, visits, wiped, selfmade>>

\* findValidEmailVerificationToken.
Find(v, r) ==
    /\ visit[v] = "idle"
    /\ token[r] = "open"
    /\ visit' = [visit EXCEPT ![v] = "mark"]
    /\ on' = [on EXCEPT ![v] = r]
    /\ UNCHANGED <<tables, seeds, requests, records, wiped, selfmade>>

\* Fault: the visit ends with the token.
MarkOnly(v) ==
    /\ visit[v] = "mark"
    /\ token[on[v]] # "none"
    /\ token' = [token EXCEPT ![on[v]] = "used"]
    /\ visit' = [visit EXCEPT ![v] = "done"]
    /\ UNCHANGED <<tables, seeds, requests, history, verified, on, wiped, selfmade>>

\* Fault: isEmailVerified is set first, and the token marked later.
MarkLater(v) ==
    /\ visit[v] = "mark"
    /\ visit' = [visit EXCEPT ![v] = "confirm"]
    /\ UNCHANGED <<tables, seeds, requests, records, on, wiped, selfmade>>

\* markEmailVerificationTokenAsUsed, whatever became of the token, as long
\* as its row is there.
Mark(v) ==
    /\ visit[v] = "mark"
    /\ token[on[v]] # "none"
    /\ token' = [token EXCEPT ![on[v]] = "used"]
    /\ visit' = [visit EXCEPT ![v] = "confirm"]
    /\ UNCHANGED <<tables, seeds, requests, history, verified, on, wiped, selfmade>>

\* verifyUserEmail.
Confirm(v) ==
    /\ visit[v] = "confirm"
    /\ Exists(on[v])
    /\ verified' = verified \cup {on[v]}
    /\ visit' = [visit EXCEPT ![v] = "done"]
    /\ UNCHANGED <<tables, seeds, requests, history, token, on, wiped, selfmade>>

VisitFails(v) ==
    /\ visit[v] \in {"mark", "confirm"}
    /\ visit' = [visit EXCEPT ![v] = "failed"]
    /\ UNCHANGED <<tables, seeds, requests, records, on, wiped, selfmade>>

\* POST /users/me/verify-email sets isEmailVerified of whoever is logged in.
VerifyOneself(r) ==
    /\ Exists(r)
    /\ verified' = verified \cup {r}
    /\ selfmade' = selfmade \cup {r}
    /\ UNCHANGED <<tables, seeds, requests, history, token, visits, wiped>>

(***************************************************************************)
(* The seed script, and what goes with the accounts that it deletes        *)
(***************************************************************************)
Gone == {r \in Requests : Exists(r) /\ ~Exists(r)'}

Seeding(s) ==
    /\ SeedStep(s)
    /\ wiped' = wiped \cup Gone
    /\ history' = history \ Gone
    /\ verified' = verified \ Gone
    /\ token' = [r \in Requests |-> IF r \in Gone THEN "none" ELSE token[r]]
    /\ UNCHANGED <<requests, visits, selfmade>>

Next ==
    \/ \E s \in Seeders : Seeding(s)
    \/ \E r \in Requests, k \in {"register", "create"}, a \in Addresses : Ask(r, k, a)
    \/ \E r \in Requests : FindRole(r) \/ CreateUser(r) \/ SaveHistory(r)
    \/ \E r \in Requests : SaveToken(r) \/ Fail(r) \/ Expire(r) \/ VerifyOneself(r)
    \/ \E v \in Visits, r \in Requests : Find(v, r)
    \/ \E v \in Visits : Mark(v) \/ Confirm(v) \/ VisitFails(v)

Spec == Init /\ [][Next]_vars

-----------------------------------------------------------------------------
(***************************************************************************)
(* Properties                                                              *)
(***************************************************************************)
\* Every variable has its type.
TypeOK ==
    /\ SeedTypeOK
    /\ pc \in [Requests -> {"idle", "role", "user", "history", "token", "done", "failed"}]
    /\ kind \in [Requests -> {"none", "register", "create"}]
    /\ email \in [Requests -> Addresses \cup {Absent}]
    /\ role \in [Requests -> Seeders \cup {Absent}]
    /\ history \subseteq Requests /\ verified \subseteq Requests
    /\ token \in [Requests -> {"none", "open", "used", "expired"}]
    /\ visit \in [Visits -> {"idle", "mark", "confirm", "done", "failed"}]
    /\ on \in [Visits -> Requests \cup {Absent}]
    /\ wiped \subseteq Requests /\ selfmade \subseteq Requests

\* A request that reported success has its account, and all that goes with
\* it, until a seed script deletes it: no other request gets the address,
\* and only a request that was cut off, or is at work, leaves parts out.
SuccessIsWhole ==
    \A r \in Requests :
        pc[r] = "done" /\ r \notin wiped =>
            /\ account[email[r]] = r
            /\ kind[r] = "register" => r \in history /\ token[r] # "none"

\* Whenever the seed script runs, no account is left without its role.
AccountHasRole ==
    \A a \in Addresses :
        account[a] # Absent => row["role"][Customer] = role[account[a]]

\* A token is used up without its account being verified only while, or
\* because, a visit that marked it has not set isEmailVerified.
UsedMeansVerified ==
    \A r \in Requests :
        token[r] = "used" /\ r \notin verified =>
            \E v \in Visits : on[v] = r /\ visit[v] \in {"confirm", "failed"}

\* An account is verified because its token was used up, or because it said
\* so itself: no token that verified an account can be used again later.
VerifiedHasCause ==
    \A r \in verified : token[r] = "used" \/ r \in selfmade
=============================================================================
