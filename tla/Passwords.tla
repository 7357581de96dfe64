----------------------------- MODULE Passwords -----------------------------
(***************************************************************************)
(* The password of one account and its history                             *)
(* (src/src/modules/auth/services/auth.service.ts and                      *)
(* src/src/modules/users/{services,repositories}).                         *)
(*                                                                         *)
(* Three handlers set a password: changePassword of the auth service       *)
(* ("change"), changePassword of the user service ("self"), and            *)
(* resetPassword ("reset"), which works in a transaction that locks the    *)
(* row of its token.  Each is a chain of statements, and another request,  *)
(* or a failure, may come between any two.  Every statement needs a        *)
(* connection of the pool for as long as it runs, a transaction needs one  *)
(* until it ends.                                                          *)
(*                                                                         *)
(* A password stands for its hash: argon2.verify finds them equal just     *)
(* when the passwords are.  All passwords here satisfy validatePassword.   *)
(* The rows of PasswordHistory are numbered in the order of createdAt,     *)
(* which is taken to be the order in which they are created.               *)
(***************************************************************************)
EXTENDS Naturals, Sequences, FiniteSets

CONSTANTS
    Requests,      \* requests that set a password, each handled once
    Tokens,        \* password reset tokens
    Passwords,     \* passwords that satisfy the policy
    Nobody,        \* "no request"
    NoToken,       \* "no token"
    NoPassword,    \* "no password"
    HistoryCount,  \* PASSWORD_POLICY.HISTORY_COUNT
    PoolSize       \* connections of the database pool

ASSUME NullAssumption ==
    /\ Nobody \notin Requests
    /\ NoToken \notin Tokens
    /\ NoPassword \notin Passwords

ASSUME LimitsAssumption ==
    /\ HistoryCount \in Nat \ {0}
    /\ PoolSize \in Nat \ {0}

VARIABLES
    past,   \* the passwords the account has had, each with the request that
            \* set it; the last one is User.passwordHash
    rows,   \* every PasswordHistory row ever created, with its request
    kept,   \* the numbers of those that are still in the table
    token,  \* state of each PasswordResetToken
    pc,     \* per request: what it does next
    kind,   \* per request: its handler
    new,    \* per request: the password it is to set
    via,    \* per request: the reset token it presents
    old,    \* per request: the hash that updatePassword read
    seen,   \* per request: the rows it is about to delete
    since   \* history, per request: rows created when it checked for reuse

memory == <<kind, new, via, old, seen, since>>
vars   == <<past, rows, kept, token, pc, memory>>

InTransaction == {"lock", "screen", "write", "commit"}
HasTokenRow   == {"screen", "write", "commit"}
Over          == {"done", "failed"}
Steps         == {"idle", "check", "reread", "update", "record", "prune", "delete"}
                     \cup InTransaction \cup Over

\* User.passwordHash.
Password == past[Len(past)].pw

\* register saves the first password to the history; createUser does not,
\* and neither does a register that was cut off.
Init ==
    /\ \E p \in Passwords :
          /\ past = <<[pw |-> p, by |-> Nobody]>>
          /\ rows \in {<<>>, <<[pw |-> p, by |-> Nobody]>>}
    /\ kept = 1 .. Len(rows)
    /\ token = [t \in Tokens |-> "none"]
    /\ pc = [r \in Requests |-> "idle"]
    /\ kind = [r \in Requests |-> "none"]
    /\ new = [r \in Requests |-> NoPassword]
    /\ via = [r \in Requests |-> NoToken]
    /\ old = [r \in Requests |-> NoPassword]
    /\ seen = [r \in Requests |-> {}]
    /\ since = [r \in Requests |-> 0]

Goto(r, step) == pc' = [pc EXCEPT ![r] = step]

\* A statement outside a transaction, or a new transaction, needs a
\* connection that no transaction holds.
PoolHasRoom == Cardinality({r \in Requests : pc[r] \in InTransaction}) < PoolSize

\* Another transaction has written the user's row and not committed yet.
UserIsLocked == \E r \in Requests : pc[r] = "commit"

\* orderBy createdAt desc, take n.
Newest(n) == {k \in kept : Cardinality({m \in kept : m > k}) < n}

(***************************************************************************)
(* Checking a new password against the history                             *)
(***************************************************************************)
\* Fault: one row too few.
LatestFew == Newest(HistoryCount - 1)

\* The rows that assertPasswordNotReused compares with.
Latest == Newest(HistoryCount)

Reused(p) == \E k \in Latest : rows[k].pw = p

(***************************************************************************)
(* changePassword, of the auth service and of the user service             *)
(***************************************************************************)
\* verifyPassword of what the request gives as the current password.
Verified(given) == given = Password

\* The user's row is read and the current password verified; otherwise the
\* request is refused and nothing changes.  Only the auth service then
\* insists on another password than the current one.
ReadUser(r, k, given, p) ==
    /\ pc[r] = "idle"
    /\ PoolHasRoom
    /\ Verified(given)
    /\ k = "change" => p # Password
    /\ kind' = [kind EXCEPT ![r] = k]
    /\ new' = [new EXCEPT ![r] = p]
    /\ Goto(r, IF k = "change" THEN "check" ELSE "reread")
    /\ UNCHANGED <<past, rows, kept, token, via, old, seen, since>>

\* assertPasswordNotReused in changePassword.
Check(r) ==
    /\ pc[r] = "check"
    /\ PoolHasRoom
    /\ since' = [since EXCEPT ![r] = Len(rows)]
    /\ Goto(r, IF Reused(new[r]) THEN "failed" ELSE "update")
    /\ UNCHANGED <<past, rows, kept, token, kind, new, via, old, seen>>

\* updatePassword reads the hash that it is to replace.
Reread(r) ==
    /\ pc[r] = "reread"
    /\ PoolHasRoom
    /\ old' = [old EXCEPT ![r] = Password]
    /\ Goto(r, "record")
    /\ UNCHANGED <<past, rows, kept, token, kind, new, via, seen, since>>

Put(r) == past' = Append(past, [pw |-> new[r], by |-> r])

\* user.update, with no condition on what the row holds by now.
Update(r) ==
    /\ pc[r] = "update"
    /\ PoolHasRoom
    /\ ~UserIsLocked
    /\ Put(r)
    /\ Goto(r, IF kind[r] = "change" THEN "record" ELSE "done")
    /\ UNCHANGED <<rows, kept, token, memory>>

(***************************************************************************)
(* requestPasswordReset and resetPassword                                  *)
(***************************************************************************)
\* A token is created; earlier ones stay as they are.
RequestReset(t) ==
    /\ token[t] = "none"
    /\ token' = [token EXCEPT ![t] = "open"]
    /\ UNCHANGED <<past, rows, kept, pc, memory>>

\* The lifetime of a token is over.
Expire(t) ==
    /\ token[t] = "open"
    /\ token' = [token EXCEPT ![t] = "expired"]
    /\ UNCHANGED <<past, rows, kept, pc, memory>>

\* The new password is hashed and the transaction begins.
Begin(r, t, p) ==
    /\ pc[r] = "idle"
    /\ PoolHasRoom
    /\ kind' = [kind EXCEPT ![r] = "reset"]
    /\ new' = [new EXCEPT ![r] = p]
    /\ via' = [via EXCEPT ![r] = t]
    /\ Goto(r, "lock")
    /\ UNCHANGED <<past, rows, kept, token, old, seen, since>>

\* Fault: SELECT without FOR UPDATE.
LockShared(r) ==
    /\ pc[r] = "lock"
    /\ Goto(r, IF token[via[r]] = "open" THEN "screen" ELSE "failed")
    /\ UNCHANGED <<past, rows, kept, token, memory>>

\* SELECT ... FOR UPDATE waits for a transaction that has the row, then reads
\* what that transaction left.
Lock(r) ==
    /\ pc[r] = "lock"
    /\ ~\E q \in Requests : pc[q] \in HasTokenRow /\ via[q] = via[r]
    /\ Goto(r, IF token[via[r]] = "open" THEN "screen" ELSE "failed")
    /\ UNCHANGED <<past, rows, kept, token, memory>>

\* assertPasswordNotReused inside the transaction: it uses the pool, and so
\* a second connection.
Screen(r) ==
    /\ pc[r] = "screen"
    /\ PoolHasRoom
    /\ since' = [since EXCEPT ![r] = Len(rows)]
    /\ Goto(r, IF Reused(new[r]) THEN "failed" ELSE "write")
    /\ UNCHANGED <<past, rows, kept, token, kind, new, via, old, seen>>

\* tx.user.update; nobody else sees it yet.  It also lifts a lock of the
\* account, which LoginGuard models.
Write(r) ==
    /\ pc[r] = "write"
    /\ ~UserIsLocked
    /\ Goto(r, "commit")
    /\ UNCHANGED <<past, rows, kept, token, memory>>

\* tx.passwordResetToken.update, and the transaction commits.
Commit(r) ==
    /\ pc[r] = "commit"
    /\ Put(r)
    /\ token' = [token EXCEPT ![via[r]] = "used"]
    /\ Goto(r, "record")
    /\ UNCHANGED <<rows, kept, memory>>

\* Fault: the transaction is given up only while it has no row locked.
TimeoutEarly(r) ==
    /\ pc[r] = "lock"
    /\ Goto(r, "failed")
    /\ UNCHANGED <<past, rows, kept, token, memory>>

\* Prisma rolls back a transaction that takes too long.
Timeout(r) ==
    /\ pc[r] \in InTransaction
    /\ Goto(r, "failed")
    /\ UNCHANGED <<past, rows, kept, token, memory>>

(***************************************************************************)
(* savePasswordHistory, and the same statements in updatePassword          *)
(***************************************************************************)
\* The auth service saves the new hash, after the change; updatePassword
\* saves the one it is about to replace.
SavedHash(r) == IF kind[r] = "self" THEN old[r] ELSE new[r]

Record(r) ==
    /\ pc[r] = "record"
    /\ PoolHasRoom
    /\ rows' = Append(rows, [pw |-> SavedHash(r), by |-> r])
    /\ kept' = kept \cup {Len(rows) + 1}
    /\ Goto(r, "prune")
    /\ UNCHANGED <<past, token, memory>>

\* Fault: as the comment on updatePassword has it, skip HISTORY_COUNT - 1.
SurplusMany == kept \ Newest(HistoryCount - 1)

\* Fault: one row too many is left.
SurplusFew == kept \ Newest(HistoryCount + 1)

\* orderBy createdAt desc, skip HISTORY_COUNT.
Surplus == kept \ Newest(HistoryCount)

\* What comes after the history is in order.
Leave(r) == Goto(r, IF kind[r] = "self" THEN "update" ELSE "done")

Prune(r) ==
    /\ pc[r] = "prune"
    /\ PoolHasRoom
    /\ seen' = [seen EXCEPT ![r] = Surplus]
    /\ IF Surplus = {} THEN Leave(r) ELSE Goto(r, "delete")
    /\ UNCHANGED <<past, rows, kept, token, kind, new, via, old, since>>

\* deleteMany, of the rows found a moment ago.
Delete(r) ==
    /\ pc[r] = "delete"
    /\ PoolHasRoom
    /\ kept' = kept \ seen[r]
    /\ Leave(r)
    /\ UNCHANGED <<past, rows, token, memory>>

\* A crash, or a statement that fails; a transaction is rolled back.  A
\* request whose transaction has committed may still fail.
Fail(r) ==
    /\ pc[r] \notin Over \cup {"idle"}
    /\ Goto(r, "failed")
    /\ UNCHANGED <<past, rows, kept, token, memory>>

Step(r) ==
    \/ Check(r) \/ Reread(r) \/ Update(r)
    \/ Lock(r) \/ Screen(r) \/ Write(r) \/ Commit(r)
    \/ Record(r) \/ Prune(r) \/ Delete(r)

Next ==
    \/ \E r \in Requests, k \in {"change", "self"}, given, p \in Passwords :
          ReadUser(r, k, given, p)
    \/ \E r \in Requests, t \in Tokens, p \in Passwords : Begin(r, t, p)
    \/ \E r \in Requests : Step(r)
    \/ \E r \in Requests : Timeout(r)
    \/ \E r \in Requests : Fail(r)
    \/ \E t \in Tokens : RequestReset(t)
    \/ \E t \in Tokens : Expire(t)

Spec == Init /\ [][Next]_vars

(***************************************************************************)
(* The event loop and the database serve every request that has started,   *)
(* and a transaction that takes too long is given up.                      *)
(***************************************************************************)
Fairness == \A r \in Requests : WF_vars(Step(r)) /\ WF_vars(Timeout(r))

FairSpec == Spec /\ Fairness

-----------------------------------------------------------------------------
(***************************************************************************)
(* Properties                                                              *)
(***************************************************************************)
Entry == [pw : Passwords, by : Requests \cup {Nobody}]

\* Every variable has its type; rows of the history are never without a hash.
TypeOK ==
    /\ past \in Seq(Entry) /\ past # <<>>
    /\ rows \in Seq(Entry)
    /\ kept \subseteq 1 .. Len(rows)
    /\ token \in [Tokens -> {"none", "open", "used", "expired"}]
    /\ pc \in [Requests -> Steps]
    /\ kind \in [Requests -> {"none", "change", "self", "reset"}]
    /\ new \in [Requests -> Passwords \cup {NoPassword}]
    /\ via \in [Requests -> Tokens \cup {NoToken}]
    /\ old \in [Requests -> Passwords \cup {NoPassword}]
    /\ seen \in [Requests -> SUBSET (1 .. Len(rows))]
    /\ since \in [Requests -> 0 .. Len(rows)]

\* However the clean-ups of concurrent requests interleave, each with a list
\* of rows that may be out of date, the newest HISTORY_COUNT rows are there.
NewestAreKept ==
    \A k \in 1 .. Len(rows) : k + HistoryCount > Len(rows) => k \in kept

\* The request that a row is from has finished its clean-up.
CleanedUp(r) == pc[r] = "done" \/ (kind[r] = "self" /\ pc[r] = "update")

\* A request that finishes its clean-up leaves no row that its own row made
\* surplus, also those that a cut-off request left: the history has at most
\* HISTORY_COUNT rows and one for each request that is not as far or failed.
CleanUpCatchesUp ==
    \A i \in 1 .. Len(rows) :
        (rows[i].by # Nobody /\ CleanedUp(rows[i].by))
            => \A k \in kept : k + HistoryCount > i

SetWith(i, t) == past[i].by # Nobody /\ via[past[i].by] = t

\* A reset token changes the password once at most, and is marked as used if
\* and only if it did, with requests that present it at the same time, fail
\* or time out anywhere.
ResetIsSpentOnce ==
    \A t \in Tokens :
        /\ \A i, j \in 1 .. Len(past) :
              SetWith(i, t) /\ SetWith(j, t) => i = j
        /\ token[t] = "used" <=> \E i \in 1 .. Len(past) : SetWith(i, t)

\* changePassword of the auth service and resetPassword never set a password
\* that was among the HISTORY_COUNT newest rows ever created when they
\* looked: a repetition takes a row created after that, or one that aged.
ReuseNeedsRace ==
    \A j \in 1 .. Len(past) :
        LET r == past[j].by IN
        (r # Nobody /\ kind[r] \in {"change", "reset"}) =>
            \A i \in 1 .. since[r] :
                i + HistoryCount > since[r] => rows[i].pw # past[j].pw

\* No request is stuck: as many resets as there are connections, each of
\* which waits for another one, or for the token of another, all end.
EveryRequestEnds ==
    \A r \in Requests : pc[r] # "idle" ~> pc[r] \in Over
=============================================================================
