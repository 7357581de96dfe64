------------------------------ MODULE Sessions ------------------------------
(***************************************************************************)
(* Refresh tokens and sessions of AuthService                              *)
(* (src/src/modules/auth/services/auth.service.ts):                        *)
(* issueTokensAndSession, refreshAccessToken, logout, and the account      *)
(* switches of UserRepository they look at.                                *)
(*                                                                         *)
(* Requests run concurrently in one or more Node processes.  Every "await" *)
(* on the database is a point where other requests run, so a handler is a  *)
(* sequence of actions, one per database transaction or statement, and     *)
(* pc[r] says which one request r performs next.  A process may die, a     *)
(* statement may fail, or the connection may drop between any two of them. *)
(*                                                                         *)
(* A refresh token is a JWT over {userId, tokenVersion, iat}, iat in whole *)
(* seconds, and the tables are keyed by its SHA-256 hash.  Two tokens with *)
(* equal payloads are the same string, so the record below IS the hash.    *)
(***************************************************************************)
EXTENDS Naturals, FiniteSets

CONSTANTS
    Users,       \* blocked
    Requests,    \* HTTP requests that may be in flight at the same time
    NoHash,      \* "no refresh token"
    Lifetime,    \* life of a refresh token, in ticks of the clock
    MaxTime,     \* bound: last second of the model
    MaxVersion   \* bound: highest tokenVersion issued

ASSUME BoundsAssumption ==
    /\ Lifetime \in Nat
    /\ MaxTime \in Nat
    /\ MaxVersion \in Nat \ {0}

Time == 0 .. MaxTime
Hash == [user : Users, ver : 1 .. MaxVersion, iat : Time]

ASSUME NoHashAssumption == NoHash \notin Hash

VARIABLES
    now,         \* the clock, in seconds
    blocked,     \* users with status = false or isAccountLocked = true
    tokens,      \* RefreshToken rows, each with its Session row
    revoked,     \* tokens with revokedAt set
    rotated,     \* tokens with rotatedAt set
    active,      \* tokens whose Session has status ACTIVE (else LOGGED_OUT)
    client,      \* tokens that reached a client
    pc,          \* per request: the step it performs next
    old,         \* per request: the hash it was called with, or NoHash
    fresh,       \* per request: the hash it has minted, or NoHash
    origin,      \* history: the token of the login a token descends from
    interrupted  \* history: tokens whose refresh or logout ended half-way

tables   == <<tokens, revoked, rotated, active>>
handlers == <<pc, old, fresh>>
history  == <<origin, interrupted>>
vars     == <<now, blocked, tables, client, handlers, history>>

Live      == tokens \ revoked
Expiry(h) == h.iat + Lifetime
Idle(r)   == pc[r] = "idle"

\* Fault: the account checks are forgotten.
AnyUser(u) == TRUE

\* "!user.status" and "user.isAccountLocked" both pass.
MayUse(u) == u \notin blocked

\* r has revoked the token it was given and has not yet issued the next one.
Carrying(r) == pc[r] \in {"load", "issue"} /\ old[r] # NoHash

\* The tokens of one login: the one it issued and all that descend from it.
SameLogin(a, b) == origin[a] = origin[b]

Init ==
    /\ now = 0
    /\ blocked = {}
    /\ tokens = {} /\ revoked = {} /\ rotated = {} /\ active = {}
    /\ client = {}
    /\ pc = [r \in Requests |-> "idle"]
    /\ old = [r \in Requests |-> NoHash]
    /\ fresh = [r \in Requests |-> NoHash]
    /\ origin = [h \in Hash |-> NoHash]
    /\ interrupted = {}

(***************************************************************************)
(* Bookkeeping of a request.                                               *)
(***************************************************************************)
Goto(r, step) == pc' = [pc EXCEPT ![r] = step]

\* The handler returns or throws: nothing of it is left in memory.
Finish(r) ==
    /\ pc' = [pc EXCEPT ![r] = "idle"]
    /\ old' = [old EXCEPT ![r] = NoHash]
    /\ fresh' = [fresh EXCEPT ![r] = NoHash]

Interrupt(h) == interrupted' = interrupted \cup ({h} \ {NoHash})

(***************************************************************************)
(* login and verifyLoginOtp, from the user row they read to the token they *)
(* mint.  The checks on password, lockout and second factor in between do  *)
(* not touch these tables.                                                 *)
(***************************************************************************)
Login(r, u) ==
    /\ Idle(r)
    /\ MayUse(u)
    /\ Goto(r, "issue")
    /\ fresh' = [fresh EXCEPT ![r] = [user |-> u, ver |-> 1, iat |-> now]]
    /\ UNCHANGED <<now, blocked, tables, client, old, history>>

(***************************************************************************)
(* refreshAccessToken                                                      *)
(***************************************************************************)
\* The JWT's signature and exp are good; the handler queues for the row lock.
Refresh(r, h) ==
    /\ Idle(r)
    /\ h \in client
    /\ now < Expiry(h)
    /\ h.ver < MaxVersion
    /\ Goto(r, "rotate")
    /\ old' = [old EXCEPT ![r] = h]
    /\ UNCHANGED <<now, blocked, tables, client, fresh, history>>

\* Fault: the row is not read again under its lock.
NotExpired(h) == now <= Expiry(h)

\* What the locked row must say: there, not revoked, not expired.
Rotatable(h) == h \in Live /\ now <= Expiry(h)

\* Fault: rotatedAt is set and revokedAt is not.
RotateUnrevoked(r) ==
    /\ pc[r] = "rotate"
    /\ Rotatable(old[r])
    /\ rotated' = rotated \cup {old[r]}
    /\ Goto(r, "load")
    /\ UNCHANGED <<now, blocked, tokens, revoked, active, client, old, fresh, history>>

\* Fault: the token is revoked as if by logout.
RotateUnmarked(r) ==
    /\ pc[r] = "rotate"
    /\ Rotatable(old[r])
    /\ revoked' = revoked \cup {old[r]}
    /\ Goto(r, "load")
    /\ UNCHANGED <<now, blocked, tokens, rotated, active, client, old, fresh, history>>

\* The first transaction, under SELECT ... FOR UPDATE: revoke, or throw.
Rotate(r) ==
    /\ pc[r] = "rotate"
    /\ \/ /\ Rotatable(old[r])
          /\ revoked' = revoked \cup {old[r]}
          /\ rotated' = rotated \cup {old[r]}
          /\ Goto(r, "load")
          /\ UNCHANGED <<old, fresh>>
       \/ /\ ~ Rotatable(old[r])
          /\ Finish(r)
          /\ UNCHANGED <<revoked, rotated>>
    /\ UNCHANGED <<now, blocked, tokens, active, client, history>>

\* Fault: a blocked account neither throws nor goes on.
LoadWaiting(r) ==
    /\ pc[r] = "load"
    /\ MayUse(old[r].user)
    /\ fresh' = [fresh EXCEPT ![r] =
           [user |-> old[r].user, ver |-> old[r].ver + 1, iat |-> now]]
    /\ Goto(r, "issue")
    /\ UNCHANGED <<now, blocked, tables, client, old, history>>

\* Read the user; throw, or mint the next version in the same turn.
Load(r) ==
    /\ pc[r] = "load"
    /\ \/ /\ MayUse(old[r].user)
          /\ fresh' = [fresh EXCEPT ![r] =
                 [user |-> old[r].user, ver |-> old[r].ver + 1, iat |-> now]]
          /\ Goto(r, "issue")
          /\ UNCHANGED <<old, interrupted>>
       \/ /\ ~ MayUse(old[r].user)
          /\ Finish(r)
          /\ Interrupt(old[r])
    /\ UNCHANGED <<now, blocked, tables, client, origin>>

(***************************************************************************)
(* issueTokensAndSession: one transaction.  tokenHash is unique, so it is  *)
(* rolled back as a whole when the minted token already has a row.         *)
(***************************************************************************)
\* Fault: the previous session is not ended.
SessionsKept(prev, new) == active \cup {new}

\* The previous session is logged out, the new one created ACTIVE.
SessionsAfter(prev, new) == (active \ {prev}) \cup {new}

Issue(r) ==
    /\ pc[r] = "issue"
    /\ \/ /\ fresh[r] \notin tokens
          /\ tokens' = tokens \cup {fresh[r]}
          /\ active' = SessionsAfter(old[r], fresh[r])
          /\ revoked' = revoked \cup ({old[r]} \ {NoHash})
          /\ rotated' = rotated \cup ({old[r]} \ (revoked \cup {NoHash}))
          /\ origin' = [origin EXCEPT ![fresh[r]] =
                 IF old[r] = NoHash THEN fresh[r] ELSE origin[old[r]]]
          /\ Goto(r, "reply")
          /\ UNCHANGED <<old, fresh, interrupted>>
       \/ /\ fresh[r] \in tokens
          /\ Finish(r)
          /\ Interrupt(old[r])
          /\ UNCHANGED <<tables, origin>>
    /\ UNCHANGED <<now, blocked, client>>

\* The response with the new cookie arrives.
Reply(r) ==
    /\ pc[r] = "reply"
    /\ client' = client \cup {fresh[r]}
    /\ Finish(r)
    /\ UNCHANGED <<now, blocked, tables, history>>

(***************************************************************************)
(* logout: three statements, in no transaction.                            *)
(***************************************************************************)
\* Fault: the session is ended and the token keeps working.
LogoutSessionFirst(r, h) ==
    /\ Idle(r)
    /\ h \in client
    /\ active' = active \ {h}
    /\ UNCHANGED <<now, blocked, tokens, revoked, rotated, client, handlers, history>>

\* Fault: the session is forgotten.
LogoutTokenOnly(r, h) ==
    /\ Idle(r)
    /\ h \in client
    /\ revoked' = revoked \cup {h}
    /\ UNCHANGED <<now, blocked, tokens, rotated, active, client, handlers, history>>

LogoutRevoke(r, h) ==
    /\ Idle(r)
    /\ h \in client
    /\ revoked' = revoked \cup {h}
    /\ Goto(r, "find")
    /\ old' = [old EXCEPT ![r] = h]
    /\ UNCHANGED <<now, blocked, tokens, rotated, active, client, fresh, history>>

LogoutFind(r) ==
    /\ pc[r] = "find"
    /\ \/ /\ old[r] \in active
          /\ Goto(r, "end")
          /\ UNCHANGED <<old, fresh>>
       \/ /\ old[r] \notin active
          /\ Finish(r)
    /\ UNCHANGED <<now, blocked, tables, client, history>>

LogoutEnd(r) ==
    /\ pc[r] = "end"
    /\ active' = active \ {old[r]}
    /\ Finish(r)
    /\ UNCHANGED <<now, blocked, tokens, revoked, rotated, client, history>>

(***************************************************************************)
(* The process dies, a statement fails or the response is lost.  What is   *)
(* committed stays; what the request still had to do is never done.        *)
(***************************************************************************)
Fail(r) ==
    /\ ~ Idle(r)
    /\ Finish(r)
    /\ IF pc[r] \in {"load", "issue", "find", "end"}
         THEN Interrupt(old[r])
         ELSE UNCHANGED interrupted
    /\ UNCHANGED <<now, blocked, tables, client, origin>>

(***************************************************************************)
(* An account is blocked by the lockout of login, POST /users/:id/lock,    *)
(* DELETE /users/:id or a status of false, and put back by the inverse of  *)
(* the last two.  The handlers above treat the two flags alike.            *)
(***************************************************************************)
Block(u) ==
    /\ blocked' = blocked \cup {u}
    /\ UNCHANGED <<now, tables, client, handlers, history>>

Unblock(u) ==
    /\ blocked' = blocked \ {u}
    /\ UNCHANGED <<now, tables, client, handlers, history>>

Tick ==
    /\ now < MaxTime
    /\ now' = now + 1
    /\ UNCHANGED <<blocked, tables, client, handlers, history>>

Step(r) == Rotate(r) \/ Load(r) \/ Issue(r) \/ Reply(r) \/ LogoutFind(r) \/ LogoutEnd(r)

Next ==
    \/ \E r \in Requests, u \in Users : Login(r, u)
    \/ \E r \in Requests, h \in Hash : Refresh(r, h)
    \/ \E r \in Requests, h \in Hash : LogoutRevoke(r, h)
    \/ \E r \in Requests : Rotate(r)
    \/ \E r \in Requests : Load(r)
    \/ \E r \in Requests : Issue(r)
    \/ \E r \in Requests : Reply(r)
    \/ \E r \in Requests : LogoutFind(r)
    \/ \E r \in Requests : LogoutEnd(r)
    \/ \E r \in Requests : Fail(r)
    \/ \E u \in Users : Block(u)
    \/ \E u \in Users : Unblock(u)
    \/ Tick

Spec == Init /\ [][Next]_vars

(***************************************************************************)
(* The event loop and the database serve every request that has started;   *)
(* nothing forces a client to send one, a clock to tick or a process to    *)
(* fail.                                                                   *)
(***************************************************************************)
Fairness == \A r \in Requests : WF_vars(Step(r))

FairSpec == Spec /\ Fairness

-----------------------------------------------------------------------------
(***************************************************************************)
(* Properties                                                              *)
(***************************************************************************)
\* Every variable has its type, and every row refers to rows that exist.
TypeOK ==
    /\ now \in Time
    /\ blocked \subseteq Users
    /\ tokens \subseteq Hash
    /\ revoked \subseteq tokens /\ rotated \subseteq revoked
    /\ active \subseteq tokens /\ client \subseteq tokens
    /\ pc \in [Requests -> {"idle", "rotate", "load", "issue", "reply", "find", "end"}]
    /\ old \in [Requests -> Hash \cup {NoHash}]
    /\ fresh \in [Requests -> Hash \cup {NoHash}]
    /\ origin \in [Hash -> Hash \cup {NoHash}]
    /\ interrupted \subseteq Hash

\* Rotation gives a login one refresh token that works, never two, however
\* many refreshes of it run at once (the race refreshAccessToken's row lock
\* is there to close).
OneLiveTokenPerLogin ==
    \A a, b \in Live : SameLogin(a, b) => a = b

\* A token is exchanged for a successor at most once, counting the successors
\* already revoked: the versions of a login form a chain and never fork.
ChainNeverForks ==
    \A a, b \in tokens : SameLogin(a, b) /\ a.ver = b.ver => a = b

\* At most one Session row of a login is ACTIVE, although the transaction
\* that ends the old one is not the one that revokes its token.
OneActiveSessionPerLogin ==
    \A a, b \in active : SameLogin(a, b) => a = b

\* Nobody holds a refresh token that works while its session is recorded as
\* ended: neither rotation nor logout ends the session first.
LiveTokenHasActiveSession == Live \subseteq active

\* A session that is still ACTIVE although its token is revoked belongs to a
\* refresh or logout now under way, or to one that was cut off in the middle:
\* no interleaving of complete requests leaves one behind.
OrphanOnlyIfInterrupted ==
    \A h \in active \cap revoked :
        \/ h \in interrupted
        \/ \E r \in Requests : old[r] = h /\ pc[r] \in {"load", "issue", "find", "end"}

\* Nothing of the login works, and no refresh of it is under way.
DeadLogin(a) ==
    /\ \A b \in Live : ~ SameLogin(a, b)
    /\ \A r \in Requests : Carrying(r) => ~ SameLogin(a, old[r])

\* A dead login is over for good: no later step issues a token that descends
\* from it, whatever late or repeated requests still present its tokens.
DeadLoginStaysDead ==
    [][\A a \in tokens : DeadLogin(a) => DeadLogin(a)']_vars

\* A logout that revoked the token itself, rather than find it consumed by a
\* refresh, has ended the login: nothing of it works or will work.
LogoutEndsLogin == \A h \in revoked \ rotated : DeadLogin(h)

\* The account is blocked, and no request that read its row before is left.
ShutOut(u) ==
    /\ u \in blocked
    /\ \A r \in Requests : pc[r] = "issue" => fresh[r].user # u

\* Blocking an account stops its tokens late but for good: once the requests
\* that had read its row before are done, it gets no token until unblocked,
\* not even by a refresh that had already consumed the previous one.
NoTokenForBlockedUser ==
    [][\A u \in Users :
          ShutOut(u) =>
              /\ \A h \in tokens' \ tokens : h.user # u
              /\ u \in blocked' => ShutOut(u)']_vars

\* Every refresh that consumed a token comes to an end: its successor exists,
\* or the refresh was cut off and the token is lost.
RotationResolves ==
    \A h \in Hash :
        h \in rotated ~>
            \/ h \in interrupted
            \/ \E b \in tokens : SameLogin(h, b) /\ b.ver = h.ver + 1

(***************************************************************************)
(* The promise to a client, and where tokens and requests show how far a   *)
(* login is.                                                               *)
(***************************************************************************)
Works(l)   == \E h \in Live : origin[h] = l
Between(l) == \E r \in Requests : Carrying(r) /\ origin[old[r]] = l

VersionsOf(l) == {h.ver : h \in {t \in tokens : origin[t] = l}}

PhaseOf(l) ==
    IF Works(l) THEN "works"
    ELSE IF Between(l) THEN "between"
    ELSE IF VersionsOf(l) # {} THEN "over"
    ELSE "none"

Contract == INSTANCE RefreshContract WITH
    Logins   <- Hash,
    phase    <- [l \in Hash |-> PhaseOf(l)],
    versions <- [l \in Hash |-> VersionsOf(l)]

\* To its client, a login with its tokens, sessions, requests, races and
\* failures is one that works, is between two tokens, or is over: every step
\* is one of RefreshContract or goes unnoticed.
ImplementsContract == Contract!Spec

(***************************************************************************)
(* What the code answers, and its steps do not keep.                       *)
(***************************************************************************)
\* "Logged out successfully": when logout returns, no token of the login
\* works and no refresh of it is under way.
LogoutIsFinal ==
    [][\A r \in Requests, h \in Hash :
          /\ LogoutFind(r) \/ LogoutEnd(r)
          /\ old[r] = h /\ pc'[r] = "idle"
          => DeadLogin(h)']_vars
=============================================================================
