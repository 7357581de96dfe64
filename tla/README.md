# Verification of the authentication backend

TLA+ models, model-checking configurations and machine-checked proofs for the
authentication backend in this repository (Express, Prisma/PostgreSQL, BullMQ,
SendGrid). Paths below are relative to `src/src/` unless they say otherwise.

## 1. Inventory

| Part | State it keeps | Operations | Hard behaviour |
|---|---|---|---|
| Refresh tokens and sessions (`modules/auth/services/auth.service.ts`, `.../auth.repository.ts`, `.../auth.controller.ts`) | `RefreshToken`, `Session` rows; the client's cookie | `login`/`verifyLoginOtp` (issuing), `refreshAccessToken`, `issueTokensAndSession`, `logout` | two refreshes of one token; a refresh in two transactions with a read between them; logout in three statements; lost responses; crashes; blocked accounts; expiry at the boundary; equal JWTs |
| Login, lockout, one-time codes (same files) | `User.failedLoginAttempts`, `isAccountLocked`, `is2FAEnabled`; `OTPRequest`; `Device.isTrusted` | `login`, `verifyLoginOtp`, `createOtpRequest`, lock and unlock | decisions on a stale copy of the user row; count and lock apart; a rollback that undoes the counters; codes submitted twice |
| Two-factor setup (same files) | `OTPRequest` of type `TWO_FACTOR`, `is2FAEnabled` | `enableTwoFactor`, `verifyTwoFactorOtp`, `disableTwoFactor` | voiding and creating codes, counting and expiring, marking and switching are each two statements |
| Passwords | `passwordHash`, `PasswordHistory`, `PasswordResetToken` | `changePassword` (auth and users), `requestPasswordReset`, `resetPassword`, `savePasswordHistory` | lost update; history written after the change; a transaction that asks the pool for a second connection |
| Registration and verification | `User`, `PasswordHistory`, `EmailVerificationToken` | `register`, `verifyEmail`, `createUser` | check-then-create; cut off half-way; a token used twice; a role that is deleted meanwhile |
| Seed script (`../prisma/seed.ts`) | the tables it fills | `clearDatabase`, `seedCountriesAndCurrencies`, ... `seedSystemSettings` | no transaction; runs that overlap, fail half-way and are repeated; statements that outlive their run |
| User administration (`modules/users`) | `User` | profile, lock, unlock, delete, 2FA flag | changes what the handlers above have already read |
| Access guards (`core/middlewares`) | none | JWT check, role and permission check | permissions as old as the token |
| E-mail queue and worker (`infrastructure/email`, `infrastructure/queue`) | BullMQ jobs in Redis, `EmailLog` | add, `processEmailJob`, log, complete, retry | locks that run out under a live worker; crash after send; errors returned as results |
| SendGrid webhooks (`modules/webhooks`, `infrastructure/lock`) | `EmailLog`, `EmailBounce`, Redlock keys | `handleSendGridEvent`, `processEvent` and its handlers | repeated delivery; a lock that expires under its handler; an answer before the work; events before the row they are about |
| Lifecycle (`index.ts`) | server, worker, database connection | start, graceful and forced shutdown | a second signal; work still running |
| Templates, configuration, constants, errors, logger, currencies, legacy `email.service.ts` | none that changes | | |

How they interact. Controllers call the services; the services share the
PostgreSQL tables and nothing else, since processes may be many. `login` and
`verifyLoginOtp` end in `issueTokensAndSession`, which is where `LoginGuard`
stops and `Sessions` starts. User administration changes the `User` row that
handlers of all the others read before an `await` and use after it; the seed
script deletes it. Every handler adds e-mails to the queue without waiting
(`void EmailQueueManager...`); the worker drains it and writes `EmailLog`, which
the webhooks update. A shutdown waits for requests and e-mail jobs, and for
none of the work that handlers leave behind.

What makes the parts correct:

* **Sessions**: rotation yields one refresh token per login that works; a token
  is exchanged once; a login that is over stays over; the session rows agree
  with the tokens, except where a request was cut off; a blocked account gets
  no tokens. To a client, a login works, is between two tokens, or is over.
* **Login guard**: the limit on wrong passwords locks the account; one code
  opens one session, and that code stays verified; two-factor authentication
  holds from the moment it takes effect.
* **Two-factor setup**: a code takes a bounded number of wrong tries; asking for
  a code voids the earlier ones; an accepted code switches the factor on.
* **Passwords**: a reset token changes one password; the newest rows of the
  history survive concurrent clean-ups and the others do not pile up; a password
  that was checked for reuse is repeated only by a race; every request ends
  although resets wait on each other for connections.
* **Registration**: a request that reports success leaves a whole account, which
  keeps its role; an account is verified for a reason, and only once per token.
* **Seed**: it can be repeated whatever an earlier run left, and runs that all
  report success leave a complete database.
* **E-mail**: every job ends; copies of a message are explained by lost locks;
  the log never shows what was not sent.
* **Webhooks**: copies of an event are handled one at a time while locks last; an
  event is dropped as a duplicate only for an event of the same id that had the
  lock, or after a lost reply of Redis; the tables show nothing that no event
  reported, and what they miss has a known cause.
* **Lifecycle**: an exit with status 0 cuts off no request and no e-mail job, and
  a signalled process ends.

## 2. Modules

| Module | Models | Extends |
|---|---|---|
| `RefreshContract` | what the service promises of a login, without tables | |
| `Sessions`, `SessionsProofs` | refresh tokens and sessions; implements `RefreshContract` | |
| `LoginGuard`, `LoginGuardProofs` | login, lockout, one-time codes of one account | |
| `TwoFactor`, `TwoFactorProofs` | setup of the second factor of one account | |
| `Passwords`, `PasswordsProofs` | password, history and reset tokens of one account, connection pool | |
| `Seed` | the seed script | |
| `Registration`, `RegistrationProofs` | new accounts and their verification, together with the seed script; the proofs of both | `Seed` |
| `EmailDelivery`, `EmailDeliveryProofs` | queue, worker slots, SendGrid's answers, `EmailLog` | |
| `MailContract` | what the worker and the webhooks agree on: accepted first, logged after | |
| `Webhooks`, `WebhooksProofs` | delivery events, Redlock, processes, rows of `EmailLog` as events meet them | |
| `Lifecycle`, `LifecycleProofs` | start and end of the processes | |
| `MC...` | the module of that name for TLC: symmetry, values of constants | that module |

In the modules of handlers, an asynchronous handler is a sequence of actions,
one per database transaction, statement or outside call, and `pc` holds what a
request (or worker slot, or task) performs next. Between two actions anything
else may happen, which is what an `await` allows, in one process and in several.
What the handler remembers (`old`, `fresh`, `snap`, `via`, `task`, `on`, `role`)
is of no use once it has returned, thrown or died. A transaction is one action:
PostgreSQL commits it as a whole, and where the code takes a row lock (`SELECT
... FOR UPDATE`), the read and the write it guards are in that one action.

Operators whose comment begins with "Fault" are not part of any specification.
Each is a variant of the operator after it with a plausible mistake, kept to
show that the properties notice it.

### Sessions

| Code | Action |
|---|---|
| `login`, `verifyLoginOtp`: user row read and checked, token minted | `Login` |
| `refreshAccessToken`: JWT verified; locked row checked and revoked; user read and checked, token minted | `Refresh`; `Rotate`; `Load` |
| `issueTokensAndSession`: its transaction | `Issue` |
| the response with the cookie | `Reply` |
| `logout`: `revokeRefreshToken`; `findSessionByTokenHash`; `invalidateSession` | `LogoutRevoke`; `LogoutFind`; `LogoutEnd` |
| crash, failed statement, lost response | `Fail` |
| lock, deactivation, deletion of a user and the reverse | `Block`, `Unblock` |
| time | `Tick` |

A token is the record of what its JWT contains: user, version and issue time in
whole seconds (`core/utils/index.ts:113`). The token has no identifier of its
own, so two tokens with equal contents are the same string and the same
`tokenHash`, which is unique: `Issue` then fails as a whole. `rotated`, `revoked`
and `active` are the columns `rotatedAt`, `revokedAt` and `Session.status`; a
`Session` row is created with its `RefreshToken` row and shares its hash.
`origin` and `interrupted` are history variables: nothing but properties reads
them. A revoked token's row is never reused, so no variable is needed for
deleted rows (nothing calls a clean-up).

`Contract == INSTANCE RefreshContract` is the refinement. A login is named by
its first token. `PhaseOf` maps it to "works" if one of its tokens is live, to
"between" if a refresh has consumed one and not yet issued the next or given up,
to "over" if it has tokens and neither holds; `VersionsOf` maps it to the
versions of its tokens. `Rotate` is then `Consume`, `Issue` is `Open` or
`Renew`, `LogoutRevoke` of a live token is `Close`, and a refresh that ends
between its transactions, by `Load`, `Issue` or `Fail`, is `Abandon`. The rest
stutters.

The module describes the service when it is given a token. The controllers read
it from `req.cookies` (`auth.controller.ts:203`, `:221`), and `app.ts` mounts no
cookie parser although `auth.controller.ts:12` says it must; as wired, a refresh
over HTTP always answers "Refresh token not found", and a logout answers
"Logged out successfully" without calling the service.

### LoginGuard

One account. `LoginRead` ... `CreateOtp` are `login`, `Submit` ...
`RememberDevice` are `verifyLoginOtp`, and `Grant` stands for the call of
`issueTokensAndSession` at the end of both. `snap` is the copy of
`is2FAEnabled` in the user row that `login` read at its beginning. Password and
code comparisons are nondeterministic. `WrongCode` changes no row: the code
counts the attempt, may expire the row and may lock the account, and then throws
inside the transaction's callback (`auth.service.ts:562`, `:570`), so that
Prisma rolls all of it back. `AdminLock`, `Unlock`, `SetTwoFA` and `OtpExpires`
happen to the account at any time.

### TwoFactor

| Code | Action |
|---|---|
| `enableTwoFactor`: account read; `createOtpRequest`: `updateMany`; `create` | `Enable`; `Void`; `Create` |
| `verifyTwoFactorOtp`: code found and compared; wrong: `incrementOtpAttempts`; `expireOtpRequest` | `Submit`; `Count`; `Expire` |
| right: `verifyOtpRequest`; `is2FAEnabled` set | `Submit`; `Mark`; `Switch` |
| `disableTwoFactor`: account read, password verified; flag cleared | `Disable`; `Clear` |
| `enable2FA`, `disable2FA` of the user service | `enable2FA`, `disable2FA` |
| failed statement, crash; lifetime of a code | `Abort`; `Lapse` |

One account, with the `OTPRequest` rows of type `TWO_FACTOR` in the order of
their creation. None of these handlers has a transaction, and the updates name a
row by its id alone: a row that was expired or voided meanwhile is marked
`VERIFIED` all the same. `seen`, `upTo`, `cut` and `undone` are history
variables.

### Passwords

| Code | Action |
|---|---|
| `changePassword` (auth): user read, current password verified; history checked; `user.update` | `ReadUser`; `Check`; `Update` |
| `changePassword` (users): user read and verified; `updatePassword` reads the hash; `user.update` at the end | `ReadUser`; `Reread`; `Update` |
| `resetPassword`: transaction begins; `FOR UPDATE`; history checked; `tx.user.update`; token marked and commit | `Begin`; `Lock`; `Screen`; `Write`; `Commit` |
| `savePasswordHistory`, and the same statements in `updatePassword`: create; find surplus; delete | `Record`; `Prune`; `Delete` |
| `requestPasswordReset`; lifetime of a token | `RequestReset`; `Expire` |
| Prisma's limit on the time of a transaction | `Timeout` |
| crash, failed statement | `Fail` |

`resetPassword` is the one transaction of the project that is not a single
action: it runs its check of the history through `db` and not through `tx`, so
that it waits for a second connection while it holds its first, and other
requests run in between. What it writes is seen at `Commit`; the row locks are
not variables but follow from where the requests are (`HasTokenRow`,
`UserIsLocked`), and so does the use of the pool (`PoolHasRoom`). `past` is the
sequence of passwords the account has had, of which the last one is the column
`passwordHash`; `rows` are all history rows ever created and `kept` those still
in the table. Rows are numbered in the order in which they are created, which is
taken to be the order of `createdAt`. The lock that a reset lifts from the
account is `LoginGuard`'s `Unlock`.

### Seed and Registration

A run of the seed script is a `step` through its statements: `Begin`, one
`Clear` (or `ClearFails`) per table that it also fills, one step for those it
only empties, then `Create` (or `CreateFails`) once per row, `Lookup` for the
roles of the system users, and `Finish`. `Promise.all` sends the statements of
one table together, so that its rows come in any order, and what it has sent may
still be executed when the run has failed or was cut off (`Straggle`). A row is
identified by the run that created it: all runs use the same unique keys, and
what differs between their rows is the id. `Referred` and `ParentsExist` are the
references of the schema; the one that stops a `deleteMany` is that of a user to
its role. `Connects` says which permissions a role is created with: all of them
(`SUPER_ADMIN`), some, or none (`CUSTOMER`, `TELLER` and others).

| Code | Action |
|---|---|
| `register`, `createUser`: address looked up | `Ask` |
| `register`: default role; `user.create`; `savePasswordHistory`; `createEmailVerificationToken` | `FindRole`; `CreateUser`; `SaveHistory`; `SaveToken` |
| `verifyEmail`: token found; marked; `isEmailVerified` set | `Find`; `Mark`; `Confirm` |
| `verifyEmail` of the user service | `VerifyOneself` |
| failed statement, crash; lifetime of a token | `Fail`, `VisitFails`; `Expire` |
| the script at work, and what goes with the users it deletes | `Seeding` |

`Registration` composes these handlers with `Seed`: `Seeding` is a step of a run
and what `onDelete: Cascade` takes along. The script deletes every account, and a
registration disturbs the script in turn: a role cannot be deleted while an
account refers to it.

### EmailDelivery

`Fetch`, `Send`, `Log`, `Return`, `Throw` are one run of `processEmailJob` in
one of the worker's slots. SendGrid accepts a message, refuses it, or accepts it
and the answer is lost; `SendGridEmailClient.send` turns the last two into
`success: false`, which `processEmailJob` returns like a success. BullMQ
(external) is modelled from the options the code gives it (`attempts: 3`,
`backoff`, `lockDuration`): a job belongs to the slot whose lock is in Redis;
the lock runs out when the slot's process is dead or too busy to renew it
(`LockExpires`); an active job without a lock goes back to the queue, or fails
when it did so too often (`Reclaim`); a slot without the lock cannot finish a
job. `Malformed` are jobs without a variable their template requires, such as
jobs left in Redis by an earlier release; the queue manager adds none itself,
so the throwing path is theirs alone. The order of waiting jobs is left out.

`Mail == INSTANCE MailContract` is the refinement. Message i of a job is the
i-th that SendGrid accepts for it, so that `accepted` and `logged`, which count,
become the sets of messages that are out and that have their row. `Send` with an
accepted message is `Accept`, `Log` that gets its row written is `Record`, and
everything else stutters.

### Webhooks

| Code | Action |
|---|---|
| `handleSendGridEvent`: a POST arrives; signature refused; tasks started and 200 answered | `Post`; `Refuse`; `Spawn` |
| `processEvent`: lock taken; key found until the tries are over; Redis fails | `Acquire`; `GiveUp`; `RedisFails` |
| the key is set and the reply lost; the script is sent again | `LoseReply`, then one of the three above |
| `handleDelivered`, `handleBounce`; a handler that writes nothing | `Handle` with `MarkDelivered`, `CreateBounce`, `NothingWritten` |
| release of the lock; its TTL | `Release`; `LockExpires` |
| the worker sends, and writes the row | `Send`; `Log` |
| a process ends, or is there again | `Down`; `Up` |

A POST is an HTTP request with one event; copies of an event are POSTs with the
same `EventOf`. The lock is named after the event's `id`, its `sg_event_id` or
else address, second and type, and the model does not assume that two events have
two ids: a temporary and a permanent bounce of one second, or two deliveries to
one address, have the same fallback (`sendgrid-webhook.service.ts:59`). Redlock
(external) is a key with a value that only the task that set it deletes, and a
task that fails to get the lock tries to. The code lets ioredis repeat a command
for as long as it has no answer (`queue.ts:26`), so that the key may be set and
the task not know (`LoseReply`, remembered in `unheard`): the next try of the same
task finds it, as do its copies, until its TTL has run out or the task has
deleted it. All failures of `acquire` are one `ExecutionError` to the code; the
model calls the event `duplicate` when its last try met a key, and `dropped`
when Redis answered with errors. The handlers find rows by the address of the event in lower
case, and `EmailLog` has the address as it was given. `Messages` are those that
SendGrid gets in one run of a job, so that a job that stalled stands for two;
`Mail` maps the module to the same contract as the worker's. What the webhooks
are verified for is therefore no more than what the worker provides. Permanent bounces,
complaints and unsubscriptions are `NothingWritten`: their handlers set columns
that `User` does not have, and the error is logged. `overran`, `wrote`, `early`,
`locked` and `unheard` are history variables.

### Lifecycle

`Boot`, `Connect`, `Listen` are `start()`; `Signal`, `Close`, `Stop` (or
`StopFails`), `Exit` are the chain of callbacks that each of the two signals
starts, and `ForceExit` is the thirty-second timer. `Accept`, `Respond`, `Take`
and `End` are the requests and e-mail jobs of the process, and `Crash` is
whatever kills it. The e-mail jobs are BullMQ's: `worker.close()` (external)
fetches no more of them and waits for those that run.

## 3. Runs

| Run | Bounds | Distinct states | Shows |
|---|---|---|---|
| `sessions` | 1 user, 2 requests, seconds 0..1, lifetime 1, versions 1..2 | 90,198 | all properties of `Sessions`, and that it implements `RefreshContract` |
| `login_guard` | 2 requests, 2 devices, 2 codes, limit 2, counter up to 3 | 5,007,652 up to symmetry | all properties of `LoginGuard` |
| `two_factor` | 2 requests, limit 2, 2 codes, 4 tries | 706,022 up to symmetry | all properties of `TwoFactor` |
| `passwords` | 2 requests, 2 tokens, 2 passwords, history of 1, pool of 2 | 237,366 | all properties of `Passwords`, liveness included |
| `seed` | 2 runs of the script, 2 rows per table | 28,441 up to symmetry | the properties of `Seed` |
| `registration` | 2 requests, 1 address, 2 visits, 2 runs of the script, 1 row per table | 2,898,025 up to symmetry | all properties of `Registration` |
| `email_delivery` | 2 jobs, 1 of them malformed, 3 slots, 3 attempts, 1 stall | 94,916 | all properties of `EmailDelivery`, liveness included, and that it implements `MailContract` |
| `webhooks` | 2 processes, 2 messages, any 2 of 4 POSTs of 3 events with 2 ids | 394,224 | all properties of `Webhooks`, liveness included |
| `lifecycle` | 1 process, 2 signals, 2 requests, 2 jobs | 279 | both properties of `Lifecycle` |
| `logout_race` | versions 1..3 | | a violation, below |
| `otp_limit_rolled_back` | 3 wrong codes | | a violation, below |
| `failed_send_not_retried` | 2 slots | | a violation, below |

Why the bounds are enough.

* Two requests are the most that any statement of the code can tell apart: the
  tables are all they share, and what races is a pair of transactions on one
  row. Users share no rows; the proofs cover any number of them, and of
  requests.
* `sessions`: two versions of a token are one rotation and its race; logins
  happen in equal and in different seconds. Lifetime 1 with a clock that ends at
  1 has tokens that are valid and tokens at the boundary, where the JWT is
  expired and the row is not. A row that expires between `Refresh` and `Rotate`
  needs one second more; this case, and chains of three tokens, are in the
  proofs.
* `login_guard`: the limit 2 has a value below and one above.
* `two_factor`: two requests reach the bound of `TriesAreBounded`, three tries
  at a limit of two, and the bound of four tries matters only for a row whose
  expiry was cut off. Two codes are the
  pair that `TwoCodesNeedOverlap` speaks of.
* `passwords`: two requests and the first row exceed a history of one, each
  request's list of surplus rows is out of date when the other one's row is
  created, and two resets use up a pool of two. A third request, whose row ages
  two lists at once, is in the proofs.
* `seed`: two rows are needed for a table that is half full, two runs for every
  race between them; one of its two roles has all permissions, the other none. `registration` has one row per table, as its properties
  look at one role; that role has no permissions.
* `email_delivery`: with one allowed stall a job is fetched twice, while a slot
  that lost its lock on it is still at work; a third slot lets the other job run
  beside them.
* `webhooks`: two tasks are copies (of one delivery), or they share only their id
  (two bounces), or they share nothing (a delivery and a bounce). The run takes
  every pair of four POSTs that has these cases, and two processes let one die
  while the other serves. The second message is for the same mailbox, with its
  address spelled in upper case, which the handlers do not find. Three tasks at
  one lock, and the delivery of such a message, are in the proofs.
* `lifecycle`: processes share nothing here. Two requests keep a connection open
  for one another while the server closes.

Bounds in guards: `MaxTime` (`Tick`), `MaxVersion` (`Refresh`), `MaxFailed`
(`WrongPassword`), `MaxRows` (`Create` of `TwoFactor`), `MaxTries` (`Count`),
`MaxPosts` (`Post` of `Webhooks`).
The `wrong` counter of `LoginGuard` stops at its limit because no property looks
beyond it. `email_delivery`, `passwords`, `seed` and `registration` do not check
for deadlock: jobs are added, requests made and scripts run once, and when all
are over nothing is left to do. The other passing runs do.

Fairness.

* `Sessions`: weak fairness on the steps of each request that has started. The
  event loop and the database serve it, and `Fail` may end it at any time;
  nothing forces a client to send a request, a clock to tick, or an account to
  be unblocked.
* `EmailDelivery`: weak fairness on the steps of a slot, on some slot fetching a
  waiting job, on a delay running out, on the lock of a slot that is no longer
  at work on its job running out, and on BullMQ's check for stalled jobs. Live
  slots need not lose locks and handlers need not add jobs.
* `Passwords`: weak fairness on the steps of each request, and on the timeout of
  its transaction, which Prisma guarantees (5 seconds, as the code sets no
  other). A request waits for a connection or a row lock as long as it takes;
  only the timeout resolves the case in which every connection is held by a
  reset that waits for another one.
* `Webhooks`: weak fairness on a task getting an answer from Redis (the lock, or
  that it is held), on its handler and on its release. Redlock gives up after
  `REDLOCK_RETRY_COUNT` tries, so that nobody waits for a lock to expire.
* `Lifecycle`: only on the timer. A request or a job may never end.
* `LoginGuard`, `TwoFactor`, `Seed`, `Registration`: none; their properties are
  of safety.

The violations are disagreements between the code and what its comments or
documents say; `PROJECT.json` quotes them.

* `logout_race`: a logout that arrives between the two transactions of a refresh
  finds the token already revoked, reports success, and the refresh then issues
  a token that works.
* `otp_limit_rolled_back`: wrong codes of a login never count.
* `failed_send_not_retried`: a refused e-mail is a completed job.

Other disagreements, met while reading the code and visible in it without a run:

* `refreshAccessToken` revokes the token in one transaction and ends its session
  in another, where the comments (`auth.service.ts:15`, `:157`, `:633`) speak of
  one. `OrphanOnlyIfInterrupted` says what that leaves behind, and when.
* `createOtpRequest` is said to leave one pending code (`auth.repository.ts:187`);
  two overlapping requests leave two. `TwoCodesNeedOverlap` says that nothing
  else does.
* `changePassword` of the user service compares the new password with nothing
  (`README.md:300` and `PROJECT_SUMMARY.md:54` of the repository promise the
  history check); `ReuseNeedsRace` is about the handlers that do check.
* The handlers of permanent bounces, complaints and unsubscriptions set columns
  that the schema's `User` does not have (`emailInvalidReason`,
  `emailInvalidatedAt`, `isEmailComplained`, `emailComplainedAt`,
  `unsubscribedAt`), so that none of these events is recorded, against
  `ADVANCED_EMAIL_ARCHITECTURE.md:66`, `:69`, `:388` and `:394`-`:398`.
* An error of Redlock "simply means another container handled this webhook
  duplicate" (`sendgrid-webhook.service.ts:96`). It is also what a failure of
  Redis looks like, the holder of the lock may die, it may be another event with
  the same fallback id, which is then not a duplicate, and it may be the event
  itself, when the reply to its first try was lost: `DuplicateHasReason` says
  what is left of the comment, and `DropsOnlyCopies` when it is nearly true.
* A delivery marks all `SENT` rows of its address, whichever message it is
  about, and none of an address that was stored with a capital letter
  (`EffectsHaveEvents`, `SentMeansOvertaken`).
* A graceful shutdown (`README.md:55`) does not wait for the tasks of the
  webhooks or for other work started with `void`.

## 4. Properties

`Sessions`: `OneLiveTokenPerLogin`, `ChainNeverForks`,
`OneActiveSessionPerLogin` (uniqueness under concurrent refreshes),
`LiveTokenHasActiveSession`, `OrphanOnlyIfInterrupted` (agreement of the two
tables at every step and after failures), `LogoutEndsLogin`,
`DeadLoginStaysDead` (no revival by late or repeated requests),
`NoTokenForBlockedUser` (a block takes effect late, but for good),
`ImplementsContract` (refinement), `RotationResolves` (liveness).

`LoginGuard`: `LimitLocksAccount` (counter and lock across the gap between
them), `OtpGrantsOneSession`, `GrantRestsOnVerifiedOtp`, `SecondFactorHolds`.

`TwoFactor`: `TriesAreBounded` (by how much requests in flight can exceed the
limit), `ExhaustedIsExpired` (the count and the expiry are apart),
`TwoCodesNeedOverlap`, `AcceptedCodeEnables`.

`Passwords`: `NewestAreKept`, `CleanUpCatchesUp` (clean-ups that interleave,
each with a list of rows that may be out of date, delete neither too much nor
too little), `ResetIsSpentOnce`, `ReuseNeedsRace` (what the check for reuse is
worth when others write meanwhile), `EveryRequestEnds` (liveness).

`Seed`: `FailsOnlyIfDisturbed` (it can be repeated), `AllSucceededIsComplete`
(overlapping runs).

`Registration`: `SuccessIsWhole`, `AccountHasRole` (with the script at work),
`UsedMeansVerified`, `VerifiedHasCause` (two visits of one link, cut off between
their statements).

`EmailDelivery`: `CopiesAreStalls`, `OverIsFinal`, `ImplementsMail` (refinement:
the log is behind the mail and never ahead of it, also with two slots on one
job), `EveryJobEnds` (liveness).

`Webhooks`: `OneHandlerPerEvent`, `DuplicateHasReason` (what a dropped event may
have met at its lock when that expires, its holder dies, another event has the
same id or a reply is lost), `EffectsHaveEvents`, `SentMeansOvertaken` (why a
row is still `SENT`), `EveryEventEnds` (liveness).

`Lifecycle`: `CleanExitLosesNothing` (also with two signals), `ShutdownEnds`
(liveness).

`TypeOK` of each module is not among the runs' properties, as it is a theorem.

## 5. Proofs

TLAPS checks the types, every safety invariant, every action property and both
refinements that the runs check, and some results no run checks, for all values
of the constants. The assumptions are the named `ASSUME`s of the modules: bounds are natural numbers, null values are not
members of the sets they stand outside of, there is a device, the sets of slots,
of logins in flight and of requests for two-factor codes are finite, the default
role is one of the seeded rows, addresses are mapped to addresses.

**Sessions.** None of the invariants is inductive alone. `OneLiveTokenPerLogin`
says nothing of a request that has revoked a token and not yet issued the next,
and it is that request which may create a second live token. The invariant
`IInv` of `SessionsProofs` therefore orders the tokens of a login by version:
tokens that work, tokens with an `ACTIVE` session and tokens that a request is
exchanging are each the newest of their login (`NewestOK`), no two requests
exchange the same one (`OneCarrier`), and versions do not repeat within a login
(`ChainNeverForks`). A new token is then above all others, and the uniqueness
properties follow. `LogoutEndsLogin` is part of `IInv`, and it is what makes
`DeadLoginStaysDead` a property of single steps. Three results have no run.
`RotationsAreAccountedFor` is what is left of `RotationResolves` without
fairness: a consumed token has its successor, or a request that will issue it,
or that request was cut off. `ChainHasNoGap` numbers the tokens of a login.
`LogoutEndsTheRest` is the other side of the `logout_race`: when a logout
reports success, the token it was given has no session, and either its login is
over or a refresh had consumed the token. The refinement
(`ServiceKeepsContract`) goes by actions: each is shown to be one step of
`RefreshContract` or a stutter. That a login is never in two phases, and that
the next version is above all others, is where `IInv` is needed.

**LoginGuard.** `LimitLocksAccount` is inductive with the types. For the codes,
`IInv` of `LoginGuardProofs` says what is true between the transaction that
verifies a code and the one that opens the session: the row is `VERIFIED`,
nothing was granted on it, and no second request is as far with the same row.
`SecondFactorHolds` follows step by step from `Guarded`. Two more theorems are
about what needs no code. A row, once verified, keeps its status and its device
(`PassedStays`), a request keeps the device its challenge names (`DeviceFits`),
and so a trusted device is one that has passed a challenge (`TrustNeedsCode`) and
a session is granted past one (`SessionNeedsFactor`), although user row, devices
and code are read at three different times. `GuessesAreBounded` counts: a login
checks `isAccountLocked` once, before the password, so that guesses that have
read the row before the lock still count. Until the lock, each count at the limit
or above belongs to a request that has yet to lock (`Locking`); after it, no
request is added to those that still guess (`Guessing`). Both together are at
most the requests there are, and the overshoot is less than that.

**TwoFactor.** `TriesAreBounded` needs counting (`TriesInv`): while a row is
pending, every try at the limit or above it belongs to a request of its own that
has yet to expire the row, and the tries made plus the requests that are about to
count one stay under the limit plus the number of requests. `HandlerInv` says
that a request between the two statements of `createOtpRequest` has voided all
pending rows that were there, which is `TwoCodesNeedOverlap` one step earlier.
`CodesAreFew` needs neither history variable: a request between the two
statements counts as a code that can be used (`PendingFits`), so that voiding and
creating both keep the sum under the number of requests.

**Passwords.** The centre is a lemma about `orderBy`, `skip` and `take`
(`NewestRows`): while the newest `HISTORY_COUNT` rows ever created are in the
table, `take` finds exactly these and `skip` exactly the others. A list of rows
to delete therefore names old rows only (`SeenIsOld`) and stays harmless as rows
are added, and it names all that the request must delete (`SeenIsEnough`). The
token rests on `RowLock`: of the requests that present a token, one is between
`Lock` and `Commit`, and the token is unused until it commits. `SetsOnce` keeps a
request that has set the password from coming back to it, and `Checked` carries
what the check found over the steps up to the write.
`HistoryStaysSmall` turns the two properties of the history into a size: rows of
requests that have finished their clean-up are close together, as none is
`HISTORY_COUNT` behind another (`CloseMeansFew`), and each other request has one
row (`OneRowEach`).

**Seed and Registration.** `SeedInv` says what an undisturbed run has done so
far: the tables it has passed hold its own rows and no others (`Undisturbed`), so
that none of its statements can fail. `AccountInv` and `RequestInv` tie an
account to the request that created it and say how far that request is; the role
of an account cannot be deleted, since `Clear` needs that nobody refers to it.
`VisitInv` says what a visit between its statements has found. The theorem about
`Seed` is proved twice, for the script alone (`SeedAloneIsRepeatable`) and next
to registrations (`SeedIsRepeatable`).

`AllSucceededIsComplete` is about runs that do disturb each other, so `SeedInv`
does not help. `RowInv` of `RegistrationProofs` argues about one row at a time:
unless a run has failed or was cut off (`Trouble`), a row that somebody has made
is in its table, or a run that has emptied the table owes it, being still before
the creation of its own (`RowsRemain`, `Owes`); and a row whose parent another
run made belongs to a parent that is owed in the same way (`CurrencyFits`,
`RoleFits`). When all have succeeded nothing is owed. The argument needs that a
run's deletions come before its creations, and that the creation of a row that
is there fails; it is the same next to registrations (`SeedsAgreeInService`).

**EmailDelivery.** `IInv` of `EmailDeliveryProofs` says that a job with a lock
is active, and that its counters are under their limits until it is over.
`CopiesAreStalls` and `LogIsHonest` (no more rows than accepted messages) need
counting: the messages accepted for a job and the slots about to send it are together at most the number of its runs
(`CopiesOK`), and likewise for the rows of the log (`LogOK`). Both are proved
with the cardinality theorems of the library. They are also what the refinement
rests on (`CountsFit`): counters that go up by one are sets that gain one
message. `JobsEndForAReason` says of each job why it is over, for any number of
attempts and slots; it contains that a well-formed job is not tried again, which
is what the run `failed_send_not_retried` meets in one case.

**Webhooks.** `LockInv`: the value of a key is a task that set it under the id of
its own event, whether it heard of it or not (`ValueIsTask`), one that has had
the lock is not dropped any more (`LockComesFirst`), and a handler whose lock has not run out still finds its
value there (`HandlerHasLock`), as only its own `Release` deletes it. Two handlers
of one event would then both be the value of one key. `DropsHaveReason` follows
for whatever ids events have; `DropsOnlyCopies` assumes that no two events share
one (`IdsTellApart`), and concludes that an event loses only copies, unless a
reply of Redis was lost. `TablesInv` adds that a row
is written once, at the end of its job (`RowEndsJob`), so that a delivery that
was handled without a row is remembered as early (`NoRowIsEarly`). By
`WebhooksKeepContract` the jobs that this module assumes do what `MailContract`
says, and by `WorkerKeepsContract` so does the worker.

**Lifecycle.** A shutdown past `server.close()` has seen the last connection go,
and none can come (`ClosedIsDrained`); one past `worker.close()` has seen the
last job end, or an error (`StoppedIsIdle`). Both last while the other shutdown
of the process goes on.

Only model-checked: `RotationResolves`, `EveryJobEnds`, `EveryRequestEnds`,
`EveryEventEnds` and `ShutdownEnds`, as liveness under fairness is outside the
prover's reach.

## 6. Not modelled

* Templates, configuration, errors, logging and currencies: values and wording.
* The legacy e-mail service: nothing calls it.
* Profiles, telephone numbers and listings of users: single statements that no
  other part reads.
* The access guards: they keep no state. Their answer is as old as the access
  token, whatever an administrator has changed since, and its lifetime is the
  only bound.
* `getReputationStats` of the webhooks: it only reads.
* `upsertDevice` as check and create: devices are a set in `LoginGuard`. A second
  row of one device only asks for a code more often than needed.
* A change of an account's role by an administrator, and the roles of the system
  users after the script is over.
* HTTP: routes, validation and rate limits; the controllers' part in the
  protocols (cookies, answers before the work) is in the modules above.
* The order in which BullMQ fetches jobs (priorities), and the closing of queues.
* Liveness of `Registration` and `TwoFactor`: each handler is a chain of
  statements without loops or waits.

Each hazard in `PROJECT.json` names the property that covers it or says why none
does.
