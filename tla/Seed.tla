-------------------------------- MODULE Seed --------------------------------
(***************************************************************************)
(* The seed script (src/prisma/seed.ts), on the tables that it fills.      *)
(*                                                                         *)
(* A run of the script ("seeder") empties the tables, one deleteMany after *)
(* the other, and fills them again, with no transaction around it.  The    *)
(* rows of a table are created together by Promise.all, in any order; only *)
(* the users are created one after the other.  Two containers may run the  *)
(* script at the same time, a run may be cut off and started again, and    *)
(* the service may be running: the accounts that it creates are rows of    *)
(* User as well (Registration).                                            *)
(*                                                                         *)
(* Every run creates rows with the same unique keys.  Row k of a table     *)
(* stands for some of its rows; currency k is of country k, user k has     *)
(* role k.  A row is identified by the run that created it.                *)
(***************************************************************************)
EXTENDS Naturals

CONSTANTS
    Seeders,    \* runs of the script
    Rows,       \* each table gets rows 1 .. Rows
    Connects,   \* per role: the permissions that it is created with, if any
    Addresses,  \* addresses that people register with
    Requests,   \* requests that create an account
    Absent      \* "no row", "nobody"

ASSUME SeedAssumption ==
    /\ Rows \in Nat \ {0}
    /\ \A k \in 1 .. Rows : Connects[k] \subseteq 1 .. Rows
    /\ Absent \notin Seeders \cup Requests

VARIABLES
    row,      \* per table and key: the seeder whose row is there, or Absent
    account,  \* per address: the request that created its User row, or Absent
    step,     \* per seeder: the statement it is at
    landed,   \* per seeder: keys for which that statement is settled
    got,      \* per seeder and key: the role it has found
    outcome,  \* per seeder: whether it runs, and how it ended
    alone     \* history: seeders during whose run nobody else wrote

tables == <<row, account>>
seeds  == <<step, landed, got, outcome, alone>>

Keys   == 1 .. Rows
Tables == {"country", "currency", "permission", "role", "user", "flag", "setting"}

\* The order of clearDatabase.  Statement 1 stands for the twelve that empty
\* tables which the script does not fill; exchangeRate is one of those too.
ClearStep ==
    [user |-> 2, permission |-> 3, role |-> 4, currency |-> 5, country |-> 6,
     flag |-> 7, setting |-> 8]

\* The order of main; seedSystemUsers looks for its two roles first.
CreateStep ==
    [country |-> 9, currency |-> 10, permission |-> 11, role |-> 12,
     user |-> 14, flag |-> 15, setting |-> 16]

LookupStep == 13
LastStep   == 17

SeedInit ==
    /\ row = [t \in Tables |-> [k \in Keys |-> Absent]]
    /\ account = [a \in Addresses |-> Absent]
    /\ step = [s \in Seeders |-> 0]
    /\ landed = [s \in Seeders |-> {}]
    /\ got = [s \in Seeders |-> [k \in Keys |-> Absent]]
    /\ outcome = [s \in Seeders |-> "none"]
    /\ alone = {}

At(s, n) == outcome[s] = "running" /\ step[s] = n

Ends(s, how) == outcome' = [outcome EXCEPT ![s] = how]

\* The next statement.
Advance(s) ==
    /\ step' = [step EXCEPT ![s] = @ + 1]
    /\ landed' = [landed EXCEPT ![s] = {}]

\* One more of the rows of a statement, which is over with the last one.
Lands(s, k) ==
    IF landed[s] \cup {k} = Keys
      THEN Advance(s)
      ELSE landed' = [landed EXCEPT ![s] = @ \cup {k}] /\ step' = step

\* What s writes disturbs every other run.
Disturb(s) == alone' = alone \cap {s}

Begin(s) ==
    /\ outcome[s] = "none"
    /\ Ends(s, "running")
    /\ Advance(s)
    /\ alone' = alone \cup {s}
    /\ UNCHANGED <<tables, got>>

(***************************************************************************)
(* clearDatabase                                                           *)
(***************************************************************************)
ClearDependents(s) ==
    /\ At(s, 1)
    /\ Advance(s)
    /\ UNCHANGED <<tables, got, outcome, alone>>

\* Fault: one table is not emptied.
EmptiedButSettings(t) ==
    IF t = "setting" THEN row[t] ELSE [k \in Keys |-> Absent]

Emptied(t) == [k \in Keys |-> Absent]

\* Fault: the role of a user is not "onDelete: Restrict".
NotReferred(t) == FALSE

\* Rows of t that rows of another table need: a user's role.
Referred(t) ==
    /\ t = "role"
    /\ \/ \E k \in Keys : row["user"][k] # Absent
       \/ \E a \in Addresses : account[a] # Absent

\* deleteMany.  A deleted user takes all that refers to it along; a deleted
\* country is taken out of its currencies, a permission out of its roles.
Clear(s, t) ==
    /\ At(s, ClearStep[t])
    /\ ~Referred(t)
    /\ row' = [row EXCEPT ![t] = Emptied(t)]
    /\ account' = IF t = "user" THEN [a \in Addresses |-> Absent] ELSE account
    /\ Advance(s)
    /\ Disturb(s)
    /\ UNCHANGED <<got, outcome>>

\* deleteMany of roles that users still have; process.exit(1).
ClearFails(s, t) ==
    /\ At(s, ClearStep[t])
    /\ Referred(t)
    /\ Ends(s, "failed")
    /\ UNCHANGED <<tables, step, landed, got, alone>>

(***************************************************************************)
(* seedCountriesAndCurrencies, seedRolesAndPermissions, seedSystemUsers,   *)
(* seedFeatureFlags and seedSystemSettings                                 *)
(***************************************************************************)
\* The users are created one after the other, other rows in any order.
Turn(s, t, k) ==
    /\ k \notin landed[s]
    /\ t = "user" => \A j \in Keys : j < k => j \in landed[s]

\* What a new row refers to is there: by the ids that the run has.
ParentsExist(s, t, k) ==
    CASE t = "currency" -> row["country"][k] = s
      [] t = "role"     -> \A j \in Connects[k] : row["permission"][j] = s
      [] t = "user"     -> got[s][k] # Absent /\ row["role"][k] = got[s][k]
      [] OTHER          -> TRUE

\* The key is unique, and the references hold.
MayCreate(s, t, k) == row[t][k] = Absent /\ ParentsExist(s, t, k)

Create(s, t, k) ==
    /\ At(s, CreateStep[t])
    /\ Turn(s, t, k)
    /\ MayCreate(s, t, k)
    /\ row' = [row EXCEPT ![t][k] = s]
    /\ Lands(s, k)
    /\ Disturb(s)
    /\ UNCHANGED <<account, got, outcome>>

\* Fault: allSettled, which takes a row that cannot be created for done.
Settles(s, t, k) ==
    /\ At(s, CreateStep[t])
    /\ Turn(s, t, k)
    /\ ~MayCreate(s, t, k)
    /\ Lands(s, k)
    /\ UNCHANGED <<tables, got, outcome, alone>>

\* process.exit(1).
CreateFails(s, t, k) ==
    /\ At(s, CreateStep[t])
    /\ Turn(s, t, k)
    /\ ~MayCreate(s, t, k)
    /\ Ends(s, "failed")
    /\ landed' = [landed EXCEPT ![s] = @ \cup {k}]
    /\ UNCHANGED <<tables, step, got, alone>>

\* findUnique of the roles that the users get, in that order.  That one was
\* not found shows when its user is created.
Lookup(s, k) ==
    /\ At(s, LookupStep)
    /\ Turn(s, "user", k)
    /\ got' = [got EXCEPT ![s][k] = row["role"][k]]
    /\ Lands(s, k)
    /\ UNCHANGED <<tables, outcome, alone>>

\* The run is cut off.
Crash(s) ==
    /\ outcome[s] = "running"
    /\ Ends(s, "crashed")
    /\ UNCHANGED <<tables, step, landed, got, alone>>

\* What Promise.all had sent when the run ended may still be executed.
Straggle(s, t, k) ==
    /\ outcome[s] \in {"failed", "crashed"}
    /\ step[s] = CreateStep[t] /\ t # "user"
    /\ k \notin landed[s]
    /\ MayCreate(s, t, k)
    /\ row' = [row EXCEPT ![t][k] = s]
    /\ landed' = [landed EXCEPT ![s] = @ \cup {k}]
    /\ Disturb(s)
    /\ UNCHANGED <<account, step, got, outcome>>

Finish(s) ==
    /\ At(s, LastStep)
    /\ Ends(s, "done")
    /\ UNCHANGED <<tables, step, landed, got, alone>>

clearDatabase(s) ==
    ClearDependents(s) \/ \E t \in Tables : Clear(s, t) \/ ClearFails(s, t)

Creates(s, t) == \E k \in Keys : Create(s, t, k) \/ CreateFails(s, t, k)

seedCountriesAndCurrencies(s) == Creates(s, "country") \/ Creates(s, "currency")
seedRolesAndPermissions(s)    == Creates(s, "permission") \/ Creates(s, "role")
seedSystemUsers(s)            == (\E k \in Keys : Lookup(s, k)) \/ Creates(s, "user")
seedFeatureFlags(s)           == Creates(s, "flag")
seedSystemSettings(s)         == Creates(s, "setting")

SeedStep(s) ==
    \/ Begin(s) \/ clearDatabase(s)
    \/ seedCountriesAndCurrencies(s) \/ seedRolesAndPermissions(s)
    \/ seedSystemUsers(s) \/ seedFeatureFlags(s) \/ seedSystemSettings(s)
    \/ Finish(s) \/ Crash(s)
    \/ \E t \in Tables, k \in Keys : Straggle(s, t, k)

\* Runs of the script, while nobody registers.
SeedSpec == SeedInit /\ [][\E s \in Seeders : SeedStep(s)]_<<tables, seeds>>

-----------------------------------------------------------------------------
(***************************************************************************)
(* Properties                                                              *)
(***************************************************************************)
SeedTypeOK ==
    /\ row \in [Tables -> [Keys -> Seeders \cup {Absent}]]
    /\ account \in [Addresses -> Requests \cup {Absent}]
    /\ step \in [Seeders -> 0 .. LastStep]
    /\ landed \in [Seeders -> SUBSET Keys]
    /\ got \in [Seeders -> [Keys -> Seeders \cup {Absent}]]
    /\ outcome \in [Seeders -> {"none", "running", "done", "failed", "crashed"}]
    /\ alone \subseteq Seeders

\* Every row is there, each currency has its country and each role its
\* permissions.
Complete ==
    /\ \A t \in Tables, k \in Keys : row[t][k] # Absent
    /\ \A k \in Keys : row["currency"][k] = row["country"][k]
    /\ \A k \in Keys : \A j \in Connects[k] : row["role"][k] = row["permission"][j]

\* When all the runs that were started report success, the database is
\* complete, however they overlapped: unique keys let no run build on, or
\* take away, the rows of another one that goes on to succeed, and nobody's
\* deleteMany falls between the rows that a success leaves behind.
AllSucceededIsComplete ==
    (/\ \A s \in Seeders : outcome[s] \in {"none", "done"}
     /\ \E s \in Seeders : outcome[s] = "done") => Complete

\* A run fails only if somebody else writes while it runs: whatever earlier
\* runs left behind when they failed, or were cut off, it can be repeated.
FailsOnlyIfDisturbed ==
    \A s \in Seeders : outcome[s] = "failed" => s \notin alone
=============================================================================
