------------------------- MODULE RegistrationProofs -------------------------
(***************************************************************************)
(* Proofs about Registration and Seed, for any number of runs of the       *)
(* script, rows, addresses, requests and visits.                           *)
(*                                                                         *)
(* IInv adds to the properties what they rest on: which rows an            *)
(* undisturbed run of the script has left at each of its statements, how   *)
(* far the request behind an account has come, and what is left of a       *)
(* request whose account the script deleted.  RowInv says of runs that do  *)
(* not fail which rows they still owe.                                     *)
(***************************************************************************)
EXTENDS Registration, TLAPS

USE SeedAssumption, CustomerAssumption

\* The key k of table t is one that s has created by now.
Made(s, t, k) ==
    CreateStep[t] < step[s] \/ (CreateStep[t] = step[s] /\ k \in landed[s])

\* What an undisturbed run has done so far is what the tables hold.
Undisturbed(s) ==
    /\ \A t \in Tables, k \in Keys :
          step[s] > ClearStep[t] =>
              row[t][k] = IF Made(s, t, k) THEN s ELSE Absent
    /\ step[s] > ClearStep["user"] => \A a \in Addresses : account[a] = Absent
    /\ \A k \in Keys :
          step[s] > LookupStep \/ (step[s] = LookupStep /\ k \in landed[s]) =>
              got[s][k] = s

FreshAtZero == \A s \in Seeders : outcome[s] = "none" => step[s] = 0

SeedInv ==
    /\ SeedTypeOK
    /\ FreshAtZero
    /\ \A s \in alone :
          /\ outcome[s] # "failed"
          /\ outcome[s] = "running" => Undisturbed(s)

Created == {"history", "token", "done", "failed"}

\* The request behind an account.
AccountInv ==
    \A a \in Addresses :
        account[a] # Absent =>
            /\ email[account[a]] = a
            /\ pc[account[a]] \in Created
            /\ role[account[a]] # Absent
            /\ role[account[a]] = row["role"][Customer]

RequestInv ==
    \A r \in Requests :
        /\ pc[r] # "idle" => email[r] \in Addresses
        /\ r \in wiped => ~Exists(r) /\ pc[r] \in Created
        /\ pc[r] \notin {"done", "failed"} => token[r] = "none"
        /\ pc[r] \in {"history", "token", "done"} /\ r \notin wiped =>
              account[email[r]] = r
        /\ pc[r] = "token" /\ r \notin wiped => r \in history
        /\ pc[r] = "done" /\ r \notin wiped /\ kind[r] = "register" =>
              r \in history /\ token[r] # "none"

VisitInv ==
    \A v \in Visits :
        /\ visit[v] # "idle" => on[v] \in Requests
        /\ visit[v] = "confirm" => token[on[v]] = "used" \/ on[v] \in wiped

IInv ==
    /\ TypeOK
    /\ SeedInv
    /\ AccountInv
    /\ RequestInv
    /\ VisitInv
    /\ UsedMeansVerified
    /\ VerifiedHasCause

-----------------------------------------------------------------------------
(***************************************************************************)
(* The seed script                                                         *)
(***************************************************************************)
LEMMA Order ==
    /\ \A t \in Tables : ClearStep[t] \in 2 .. 8 /\ CreateStep[t] \in 9 .. 16
    /\ \A t \in Tables : CreateStep[t] # LookupStep
    /\ \A t, u \in Tables : ClearStep[t] = ClearStep[u] => t = u
    /\ \A t, u \in Tables : CreateStep[t] = CreateStep[u] => t = u
    /\ LookupStep = 13 /\ LastStep = 17
  BY DEF Tables, ClearStep, CreateStep, LookupStep, LastStep

\* What a statement of s leaves alone of another run.
OthersStay(s) ==
    \A u \in Seeders \ {s} :
        /\ step'[u] = step[u] /\ landed'[u] = landed[u]
        /\ got'[u] = got[u] /\ outcome'[u] = outcome[u]

StepTypeOK ==
    step \in [Seeders -> 0 .. LastStep] /\ landed \in [Seeders -> SUBSET Keys]

StepStays(s) ==
    \A u \in Seeders \ {s} : step'[u] = step[u] /\ landed'[u] = landed[u]

LEMMA Advances ==
    ASSUME StepTypeOK, NEW s \in Seeders, Advance(s), step[s] < LastStep
    PROVE  /\ StepTypeOK' /\ StepStays(s)
           /\ step'[s] = step[s] + 1 /\ landed'[s] = {}
<1>1. step[s] + 1 \in 0 .. LastStep
  BY DEF StepTypeOK, LastStep
<1> QED
  BY <1>1 DEF StepTypeOK, StepStays, Advance

LEMMA LandsOne ==
    ASSUME StepTypeOK, NEW s \in Seeders, NEW k \in Keys, Lands(s, k),
           step[s] < LastStep
    PROVE  /\ StepTypeOK' /\ StepStays(s)
           /\ \/ /\ landed[s] \cup {k} = Keys
                 /\ step'[s] = step[s] + 1 /\ landed'[s] = {}
              \/ step'[s] = step[s] /\ landed'[s] = landed[s] \cup {k}
<1>1. CASE landed[s] \cup {k} = Keys
  BY <1>1, Advances DEF Lands
<1>2. CASE landed[s] \cup {k} # Keys
  BY <1>2 DEF Lands, StepTypeOK, StepStays
<1> QED
  BY <1>1, <1>2

\* The statements, without the functions of the script that they are in.
LEMMA SeedStepCases ==
    ASSUME NEW s \in Seeders, SeedStep(s)
    PROVE  \/ Begin(s) \/ ClearDependents(s) \/ Finish(s) \/ Crash(s)
           \/ \E t \in Tables : Clear(s, t) \/ ClearFails(s, t)
           \/ \E t \in Tables, k \in Keys : Create(s, t, k) \/ CreateFails(s, t, k)
           \/ \E t \in Tables, k \in Keys : Straggle(s, t, k)
           \/ \E k \in Keys : Lookup(s, k)
<1>1. ASSUME NEW t \in Tables, Creates(s, t)
      PROVE  \E u \in Tables, k \in Keys : Create(s, u, k) \/ CreateFails(s, u, k)
  BY <1>1 DEF Creates
<1>2. {"country", "currency", "permission", "role", "user", "flag", "setting"}
         \subseteq Tables
  BY DEF Tables
<1> QED
  BY <1>1, <1>2 DEF SeedStep, clearDatabase, seedCountriesAndCurrencies,
     seedRolesAndPermissions, seedSystemUsers, seedFeatureFlags, seedSystemSettings

\* How each statement changes where its run is.
LEMMA SeedMoves ==
    ASSUME SeedTypeOK, FreshAtZero, NEW s \in Seeders, SeedStep(s)
    PROVE  StepTypeOK' /\ StepStays(s)
<1> USE DEF At
<1>0. StepTypeOK
  BY DEF SeedTypeOK, StepTypeOK
<1>1. CASE Begin(s) \/ ClearDependents(s)
  <2>1. step[s] < LastStep
    BY <1>1 DEF Begin, ClearDependents, FreshAtZero, LastStep
  <2> QED
    BY <1>0, <1>1, <2>1, Advances DEF Begin, ClearDependents
<1>2. CASE Finish(s) \/ Crash(s)
  BY <1>0, <1>2 DEF Finish, Crash, StepTypeOK, StepStays
<1>3. ASSUME NEW t \in Tables, Clear(s, t) PROVE StepTypeOK' /\ StepStays(s)
  <2>1. step[s] < LastStep
    BY <1>3, Order DEF Clear
  <2> QED
    BY <1>0, <1>3, <2>1, Advances DEF Clear
<1>4. ASSUME NEW t \in Tables, NEW k \in Keys, Create(s, t, k)
      PROVE  StepTypeOK' /\ StepStays(s)
  <2>1. step[s] < LastStep
    BY <1>4, Order DEF Create
  <2> QED
    BY <1>0, <1>4, <2>1, LandsOne DEF Create
<1>5. ASSUME NEW t \in Tables, ClearFails(s, t) PROVE StepTypeOK' /\ StepStays(s)
  BY <1>0, <1>5 DEF ClearFails, StepTypeOK, StepStays
<1>6. ASSUME NEW t \in Tables, NEW k \in Keys,
             CreateFails(s, t, k) \/ Straggle(s, t, k)
      PROVE  StepTypeOK' /\ StepStays(s)
  BY <1>0, <1>6 DEF CreateFails, Straggle, StepTypeOK, StepStays
<1>7. ASSUME NEW k \in Keys, Lookup(s, k) PROVE StepTypeOK' /\ StepStays(s)
  <2>1. step[s] < LastStep
    BY <1>7 DEF Lookup, LookupStep, LastStep
  <2> QED
    BY <1>0, <1>7, <2>1, LandsOne DEF Lookup
<1> QED
  BY <1>1, <1>2, <1>3, <1>4, <1>5, <1>6, <1>7, SeedStepCases

\* A statement keeps the types, and is no concern of other runs.
LEMMA SeedTypes ==
    ASSUME SeedTypeOK, FreshAtZero, NEW s \in Seeders, SeedStep(s)
    PROVE  SeedTypeOK' /\ FreshAtZero' /\ OthersStay(s)
<1>1. StepTypeOK' /\ StepStays(s)
  BY SeedMoves
<1>2. row' \in [Tables -> [Keys -> Seeders \cup {Absent}]]
  <2>1. CASE row' = row
    BY <2>1 DEF SeedTypeOK
  <2>2. ASSUME NEW t \in Tables, Clear(s, t)
        PROVE  row' \in [Tables -> [Keys -> Seeders \cup {Absent}]]
    BY <2>2 DEF SeedTypeOK, Clear, Emptied
  <2>3. ASSUME NEW t \in Tables, NEW k \in Keys, Create(s, t, k) \/ Straggle(s, t, k)
        PROVE  row' \in [Tables -> [Keys -> Seeders \cup {Absent}]]
    <3>1. row' = [row EXCEPT ![t] = [row[t] EXCEPT ![k] = s]]
      BY <2>3 DEF Create, Straggle
    <3>2. [row[t] EXCEPT ![k] = s] \in [Keys -> Seeders \cup {Absent}]
      BY DEF SeedTypeOK
    <3> QED
      BY <3>1, <3>2 DEF SeedTypeOK
  <2> QED
    BY <2>1, <2>2, <2>3, SeedStepCases DEF Begin, ClearDependents, Finish, Crash,
       ClearFails, CreateFails, Lookup, tables
<1>3. account' \in [Addresses -> Requests \cup {Absent}]
  BY SeedStepCases DEF SeedTypeOK, Begin, ClearDependents, Finish, Crash, Clear,
     ClearFails, Create, CreateFails, Straggle, Lookup, tables
<1>4. /\ got' \in [Seeders -> [Keys -> Seeders \cup {Absent}]]
      /\ \A u \in Seeders \ {s} : got'[u] = got[u]
  <2>1. CASE got' = got
    BY <2>1 DEF SeedTypeOK
  <2>2. ASSUME NEW k \in Keys, Lookup(s, k)
        PROVE  /\ got' \in [Seeders -> [Keys -> Seeders \cup {Absent}]]
               /\ \A u \in Seeders \ {s} : got'[u] = got[u]
    <3>1. row["role"][k] \in Seeders \cup {Absent}
      BY DEF SeedTypeOK, Tables
    <3> QED
      BY <2>2, <3>1 DEF SeedTypeOK, Lookup
  <2> QED
    BY <2>1, <2>2, SeedStepCases DEF Begin, ClearDependents, Finish, Crash, Clear,
       ClearFails, Create, CreateFails, Straggle
<1>5. /\ outcome' \in [Seeders -> {"none", "running", "done", "failed", "crashed"}]
      /\ \A u \in Seeders \ {s} : outcome'[u] = outcome[u]
      /\ outcome'[s] # "none"
  <2>1. \/ outcome' = outcome /\ outcome[s] # "none"
        \/ \E how \in {"running", "done", "failed", "crashed"} : Ends(s, how)
    BY SeedStepCases DEF Begin, ClearDependents, Finish, Crash, Clear,
       ClearFails, Create, CreateFails, Straggle, Lookup, At
  <2> QED
    BY <2>1 DEF SeedTypeOK, Ends
<1>6. alone' \subseteq Seeders
  BY SeedStepCases DEF SeedTypeOK, Begin, ClearDependents, Finish, Crash, Clear,
     ClearFails, Create, CreateFails, Straggle, Lookup, Disturb
<1> QED
  BY <1>1, <1>2, <1>3, <1>4, <1>5, <1>6
  DEF SeedTypeOK, StepTypeOK, StepStays, FreshAtZero, OthersStay

\* What s does to the tables, and to the others' being alone.
LEMMA SeedWrites ==
    ASSUME SeedTypeOK, NEW s \in Seeders, SeedStep(s)
    PROVE  \/ row' = row /\ account' = account /\ alone' \subseteq alone \cup {s}
           \/ alone' = alone \cap {s}
  BY SeedStepCases DEF Begin, ClearDependents, Finish, Crash, Clear, ClearFails,
         Create, CreateFails, Straggle, Lookup, Disturb, tables

\* The permissions of a role are among the rows.
LEMMA ConnectsKeys == \A k \in Keys : Connects[k] \subseteq Keys
  BY SeedAssumption DEF Keys

\* What an undisturbed run finds when it creates a row: none of that key, and
\* all that the row refers to.
LEMMA FindsItsOwn ==
    ASSUME SeedInv, NEW s \in alone, NEW t \in Tables, NEW k \in Keys,
           At(s, CreateStep[t]), k \notin landed[s]
    PROVE  MayCreate(s, t, k)
<1>1. Undisturbed(s) /\ step[s] = CreateStep[t] /\ s \in Seeders
  BY DEF SeedInv, SeedTypeOK, At
<1>2. /\ step[s] \in 0 .. LastStep
      /\ step[s] > ClearStep[t] /\ ~Made(s, t, k)
  BY <1>1, Order DEF Made, SeedInv, SeedTypeOK
<1>3. row[t][k] = Absent
  BY <1>1, <1>2 DEF Undisturbed
<1>4. CASE t = "currency"
  <2>1. step[s] > ClearStep["country"] /\ CreateStep["country"] < step[s]
    BY <1>1, <1>4 DEF CreateStep, ClearStep
  <2> QED
    BY <1>1, <1>3, <1>4, <2>1 DEF MayCreate, ParentsExist, Undisturbed, Made, Tables
<1>5. CASE t = "role"
  <2>1. step[s] > ClearStep["permission"] /\ CreateStep["permission"] < step[s]
    BY <1>1, <1>5 DEF CreateStep, ClearStep
  <2> QED
    BY <1>1, <1>3, <1>5, <2>1, ConnectsKeys
    DEF MayCreate, ParentsExist, Undisturbed, Made, Tables
<1>6. CASE t = "user"
  <2>1. /\ step[s] > ClearStep["role"] /\ CreateStep["role"] < step[s]
        /\ step[s] > LookupStep
    BY <1>1, <1>6 DEF CreateStep, ClearStep, LookupStep
  <2>2. got[s][k] = s /\ row["role"][k] = s
    BY <1>1, <2>1 DEF Undisturbed, Made, Tables
  <2> QED
    BY <1>1, <1>3, <1>6, <2>2 DEF MayCreate, ParentsExist
<1> QED
  BY <1>3, <1>4, <1>5, <1>6 DEF MayCreate, ParentsExist

\* Nobody has a role when an undisturbed run deletes the roles.
LEMMA NobodyRefers ==
    ASSUME SeedInv, NEW s \in alone, NEW t \in Tables, At(s, ClearStep[t])
    PROVE  ~Referred(t)
<1> SUFFICES ASSUME t = "role" PROVE ~Referred(t)
  BY DEF Referred
<1>1. Undisturbed(s) /\ step[s] = 4 /\ s \in Seeders
  BY DEF SeedInv, SeedTypeOK, At, ClearStep
<1>2. step[s] > ClearStep["user"] /\ \A k \in Keys : ~Made(s, "user", k)
  BY <1>1 DEF ClearStep, CreateStep, Made
<1> QED
  BY <1>1, <1>2 DEF Undisturbed, Referred, Tables

LEMMA UndisturbedGoesOn ==
    ASSUME SeedInv, NEW s \in Seeders, s \in alone', SeedStep(s),
           outcome'[s] = "running"
    PROVE  Undisturbed(s)'
<1>1. SeedTypeOK /\ SeedTypeOK' /\ FreshAtZero /\ StepTypeOK
  BY SeedTypes DEF SeedInv, SeedTypeOK, StepTypeOK
<1>2. step[s] \in 0 .. LastStep /\ landed[s] \subseteq Keys
  BY <1>1 DEF SeedTypeOK
<1>3. CASE Begin(s)
  <2>1. step'[s] = 1
    BY <1>1, <1>3 DEF Begin, Advance, FreshAtZero, SeedTypeOK
  <2> QED
    BY <2>1, Order DEF Undisturbed, LookupStep, Tables
<1>4. CASE ClearDependents(s)
  <2>1. step'[s] = 2
    BY <1>1, <1>4 DEF ClearDependents, Advance, At, SeedTypeOK
  <2> QED
    BY <2>1, Order DEF Undisturbed, LookupStep, Tables
<1>5. ASSUME NEW t \in Tables, Clear(s, t) PROVE Undisturbed(s)'
  <2>1. /\ step[s] = ClearStep[t] /\ step[s] \in 2 .. 8
        /\ step'[s] = step[s] + 1 /\ landed'[s] = {}
    <3>1. step[s] = ClearStep[t] /\ step[s] \in 2 .. 8 /\ step[s] < LastStep
      BY <1>5, Order DEF Clear, At
    <3> QED
      BY <1>1, <1>5, <3>1, Advances DEF Clear
  <2>2. Undisturbed(s)
    BY <1>5 DEF Clear, Disturb, SeedInv, At
  <2>3. ASSUME NEW u \in Tables, NEW k \in Keys, step'[s] > ClearStep[u]
        PROVE  row'[u][k] = Absent
    <3>1. CASE u = t
      BY <1>1, <1>5, <3>1 DEF Clear, Emptied, SeedTypeOK
    <3>2. CASE u # t
      <4>1. step[s] > ClearStep[u] /\ ~Made(s, u, k)
        BY <2>1, <2>3, <3>2, Order DEF Made
      <4>2. row'[u][k] = row[u][k]
        BY <1>1, <1>5, <3>2 DEF Clear, SeedTypeOK
      <4> QED
        BY <2>2, <4>1, <4>2 DEF Undisturbed
    <3> QED
      BY <3>1, <3>2
  <2>4. \A u \in Tables, k \in Keys : ~Made(s, u, k)'
    BY <2>1, Order DEF Made
  <2>5. ASSUME step'[s] > ClearStep["user"], NEW a \in Addresses
        PROVE  account'[a] = Absent
    <3>1. CASE t = "user"
      BY <1>5, <3>1 DEF Clear
    <3>2. CASE t # "user"
      <4>1. step[s] > ClearStep["user"]
        BY <2>1, <2>5, <3>2, Order DEF Tables
      <4> QED
        BY <1>5, <2>2, <3>2, <4>1 DEF Undisturbed, Clear
    <3> QED
      BY <3>1, <3>2
  <2> QED
    BY <2>1, <2>3, <2>4, <2>5, Order DEF Undisturbed
<1>6. ASSUME NEW t \in Tables, NEW k \in Keys, Create(s, t, k)
      PROVE  Undisturbed(s)'
  <2>1. /\ step[s] = CreateStep[t] /\ step[s] \in 9 .. 16 /\ step[s] # LookupStep
        /\ \/ /\ landed[s] \cup {k} = Keys
              /\ step'[s] = step[s] + 1 /\ landed'[s] = {}
           \/ step'[s] = step[s] /\ landed'[s] = landed[s] \cup {k}
    <3>1. /\ step[s] = CreateStep[t] /\ step[s] \in 9 .. 16
          /\ step[s] # LookupStep /\ step[s] < LastStep
      BY <1>6, Order DEF Create, At
    <3> QED
      BY <1>1, <1>6, <3>1, LandsOne DEF Create
  <2>2. Undisturbed(s)
    BY <1>6 DEF Create, Disturb, SeedInv, At
  <2>3. ASSUME NEW u \in Tables, NEW j \in Keys
        PROVE  row'[u][j] = IF Made(s, u, j)' THEN s ELSE Absent
    <3>1. row[u][j] = IF Made(s, u, j) THEN s ELSE Absent
      <4>1. step[s] > ClearStep[u]
        BY <2>1, Order
      <4> QED
        BY <2>2, <4>1 DEF Undisturbed
    <3>2. CASE u = t
      <4>1. Made(s, t, j)' <=> j = k \/ Made(s, t, j)
        BY <2>1, Order DEF Made
      <4>2. row'[t][j] = IF j = k THEN s ELSE row[t][j]
        BY <1>1, <1>6 DEF Create, SeedTypeOK
      <4> QED
        BY <3>1, <3>2, <4>1, <4>2
    <3>3. CASE u # t
      <4>1. CreateStep[u] # step[s] /\ CreateStep[u] \in 9 .. 16
        BY <2>1, <3>3, Order
      <4>2. Made(s, u, j)' <=> Made(s, u, j)
        BY <2>1, <4>1 DEF Made
      <4>3. row'[u][j] = row[u][j]
        BY <1>1, <1>6, <3>3 DEF Create, SeedTypeOK
      <4> QED
        BY <3>1, <4>2, <4>3
    <3> QED
      BY <3>2, <3>3
  <2>4. \A a \in Addresses : account'[a] = Absent
    <3>1. step[s] > ClearStep["user"]
      BY <2>1, Order DEF Tables
    <3> QED
      BY <1>6, <2>2, <3>1 DEF Undisturbed, Create
  <2>5. ASSUME NEW j \in Keys,
               step'[s] > LookupStep \/ (step'[s] = LookupStep /\ j \in landed'[s])
        PROVE  got'[s][j] = s
    <3>1. step[s] > LookupStep
      BY <2>1, <2>5, Order
    <3> QED
      BY <1>6, <2>2, <3>1 DEF Undisturbed, Create
  <2> QED
    BY <2>3, <2>4, <2>5 DEF Undisturbed
<1>7. ASSUME NEW k \in Keys, Lookup(s, k) PROVE Undisturbed(s)'
  <2>1. /\ step[s] = 13
        /\ \/ /\ landed[s] \cup {k} = Keys
              /\ step'[s] = 14 /\ landed'[s] = {}
           \/ step'[s] = 13 /\ landed'[s] = landed[s] \cup {k}
    <3>1. step[s] = 13 /\ step[s] < LastStep
      BY <1>7 DEF Lookup, At, LookupStep, LastStep
    <3> QED
      BY <1>1, <1>7, <3>1, LandsOne DEF Lookup
  <2>2. Undisturbed(s) /\ row' = row /\ account' = account
    BY <1>7 DEF Lookup, tables, SeedInv, At
  <2>3. row["role"][k] = s
    <3>1. step[s] > ClearStep["role"] /\ Made(s, "role", k) /\ "role" \in Tables
      BY <2>1 DEF Made, CreateStep, ClearStep, Tables
    <3> QED
      BY <2>2, <3>1 DEF Undisturbed
  <2>4. ASSUME NEW u \in Tables, NEW j \in Keys
        PROVE  row'[u][j] = IF Made(s, u, j)' THEN s ELSE Absent
    <3>1. CreateStep[u] # 13 /\ CreateStep[u] \in 9 .. 16 /\ step[s] > ClearStep[u]
      BY <2>1, Order
    <3>2. Made(s, u, j)' <=> Made(s, u, j)
      BY <2>1, <3>1 DEF Made
    <3> QED
      BY <2>2, <3>1, <3>2 DEF Undisturbed
  <2>5. \A a \in Addresses : account'[a] = Absent
    <3>1. step[s] > ClearStep["user"]
      BY <2>1 DEF ClearStep
    <3> QED
      BY <2>2, <3>1 DEF Undisturbed
  <2>6. ASSUME NEW j \in Keys,
               step'[s] > LookupStep \/ (step'[s] = LookupStep /\ j \in landed'[s])
        PROVE  got'[s][j] = s
    <3>1. j = k \/ j \in landed[s]
      BY <2>1, <2>6 DEF LookupStep
    <3>2. got'[s][j] = IF j = k THEN row["role"][k] ELSE got[s][j]
      BY <1>1, <1>7 DEF Lookup, SeedTypeOK
    <3> QED
      BY <2>1, <2>2, <2>3, <3>1, <3>2 DEF Undisturbed, LookupStep
  <2> QED
    BY <2>4, <2>5, <2>6 DEF Undisturbed
<1>8. ~(Finish(s) \/ Crash(s))
  BY <1>1 DEF Finish, Crash, Ends, SeedTypeOK
<1>9. \A t \in Tables : ~ClearFails(s, t)
  BY <1>1 DEF ClearFails, Ends, SeedTypeOK
<1>10. \A t \in Tables, k \in Keys : ~CreateFails(s, t, k) /\ ~Straggle(s, t, k)
  BY <1>1 DEF CreateFails, Straggle, Ends, SeedTypeOK
<1> QED
  BY <1>3, <1>4, <1>5, <1>6, <1>7, <1>8, <1>9, <1>10, SeedStepCases

\* A run that is not disturbed does not fail.
LEMMA UndisturbedSucceeds ==
    ASSUME SeedInv, NEW s \in Seeders, s \in alone', SeedStep(s)
    PROVE  outcome'[s] # "failed"
<1>1. SeedTypeOK
  BY DEF SeedInv
<1>2. \A t \in Tables : ~ClearFails(s, t)
  BY NobodyRefers DEF ClearFails
<1>3. \A t \in Tables, k \in Keys : ~CreateFails(s, t, k)
  BY FindsItsOwn DEF CreateFails, Turn
<1>4. ASSUME NEW t \in Tables, NEW k \in Keys, Straggle(s, t, k)
      PROVE  outcome'[s] # "failed"
  BY <1>4 DEF Straggle, Disturb, SeedInv
<1> QED
  BY <1>1, <1>2, <1>3, <1>4, SeedStepCases DEF SeedTypeOK, Begin, ClearDependents,
     Finish, Crash, Clear, Create, Lookup, Ends, At

LEMMA SeedStepKeepsInv ==
    ASSUME SeedInv, NEW s \in Seeders, SeedStep(s)
    PROVE  SeedInv'
<1>1. SeedTypeOK' /\ FreshAtZero' /\ OthersStay(s) /\ SeedTypeOK
  BY SeedTypes DEF SeedInv
<1>2. ASSUME NEW u \in alone'
      PROVE  /\ outcome'[u] # "failed"
             /\ outcome'[u] = "running" => Undisturbed(u)'
  <2>1. CASE u = s
    BY <2>1, UndisturbedGoesOn, UndisturbedSucceeds
  <2>2. CASE u # s
    <3>1. row' = row /\ account' = account /\ u \in alone
      BY <1>1, <1>2, <2>2, SeedWrites
    <3>2. u \in Seeders \ {s}
      BY <1>1, <2>2, <3>1 DEF SeedTypeOK
    <3> QED
      BY <1>1, <3>1, <3>2 DEF OthersStay, SeedInv, Undisturbed, Made
  <2> QED
    BY <2>1, <2>2
<1> QED
  BY <1>1, <1>2 DEF SeedInv

\* Requests disturb every run when they create an account, and else none.
LEMMA RequestKeepsSeedInv ==
    ASSUME SeedInv, UNCHANGED <<row, step, landed, got, outcome>>,
           \/ UNCHANGED <<account, alone>>
           \/ alone' = {} /\ account' \in [Addresses -> Requests \cup {Absent}]
    PROVE  SeedInv'
<1>1. SeedTypeOK' /\ FreshAtZero'
  BY DEF SeedInv, SeedTypeOK, FreshAtZero
<1>2. CASE UNCHANGED <<account, alone>>
  BY <1>1, <1>2 DEF SeedInv, Undisturbed, Made
<1>3. CASE alone' = {}
  BY <1>1, <1>3 DEF SeedInv
<1> QED
  BY <1>2, <1>3

-----------------------------------------------------------------------------
(***************************************************************************)
(* What runs that succeed leave behind.  A row that somebody has made is    *)
(* gone only while the run that deleted it has yet to make its own, or      *)
(* never will because it has failed; and so with a row whose parent is     *)
(* another run's.                                                          *)
(***************************************************************************)
Trouble == \E s \in Seeders : outcome[s] \in {"failed", "crashed"}

\* s has emptied table u, and row k of table t is still to come.
Owes(s, t, k, u) ==
    outcome[s] = "running" /\ step[s] > ClearStep[u] /\ ~Made(s, t, k)

DoneAtLast == \A s \in Seeders : outcome[s] = "done" => step[s] = LastStep

RowsRemain ==
    \A t \in Tables, k \in Keys :
        (\E s \in Seeders : Made(s, t, k)) =>
            \/ row[t][k] # Absent
            \/ \E s \in Seeders : Owes(s, t, k, t)

CurrencyFits ==
    \A k \in Keys :
        row["currency"][k] # Absent =>
            \/ row["country"][k] = row["currency"][k]
            \/ \E s \in Seeders : Owes(s, "currency", k, "country")

RoleFits ==
    \A j \in Keys :
        row["role"][j] # Absent =>
            \/ \A k \in Connects[j] : row["permission"][k] = row["role"][j]
            \/ \E s \in Seeders : Owes(s, "role", j, "permission")

RowInv == DoneAtLast /\ (Trouble \/ (RowsRemain /\ CurrencyFits /\ RoleFits))

LEMMA RowInvIsEnough == RowInv => AllSucceededIsComplete
<1> SUFFICES ASSUME RowInv,
                    \A s \in Seeders : outcome[s] \in {"none", "done"},
                    NEW d \in Seeders, outcome[d] = "done"
             PROVE  Complete
  BY DEF AllSucceededIsComplete
<1>1. ~Trouble /\ RowsRemain /\ CurrencyFits /\ RoleFits
  BY DEF RowInv, Trouble
<1>2. \A s \in Seeders, t, u \in Tables, k \in Keys : ~Owes(s, t, k, u)
  BY DEF Owes
<1>3. \A t \in Tables, k \in Keys : Made(d, t, k)
  BY Order DEF RowInv, DoneAtLast, Made
<1>4. {"currency", "country", "role", "permission"} \subseteq Tables
  BY DEF Tables
<1>5. \A t \in Tables, k \in Keys : row[t][k] # Absent
  BY <1>1, <1>2, <1>3 DEF RowsRemain
<1>6. \A k \in Keys : row["currency"][k] = row["country"][k]
  BY <1>1, <1>2, <1>4, <1>5 DEF CurrencyFits
<1>7. \A k \in Keys : \A j \in Connects[k] : row["role"][k] = row["permission"][j]
  BY <1>1, <1>2, <1>4, <1>5 DEF RoleFits
<1> QED
  BY <1>5, <1>6, <1>7 DEF Complete

\* A run that has failed stays failed.
LEMMA TroubleStays ==
    ASSUME SeedTypeOK, FreshAtZero, NEW s \in Seeders, SeedStep(s), Trouble
    PROVE  Trouble'
<1>1. OthersStay(s)
  BY SeedTypes
<1>2. outcome[s] \in {"failed", "crashed"} => outcome' = outcome
  BY SeedStepCases DEF Begin, ClearDependents, Finish, Crash, Clear, ClearFails,
     Create, CreateFails, Straggle, Lookup, At
<1> QED
  BY <1>1, <1>2 DEF Trouble, OthersStay

\* The statements of a run in a world without failures.
LEMMA UntroubledCases ==
    ASSUME SeedTypeOK, NEW s \in Seeders, SeedStep(s), ~Trouble'
    PROVE  \/ Begin(s) \/ ClearDependents(s) \/ Finish(s)
           \/ \E t \in Tables : Clear(s, t)
           \/ \E t \in Tables, k \in Keys : Create(s, t, k)
           \/ \E k \in Keys : Lookup(s, k)
<1>1. ~Crash(s)
  BY DEF Crash, Ends, Trouble, SeedTypeOK
<1>2. \A t \in Tables : ~ClearFails(s, t)
  BY DEF ClearFails, Ends, Trouble, SeedTypeOK
<1>3. \A t \in Tables, k \in Keys : ~CreateFails(s, t, k)
  BY DEF CreateFails, Ends, Trouble, SeedTypeOK
<1>4. \A t \in Tables, k \in Keys : ~Straggle(s, t, k)
  BY DEF Straggle, Trouble
<1> QED
  BY <1>1, <1>2, <1>3, <1>4, SeedStepCases

\* A run has made what it creates, and no other statement adds to that.
LEMMA MakesOne ==
    ASSUME SeedTypeOK, NEW s \in Seeders, NEW c \in Tables, NEW k \in Keys,
           Create(s, c, k)
    PROVE  \A u \in Seeders, t \in Tables, j \in Keys :
               Made(u, t, j)' <=> Made(u, t, j) \/ (u = s /\ t = c /\ j = k)
<1>1. StepTypeOK /\ step[s] = CreateStep[c] /\ step[s] < LastStep
  BY Order DEF Create, At, SeedTypeOK, StepTypeOK
<1>2. /\ StepStays(s)
      /\ \/ /\ landed[s] \cup {k} = Keys
            /\ step'[s] = step[s] + 1 /\ landed'[s] = {}
         \/ step'[s] = step[s] /\ landed'[s] = landed[s] \cup {k}
  BY <1>1, LandsOne DEF Create
<1>3. ASSUME NEW t \in Tables, NEW j \in Keys
      PROVE  Made(s, t, j)' <=> Made(s, t, j) \/ (t = c /\ j = k)
  <2>1. CreateStep[t] = CreateStep[c] <=> t = c
    BY Order
  <2>2. CreateStep[t] \in Nat /\ CreateStep[c] \in Nat
    BY Order
  <2> QED
    BY <1>1, <1>2, <2>1, <2>2 DEF Made
<1> QED
  BY <1>2, <1>3 DEF StepStays, Made

LEMMA MakesNone ==
    ASSUME SeedTypeOK, FreshAtZero, NEW s \in Seeders,
           \/ Begin(s) \/ ClearDependents(s) \/ Finish(s)
           \/ (\E t \in Tables : Clear(s, t)) \/ (\E k \in Keys : Lookup(s, k))
    PROVE  \A u \in Seeders, t \in Tables, j \in Keys :
               Made(u, t, j)' <=> Made(u, t, j)
<1>1. StepTypeOK
  BY DEF SeedTypeOK, StepTypeOK
<1>2. CASE Begin(s) \/ ClearDependents(s) \/ \E t \in Tables : Clear(s, t)
  <2>1. step[s] \in 0 .. 8 /\ Advance(s)
    BY <1>1, <1>2, Order
    DEF Begin, ClearDependents, Clear, At, FreshAtZero, StepTypeOK
  <2>2. StepStays(s) /\ step'[s] = step[s] + 1 /\ landed'[s] = {}
    BY <1>1, <2>1, Advances, Order
  <2> QED
    BY <2>1, <2>2, Order DEF StepStays, Made
<1>3. CASE Finish(s)
  BY <1>3 DEF Finish, Made
<1>4. CASE \E k \in Keys : Lookup(s, k)
  <2>1. PICK k \in Keys : Lookup(s, k)
    BY <1>4
  <2>2. step[s] = LookupStep /\ step[s] < LastStep
    BY <2>1, Order DEF Lookup, At
  <2>3. StepStays(s) /\ step'[s] \in {step[s], step[s] + 1}
        /\ (step'[s] = step[s] + 1 => landed'[s] = {})
    BY <1>1, <2>1, <2>2, LandsOne, Order DEF Lookup
  <2>4. \A t \in Tables : CreateStep[t] \in Nat /\ CreateStep[t] # step[s]
    BY <2>2, Order
  <2> QED
    BY <2>2, <2>3, <2>4, Order DEF StepStays, Made
<1> QED
  BY <1>2, <1>3, <1>4

\* What is owed stays owed until it is made.
LEMMA DebtStays ==
    ASSUME SeedTypeOK, FreshAtZero, DoneAtLast, NEW s \in Seeders, SeedStep(s),
           ~Trouble', NEW u \in Seeders, NEW t \in Tables, NEW k \in Keys,
           NEW c \in Tables, Owes(u, t, k, c), ~Made(u, t, k)'
    PROVE  Owes(u, t, k, c)'
<1>1. OthersStay(s) /\ StepTypeOK' /\ StepTypeOK
  BY SeedTypes, SeedMoves DEF SeedTypeOK, StepTypeOK
<1>2. CASE u # s
  BY <1>1, <1>2 DEF OthersStay, Owes, Made
<1>3. CASE u = s
  <2>1. outcome'[s] = "running"
    <3>1. ~Begin(s) /\ ~Finish(s)
      BY <1>3, Order DEF Begin, Finish, At, Owes, Made
    <3> QED
      BY <1>3, <3>1, UntroubledCases
      DEF Owes, ClearDependents, Clear, Create, Lookup
  <2>2. step'[s] \in {step[s], step[s] + 1}
    <3>1. CASE Advance(s)
      BY <3>1, <1>1 DEF Advance, StepTypeOK
    <3>2. CASE step' = step
      BY <3>2
    <3> QED
      BY <3>1, <3>2, UntroubledCases
      DEF Begin, ClearDependents, Finish, Clear, Create, Lookup, Lands
  <2>3. ClearStep[c] \in Nat /\ step[s] \in Nat
    BY <1>1, Order DEF StepTypeOK
  <2> QED
    BY <1>3, <2>1, <2>2, <2>3 DEF Owes
<1> QED
  BY <1>2, <1>3

\* deleteMany leaves a debt for every row of its table, and of those that
\* refer to it.
LEMMA ClearOwes ==
    ASSUME SeedTypeOK, FreshAtZero, NEW s \in Seeders, NEW c \in Tables, Clear(s, c),
           NEW t \in Tables, NEW k \in Keys
    PROVE  Owes(s, t, k, c)'
<1>1. StepTypeOK /\ step[s] = ClearStep[c] /\ step[s] \in 2 .. 8
  BY Order DEF Clear, At, SeedTypeOK, StepTypeOK
<1>2. step'[s] = step[s] + 1 /\ landed'[s] = {}
  BY <1>1, Advances, Order DEF Clear
<1>3. outcome'[s] = "running"
  BY DEF Clear, At
<1> QED
  BY <1>1, <1>2, <1>3, Order DEF Owes, Made

LEMMA ClearKeepsRows ==
    ASSUME SeedTypeOK, FreshAtZero, DoneAtLast, RowsRemain, CurrencyFits, RoleFits,
           NEW s \in Seeders, NEW c \in Tables, Clear(s, c), SeedStep(s), ~Trouble'
    PROVE  RowsRemain' /\ CurrencyFits' /\ RoleFits'
<1>1. \A u \in Seeders, t \in Tables, j \in Keys : Made(u, t, j)' <=> Made(u, t, j)
  BY MakesNone
<1>2. \A t \in Tables, k \in Keys : Owes(s, t, k, c)'
  BY ClearOwes
<1>3. \A u \in Seeders, t, d \in Tables, k \in Keys :
          Owes(u, t, k, d) => Owes(u, t, k, d)'
  BY <1>1, DebtStays DEF Owes
<1>4. /\ \A t \in Tables \ {c} : row'[t] = row[t]
      /\ \A k \in Keys : row'[c][k] = Absent
  BY DEF Clear, Emptied, SeedTypeOK
<1>5. {"currency", "country", "role", "permission"} \subseteq Tables
  BY DEF Tables
<1>6. RowsRemain'
  BY <1>1, <1>2, <1>3, <1>4 DEF RowsRemain
<1>7. CurrencyFits'
  BY <1>2, <1>3, <1>4, <1>5 DEF CurrencyFits
<1>8. RoleFits'
  BY <1>2, <1>3, <1>4, <1>5, ConnectsKeys DEF RoleFits
<1> QED
  BY <1>6, <1>7, <1>8

LEMMA CreateKeepsRows ==
    ASSUME SeedTypeOK, FreshAtZero, DoneAtLast, RowsRemain, CurrencyFits, RoleFits,
           NEW s \in Seeders, NEW c \in Tables, NEW k \in Keys, Create(s, c, k),
           SeedStep(s), ~Trouble'
    PROVE  RowsRemain' /\ CurrencyFits' /\ RoleFits'
<1>1. \A u \in Seeders, t \in Tables, j \in Keys :
          Made(u, t, j)' <=> Made(u, t, j) \/ (u = s /\ t = c /\ j = k)
  BY MakesOne
<1>2. ASSUME NEW u \in Seeders, NEW t \in Tables, NEW d \in Tables, NEW j \in Keys,
             Owes(u, t, j, d), ~(t = c /\ j = k)
      PROVE  Owes(u, t, j, d)'
  BY <1>1, <1>2, DebtStays DEF Owes
<1>3. /\ row[c][k] = Absent /\ row'[c][k] = s
      /\ \A t \in Tables, j \in Keys : ~(t = c /\ j = k) => row'[t][j] = row[t][j]
  BY DEF Create, MayCreate, SeedTypeOK
<1>4. s # Absent
  OBVIOUS
<1>5. {"currency", "country", "role", "permission"} \subseteq Tables
  BY DEF Tables
<1>6. RowsRemain'
  BY <1>1, <1>2, <1>3, <1>4 DEF RowsRemain
<1>7. CurrencyFits'
  <2> SUFFICES ASSUME NEW j \in Keys, row'["currency"][j] # Absent
               PROVE  \/ row'["country"][j] = row'["currency"][j]
                      \/ \E u \in Seeders : Owes(u, "currency", j, "country")'
    BY DEF CurrencyFits
  <2>1. CASE c = "currency" /\ j = k
    <3>1. row["country"][k] = s
      BY <2>1 DEF Create, MayCreate, ParentsExist
    <3> QED
      BY <2>1, <3>1, <1>3, <1>5
  <2>2. CASE ~(c = "currency" /\ j = k)
    <3>1. row'["currency"][j] = row["currency"][j]
      BY <2>2, <1>3, <1>5
    <3>2. CASE row["country"][j] = row["currency"][j]
      BY <3>1, <3>2, <1>3, <1>5
    <3>3. CASE \E u \in Seeders : Owes(u, "currency", j, "country")
      BY <2>2, <3>3, <1>2, <1>5
    <3> QED
      BY <3>1, <3>2, <3>3 DEF CurrencyFits
  <2> QED
    BY <2>1, <2>2
<1>8. RoleFits'
  <2> SUFFICES ASSUME NEW j \in Keys, row'["role"][j] # Absent
               PROVE  \/ \A i \in Connects[j] : row'["permission"][i] = row'["role"][j]
                      \/ \E u \in Seeders : Owes(u, "role", j, "permission")'
    BY DEF RoleFits
  <2>1. CASE c = "role" /\ j = k
    <3>1. \A i \in Connects[k] : row["permission"][i] = s
      BY <2>1 DEF Create, MayCreate, ParentsExist
    <3> QED
      BY <2>1, <3>1, <1>3, <1>5, ConnectsKeys
  <2>2. CASE ~(c = "role" /\ j = k)
    <3>1. row'["role"][j] = row["role"][j]
      BY <2>2, <1>3, <1>5
    <3>2. CASE \A i \in Connects[j] : row["permission"][i] = row["role"][j]
      <4>1. \A i \in Connects[j] : row'["permission"][i] = row["role"][j]
        BY <3>2, <1>3, <1>5, ConnectsKeys DEF RoleFits
      <4> QED
        BY <3>1, <4>1
    <3>3. CASE \E u \in Seeders : Owes(u, "role", j, "permission")
      BY <2>2, <3>3, <1>2, <1>5
    <3> QED
      BY <3>1, <3>2, <3>3 DEF RoleFits
  <2> QED
    BY <2>1, <2>2
<1> QED
  BY <1>6, <1>7, <1>8

LEMMA OtherStepKeepsRows ==
    ASSUME SeedTypeOK, FreshAtZero, DoneAtLast, RowsRemain, CurrencyFits, RoleFits,
           NEW s \in Seeders, SeedStep(s), ~Trouble',
           Begin(s) \/ ClearDependents(s) \/ Finish(s) \/ \E k \in Keys : Lookup(s, k)
    PROVE  RowsRemain' /\ CurrencyFits' /\ RoleFits'
<1>1. \A u \in Seeders, t \in Tables, j \in Keys : Made(u, t, j)' <=> Made(u, t, j)
  BY MakesNone
<1>2. \A u \in Seeders, t, d \in Tables, k \in Keys :
          Owes(u, t, k, d) => Owes(u, t, k, d)'
  BY <1>1, DebtStays DEF Owes
<1>3. row' = row
  BY DEF Begin, ClearDependents, Finish, Lookup, tables
<1>4. {"currency", "country", "role", "permission"} \subseteq Tables
  BY DEF Tables
<1> QED
  BY <1>1, <1>2, <1>3, <1>4 DEF RowsRemain, CurrencyFits, RoleFits

LEMMA SeedStepKeepsRowInv ==
    ASSUME SeedTypeOK, FreshAtZero, RowInv, NEW s \in Seeders, SeedStep(s)
    PROVE  RowInv'
<1>1. DoneAtLast'
  <2>1. OthersStay(s)
    BY SeedTypes
  <2>2. outcome'[s] = "done" => step'[s] = LastStep
    BY SeedStepCases DEF Begin, ClearDependents, Finish, Crash, Clear, ClearFails,
       Create, CreateFails, Straggle, Lookup, Ends, At, SeedTypeOK
  <2> QED
    BY <2>1, <2>2 DEF RowInv, DoneAtLast, OthersStay
<1>2. CASE ~Trouble'
  <2>1. RowsRemain /\ CurrencyFits /\ RoleFits /\ DoneAtLast
    BY <1>2, TroubleStays DEF RowInv
  <2> QED
    BY <1>1, <1>2, <2>1, UntroubledCases, ClearKeepsRows, CreateKeepsRows,
       OtherStepKeepsRows DEF RowInv
<1> QED
  BY <1>1, <1>2 DEF RowInv

\* Who does not run the script leaves all this alone.
LEMMA OthersKeepRowInv ==
    ASSUME RowInv, UNCHANGED <<row, step, landed, outcome>>
    PROVE  RowInv'
  BY DEF RowInv, DoneAtLast, Trouble, RowsRemain, CurrencyFits, RoleFits, Owes, Made

LEMMA SeedInitRowInv == SeedInit => RowInv
  BY Order DEF SeedInit, RowInv, DoneAtLast, RowsRemain, CurrencyFits, RoleFits, Made,
     Tables

-----------------------------------------------------------------------------
(***************************************************************************)
(* Accounts                                                                *)
(***************************************************************************)
LEMMA InitIInv == Init => IInv
  BY Order DEF Init, SeedInit, IInv, TypeOK, SeedInv, SeedTypeOK, FreshAtZero,
     AccountInv, RequestInv, VisitInv, UsedMeansVerified, VerifiedHasCause, Exists

LEMMA RoleTyped ==
    ASSUME IInv
    PROVE  row["role"][Customer] \in Seeders \cup {Absent}
<1>1. "role" \in Tables /\ Customer \in Keys
  BY DEF Tables, Keys
<1> QED
  BY <1>1 DEF IInv, TypeOK, SeedTypeOK

LEMMA AskKeepsIInv ==
    ASSUME IInv, NEW r \in Requests, NEW k \in {"register", "create"}, NEW a \in Addresses, Ask(r, k, a)
    PROVE  IInv'
<1> USE DEF IInv, Ask, Goto, tables, seeds, requests, records, visits
<1>0. row["role"][Customer] \in Seeders \cup {Absent}
  BY RoleTyped
<1>1. TypeOK'
  BY <1>0 DEF TypeOK, SeedTypeOK
<1>2. SeedInv'
  BY RequestKeepsSeedInv DEF TypeOK, SeedTypeOK
<1>3. AccountInv'
  BY DEF TypeOK, SeedTypeOK, AccountInv, RequestInv, Created
<1>4. RequestInv'
  BY DEF TypeOK, SeedTypeOK, AccountInv, RequestInv, Exists, Created
<1>5. VisitInv'
  BY DEF TypeOK, RequestInv, VisitInv, Exists, Created
<1>6. UsedMeansVerified'
  BY DEF TypeOK, VisitInv, UsedMeansVerified
<1>7. VerifiedHasCause'
  BY DEF TypeOK, RequestInv, VisitInv, VerifiedHasCause, Exists
<1> QED
  BY <1>1, <1>2, <1>3, <1>4, <1>5, <1>6, <1>7

LEMMA FindRoleKeepsIInv ==
    ASSUME IInv, NEW r \in Requests, FindRole(r)
    PROVE  IInv'
<1> USE DEF IInv, FindRole, Goto, tables, seeds, requests, records, visits
<1>0. row["role"][Customer] \in Seeders \cup {Absent}
  BY RoleTyped
<1>1. TypeOK'
  BY <1>0 DEF TypeOK, SeedTypeOK
<1>2. SeedInv'
  BY RequestKeepsSeedInv DEF TypeOK, SeedTypeOK
<1>3. AccountInv'
  BY DEF TypeOK, SeedTypeOK, AccountInv, RequestInv, Created
<1>4. RequestInv'
  BY DEF TypeOK, SeedTypeOK, AccountInv, RequestInv, Exists, Created
<1>5. VisitInv'
  BY DEF TypeOK, RequestInv, VisitInv, Exists, Created
<1>6. UsedMeansVerified'
  BY DEF TypeOK, VisitInv, UsedMeansVerified
<1>7. VerifiedHasCause'
  BY DEF TypeOK, RequestInv, VisitInv, VerifiedHasCause, Exists
<1> QED
  BY <1>1, <1>2, <1>3, <1>4, <1>5, <1>6, <1>7

LEMMA CreateUserKeepsIInv ==
    ASSUME IInv, NEW r \in Requests, CreateUser(r)
    PROVE  IInv'
<1> USE DEF IInv, CreateUser, MayInsert, Goto, tables, seeds, requests, records, visits
<1>1. TypeOK'
  BY DEF TypeOK, SeedTypeOK
<1>2. SeedInv'
  BY RequestKeepsSeedInv DEF TypeOK, SeedTypeOK
<1>3. AccountInv'
  BY DEF TypeOK, SeedTypeOK, AccountInv, RequestInv, Created
<1>4. RequestInv'
  BY DEF TypeOK, SeedTypeOK, AccountInv, RequestInv, Exists, Created
<1>5. VisitInv'
  BY DEF TypeOK, RequestInv, VisitInv, Exists, Created
<1>6. UsedMeansVerified'
  BY DEF TypeOK, VisitInv, UsedMeansVerified
<1>7. VerifiedHasCause'
  BY DEF TypeOK, RequestInv, VisitInv, VerifiedHasCause, Exists
<1> QED
  BY <1>1, <1>2, <1>3, <1>4, <1>5, <1>6, <1>7

LEMMA SaveHistoryKeepsIInv ==
    ASSUME IInv, NEW r \in Requests, SaveHistory(r)
    PROVE  IInv'
<1> USE DEF IInv, SaveHistory, Goto, tables, seeds, requests, records, visits
<1>1. TypeOK'
  BY DEF TypeOK, SeedTypeOK
<1>2. SeedInv'
  BY RequestKeepsSeedInv DEF TypeOK, SeedTypeOK
<1>3. AccountInv'
  BY DEF TypeOK, SeedTypeOK, AccountInv, RequestInv, Created
<1>4. RequestInv'
  BY DEF TypeOK, SeedTypeOK, AccountInv, RequestInv, Exists, Created
<1>5. VisitInv'
  BY DEF TypeOK, RequestInv, VisitInv, Exists, Created
<1>6. UsedMeansVerified'
  BY DEF TypeOK, VisitInv, UsedMeansVerified
<1>7. VerifiedHasCause'
  BY DEF TypeOK, RequestInv, VisitInv, VerifiedHasCause, Exists
<1> QED
  BY <1>1, <1>2, <1>3, <1>4, <1>5, <1>6, <1>7

LEMMA SaveTokenKeepsIInv ==
    ASSUME IInv, NEW r \in Requests, SaveToken(r)
    PROVE  IInv'
<1> USE DEF IInv, SaveToken, Goto, tables, seeds, requests, records, visits
<1>1. TypeOK'
  BY DEF TypeOK, SeedTypeOK
<1>2. SeedInv'
  BY RequestKeepsSeedInv DEF TypeOK, SeedTypeOK
<1>3. AccountInv'
  BY DEF TypeOK, SeedTypeOK, AccountInv, RequestInv, Created
<1>4. RequestInv'
  BY DEF TypeOK, SeedTypeOK, AccountInv, RequestInv, Exists, Created
<1>5. VisitInv'
  BY DEF TypeOK, RequestInv, VisitInv, Exists, Created
<1>6. UsedMeansVerified'
  BY DEF TypeOK, VisitInv, UsedMeansVerified
<1>7. VerifiedHasCause'
  BY DEF TypeOK, RequestInv, VisitInv, VerifiedHasCause, Exists
<1> QED
  BY <1>1, <1>2, <1>3, <1>4, <1>5, <1>6, <1>7

LEMMA FailKeepsIInv ==
    ASSUME IInv, NEW r \in Requests, Fail(r)
    PROVE  IInv'
<1> USE DEF IInv, Fail, Goto, tables, seeds, requests, records, visits
<1>1. TypeOK'
  BY DEF TypeOK, SeedTypeOK
<1>2. SeedInv'
  BY RequestKeepsSeedInv DEF TypeOK, SeedTypeOK
<1>3. AccountInv'
  BY DEF TypeOK, SeedTypeOK, AccountInv, RequestInv, Created
<1>4. RequestInv'
  BY DEF TypeOK, SeedTypeOK, AccountInv, RequestInv, Exists, Created
<1>5. VisitInv'
  BY DEF TypeOK, RequestInv, VisitInv, Exists, Created
<1>6. UsedMeansVerified'
  BY DEF TypeOK, VisitInv, UsedMeansVerified
<1>7. VerifiedHasCause'
  BY DEF TypeOK, RequestInv, VisitInv, VerifiedHasCause, Exists
<1> QED
  BY <1>1, <1>2, <1>3, <1>4, <1>5, <1>6, <1>7

LEMMA ExpireKeepsIInv ==
    ASSUME IInv, NEW r \in Requests, Expire(r)
    PROVE  IInv'
<1> USE DEF IInv, Expire, tables, seeds, requests, records, visits
<1>1. TypeOK'
  BY DEF TypeOK, SeedTypeOK
<1>2. SeedInv'
  BY RequestKeepsSeedInv DEF TypeOK, SeedTypeOK
<1>3. AccountInv'
  BY DEF TypeOK, SeedTypeOK, AccountInv, RequestInv, Created
<1>4. RequestInv'
  BY DEF TypeOK, SeedTypeOK, AccountInv, RequestInv, Exists, Created
<1>5. VisitInv'
  BY DEF TypeOK, RequestInv, VisitInv, Exists, Created
<1>6. UsedMeansVerified'
  BY DEF TypeOK, VisitInv, UsedMeansVerified
<1>7. VerifiedHasCause'
  BY DEF TypeOK, RequestInv, VisitInv, VerifiedHasCause, Exists
<1> QED
  BY <1>1, <1>2, <1>3, <1>4, <1>5, <1>6, <1>7

LEMMA VerifyOneselfKeepsIInv ==
    ASSUME IInv, NEW r \in Requests, VerifyOneself(r)
    PROVE  IInv'
<1> USE DEF IInv, VerifyOneself, tables, seeds, requests, records, visits
<1>1. TypeOK'
  BY DEF TypeOK, SeedTypeOK
<1>2. SeedInv'
  BY RequestKeepsSeedInv DEF TypeOK, SeedTypeOK
<1>3. AccountInv'
  BY DEF TypeOK, SeedTypeOK, AccountInv, RequestInv, Created
<1>4. RequestInv'
  BY DEF TypeOK, SeedTypeOK, AccountInv, RequestInv, Exists, Created
<1>5. VisitInv'
  BY DEF TypeOK, RequestInv, VisitInv, Exists, Created
<1>6. UsedMeansVerified'
  BY DEF TypeOK, VisitInv, UsedMeansVerified
<1>7. VerifiedHasCause'
  BY DEF TypeOK, RequestInv, VisitInv, VerifiedHasCause, Exists
<1> QED
  BY <1>1, <1>2, <1>3, <1>4, <1>5, <1>6, <1>7

LEMMA FindKeepsIInv ==
    ASSUME IInv, NEW v \in Visits, NEW r \in Requests, Find(v, r)
    PROVE  IInv'
<1> USE DEF IInv, Find, tables, seeds, requests, records, visits
<1>1. TypeOK'
  BY DEF TypeOK, SeedTypeOK
<1>2. SeedInv'
  BY RequestKeepsSeedInv DEF TypeOK, SeedTypeOK
<1>3. AccountInv'
  BY DEF TypeOK, SeedTypeOK, AccountInv, RequestInv, Created
<1>4. RequestInv'
  BY DEF TypeOK, SeedTypeOK, AccountInv, RequestInv, Exists, Created
<1>5. VisitInv'
  BY DEF TypeOK, RequestInv, VisitInv, Exists, Created
<1>6. UsedMeansVerified'
  BY DEF TypeOK, VisitInv, UsedMeansVerified
<1>7. VerifiedHasCause'
  BY DEF TypeOK, RequestInv, VisitInv, VerifiedHasCause, Exists
<1> QED
  BY <1>1, <1>2, <1>3, <1>4, <1>5, <1>6, <1>7

LEMMA MarkKeepsIInv ==
    ASSUME IInv, NEW v \in Visits, Mark(v)
    PROVE  IInv'
<1> USE DEF IInv, Mark, tables, seeds, requests, records, visits
<1>1. TypeOK'
  BY DEF TypeOK, SeedTypeOK
<1>2. SeedInv'
  BY RequestKeepsSeedInv DEF TypeOK, SeedTypeOK
<1>3. AccountInv'
  BY DEF TypeOK, SeedTypeOK, AccountInv, RequestInv, Created
<1>4. RequestInv'
  BY DEF TypeOK, SeedTypeOK, AccountInv, RequestInv, Exists, Created
<1>5. VisitInv'
  BY DEF TypeOK, RequestInv, VisitInv, Exists, Created
<1>6. UsedMeansVerified'
  BY DEF TypeOK, VisitInv, UsedMeansVerified
<1>7. VerifiedHasCause'
  BY DEF TypeOK, RequestInv, VisitInv, VerifiedHasCause, Exists
<1> QED
  BY <1>1, <1>2, <1>3, <1>4, <1>5, <1>6, <1>7

LEMMA ConfirmKeepsIInv ==
    ASSUME IInv, NEW v \in Visits, Confirm(v)
    PROVE  IInv'
<1> USE DEF IInv, Confirm, tables, seeds, requests, records, visits
<1>1. TypeOK'
  BY DEF TypeOK, SeedTypeOK, VisitInv
<1>2. SeedInv'
  BY RequestKeepsSeedInv DEF TypeOK, SeedTypeOK
<1>3. AccountInv'
  BY DEF TypeOK, SeedTypeOK, AccountInv, RequestInv, Created
<1>4. RequestInv'
  BY DEF TypeOK, SeedTypeOK, AccountInv, RequestInv, Exists, Created
<1>5. VisitInv'
  BY DEF TypeOK, RequestInv, VisitInv, Exists, Created
<1>6. UsedMeansVerified'
  BY DEF TypeOK, VisitInv, UsedMeansVerified
<1>7. VerifiedHasCause'
  BY DEF TypeOK, RequestInv, VisitInv, VerifiedHasCause, Exists
<1> QED
  BY <1>1, <1>2, <1>3, <1>4, <1>5, <1>6, <1>7

LEMMA VisitFailsKeepsIInv ==
    ASSUME IInv, NEW v \in Visits, VisitFails(v)
    PROVE  IInv'
<1> USE DEF IInv, VisitFails, tables, seeds, requests, records, visits
<1>1. TypeOK'
  BY DEF TypeOK, SeedTypeOK
<1>2. SeedInv'
  BY RequestKeepsSeedInv DEF TypeOK, SeedTypeOK
<1>3. AccountInv'
  BY DEF TypeOK, SeedTypeOK, AccountInv, RequestInv, Created
<1>4. RequestInv'
  BY DEF TypeOK, SeedTypeOK, AccountInv, RequestInv, Exists, Created
<1>5. VisitInv'
  BY DEF TypeOK, RequestInv, VisitInv, Exists, Created
<1>6. UsedMeansVerified'
  BY DEF TypeOK, VisitInv, UsedMeansVerified
<1>7. VerifiedHasCause'
  BY DEF TypeOK, RequestInv, VisitInv, VerifiedHasCause, Exists
<1> QED
  BY <1>1, <1>2, <1>3, <1>4, <1>5, <1>6, <1>7

\* A statement of the seed script keeps the accounts or deletes them all, and
\* their role is there as long as they are.
LEMMA SeedStepOnAccounts ==
    ASSUME IInv, NEW s \in Seeders, SeedStep(s)
    PROVE  /\ account' = account \/ account' = [a \in Addresses |-> Absent]
           /\ \A a \in Addresses : account'[a] # Absent =>
                 /\ account'[a] = account[a]
                 /\ row'["role"][Customer] = row["role"][Customer]
<1>1. account' = account \/ account' = [a \in Addresses |-> Absent]
  BY SeedStepCases DEF Begin, ClearDependents, Finish, Crash, Clear, ClearFails,
     Create, CreateFails, Straggle, Lookup, tables
<1>2. ASSUME NEW a \in Addresses, account'[a] # Absent
      PROVE  /\ account'[a] = account[a]
             /\ row'["role"][Customer] = row["role"][Customer]
  <2>1. account' = account
    BY <1>1, <1>2
  <2>2. row["role"][Customer] # Absent
    BY <1>2, <2>1 DEF IInv, AccountInv
  <2>3. row \in [Tables -> [Keys -> Seeders \cup {Absent}]] /\ Customer \in Keys
    BY DEF IInv, TypeOK, SeedTypeOK, Keys
  <2>4. CASE row' = row
    BY <2>1, <2>4
  <2>5. ASSUME NEW t \in Tables, Clear(s, t)
        PROVE  row'["role"][Customer] = row["role"][Customer]
    <3>1. t # "role"
      BY <1>2, <2>1, <2>5 DEF Clear, Referred
    <3> QED
      BY <2>3, <2>5, <3>1 DEF Clear, Tables
  <2>6. ASSUME NEW t \in Tables, NEW k \in Keys, Create(s, t, k) \/ Straggle(s, t, k)
        PROVE  row'["role"][Customer] = row["role"][Customer]
    <3>1. row[t][k] = Absent /\ row' = [row EXCEPT ![t] = [row[t] EXCEPT ![k] = s]]
      BY <2>6 DEF Create, Straggle, MayCreate
    <3>2. ~(t = "role" /\ k = Customer)
      BY <2>2, <3>1
    <3> QED
      BY <2>3, <3>1, <3>2 DEF Tables
  <2> QED
    BY <2>1, <2>4, <2>5, <2>6, SeedStepCases DEF Begin, ClearDependents, Finish,
       Crash, ClearFails, CreateFails, Lookup, tables
<1> QED
  BY <1>1, <1>2

LEMMA SeedingKeepsIInv ==
    ASSUME IInv, NEW s \in Seeders, Seeding(s)
    PROVE  IInv'
<1> USE DEF requests, visits
<1>1. SeedInv'
  BY SeedStepKeepsInv DEF IInv, Seeding
<1>2. /\ account' = account \/ account' = [a \in Addresses |-> Absent]
      /\ \A a \in Addresses : account'[a] # Absent =>
            /\ account'[a] = account[a]
            /\ row'["role"][Customer] = row["role"][Customer]
  BY SeedStepOnAccounts DEF Seeding
<1>3. /\ \A r \in Gone : r \in Requests /\ Exists(r) /\ ~Exists(r)'
      /\ \A r \in Requests \ Gone : Exists(r) <=> Exists(r)'
  BY <1>2 DEF Gone, Exists
<1>4. TypeOK'
  BY <1>1 DEF IInv, TypeOK, SeedInv, Seeding, Gone
<1>5. AccountInv'
  BY <1>2 DEF IInv, AccountInv, Seeding
<1>6. RequestInv'
  <2> SUFFICES ASSUME NEW r \in Requests
               PROVE  /\ pc[r] # "idle" => email[r] \in Addresses
                      /\ r \in wiped' => ~Exists(r)' /\ pc[r] \in Created
                      /\ pc[r] \notin {"done", "failed"} => token'[r] = "none"
                      /\ pc[r] \in {"history", "token", "done"} /\ r \notin wiped' =>
                            account'[email[r]] = r
                      /\ pc[r] = "token" /\ r \notin wiped' => r \in history'
                      /\ pc[r] = "done" /\ r \notin wiped' /\ kind[r] = "register" =>
                            r \in history' /\ token'[r] # "none"
    BY DEF RequestInv, Seeding, Created
  <2>1. r \in wiped' => ~Exists(r)' /\ pc[r] \in Created
    BY <1>3 DEF IInv, RequestInv, AccountInv, Seeding, Exists
  <2>2. /\ token'[r] = IF r \in Gone THEN "none" ELSE token[r]
        /\ r \in history' <=> r \in history /\ r \notin Gone
        /\ r \in wiped' <=> r \in wiped \/ r \in Gone
    BY DEF Seeding
  <2>3. ASSUME pc[r] \in {"history", "token", "done"}, r \notin wiped'
        PROVE  account'[email[r]] = r
    <3>1. account[email[r]] = r /\ email[r] \in Addresses /\ r \notin Gone
      BY <2>2, <2>3 DEF IInv, RequestInv
    <3>2. account' = account
      BY <1>2, <1>3, <3>1 DEF Exists
    <3> QED
      BY <3>1, <3>2
  <2> QED
    BY <2>1, <2>2, <2>3 DEF IInv, RequestInv
<1>7. VisitInv'
  BY DEF IInv, VisitInv, Seeding
<1>8. UsedMeansVerified' /\ VerifiedHasCause'
  BY DEF IInv, TypeOK, UsedMeansVerified, VerifiedHasCause, Seeding
<1> QED
  BY <1>1, <1>4, <1>5, <1>6, <1>7, <1>8 DEF IInv

LEMMA StutterKeepsIInv ==
    ASSUME IInv, UNCHANGED vars
    PROVE  IInv'
<1> USE DEF vars, tables, seeds, requests, records, visits
<1>1. SeedInv'
  BY RequestKeepsSeedInv DEF IInv
<1>2. TypeOK' /\ AccountInv' /\ VisitInv' /\ UsedMeansVerified' /\ VerifiedHasCause'
  BY DEF IInv, TypeOK, SeedTypeOK, AccountInv, VisitInv, UsedMeansVerified,
     VerifiedHasCause
<1>3. RequestInv'
  BY DEF IInv, RequestInv, Exists
<1> QED
  BY <1>1, <1>2, <1>3 DEF IInv

LEMMA NextKeepsIInv == IInv /\ [Next]_vars => IInv'
<1> SUFFICES ASSUME IInv, [Next]_vars PROVE IInv'
  OBVIOUS
<1>1. CASE \E s \in Seeders : Seeding(s)
  BY <1>1, SeedingKeepsIInv
<1>2. CASE \E r \in Requests, k \in {"register", "create"}, a \in Addresses : Ask(r, k, a)
  BY <1>2, AskKeepsIInv
<1>3. CASE \E r \in Requests :
              FindRole(r) \/ CreateUser(r) \/ SaveHistory(r) \/ SaveToken(r) \/ Fail(r)
  BY <1>3, FindRoleKeepsIInv, CreateUserKeepsIInv, SaveHistoryKeepsIInv,
     SaveTokenKeepsIInv, FailKeepsIInv
<1>4. CASE \E r \in Requests : Expire(r) \/ VerifyOneself(r)
  BY <1>4, ExpireKeepsIInv, VerifyOneselfKeepsIInv
<1>5. CASE \E v \in Visits, r \in Requests : Find(v, r)
  BY <1>5, FindKeepsIInv
<1>6. CASE \E v \in Visits : Mark(v) \/ Confirm(v) \/ VisitFails(v)
  BY <1>6, MarkKeepsIInv, ConfirmKeepsIInv, VisitFailsKeepsIInv
<1>7. CASE UNCHANGED vars
  BY <1>7, StutterKeepsIInv
<1> QED
  BY <1>1, <1>2, <1>3, <1>4, <1>5, <1>6, <1>7 DEF Next

-----------------------------------------------------------------------------
(***************************************************************************)
(* Theorems                                                                *)
(***************************************************************************)
\* IInv holds in every state that is reached.
THEOREM InductiveInvariant == Spec => []IInv
<1>1. Init => IInv
  BY InitIInv
<1>2. IInv /\ [Next]_vars => IInv'
  BY NextKeepsIInv
<1> QED
  BY <1>1, <1>2, PTL DEF Spec

\* Every variable has its type.
THEOREM TypeCorrect == Spec => []TypeOK
<1>1. IInv => TypeOK
  BY DEF IInv
<1> QED
  BY <1>1, InductiveInvariant, PTL

\* The seed script can be repeated, whatever is in the database when it
\* starts: only what others write while it runs makes it fail.
THEOREM SeedIsRepeatable == Spec => []FailsOnlyIfDisturbed
<1>1. IInv => FailsOnlyIfDisturbed
  BY DEF IInv, SeedInv, FailsOnlyIfDisturbed
<1> QED
  BY <1>1, InductiveInvariant, PTL

\* The same of the script alone.
THEOREM SeedAloneIsRepeatable == SeedSpec => []FailsOnlyIfDisturbed
<1>1. SeedInit => SeedInv
  BY Order DEF SeedInit, SeedInv, SeedTypeOK, FreshAtZero
<1>2. SeedInv /\ [\E s \in Seeders : SeedStep(s)]_<<tables, seeds>> => SeedInv'
  BY SeedStepKeepsInv, RequestKeepsSeedInv DEF tables, seeds
<1>3. SeedInv => FailsOnlyIfDisturbed
  BY DEF SeedInv, FailsOnlyIfDisturbed
<1> QED
  BY <1>1, <1>2, <1>3, PTL DEF SeedSpec

\* When every run that was started has succeeded, the tables are complete,
\* although nobody keeps the runs from overlapping.
THEOREM OverlappingSeedsAgree == SeedSpec => []AllSucceededIsComplete
<1> DEFINE Inv == SeedInv /\ RowInv
<1>1. SeedInit => Inv
  BY SeedInitRowInv, Order DEF SeedInit, SeedInv, SeedTypeOK, FreshAtZero
<1>2. Inv /\ [\E s \in Seeders : SeedStep(s)]_<<tables, seeds>> => Inv'
  BY SeedStepKeepsInv, RequestKeepsSeedInv, SeedStepKeepsRowInv, OthersKeepRowInv
  DEF SeedInv, tables, seeds
<1>3. Inv => AllSucceededIsComplete
  BY RowInvIsEnough
<1> QED
  BY <1>1, <1>2, <1>3, PTL DEF SeedSpec

LEMMA NextKeepsRowInv == IInv /\ RowInv /\ [Next]_vars => RowInv'
<1> SUFFICES ASSUME IInv, RowInv, [Next]_vars PROVE RowInv'
  OBVIOUS
<1>1. CASE \E s \in Seeders : Seeding(s)
  BY <1>1, SeedStepKeepsRowInv DEF IInv, SeedInv, Seeding
<1>2. CASE UNCHANGED <<row, step, landed, outcome>>
  BY <1>2, OthersKeepRowInv
<1> QED
  BY <1>1, <1>2 DEF Next, vars, tables, seeds, Ask, FindRole, CreateUser, SaveHistory,
     SaveToken, Fail, Expire, VerifyOneself, Find, Mark, Confirm, VisitFails

\* The same while people register: no account comes between the runs.
THEOREM SeedsAgreeInService == Spec => []AllSucceededIsComplete
<1>1. Init => RowInv
  BY SeedInitRowInv DEF Init
<1>2. IInv /\ RowInv /\ [Next]_vars => RowInv'
  BY NextKeepsRowInv
<1>3. RowInv => AllSucceededIsComplete
  BY RowInvIsEnough
<1> QED
  BY <1>1, <1>2, <1>3, InductiveInvariant, PTL DEF Spec

\* The role that register found is there as long as the account is.
THEOREM RoleStays == Spec => []AccountHasRole
<1>1. IInv => AccountHasRole
  BY DEF IInv, AccountInv, AccountHasRole
<1> QED
  BY <1>1, InductiveInvariant, PTL

\* A request that was told of its account has it, with history and token.
THEOREM RegisteredMeansWhole == Spec => []SuccessIsWhole
<1>1. IInv => SuccessIsWhole
  BY DEF IInv, RequestInv, SuccessIsWhole
<1> QED
  BY <1>1, InductiveInvariant, PTL

\* A token that is used up has verified its account, or a visit is to blame.
THEOREM VerificationIsNotLost == Spec => []UsedMeansVerified
<1>1. IInv => UsedMeansVerified
  BY DEF IInv
<1> QED
  BY <1>1, InductiveInvariant, PTL

\* Nobody is verified but by a token, or by saying so.
THEOREM VerificationIsEarned == Spec => []VerifiedHasCause
<1>1. IInv => VerifiedHasCause
  BY DEF IInv
<1> QED
  BY <1>1, InductiveInvariant, PTL
=============================================================================
