--------------------------- MODULE SessionsProofs ---------------------------
(***************************************************************************)
(* Proofs about Sessions: its type invariant, its safety invariants and    *)
(* its action properties, for every value of the constants.                *)
(*                                                                         *)
(* None of the invariants is inductive alone.  What makes them so is the   *)
(* order of versions: a token that works, a token whose session is ACTIVE  *)
(* and a token some request is exchanging are each the NEWEST of their     *)
(* login, and no two requests exchange the same one.  As versions of a     *)
(* login are unique, there is then one such token per login at a time.     *)
(* Three theorems are about more than a run checks: that the numbers have  *)
(* no gap, that no consumed token is forgotten, and which logouts do not   *)
(* end their login.                                                        *)
(***************************************************************************)
EXTENDS Sessions, TLAPS

Newest(a) == \A b \in tokens : SameLogin(a, b) => b.ver <= a.ver

\* What a request remembers between its steps still fits the tables.
HandlersOK ==
    \A r \in Requests :
        /\ pc[r] = "idle" => old[r] = NoHash
        /\ pc[r] \in {"rotate", "load", "find", "end"} => old[r] \in tokens
        /\ pc[r] \in {"rotate", "load"} => old[r].ver < MaxVersion
        /\ pc[r] \in {"find", "end"} => old[r] \in revoked
        /\ Carrying(r) => old[r] \in rotated
        /\ pc[r] = "issue" =>
              /\ fresh[r] \in Hash
              /\ old[r] = NoHash => fresh[r].ver = 1
              /\ old[r] # NoHash =>
                    fresh[r].user = old[r].user /\ fresh[r].ver = old[r].ver + 1
        /\ pc[r] = "reply" => fresh[r] \in tokens

OriginOK == \A h \in tokens : origin[h] \in tokens

NewestOK ==
    /\ \A a \in Live \cup active : Newest(a)
    /\ \A r \in Requests : Carrying(r) => Newest(old[r])

OneCarrier ==
    \A r, s \in Requests :
        Carrying(r) /\ Carrying(s) /\ old[r] = old[s] => r = s

IInv ==
    /\ TypeOK
    /\ HandlersOK
    /\ OriginOK
    /\ ChainNeverForks
    /\ NewestOK
    /\ OneCarrier
    /\ LiveTokenHasActiveSession
    /\ LogoutEndsLogin

-----------------------------------------------------------------------------
\* What the fields of a hash are.
LEMMA HashFields ==
    ASSUME NEW h \in Hash
    PROVE  /\ h.user \in Users
           /\ h.ver \in Nat /\ 1 <= h.ver /\ h.ver <= MaxVersion
           /\ h.iat \in Time
  BY BoundsAssumption DEF Hash, Time

\* The hash of a token minted with a version within the bound.
LEMMA MintedIsHash ==
    ASSUME NEW u \in Users, NEW v \in 1 .. MaxVersion, NEW t \in Time
    PROVE  [user |-> u, ver |-> v, iat |-> t] \in Hash
  BY DEF Hash

\* The hash of a token minted by a login.
LEMMA FirstVersionIsHash ==
    ASSUME NEW u \in Users, NEW t \in Time
    PROVE  [user |-> u, ver |-> 1, iat |-> t] \in Hash
  BY BoundsAssumption, MintedIsHash

-----------------------------------------------------------------------------
\* Every variable keeps its type; what a request remembers stays true.
LEMMA TypeStep == IInv /\ [Next]_vars => TypeOK' /\ HandlersOK'
<1> SUFFICES ASSUME IInv, [Next]_vars PROVE TypeOK' /\ HandlersOK'
  OBVIOUS
<1>0. \A u \in Users : [user |-> u, ver |-> 1, iat |-> now] \in Hash
  BY FirstVersionIsHash DEF IInv, TypeOK
<1> USE BoundsAssumption, NoHashAssumption, HashFields
    DEF IInv, TypeOK, HandlersOK, Carrying, Idle, Goto, Finish, tables, handlers, history
<1>1. ASSUME NEW r \in Requests, NEW u \in Users, Login(r, u)
      PROVE  TypeOK' /\ HandlersOK'
  <2>1. TypeOK'
    BY <1>0, <1>1 DEF Login
  <2>2. HandlersOK'
    BY <1>0, <1>1 DEF Login
  <2> QED
    BY <2>1, <2>2
<1>2. ASSUME NEW r \in Requests, NEW h \in Hash, Refresh(r, h)
      PROVE  TypeOK' /\ HandlersOK'
  BY <1>2 DEF Refresh
<1>3. ASSUME NEW r \in Requests, NEW h \in Hash, LogoutRevoke(r, h)
      PROVE  TypeOK' /\ HandlersOK'
  BY <1>3 DEF LogoutRevoke
<1>4. ASSUME NEW r \in Requests, Rotate(r)
      PROVE  TypeOK' /\ HandlersOK'
  BY <1>4 DEF Rotate, Rotatable, Live
<1>5. ASSUME NEW r \in Requests, Load(r)
      PROVE  TypeOK' /\ HandlersOK'
  <2>1. old[r] \in Hash /\ old[r].ver + 1 \in 1 .. MaxVersion
    BY <1>5 DEF Load
  <2>2. [user |-> old[r].user, ver |-> old[r].ver + 1, iat |-> now] \in Hash
    BY <2>1, MintedIsHash
  <2> QED
    BY <1>5, <2>1, <2>2 DEF Load, Interrupt
<1>6. ASSUME NEW r \in Requests, Issue(r)
      PROVE  TypeOK' /\ HandlersOK'
  BY <1>6 DEF Issue, SessionsAfter, Interrupt
<1>7. ASSUME NEW r \in Requests, Reply(r)
      PROVE  TypeOK' /\ HandlersOK'
  BY <1>7 DEF Reply
<1>8. ASSUME NEW r \in Requests, LogoutFind(r)
      PROVE  TypeOK' /\ HandlersOK'
  BY <1>8 DEF LogoutFind
<1>9. ASSUME NEW r \in Requests, LogoutEnd(r)
      PROVE  TypeOK' /\ HandlersOK'
  BY <1>9 DEF LogoutEnd
<1>10. ASSUME NEW r \in Requests, Fail(r)
       PROVE  TypeOK' /\ HandlersOK'
  BY <1>10 DEF Fail, Interrupt
<1>11. ASSUME NEW u \in Users, Block(u) \/ Unblock(u)
       PROVE  TypeOK' /\ HandlersOK'
  BY <1>11 DEF Block, Unblock
<1>12. CASE Tick
  BY <1>12 DEF Tick, Time
<1>13. CASE UNCHANGED vars
  BY <1>13 DEF vars
<1> QED
  BY <1>1, <1>2, <1>3, <1>4, <1>5, <1>6, <1>7, <1>8, <1>9, <1>10, <1>11, <1>12,
     <1>13 DEF Next

-----------------------------------------------------------------------------
\* Two newest tokens of a login are the same token.
LEMMA NewestIsUnique ==
    ASSUME IInv, NEW a \in tokens, NEW b \in tokens,
           Newest(a), Newest(b), SameLogin(a, b)
    PROVE  a = b
<1>1. a.ver \in Nat /\ b.ver \in Nat
  BY HashFields DEF IInv, TypeOK
<1>2. a.ver = b.ver
  BY <1>1 DEF Newest, SameLogin
<1> QED
  BY <1>2 DEF IInv, ChainNeverForks

\* A request that exchanges a token excludes any token of its login that
\* works, and any other request that exchanges one.
LEMMA CarrierIsAlone ==
    ASSUME IInv, NEW r \in Requests, Carrying(r)
    PROVE  /\ old[r] \in tokens /\ old[r] \in rotated /\ Newest(old[r])
           /\ \A a \in Live : ~ SameLogin(a, old[r])
           /\ \A a \in active : SameLogin(a, old[r]) => a = old[r]
           /\ \A s \in Requests :
                 Carrying(s) /\ SameLogin(old[s], old[r]) => s = r
<1>1. old[r] \in tokens /\ old[r] \in rotated /\ Newest(old[r])
  BY DEF IInv, TypeOK, HandlersOK, NewestOK
<1>2. \A a \in Live \cup active : SameLogin(a, old[r]) => a = old[r]
  BY <1>1, NewestIsUnique DEF IInv, TypeOK, NewestOK, Live
<1>3. \A s \in Requests : Carrying(s) /\ SameLogin(old[s], old[r]) => s = r
  BY <1>1, NewestIsUnique DEF IInv, TypeOK, HandlersOK, NewestOK, OneCarrier
<1>4. old[r] \notin Live
  BY <1>1 DEF IInv, TypeOK, Live
<1> QED
  BY <1>1, <1>2, <1>3, <1>4

\* The part of the invariant about logins, apart from types.
LoginsOK ==
    /\ OriginOK
    /\ ChainNeverForks
    /\ NewestOK
    /\ OneCarrier
    /\ LiveTokenHasActiveSession
    /\ LogoutEndsLogin

\* The step DeadLoginStaysDead speaks of.
DeadStays == \A a \in tokens : DeadLogin(a) => DeadLogin(a)'

\* A successful issue: the chain of the login grows by one token, or a new
\* login starts with one.
LEMMA IssueStep ==
    ASSUME IInv, TypeOK', NEW r \in Requests, Issue(r), fresh[r] \notin tokens
    PROVE  LoginsOK' /\ DeadStays
<1> DEFINE f == fresh[r]
           p == old[r]
<1> USE DEF IInv
<1>1. /\ f \in Hash /\ f \notin tokens
      /\ tokens' = tokens \cup {f}
      /\ active' = (active \ {p}) \cup {f}
      /\ revoked' = revoked
      /\ rotated' = rotated
      /\ origin' = [origin EXCEPT ![f] = IF p = NoHash THEN f ELSE origin[p]]
      /\ pc' = [pc EXCEPT ![r] = "reply"] /\ UNCHANGED <<old, fresh>>
  <2>1. pc[r] = "issue" /\ f \in Hash
    BY DEF Issue, HandlersOK
  <2>2. p # NoHash => p \in rotated /\ p \in revoked
    BY <2>1 DEF HandlersOK, TypeOK, Carrying
  <2>3. revoked' = revoked /\ rotated' = rotated
    BY <2>2 DEF Issue
  <2> QED
    BY <2>1, <2>3 DEF Issue, SessionsAfter, Goto
<1>2. /\ origin'[f] = IF p = NoHash THEN f ELSE origin[p]
      /\ \A h \in tokens : h \in Hash /\ origin'[h] = origin[h]
  BY <1>1 DEF TypeOK
<1>3. \A s \in Requests : Carrying(s)' => Carrying(s) /\ s # r /\ old'[s] = old[s]
                                           /\ old[s] \in tokens
  BY <1>1 DEF Carrying, TypeOK, HandlersOK
<1>4. p # NoHash => Carrying(r)
  BY DEF Carrying, Issue
<1>5. \A h \in tokens : origin[h] = origin'[f] =>
          p # NoHash /\ SameLogin(h, p) /\ h.ver < f.ver
  <2>1. CASE p = NoHash
    BY <1>1, <1>2, <2>1 DEF OriginOK
  <2>2. CASE p # NoHash
    <3>1. p \in tokens /\ Newest(p) /\ f.ver = p.ver + 1 /\ p.ver \in Nat
      BY <1>1, <1>4, <2>2, CarrierIsAlone, HashFields DEF HandlersOK, TypeOK, Issue
    <3>2. ASSUME NEW h \in tokens, origin[h] = origin'[f]
          PROVE  SameLogin(h, p) /\ h.ver < f.ver
      <4>1. SameLogin(h, p) /\ h.ver \in Nat
        BY <1>2, <2>2, <3>2, HashFields DEF SameLogin, TypeOK
      <4> QED
        BY <3>1, <4>1 DEF Newest, SameLogin
    <3> QED
      BY <2>2, <3>2
  <2> QED
    BY <2>1, <2>2
<1>6. f \notin revoked /\ f.ver \in Nat /\ \A h \in tokens : h.ver \in Nat
  BY <1>1, HashFields DEF TypeOK
<1>7. OriginOK'
  BY <1>1, <1>2, <1>4, CarrierIsAlone DEF OriginOK
<1>8. ChainNeverForks'
  BY <1>1, <1>2, <1>5, <1>6 DEF ChainNeverForks, SameLogin
<1>9. \A a \in (Live \cup active) \ {p} : origin[a] # origin'[f]
  BY <1>4, <1>5, CarrierIsAlone DEF TypeOK, Live
<1>10. \A s \in Requests : Carrying(s) /\ s # r => origin[old[s]] # origin'[f]
  BY <1>4, <1>5, CarrierIsAlone DEF SameLogin
<1>11. p \notin Live
  BY <1>4, CarrierIsAlone, NoHashAssumption DEF TypeOK, Live
<1>12. NewestOK'
  <2>1. \A a \in (Live \cup active)' : a = f \/ a \in (Live \cup active) \ {p}
    BY <1>1, <1>11 DEF Live
  <2>3. ASSUME NEW a \in tokens, Newest(a), origin[a] # origin'[f]
        PROVE  Newest(a)'
    BY <1>1, <1>2, <2>3 DEF Newest, SameLogin
  <2>4. \A a \in (Live \cup active) : a \in tokens /\ Newest(a)
    BY DEF TypeOK, Live, NewestOK
  <2>5. ASSUME NEW a \in (Live \cup active)' PROVE Newest(a)'
    <3>1. CASE a = f
      BY <1>1, <1>2, <1>5, <1>6, <3>1 DEF Newest, SameLogin
    <3>2. CASE a \in (Live \cup active) \ {p}
      BY <1>9, <2>3, <2>4, <3>2
    <3> QED
      BY <2>1, <3>1, <3>2
  <2>6. ASSUME NEW s \in Requests, Carrying(s)' PROVE Newest(old[s])'
    BY <1>3, <1>10, <2>3, <2>6 DEF NewestOK
  <2> QED
    BY <1>3, <2>5, <2>6 DEF NewestOK
<1>13. OneCarrier'
  BY <1>3 DEF OneCarrier
<1>14. LiveTokenHasActiveSession'
  BY <1>1, <1>11 DEF LiveTokenHasActiveSession, Live
<1>15. DeadStays
  <2> SUFFICES ASSUME NEW h \in tokens, DeadLogin(h) PROVE DeadLogin(h)'
    BY DEF DeadStays
  <2>1. origin[h] # origin'[f]
    BY <1>4, <1>5 DEF DeadLogin, SameLogin
  <2>2. \A b \in Live' : ~ SameLogin(h, b)'
    BY <1>1, <1>2, <2>1 DEF DeadLogin, SameLogin, Live, TypeOK
  <2>3. ASSUME NEW s \in Requests, Carrying(s)' PROVE ~ SameLogin(h, old[s])'
    BY <1>2, <1>3, <2>3 DEF DeadLogin, SameLogin
  <2> QED
    BY <2>2, <2>3 DEF DeadLogin
<1>16. LogoutEndsLogin'
  BY <1>1, <1>15 DEF LogoutEndsLogin, DeadStays, TypeOK
<1> QED
  BY <1>7, <1>8, <1>12, <1>13, <1>14, <1>15, <1>16 DEF LoginsOK

\* A step that issues no token, revives none and starts no exchange.
LEMMA QuietStep ==
    ASSUME IInv, TypeOK',
           UNCHANGED <<tokens, origin>>,
           Live' \subseteq Live, active' \subseteq active, Live' \subseteq active',
           \A s \in Requests : Carrying(s)' => Carrying(s) /\ old'[s] = old[s],
           \A h \in (revoked \ rotated)' : h \in revoked \ rotated \/ DeadLogin(h)'
    PROVE  LoginsOK' /\ DeadStays
<1> USE DEF IInv
<1>1. OriginOK' /\ ChainNeverForks'
  BY DEF OriginOK, ChainNeverForks, SameLogin
<1>2. NewestOK'
  BY DEF NewestOK, Newest, SameLogin
<1>3. OneCarrier' /\ LiveTokenHasActiveSession'
  BY DEF OneCarrier, LiveTokenHasActiveSession
<1>4. DeadStays
  BY DEF DeadStays, DeadLogin, SameLogin
<1>5. LogoutEndsLogin'
  BY <1>4 DEF LogoutEndsLogin, DeadStays, TypeOK
<1> QED
  BY <1>1, <1>2, <1>3, <1>4, <1>5 DEF LoginsOK

\* The first transaction of a refresh: the token leaves Live and r becomes the
\* one request that exchanges it.
LEMMA RotateStep ==
    ASSUME IInv, TypeOK', NEW r \in Requests, Rotate(r), Rotatable(old[r])
    PROVE  LoginsOK' /\ DeadStays
<1> DEFINE p == old[r]
<1> USE DEF IInv
<1>1. /\ p \in Live /\ p \in tokens /\ p \in Hash
      /\ revoked' = revoked \cup {p} /\ rotated' = rotated \cup {p}
      /\ pc' = [pc EXCEPT ![r] = "load"]
      /\ UNCHANGED <<tokens, active, origin, old, fresh>>
  BY DEF Rotate, Rotatable, Goto, Live, TypeOK, history
<1>2. \A s \in Requests : Carrying(s)' => s = r \/ Carrying(s)
  BY <1>1 DEF Carrying, TypeOK
<1>3. Newest(p) /\ \A s \in Requests : Carrying(s) => ~ SameLogin(p, old[s])
  BY <1>1, CarrierIsAlone DEF NewestOK
<1>4. OriginOK' /\ ChainNeverForks'
  BY <1>1 DEF OriginOK, ChainNeverForks, SameLogin
<1>5. NewestOK'
  BY <1>1, <1>2, <1>3 DEF NewestOK, Newest, SameLogin, Live
<1>6. OneCarrier'
  BY <1>1, <1>2, <1>3 DEF OneCarrier, SameLogin
<1>7. LiveTokenHasActiveSession'
  BY <1>1 DEF LiveTokenHasActiveSession, Live
<1>8. DeadStays
  BY <1>1, <1>2 DEF DeadStays, DeadLogin, SameLogin, Live
<1>9. LogoutEndsLogin'
  BY <1>1, <1>8 DEF LogoutEndsLogin, DeadStays, TypeOK
<1> QED
  BY <1>4, <1>5, <1>6, <1>7, <1>8, <1>9 DEF LoginsOK

\* The first statement of a logout: a token that worked takes its login down.
LEMMA LogoutRevokeStep ==
    ASSUME IInv, TypeOK', NEW r \in Requests, NEW h \in Hash, LogoutRevoke(r, h)
    PROVE  LoginsOK' /\ DeadStays
<1> USE DEF IInv
<1>1. /\ h \in tokens /\ revoked' = revoked \cup {h}
      /\ UNCHANGED <<tokens, rotated, active, origin>>
      /\ pc[r] = "idle" /\ pc' = [pc EXCEPT ![r] = "find"]
      /\ old' = [old EXCEPT ![r] = h]
  BY DEF LogoutRevoke, Goto, Idle, TypeOK, history
<1>2. \A s \in Requests : Carrying(s)' => Carrying(s) /\ old'[s] = old[s]
  BY <1>1 DEF Carrying, TypeOK
<1>3. Live' \subseteq Live /\ Live' \subseteq active'
  BY <1>1 DEF Live, LiveTokenHasActiveSession
<1>4. h \in Live => DeadLogin(h)'
  <2> SUFFICES ASSUME h \in Live PROVE DeadLogin(h)'
    OBVIOUS
  <2>1. \A b \in Live : SameLogin(h, b) => b = h
    BY <1>1, NewestIsUnique DEF NewestOK, Live
  <2>2. \A s \in Requests : Carrying(s) => ~ SameLogin(h, old[s])
    BY CarrierIsAlone
  <2> QED
    BY <1>1, <1>2, <2>1, <2>2 DEF DeadLogin, SameLogin, Live
<1>5. \A g \in (revoked \ rotated)' : g \in revoked \ rotated \/ DeadLogin(g)'
  BY <1>1, <1>4 DEF Live
<1> QED
  BY <1>1, <1>2, <1>3, <1>5, QuietStep

-----------------------------------------------------------------------------
\* Every step keeps the part of the invariant about logins, and revives none.
LEMMA LoginsStep == IInv /\ [Next]_vars => LoginsOK' /\ DeadStays
<1> SUFFICES ASSUME IInv, [Next]_vars PROVE LoginsOK' /\ DeadStays
  OBVIOUS
<1>0. TypeOK'
  BY TypeStep
<1> USE <1>0 DEF IInv
<1>1. ASSUME NEW r \in Requests, NEW u \in Users, Login(r, u)
      PROVE  LoginsOK' /\ DeadStays
  <2>1. \A s \in Requests : Carrying(s)' => Carrying(s) /\ old'[s] = old[s]
    BY <1>1 DEF Login, Goto, Idle, Carrying, HandlersOK, TypeOK
  <2> QED
    BY <1>1, <2>1, QuietStep
       DEF Login, tables, history, Live, LiveTokenHasActiveSession
<1>2. ASSUME NEW r \in Requests, NEW h \in Hash, Refresh(r, h)
      PROVE  LoginsOK' /\ DeadStays
  <2>1. \A s \in Requests : Carrying(s)' => Carrying(s) /\ old'[s] = old[s]
    BY <1>2 DEF Refresh, Goto, Idle, Carrying, TypeOK
  <2> QED
    BY <1>2, <2>1, QuietStep
       DEF Refresh, tables, history, Live, LiveTokenHasActiveSession
<1>3. ASSUME NEW r \in Requests, NEW h \in Hash, LogoutRevoke(r, h)
      PROVE  LoginsOK' /\ DeadStays
  BY <1>3, LogoutRevokeStep
<1>4. ASSUME NEW r \in Requests, Rotate(r)
      PROVE  LoginsOK' /\ DeadStays
  <2>1. CASE Rotatable(old[r])
    BY <1>4, <2>1, RotateStep
  <2>2. CASE ~ Rotatable(old[r])
    <3>1. \A s \in Requests : Carrying(s)' => Carrying(s) /\ old'[s] = old[s]
      BY <1>4, <2>2 DEF Rotate, Finish, Carrying, TypeOK
    <3> QED
      BY <1>4, <2>2, <3>1, QuietStep
         DEF Rotate, history, Live, LiveTokenHasActiveSession
  <2> QED
    BY <2>1, <2>2
<1>5. ASSUME NEW r \in Requests, Load(r)
      PROVE  LoginsOK' /\ DeadStays
  <2>1. \A s \in Requests : Carrying(s)' => Carrying(s) /\ old'[s] = old[s]
    BY <1>5 DEF Load, Goto, Finish, Carrying, TypeOK
  <2> QED
    BY <1>5, <2>1, QuietStep DEF Load, tables, Live, LiveTokenHasActiveSession
<1>6. ASSUME NEW r \in Requests, Issue(r)
      PROVE  LoginsOK' /\ DeadStays
  <2>1. CASE fresh[r] \notin tokens
    BY <1>6, <2>1, IssueStep
  <2>2. CASE fresh[r] \in tokens
    <3>1. \A s \in Requests : Carrying(s)' => Carrying(s) /\ old'[s] = old[s]
      BY <1>6, <2>2 DEF Issue, Finish, Carrying, TypeOK
    <3> QED
      BY <1>6, <2>2, <3>1, QuietStep
         DEF Issue, tables, Live, LiveTokenHasActiveSession
  <2> QED
    BY <2>1, <2>2
<1>7. ASSUME NEW r \in Requests, Reply(r) \/ LogoutFind(r) \/ Fail(r)
      PROVE  LoginsOK' /\ DeadStays
  <2>1. \A s \in Requests : Carrying(s)' => Carrying(s) /\ old'[s] = old[s]
    BY <1>7 DEF Reply, LogoutFind, Fail, Goto, Finish, Carrying, TypeOK
  <2> QED
    BY <1>7, <2>1, QuietStep
       DEF Reply, LogoutFind, Fail, tables, history, Live, LiveTokenHasActiveSession
<1>8. ASSUME NEW r \in Requests, LogoutEnd(r)
      PROVE  LoginsOK' /\ DeadStays
  <2>1. \A s \in Requests : Carrying(s)' => Carrying(s) /\ old'[s] = old[s]
    BY <1>8 DEF LogoutEnd, Finish, Carrying, TypeOK
  <2>2. old[r] \in revoked
    BY <1>8 DEF LogoutEnd, HandlersOK
  <2> QED
    BY <1>8, <2>1, <2>2, QuietStep
       DEF LogoutEnd, history, Live, LiveTokenHasActiveSession
<1>9. CASE (\E u \in Users : Block(u) \/ Unblock(u)) \/ Tick \/ UNCHANGED vars
  <2>1. UNCHANGED <<tables, handlers, origin>>
    BY <1>9 DEF Block, Unblock, Tick, vars, tables, handlers, history
  <2> QED
    BY <2>1, QuietStep
       DEF tables, handlers, Carrying, Live, LiveTokenHasActiveSession
<1> QED
  BY <1>1, <1>2, <1>3, <1>4, <1>5, <1>6, <1>7, <1>8, <1>9 DEF Next

LEMMA InitIInv == Init => IInv
  BY BoundsAssumption, NoHashAssumption
     DEF Init, IInv, TypeOK, HandlersOK, OriginOK, ChainNeverForks, NewestOK, OneCarrier,
         LiveTokenHasActiveSession, LogoutEndsLogin, Live, Carrying, Time

LEMMA StepIInv == IInv /\ [Next]_vars => IInv'
  BY TypeStep, LoginsStep DEF IInv, LoginsOK

\* The inductive invariant holds in every behaviour, whatever the number of
\* users, requests, versions and seconds.
THEOREM InductiveInvariant == Spec => []IInv
<1>1. Init => IInv
  BY InitIInv
<1>2. IInv /\ [Next]_vars => IInv'
  BY StepIInv
<1> QED
  BY <1>1, <1>2, PTL DEF Spec

-----------------------------------------------------------------------------
\* Every variable keeps its type and every row refers to rows that exist.
THEOREM TypeCorrectness == Spec => []TypeOK
  BY InductiveInvariant, PTL DEF IInv

\* Rotation never leaves one login with two refresh tokens that work.
THEOREM LiveTokenIsUnique == Spec => []OneLiveTokenPerLogin
<1>1. IInv => OneLiveTokenPerLogin
  BY NewestIsUnique DEF IInv, OneLiveTokenPerLogin, NewestOK, Live
<1> QED
  BY <1>1, InductiveInvariant, PTL

\* A refresh token is exchanged at most once.
THEOREM RotationIsLinear == Spec => []ChainNeverForks
  BY InductiveInvariant, PTL DEF IInv

\* One login has at most one ACTIVE session row.
THEOREM SessionIsUnique == Spec => []OneActiveSessionPerLogin
<1>1. IInv => OneActiveSessionPerLogin
  BY NewestIsUnique DEF IInv, TypeOK, OneActiveSessionPerLogin, NewestOK
<1> QED
  BY <1>1, InductiveInvariant, PTL

\* A refresh token that works has an ACTIVE session row.
THEOREM SessionOutlivesToken == Spec => []LiveTokenHasActiveSession
  BY InductiveInvariant, PTL DEF IInv

\* A logout that revokes the token itself ends the login.
THEOREM LogoutIsEffective == Spec => []LogoutEndsLogin
  BY InductiveInvariant, PTL DEF IInv

\* A login that is over never comes back.
THEOREM NoRevival == Spec => DeadLoginStaysDead
<1>1. IInv /\ [Next]_vars =>
          [\A a \in tokens : DeadLogin(a) => DeadLogin(a)']_vars
  BY LoginsStep DEF DeadStays
<1> QED
  BY <1>1, InductiveInvariant, PTL DEF Spec, DeadLoginStaysDead

\* A blocked account gets no token once the requests that read its row before
\* are done.
THEOREM BlockIsEffective == Spec => NoTokenForBlockedUser
<1> DEFINE A == \A u \in Users :
                  ShutOut(u) =>
                      /\ \A h \in tokens' \ tokens : h.user # u
                      /\ u \in blocked' => ShutOut(u)'
<1>1. ASSUME TypeOK, Next PROVE A
  <2>1. ASSUME NEW h \in tokens' \ tokens
        PROVE  \E r \in Requests : pc[r] = "issue" /\ h = fresh[r]
    BY <1>1, <2>1
       DEF Next, Login, Refresh, LogoutRevoke, Rotate, Load, Issue, Reply, LogoutFind,
           LogoutEnd, Fail, Block, Unblock, Tick, tables
  <2>2. ASSUME NEW s \in Requests, (pc[s] = "issue")'
        PROVE  \/ pc[s] = "issue" /\ fresh'[s] = fresh[s]
               \/ fresh'[s].user \notin blocked'
    <3>1. ASSUME NEW r \in Requests, NEW u \in Users, Login(r, u)
          PROVE  \/ pc[s] = "issue" /\ fresh'[s] = fresh[s]
                 \/ fresh'[s].user \notin blocked'
      BY <1>1, <2>2, <3>1 DEF Login, Goto, MayUse, TypeOK
    <3>2. ASSUME NEW r \in Requests, Load(r)
          PROVE  \/ pc[s] = "issue" /\ fresh'[s] = fresh[s]
                 \/ fresh'[s].user \notin blocked'
      BY <1>1, <2>2, <3>2 DEF Load, Goto, Finish, MayUse, TypeOK
    <3>3. ASSUME NEW r \in Requests, NEW h \in Hash,
                 Refresh(r, h) \/ LogoutRevoke(r, h)
          PROVE  pc[s] = "issue" /\ fresh'[s] = fresh[s]
      BY <1>1, <2>2, <3>3 DEF Refresh, LogoutRevoke, Goto, TypeOK
    <3>4. ASSUME NEW r \in Requests,
                 \/ Rotate(r) \/ Issue(r) \/ Reply(r)
                 \/ LogoutFind(r) \/ LogoutEnd(r) \/ Fail(r)
          PROVE  pc[s] = "issue" /\ fresh'[s] = fresh[s]
      BY <1>1, <2>2, <3>4
         DEF Rotate, Issue, Reply, LogoutFind, LogoutEnd, Fail, Goto, Finish, TypeOK
    <3>5. CASE (\E u \in Users : Block(u) \/ Unblock(u)) \/ Tick
      BY <2>2, <3>5 DEF Block, Unblock, Tick, handlers
    <3> QED
      BY <1>1, <3>1, <3>2, <3>3, <3>4, <3>5 DEF Next
  <2> QED
    BY <2>1, <2>2 DEF ShutOut
<1>2. TypeOK /\ [Next]_vars => [A]_vars
  BY <1>1
<1> QED
  BY <1>2, TypeCorrectness, PTL DEF Spec, NoTokenForBlockedUser

-----------------------------------------------------------------------------
\* One step of OrphanOnlyIfInterrupted.
LEMMA OrphanStep ==
    IInv /\ OrphanOnlyIfInterrupted /\ [Next]_vars => OrphanOnlyIfInterrupted'
<1> DEFINE Busy(h) == \E r \in Requests :
                         old[r] = h /\ pc[r] \in {"load", "issue", "find", "end"}
<1> SUFFICES ASSUME IInv, OrphanOnlyIfInterrupted, [Next]_vars,
                    NEW h \in (active \cap revoked)'
             PROVE  h \in interrupted' \/ Busy(h)'
  BY DEF OrphanOnlyIfInterrupted
<1>0. h \in active \cap revoked => h \in interrupted \/ Busy(h)
  BY DEF OrphanOnlyIfInterrupted
<1> USE <1>0, NoHashAssumption DEF IInv, TypeOK, Goto, Finish, tables, history
<1>1. ASSUME NEW r \in Requests, NEW u \in Users, Login(r, u)
      PROVE  h \in interrupted' \/ Busy(h)'
  BY <1>1 DEF Login, Idle
<1>2. ASSUME NEW r \in Requests, NEW g \in Hash, Refresh(r, g)
      PROVE  h \in interrupted' \/ Busy(h)'
  BY <1>2 DEF Refresh, Idle
<1>3. ASSUME NEW r \in Requests, NEW g \in Hash, LogoutRevoke(r, g)
      PROVE  h \in interrupted' \/ Busy(h)'
  BY <1>3 DEF LogoutRevoke, Idle
<1>4. ASSUME NEW r \in Requests, Rotate(r)
      PROVE  h \in interrupted' \/ Busy(h)'
  BY <1>4 DEF Rotate
<1>5. ASSUME NEW r \in Requests, Load(r)
      PROVE  h \in interrupted' \/ Busy(h)'
  BY <1>5 DEF Load, Interrupt
<1>6. ASSUME NEW r \in Requests, Issue(r)
      PROVE  h \in interrupted' \/ Busy(h)'
  <2>1. CASE fresh[r] \in tokens
    BY <1>6, <2>1 DEF Issue, Interrupt
  <2>2. CASE fresh[r] \notin tokens
    <3>1. pc[r] = "issue" /\ (old[r] # NoHash => old[r] \in revoked)
      BY <1>6 DEF Issue, HandlersOK, Carrying
    <3>2. /\ active' = (active \ {old[r]}) \cup {fresh[r]}
          /\ revoked' = revoked
          /\ interrupted' = interrupted
          /\ pc' = [pc EXCEPT ![r] = "reply"] /\ old' = old
      BY <1>6, <2>2, <3>1 DEF Issue, SessionsAfter
    <3>3. h \in active \cap revoked /\ h # old[r]
      BY <2>2, <3>2
    <3> QED
      BY <3>2, <3>3
  <2> QED
    BY <2>1, <2>2
<1>7. ASSUME NEW r \in Requests, Reply(r)
      PROVE  h \in interrupted' \/ Busy(h)'
  BY <1>7 DEF Reply
<1>8. ASSUME NEW r \in Requests, LogoutFind(r)
      PROVE  h \in interrupted' \/ Busy(h)'
  BY <1>8 DEF LogoutFind
<1>9. ASSUME NEW r \in Requests, LogoutEnd(r)
      PROVE  h \in interrupted' \/ Busy(h)'
  BY <1>9 DEF LogoutEnd
<1>10. ASSUME NEW r \in Requests, Fail(r)
       PROVE  h \in interrupted' \/ Busy(h)'
  BY <1>10 DEF Fail, Interrupt, Idle
<1>11. CASE (\E u \in Users : Block(u) \/ Unblock(u)) \/ Tick \/ UNCHANGED vars
  BY <1>11 DEF Block, Unblock, Tick, vars, handlers
<1> QED
  BY <1>1, <1>2, <1>3, <1>4, <1>5, <1>6, <1>7, <1>8, <1>9, <1>10, <1>11 DEF Next

\* A session outlives its revoked token only where a request was cut off.
THEOREM OrphansAreAccountedFor == Spec => []OrphanOnlyIfInterrupted
<1>1. Init => OrphanOnlyIfInterrupted
  BY DEF Init, OrphanOnlyIfInterrupted
<1> QED
  BY <1>1, OrphanStep, InductiveInvariant, PTL DEF Spec

-----------------------------------------------------------------------------
\* A token that a refresh consumed has its successor, or some request is still
\* about to issue it, or was cut off: what RotationResolves promises in the
\* end, as far as it can be told from one state.
RotationIsAccountedFor ==
    \A h \in rotated :
        \/ h \in interrupted
        \/ \E b \in tokens : SameLogin(h, b) /\ b.ver = h.ver + 1
        \/ \E r \in Requests : Carrying(r) /\ old[r] = h

LEMMA RotationStep ==
    IInv /\ IInv' /\ RotationIsAccountedFor /\ [Next]_vars => RotationIsAccountedFor'
<1> SUFFICES ASSUME IInv, IInv', RotationIsAccountedFor, [Next]_vars,
                    NEW h \in rotated'
             PROVE  \/ h \in interrupted'
                    \/ \E b \in tokens' : SameLogin(h, b)' /\ b.ver = h.ver + 1
                    \/ \E r \in Requests : Carrying(r)' /\ old'[r] = h
  BY DEF RotationIsAccountedFor
<1> DEFINE Succeeded == \E b \in tokens : SameLogin(h, b) /\ b.ver = h.ver + 1
           Goal == \/ h \in interrupted'
                   \/ \E b \in tokens' : SameLogin(h, b)' /\ b.ver = h.ver + 1
                   \/ \E r \in Requests : Carrying(r)' /\ old'[r] = h
<1> USE DEF Goto, Finish, tables, handlers, history
\* Tokens keep their origin, and none disappears.
<1>1. ASSUME h \in rotated, Succeeded PROVE Goal
  <2>1. h \in tokens /\ tokens \subseteq tokens' /\ \A b \in tokens : origin'[b] = origin[b]
    BY <1>1 DEF IInv, TypeOK, Next, Login, Refresh, LogoutRevoke, Rotate, Load, Issue,
       Reply, LogoutFind, LogoutEnd, Fail, Block, Unblock, Tick, vars
  <2> QED
    BY <1>1, <2>1 DEF SameLogin
\* A request that still carries h goes on, issues the successor or is cut off.
<1>2. ASSUME NEW r \in Requests, Carrying(r), old[r] = h PROVE Goal
  <2>1. CASE pc'[r] = pc[r] /\ old'[r] = old[r]
    BY <1>2, <2>1 DEF Carrying
  <2>2. CASE Load(r)
    BY <1>2, <2>2 DEF Load, Interrupt, Carrying, IInv, TypeOK
  <2>3. CASE Issue(r)
    <3>1. CASE fresh[r] \in tokens
      BY <1>2, <2>3, <3>1 DEF Issue, Interrupt, Carrying
    <3>2. CASE fresh[r] \notin tokens
      <4>1. fresh[r] \in tokens' /\ origin'[fresh[r]] = origin[h] /\ h \in tokens
        BY <1>2, <2>3, <3>2, CarrierIsAlone DEF Issue, Carrying, IInv, TypeOK, HandlersOK
      <4>2. fresh[r].ver = h.ver + 1 /\ origin'[h] = origin[h]
        BY <1>2, <2>3, <3>2, <4>1 DEF Issue, Carrying, IInv, TypeOK, HandlersOK
      <4> QED
        BY <4>1, <4>2 DEF SameLogin
    <3> QED
      BY <3>1, <3>2
  <2>4. CASE Fail(r)
    BY <1>2, <2>4 DEF Fail, Interrupt, Carrying
  <2> QED
    BY <1>2, <2>1, <2>2, <2>3, <2>4
    DEF IInv, TypeOK, Carrying, Idle, Next, Login, Refresh, LogoutRevoke, Rotate, Load,
        Issue, Reply, LogoutFind, LogoutEnd, Fail, Block, Unblock, Tick, vars
\* A token is consumed by the request that carries it from then on.
<1>3. ASSUME h \notin rotated PROVE Goal
  <2>1. ASSUME NEW r \in Requests, Issue(r) PROVE h \in rotated
    BY <2>1, CarrierIsAlone DEF Issue, Carrying, IInv
  <2>2. PICK r \in Requests : Rotate(r) /\ Rotatable(old[r]) /\ h = old[r]
    BY <1>3, <2>1 DEF Next, Login, Refresh, LogoutRevoke, Rotate, Load,
       Reply, LogoutFind, LogoutEnd, Fail, Block, Unblock, Tick, vars
  <2>3. pc'[r] = "load" /\ old'[r] = h /\ h # NoHash
    BY <2>2, NoHashAssumption DEF Rotate, Rotatable, Live, IInv, TypeOK
  <2> QED
    BY <2>3 DEF Carrying
<1>4. CASE h \in rotated
  <2>1. h \in interrupted => h \in interrupted'
    BY DEF Next, Login, Refresh, LogoutRevoke, Rotate, Load, Issue, Reply, LogoutFind,
       LogoutEnd, Fail, Interrupt, Block, Unblock, Tick, vars
  <2>2. \/ h \in interrupted
        \/ Succeeded
        \/ \E r \in Requests : Carrying(r) /\ old[r] = h
    BY <1>4 DEF RotationIsAccountedFor
  <2> QED
    BY <1>1, <1>2, <1>4, <2>1, <2>2
<1> QED
  BY <1>3, <1>4

\* No consumed token is forgotten, whatever else happens to its login.
THEOREM RotationsAreAccountedFor == Spec => []RotationIsAccountedFor
<1>1. Init => RotationIsAccountedFor
  BY DEF Init, RotationIsAccountedFor
<1> QED
  BY <1>1, RotationStep, InductiveInvariant, PTL DEF Spec

-----------------------------------------------------------------------------
\* The tokens of a login are one user's, numbered from 1 without a gap: with
\* ChainNeverForks, one token for each number.
ChainIsWhole ==
    \A a \in tokens :
        /\ origin[a].user = a.user
        /\ \A v \in 1 .. a.ver : \E b \in tokens : SameLogin(a, b) /\ b.ver = v

\* The chain with the token that r issues, which is f, next to p.
LEMMA IssueKeepsChain ==
    ASSUME IInv, ChainIsWhole, NEW r \in Requests, Issue(r), fresh[r] \notin tokens,
           NEW f \in Hash, f = fresh[r], NEW p, p = old[r]
    PROVE  ChainIsWhole'
<1>1. /\ tokens' = tokens \cup {f}
      /\ origin'[f] = IF p = NoHash THEN f ELSE origin[p]
      /\ \A h \in tokens : origin'[h] = origin[h]
  BY DEF Issue, IInv, TypeOK
<1>2. \A a \in tokens :
          /\ origin'[a].user = a.user
          /\ \A v \in 1 .. a.ver : \E b \in tokens' : origin'[a] = origin'[b] /\ b.ver = v
  BY <1>1 DEF ChainIsWhole, SameLogin
<1>3. /\ origin'[f].user = f.user
      /\ \A v \in 1 .. f.ver : \E b \in tokens' : origin'[f] = origin'[b] /\ b.ver = v
  <2>1. CASE p = NoHash
    <3>1. f.ver = 1
      BY <2>1 DEF Issue, IInv, HandlersOK
    <3>2. \A v \in 1 .. f.ver : v = f.ver
      BY <3>1
    <3> QED
      BY <1>1, <2>1, <3>2
  <2>2. CASE p # NoHash
    <3>1. p \in tokens /\ p.ver \in Nat /\ f.user = p.user /\ f.ver = p.ver + 1
      BY <2>2, CarrierIsAlone, HashFields DEF Issue, Carrying, IInv, TypeOK, HandlersOK
    <3>2. origin'[f] = origin[p] /\ origin'[p] = origin[p]
      BY <1>1, <2>2, <3>1
    <3>3. \A v \in 1 .. f.ver : v \in 1 .. p.ver \/ v = f.ver
      BY <3>1
    <3>4. f \in tokens'
      BY <1>1
    <3>5. origin'[f].user = f.user
      BY <3>1, <3>2 DEF ChainIsWhole
    <3> QED
      BY <1>2, <3>1, <3>2, <3>3, <3>4, <3>5
  <2> QED
    BY <2>1, <2>2
<1> QED
  BY <1>1, <1>2, <1>3 DEF ChainIsWhole, SameLogin

LEMMA ChainStep == IInv /\ ChainIsWhole /\ [Next]_vars => ChainIsWhole'
<1> SUFFICES ASSUME IInv, ChainIsWhole, [Next]_vars PROVE ChainIsWhole'
  OBVIOUS
<1> USE DEF tables, history
<1>1. ASSUME UNCHANGED <<tokens, origin>> PROVE ChainIsWhole'
  BY <1>1 DEF ChainIsWhole, SameLogin
<1>2. ASSUME NEW r \in Requests, Issue(r), fresh[r] \notin tokens PROVE ChainIsWhole'
  <2>1. fresh[r] \in Hash
    BY <1>2 DEF Issue, IInv, HandlersOK
  <2> QED
    BY <1>2, <2>1, IssueKeepsChain
<1> QED
  BY <1>1, <1>2 DEF Next, Login, Refresh, LogoutRevoke, Rotate, Load, Issue, Reply,
     LogoutFind, LogoutEnd, Fail, Block, Unblock, Tick, vars

\* refreshAccessToken hands a login on from token to token and skips none.
THEOREM ChainHasNoGap == Spec => []ChainIsWhole
<1>1. Init => ChainIsWhole
  BY DEF Init, ChainIsWhole
<1> QED
  BY <1>1, ChainStep, InductiveInvariant, PTL DEF Spec

-----------------------------------------------------------------------------
\* A logout that answers has ended the session of its token, and the login as
\* well unless a refresh had consumed that token: the one case in which
\* LogoutIsFinal fails.
LogoutMissesOnlyRotations ==
    [][\A r \in Requests, h \in Hash :
          /\ LogoutFind(r) \/ LogoutEnd(r)
          /\ old[r] = h /\ pc'[r] = "idle"
          => h \notin active' /\ (h \in rotated \/ DeadLogin(h)')]_vars

\* What logout misses is what refreshes took before it.
THEOREM LogoutEndsTheRest == Spec => LogoutMissesOnlyRotations
<1> DEFINE A == \A r \in Requests, h \in Hash :
                    /\ LogoutFind(r) \/ LogoutEnd(r)
                    /\ old[r] = h /\ pc'[r] = "idle"
                    => h \notin active' /\ (h \in rotated \/ DeadLogin(h)')
<1>1. ASSUME IInv, [Next]_vars PROVE A
  <2> SUFFICES ASSUME NEW r \in Requests, NEW h \in Hash,
                      LogoutFind(r) \/ LogoutEnd(r), old[r] = h, pc'[r] = "idle"
               PROVE  h \notin active' /\ (h \in rotated \/ DeadLogin(h)')
    OBVIOUS
  <2>1. h \in revoked /\ h \in tokens
    BY <1>1 DEF LogoutFind, LogoutEnd, IInv, HandlersOK
  <2>2. h \notin active'
    BY <1>1 DEF LogoutFind, LogoutEnd, Goto, tables, IInv, TypeOK
  <2>3. h \notin rotated => DeadLogin(h)'
    BY <1>1, <2>1, LoginsStep DEF IInv, LogoutEndsLogin, DeadStays
  <2> QED
    BY <2>2, <2>3
<1>2. IInv /\ [Next]_vars => [A]_vars
  BY <1>1
<1> QED
  BY <1>2, InductiveInvariant, PTL DEF Spec, LogoutMissesOnlyRotations

-----------------------------------------------------------------------------
\* What the contract sees of a step that changes one login at most.
LEMMA OtherLoginsStutter ==
    ASSUME NEW l \in Hash,
           \A k \in Hash \ {l} : PhaseOf(k)' = PhaseOf(k) /\ VersionsOf(k)' = VersionsOf(k)
    PROVE  /\ [k \in Hash |-> PhaseOf(k)]' =
                  [[k \in Hash |-> PhaseOf(k)] EXCEPT ![l] = PhaseOf(l)']
           /\ [k \in Hash |-> VersionsOf(k)]' =
                  [[k \in Hash |-> VersionsOf(k)] EXCEPT ![l] = VersionsOf(l)']
  OBVIOUS

\* A step that the contract does not see.
LEMMA Unnoticed ==
    ASSUME UNCHANGED <<tokens, origin>>,
           \A k \in Hash : Works(k)' = Works(k) /\ Between(k)' = Between(k)
    PROVE  UNCHANGED Contract!vars
<1>1. \A k \in Hash : VersionsOf(k)' = VersionsOf(k)
  BY DEF VersionsOf
<1>2. \A k \in Hash : PhaseOf(k)' = PhaseOf(k)
  BY <1>1 DEF PhaseOf
<1> QED
  BY <1>1, <1>2 DEF Contract!vars

\* A step that moves no token and no exchange.
LEMMA NothingMoves ==
    ASSUME UNCHANGED <<tokens, revoked, origin>>,
           \A s \in Requests : Carrying(s)' <=> Carrying(s),
           \A s \in Requests : Carrying(s) => old'[s] = old[s]
    PROVE  UNCHANGED Contract!vars
<1>1. \A k \in Hash : Works(k)' = Works(k)
  BY DEF Works, Live
<1>2. \A k \in Hash : Between(k)' = Between(k)
  BY DEF Between
<1> QED
  BY <1>1, <1>2, Unnoticed

\* An exchange that ends without a successor abandons its login.
LEMMA CutOff ==
    ASSUME IInv, UNCHANGED <<tokens, revoked, origin>>,
           NEW r \in Requests, Carrying(r), ~ Carrying(r)',
           NEW l \in Hash, origin[old[r]] = l,
           \A s \in Requests \ {r} : Carrying(s)' <=> Carrying(s),
           \A s \in Requests \ {r} : Carrying(s) => old'[s] = old[s]
    PROVE  Contract!Next
<1>1. old[r] \in tokens
  BY CarrierIsAlone
<1>2. Between(l) /\ ~ Works(l) /\ ~ Works(l)'
  BY <1>1, CarrierIsAlone DEF Between, Works, Live, SameLogin
<1>3. ~ Between(l)'
  BY <1>1, CarrierIsAlone DEF Between, SameLogin
<1>4. \A k \in Hash \ {l} : Works(k)' = Works(k) /\ Between(k)' = Between(k)
  BY DEF Works, Between, Live
<1>5. \A k \in Hash : VersionsOf(k)' = VersionsOf(k)
  BY DEF VersionsOf
<1>6. VersionsOf(l) # {}
  BY <1>1 DEF VersionsOf
<1>7. PhaseOf(l) = "between" /\ PhaseOf(l)' = "over"
  BY <1>2, <1>3, <1>5, <1>6 DEF PhaseOf
<1>8. \A k \in Hash \ {l} : PhaseOf(k)' = PhaseOf(k)
  BY <1>4, <1>5 DEF PhaseOf
<1>9. Contract!Abandon(l)
  BY <1>1, <1>5, <1>7, <1>8, OtherLoginsStutter DEF Contract!Abandon, Contract!Move
<1> QED
  BY <1>1, <1>9 DEF Contract!Next

\* The first transaction of a refresh consumes the token that works.
LEMMA RotateConsumes ==
    ASSUME IInv, NEW r \in Requests, Rotate(r), Rotatable(old[r]),
           NEW l \in Hash, origin[old[r]] = l
    PROVE  Contract!Next
<1> DEFINE p == old[r]
<1>1. /\ p \in Live /\ p \in tokens
      /\ Live' = Live \ {p}
      /\ pc' = [pc EXCEPT ![r] = "load"]
      /\ UNCHANGED <<tokens, origin, old>>
  BY DEF Rotate, Rotatable, Goto, Live, IInv, TypeOK, OriginOK, history
<1>2. Works(l) /\ ~ Works(l)'
  BY <1>1, NewestIsUnique DEF Works, SameLogin, IInv, NewestOK, Live
<1>3. Between(l)'
  BY <1>1, NoHashAssumption DEF Between, Carrying, IInv, TypeOK
<1>4. \A k \in Hash \ {l} : Works(k)' = Works(k) /\ Between(k)' = Between(k)
  <2>1. \A s \in Requests \ {r} : Carrying(s)' = Carrying(s)
    BY <1>1 DEF Carrying, IInv, TypeOK
  <2>2. ~ Carrying(r)
    BY DEF Rotate, Carrying
  <2> QED
    BY <1>1, <2>1, <2>2 DEF Works, Between
<1>5. \A k \in Hash : VersionsOf(k)' = VersionsOf(k)
  BY <1>1 DEF VersionsOf
<1>6. PhaseOf(l) = "works" /\ PhaseOf(l)' = "between"
  BY <1>2, <1>3 DEF PhaseOf
<1>7. \A k \in Hash \ {l} : PhaseOf(k)' = PhaseOf(k)
  BY <1>4, <1>5 DEF PhaseOf
<1>8. Contract!Consume(l)
  BY <1>1, <1>5, <1>6, <1>7, OtherLoginsStutter DEF Contract!Consume, Contract!Move
<1> QED
  BY <1>1, <1>8 DEF Contract!Next

\* A logout that revokes the token closes the login.
LEMMA LogoutCloses ==
    ASSUME IInv, NEW r \in Requests, NEW h \in Live, LogoutRevoke(r, h),
           NEW l \in Hash, origin[h] = l
    PROVE  Contract!Next
<1>1. /\ h \in tokens
      /\ Live' = Live \ {h}
      /\ pc[r] = "idle" /\ pc' = [pc EXCEPT ![r] = "find"]
      /\ old' = [old EXCEPT ![r] = h]
      /\ UNCHANGED <<tokens, origin>>
  BY DEF LogoutRevoke, Goto, Idle, Live, IInv, TypeOK, OriginOK, history
<1>2. Works(l) /\ ~ Works(l)'
  BY <1>1, NewestIsUnique DEF Works, SameLogin, IInv, NewestOK, Live
<1>3. \A s \in Requests : (Carrying(s)' <=> Carrying(s)) /\ (Carrying(s) => old'[s] = old[s])
  BY <1>1 DEF Carrying, IInv, TypeOK
<1>4. ~ Between(l)'
  BY <1>1, <1>3, CarrierIsAlone DEF Between, SameLogin
<1>5. \A k \in Hash \ {l} : Works(k)' = Works(k) /\ Between(k)' = Between(k)
  BY <1>1, <1>3 DEF Works, Between
<1>6. \A k \in Hash : VersionsOf(k)' = VersionsOf(k)
  BY <1>1 DEF VersionsOf
<1>7. VersionsOf(l) # {}
  BY <1>1 DEF VersionsOf
<1>8. PhaseOf(l) = "works" /\ PhaseOf(l)' = "over"
  BY <1>2, <1>4, <1>6, <1>7 DEF PhaseOf
<1>9. \A k \in Hash \ {l} : PhaseOf(k)' = PhaseOf(k)
  BY <1>5, <1>6 DEF PhaseOf
<1>10. Contract!Close(l)
  BY <1>1, <1>6, <1>8, <1>9, OtherLoginsStutter DEF Contract!Close, Contract!Move
<1> QED
  BY <1>1, <1>10 DEF Contract!Next

\* A token that is issued opens its login or renews it.
LEMMA IssueOpensOrRenews ==
    ASSUME IInv, NEW r \in Requests, Issue(r), fresh[r] \notin tokens,
           NEW f \in Hash, f = fresh[r], NEW p, p = old[r],
           NEW l \in Hash, l = IF p = NoHash THEN f ELSE origin[p]
    PROVE  Contract!Next
<1>1. /\ tokens' = tokens \cup {f} /\ revoked' = revoked
      /\ origin' = [origin EXCEPT ![f] = l]
      /\ pc[r] = "issue" /\ pc' = [pc EXCEPT ![r] = "reply"] /\ old' = old
  <2>1. p # NoHash => p \in revoked
    BY DEF Issue, IInv, HandlersOK, TypeOK, Carrying
  <2> QED
    BY <2>1 DEF Issue, SessionsAfter, Goto
<1>2. /\ f \notin tokens /\ f \notin revoked
      /\ \A t \in tokens : t \in Hash /\ t # f /\ origin'[t] = origin[t]
      /\ origin'[f] = l
  BY <1>1 DEF IInv, TypeOK
<1>3. \A s \in Requests : Carrying(s)' <=> Carrying(s) /\ s # r
  BY <1>1 DEF Carrying, IInv, TypeOK
<1>4. \A s \in Requests : Carrying(s) => old[s] \in tokens
  BY CarrierIsAlone
<1>5. \A k \in Hash \ {l} : Works(k)' = Works(k)
  BY <1>1, <1>2 DEF Works, Live
<1>6. p # NoHash => Carrying(r)
  BY <1>1 DEF Carrying
<1>7. \A k \in Hash \ {l} : Between(k)' = Between(k)
  BY <1>1, <1>2, <1>3, <1>4 DEF Between, Carrying
<1>8. \A k \in Hash \ {l} : VersionsOf(k)' = VersionsOf(k)
  BY <1>1, <1>2 DEF VersionsOf
<1>9. VersionsOf(l)' = VersionsOf(l) \cup {f.ver}
  BY <1>1, <1>2 DEF VersionsOf
<1>10. \A k \in Hash \ {l} : PhaseOf(k)' = PhaseOf(k)
  BY <1>5, <1>7, <1>8 DEF PhaseOf
<1>11. Works(l)' /\ PhaseOf(l)' = "works"
  BY <1>1, <1>2 DEF Works, Live, PhaseOf
<1>12. /\ [k \in Hash |-> PhaseOf(k)]' =
             [[k \in Hash |-> PhaseOf(k)] EXCEPT ![l] = "works"]
      /\ [k \in Hash |-> VersionsOf(k)]' =
             [[k \in Hash |-> VersionsOf(k)] EXCEPT ![l] = VersionsOf(l) \cup {f.ver}]
  BY <1>8, <1>9, <1>10, <1>11, OtherLoginsStutter
<1>13. CASE p = NoHash
  <2>1. l = f /\ \A t \in tokens : origin[t] # l
    BY <1>2, <1>13 DEF IInv, OriginOK
  <2>2. VersionsOf(l) = {} /\ PhaseOf(l) = "none"
    BY <1>4, <2>1 DEF VersionsOf, PhaseOf, Works, Between, Live
  <2>3. f.ver = 1
    BY <1>1, <1>13 DEF IInv, HandlersOK
  <2>4. Contract!Open(l)
    <3>1. VersionsOf(l) \cup {f.ver} = {1}
      BY <2>2, <2>3
    <3> QED
      BY <1>12, <2>2, <3>1 DEF Contract!Open, Contract!Move
  <2> QED
    BY <2>4 DEF Contract!Next
<1>14. CASE p # NoHash
  <2>1. /\ p \in tokens /\ Newest(p) /\ origin[p] = l
        /\ \A a \in Live : origin[a] # l
    BY <1>6, <1>14, CarrierIsAlone DEF SameLogin
  <2>2. PhaseOf(l) = "between"
    BY <1>6, <1>14, <2>1 DEF PhaseOf, Works, Between
  <2>3. f.ver = p.ver + 1
    BY <1>1, <1>14 DEF IInv, HandlersOK
  <2>4. p.ver \in VersionsOf(l) /\ \A w \in VersionsOf(l) : w <= p.ver
    BY <2>1 DEF VersionsOf, Newest, SameLogin
  <2>5. Contract!Renew(l)
    <3>1. [k \in Hash |-> VersionsOf(k)][l] = VersionsOf(l)
      OBVIOUS
    <3>2. \E v \in VersionsOf(l) :
             /\ \A w \in VersionsOf(l) : w <= v
             /\ [k \in Hash |-> VersionsOf(k)]' =
                    [[k \in Hash |-> VersionsOf(k)] EXCEPT ![l] = VersionsOf(l) \cup {v + 1}]
      BY <1>12, <2>3, <2>4
    <3> QED
      BY <1>12, <2>2, <3>1, <3>2 DEF Contract!Renew, Contract!Move
  <2> QED
    BY <2>5 DEF Contract!Next
<1> QED
  BY <1>13, <1>14

\* Each step of the service is a step of the contract, or the contract does
\* not see it.
LEMMA ContractStep ==
    IInv /\ [Next]_vars => Contract!Next \/ UNCHANGED Contract!vars
<1> SUFFICES ASSUME IInv, [Next]_vars
             PROVE  Contract!Next \/ UNCHANGED Contract!vars
  OBVIOUS
<1> USE DEF IInv
<1>1. ASSUME NEW r \in Requests, NEW u \in Users, Login(r, u)
      PROVE  UNCHANGED Contract!vars
  <2>1. \A s \in Requests :
            (Carrying(s)' <=> Carrying(s)) /\ (Carrying(s) => old'[s] = old[s])
    BY <1>1 DEF Login, Goto, Idle, Carrying, HandlersOK, TypeOK
  <2> QED
    BY <1>1, <2>1, NothingMoves DEF Login, tables, history
<1>2. ASSUME NEW r \in Requests, NEW h \in Hash, Refresh(r, h)
      PROVE  UNCHANGED Contract!vars
  <2>1. \A s \in Requests :
            (Carrying(s)' <=> Carrying(s)) /\ (Carrying(s) => old'[s] = old[s])
    BY <1>2 DEF Refresh, Goto, Idle, Carrying, TypeOK
  <2> QED
    BY <1>2, <2>1, NothingMoves DEF Refresh, tables, history
<1>3. ASSUME NEW r \in Requests, NEW h \in Hash, LogoutRevoke(r, h)
      PROVE  Contract!Next \/ UNCHANGED Contract!vars
  <2>1. CASE h \in Live
    <3>1. origin[h] \in Hash
      BY <2>1 DEF OriginOK, TypeOK, Live
    <3> QED
      BY <1>3, <2>1, <3>1, LogoutCloses
  <2>2. CASE h \notin Live
    <3>1. \A s \in Requests :
              (Carrying(s)' <=> Carrying(s)) /\ (Carrying(s) => old'[s] = old[s])
      BY <1>3 DEF LogoutRevoke, Goto, Idle, Carrying, TypeOK
    <3>2. UNCHANGED <<tokens, revoked, origin>>
      BY <1>3, <2>2 DEF LogoutRevoke, Live, TypeOK, history
    <3> QED
      BY <3>1, <3>2, NothingMoves
  <2> QED
    BY <2>1, <2>2
<1>4. ASSUME NEW r \in Requests, Rotate(r)
      PROVE  Contract!Next \/ UNCHANGED Contract!vars
  <2>1. CASE Rotatable(old[r])
    <3>1. origin[old[r]] \in Hash
      BY <2>1 DEF Rotatable, OriginOK, TypeOK, Live
    <3> QED
      BY <1>4, <2>1, <3>1, RotateConsumes
  <2>2. CASE ~ Rotatable(old[r])
    <3>1. \A s \in Requests :
              (Carrying(s)' <=> Carrying(s)) /\ (Carrying(s) => old'[s] = old[s])
      BY <1>4, <2>2 DEF Rotate, Finish, Carrying, TypeOK
    <3> QED
      BY <1>4, <2>2, <3>1, NothingMoves DEF Rotate, history
  <2> QED
    BY <2>1, <2>2
<1>5. ASSUME NEW r \in Requests, Load(r), MayUse(old[r].user)
      PROVE  UNCHANGED Contract!vars
  <2>1. \A s \in Requests :
            (Carrying(s)' <=> Carrying(s)) /\ (Carrying(s) => old'[s] = old[s])
    BY <1>5 DEF Load, Goto, Carrying, TypeOK
  <2> QED
    BY <1>5, <2>1, NothingMoves DEF Load, tables
<1>6. ASSUME NEW r \in Requests, Finish(r), UNCHANGED <<tokens, revoked, origin>>
      PROVE  Contract!Next \/ UNCHANGED Contract!vars
  <2>1. \A s \in Requests \ {r} :
            (Carrying(s)' <=> Carrying(s)) /\ (Carrying(s) => old'[s] = old[s])
    BY <1>6 DEF Finish, Carrying, TypeOK
  <2>2. ~ Carrying(r)'
    BY <1>6 DEF Finish, Carrying, TypeOK
  <2>3. CASE Carrying(r)
    <3>1. origin[old[r]] \in Hash
      BY <2>3, CarrierIsAlone DEF OriginOK, TypeOK
    <3> QED
      BY <1>6, <2>1, <2>2, <2>3, <3>1, CutOff
  <2>4. CASE ~ Carrying(r)
    BY <1>6, <2>1, <2>2, <2>4, NothingMoves
  <2> QED
    BY <2>3, <2>4
<1>7. ASSUME NEW r \in Requests, Issue(r), fresh[r] \notin tokens
      PROVE  Contract!Next
  <2> DEFINE l == IF old[r] = NoHash THEN fresh[r] ELSE origin[old[r]]
  <2>1. fresh[r] \in Hash /\ l \in Hash
    <3>1. pc[r] = "issue" /\ fresh[r] \in Hash
      BY <1>7 DEF Issue, HandlersOK
    <3>2. old[r] # NoHash => origin[old[r]] \in Hash
      BY <3>1, CarrierIsAlone DEF Carrying, OriginOK, TypeOK
    <3> QED
      BY <3>1, <3>2
  <2> QED
    BY <1>7, <2>1, IssueOpensOrRenews
<1>8. ASSUME NEW r \in Requests, LogoutFind(r), old[r] \in active
      PROVE  UNCHANGED Contract!vars
  <2>1. \A s \in Requests :
            (Carrying(s)' <=> Carrying(s)) /\ (Carrying(s) => old'[s] = old[s])
    BY <1>8 DEF LogoutFind, Goto, Carrying, TypeOK
  <2> QED
    BY <1>8, <2>1, NothingMoves DEF LogoutFind, tables, history
<1>9. CASE (\E u \in Users : Block(u) \/ Unblock(u)) \/ Tick \/ UNCHANGED vars
  <2>1. UNCHANGED <<tables, handlers, origin>>
    BY <1>9 DEF Block, Unblock, Tick, vars, tables, handlers, history
  <2> QED
    BY <2>1, NothingMoves DEF tables, handlers, Carrying
<1>10. ASSUME NEW r \in Requests,
              \/ Load(r) /\ ~ MayUse(old[r].user)
              \/ Issue(r) /\ fresh[r] \in tokens
              \/ Reply(r)
              \/ LogoutFind(r) /\ old[r] \notin active
              \/ LogoutEnd(r)
              \/ Fail(r)
       PROVE  Finish(r) /\ UNCHANGED <<tokens, revoked, origin>>
  BY <1>10 DEF Load, Issue, Reply, LogoutFind, LogoutEnd, Fail, tables, history
<1> QED
  BY <1>1, <1>2, <1>3, <1>4, <1>5, <1>6, <1>7, <1>8, <1>9, <1>10 DEF Next

\* The service implements its contract: a login has one token that works, or
\* is exchanging it, or is over for good, for any number of users, requests,
\* versions and seconds.
THEOREM ServiceKeepsContract == Spec => ImplementsContract
<1>1. Init => Contract!Init
  <2> SUFFICES ASSUME Init, NEW l \in Hash
               PROVE  PhaseOf(l) = "none" /\ VersionsOf(l) = {}
    BY DEF Contract!Init
  <2>1. VersionsOf(l) = {} /\ ~ Works(l) /\ ~ Between(l)
    BY DEF Init, VersionsOf, Works, Live, Between, Carrying
  <2> QED
    BY <2>1 DEF PhaseOf
<1>2. IInv /\ [Next]_vars => [Contract!Next]_(Contract!vars)
  BY ContractStep
<1> QED
  BY <1>1, <1>2, InductiveInvariant, PTL DEF Spec, ImplementsContract, Contract!Spec
=============================================================================
