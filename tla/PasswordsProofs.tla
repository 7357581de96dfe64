-------------------------- MODULE PasswordsProofs --------------------------
(***************************************************************************)
(* Proofs about Passwords, for any number of requests, tokens and          *)
(* passwords, any HISTORY_COUNT and any pool.                              *)
(*                                                                         *)
(* The history rests on one fact about orderBy, skip and take: as long as  *)
(* the newest HISTORY_COUNT rows ever created are in the table, they are   *)
(* what take finds, and skip finds only older ones (NewestRows).  A list   *)
(* of rows to delete that is out of date names rows that are older still.  *)
(* The reset token rests on its row lock: one request at a time is between *)
(* reading the token as open and marking it as used.                       *)
(*                                                                         *)
(* The size of the history follows from both its properties: rows whose    *)
(* requests have cleaned up lie close together, and the others are one for *)
(* each request (HistoryStaysSmall).                                       *)
(***************************************************************************)
EXTENDS Passwords, FiniteSetTheorems, SequenceTheorems, TLAPS

\* What a request is doing agrees with its handler and its inputs.
Shape ==
    \A r \in Requests :
        /\ kind[r] = "reset" => via[r] \in Tokens
        /\ kind[r] # "reset" => via[r] = NoToken
        /\ kind[r] # "none" => new[r] \in Passwords
        /\ pc[r] = "idle" <=> kind[r] = "none"
        /\ pc[r] = "check" => kind[r] = "change"
        /\ pc[r] = "reread" => kind[r] = "self"
        /\ pc[r] = "update" => kind[r] \in {"change", "self"}
        /\ pc[r] \in InTransaction => kind[r] = "reset"
        /\ pc[r] = "record" /\ kind[r] = "self" => old[r] \in Passwords

\* A list of rows to delete, however old, has none of the newest.
SeenIsOld ==
    \A r \in Requests : \A k \in seen[r] : k + HistoryCount <= Len(rows)

\* Whoever is about to delete knows all rows that its own made surplus.
SeenIsEnough ==
    \A i \in 1 .. Len(rows) :
        (rows[i].by # Nobody /\ pc[rows[i].by] = "delete")
            => \A k \in kept : k + HistoryCount > i \/ k \in seen[rows[i].by]

\* A request sets the password once, and then does not come to it again.
SetsOnce ==
    \A i \in 1 .. Len(past) :
        LET r == past[i].by IN
        r # Nobody => \/ pc[r] \in Over
                      \/ pc[r] \in {"record", "prune", "delete"} /\ kind[r] # "self"

\* One transaction has the row of a token, and finds it unused to the end.
RowLock ==
    \A r \in Requests : pc[r] \in HasTokenRow =>
        /\ token[via[r]] \in {"open", "expired"}
        /\ \A q \in Requests : pc[q] \in HasTokenRow /\ via[q] = via[r] => q = r

\* A password that passed the check, on its way to the user's row.
Checked ==
    \A r \in Requests :
        (pc[r] \in {"write", "commit"} \/ (pc[r] = "update" /\ kind[r] = "change"))
            => \A i \in 1 .. since[r] :
                  i + HistoryCount > since[r] => rows[i].pw # new[r]

IInv ==
    /\ TypeOK /\ Shape
    /\ NewestAreKept /\ SeenIsOld /\ SeenIsEnough /\ CleanUpCatchesUp
    /\ SetsOnce /\ RowLock /\ ResetIsSpentOnce
    /\ Checked /\ ReuseNeedsRace

-----------------------------------------------------------------------------
\* What orderBy createdAt desc, take HISTORY_COUNT finds.
LEMMA NewestRows ==
    ASSUME TypeOK, NewestAreKept
    PROVE  Newest(HistoryCount) = {k \in kept : k + HistoryCount > Len(rows)}
<1> DEFINE L == Len(rows)
           Above(k) == {m \in kept : m > k}
<1> USE LimitsAssumption
<1>1. L \in Nat /\ kept \subseteq 1 .. L
  BY DEF TypeOK
<1>2. ASSUME NEW k \in kept
      PROVE  Cardinality(Above(k)) < HistoryCount <=> k + HistoryCount > L
  <2>1. k \in 1 .. L
    BY <1>1, <1>2
  <2>2. Above(k) \subseteq (k + 1) .. L
    <3>1. ASSUME NEW m \in Above(k) PROVE m \in (k + 1) .. L
      <4>1. m \in 1 .. L /\ m > k
        BY <1>1, <3>1
      <4> QED
        BY <4>1, <2>1, <1>1
    <3> QED
      BY <3>1
  <2>3. /\ IsFiniteSet((k + 1) .. L)
        /\ Cardinality((k + 1) .. L) = L - k
    BY <1>1, <2>1, FS_Interval
  <2>4. /\ IsFiniteSet(Above(k))
        /\ Cardinality(Above(k)) <= L - k
        /\ Cardinality(Above(k)) \in Nat
    BY <2>2, <2>3, FS_Subset, FS_CardinalityType
  <2>5. CASE k + HistoryCount > L
    BY <2>4, <2>5, <2>1, <1>1
  <2>6. CASE k + HistoryCount <= L
    <3> DEFINE Top == (L - HistoryCount + 1) .. L
    <3>1. Top \subseteq Above(k)
      BY <1>1, <2>1, <2>6 DEF NewestAreKept
    <3>2. Cardinality(Top) = HistoryCount
      BY <1>1, FS_Interval
    <3>3. HistoryCount <= Cardinality(Above(k))
      BY <3>1, <3>2, <2>4, FS_Subset
    <3> QED
      BY <3>3, <2>4, <2>6, <2>1, <1>1
  <2> QED
    BY <2>5, <2>6, <2>1, <1>1
<1> QED
  BY <1>2 DEF Newest

\* The hash in the user's row is one of a password.
LEMMA PasswordType == TypeOK => Password \in Passwords
<1> SUFFICES ASSUME TypeOK PROVE past[Len(past)] \in Entry
  BY DEF Password, Entry
<1>1. past \in Seq(Entry) /\ past # <<>>
  BY DEF TypeOK
<1> HIDE DEF Entry
<1> QED
  BY <1>1

\* One entry more.
LEMMA Appended ==
    ASSUME NEW s \in Seq(Entry), NEW p \in Passwords, NEW b \in Requests \cup {Nobody}
    PROVE  LET t == Append(s, [pw |-> p, by |-> b]) IN
           /\ t \in Seq(Entry) /\ t # <<>>
           /\ Len(s) \in Nat /\ Len(t) = Len(s) + 1
           /\ \A i \in 1 .. Len(s) : t[i] = s[i]
           /\ t[Len(s) + 1].pw = p /\ t[Len(s) + 1].by = b
<1>1. [pw |-> p, by |-> b] \in Entry
  BY DEF Entry
<1>2. Len(s) \in Nat
  BY LenProperties
<1> QED
  BY <1>1, <1>2, AppendProperties

\* Types are kept.
LEMMA StepTypes == IInv /\ [Next]_vars => TypeOK'
<1> SUFFICES ASSUME IInv, [Next]_vars PROVE TypeOK'
  OBVIOUS
<1> USE NullAssumption, LimitsAssumption
       DEF IInv, Goto, InTransaction, HasTokenRow, Over, Steps, memory, TypeOK, Shape
<1>1. ASSUME NEW r \in Requests, NEW k \in {"change", "self"},
             NEW given \in Passwords, NEW p \in Passwords, ReadUser(r, k, given, p)
      PROVE  TypeOK'
  BY <1>1 DEF ReadUser
<1>2. ASSUME NEW r \in Requests, NEW t \in Tokens, NEW p \in Passwords, Begin(r, t, p)
      PROVE  TypeOK'
  BY <1>2 DEF Begin
<1>3. ASSUME NEW r \in Requests, Check(r) PROVE TypeOK'
  BY <1>3 DEF Check
<1>4. ASSUME NEW r \in Requests, Reread(r) PROVE TypeOK'
  BY <1>4, PasswordType DEF Reread
<1>5. ASSUME NEW r \in Requests, Update(r) PROVE TypeOK'
  <2>1. new[r] \in Passwords
    BY <1>5 DEF Update
  <2>2. past \in Seq(Entry) /\ past' = Append(past, [pw |-> new[r], by |-> r])
    BY <1>5 DEF Update, Put
  <2>3. past' \in Seq(Entry) /\ past' # <<>>
    BY <2>1, <2>2, Appended
  <2> QED
    BY <2>3, <1>5 DEF Update
<1>6. ASSUME NEW r \in Requests, Lock(r) PROVE TypeOK'
  BY <1>6 DEF Lock
<1>7. ASSUME NEW r \in Requests, Screen(r) PROVE TypeOK'
  BY <1>7 DEF Screen
<1>8. ASSUME NEW r \in Requests, Write(r) PROVE TypeOK'
  BY <1>8 DEF Write
<1>9. ASSUME NEW r \in Requests, Commit(r) PROVE TypeOK'
  <2>1. new[r] \in Passwords /\ via[r] \in Tokens
    BY <1>9 DEF Commit
  <2>2. past' \in Seq(Entry) /\ past' # <<>>
    BY <2>1, <1>9, Appended DEF Commit, Put
  <2> QED
    BY <2>1, <2>2, <1>9 DEF Commit
<1>10. ASSUME NEW r \in Requests, Record(r) PROVE TypeOK'
  <2>1. SavedHash(r) \in Passwords
    BY <1>10 DEF Record, SavedHash
  <2>2. /\ rows' \in Seq(Entry)
        /\ Len(rows) \in Nat /\ Len(rows') = Len(rows) + 1
    BY <2>1, <1>10, Appended DEF Record
  <2>3. 1 .. Len(rows) \subseteq 1 .. Len(rows') /\ Len(rows) + 1 \in 1 .. Len(rows')
    BY <2>2
  <2>4. kept' \subseteq 1 .. Len(rows')
    BY <2>3, <1>10 DEF Record
  <2>5. /\ seen' \in [Requests -> SUBSET (1 .. Len(rows'))]
        /\ since' \in [Requests -> 0 .. Len(rows')]
    BY <2>2, <2>3, <1>10 DEF Record
  <2> QED
    BY <2>2, <2>4, <2>5, <1>10 DEF Record
<1>11. ASSUME NEW r \in Requests, Prune(r) PROVE TypeOK'
  BY <1>11 DEF Prune, Leave, Surplus
<1>12. ASSUME NEW r \in Requests, Delete(r) PROVE TypeOK'
  BY <1>12 DEF Delete, Leave
<1>13. ASSUME NEW r \in Requests, Timeout(r) \/ Fail(r) PROVE TypeOK'
  BY <1>13 DEF Timeout, Fail
<1>14. ASSUME NEW t \in Tokens, RequestReset(t) \/ Expire(t) PROVE TypeOK'
  BY <1>14 DEF RequestReset, Expire
<1>15. CASE UNCHANGED vars
  BY <1>15 DEF vars
<1> QED
  BY <1>1, <1>2, <1>3, <1>4, <1>5, <1>6, <1>7, <1>8, <1>9, <1>10, <1>11, <1>12, <1>13, <1>14, <1>15 DEF Next, Step

\* So is the shape of a request.
LEMMA StepShape == IInv /\ [Next]_vars => Shape'
<1> SUFFICES ASSUME IInv, [Next]_vars PROVE Shape'
  OBVIOUS
<1> USE NullAssumption, LimitsAssumption
       DEF IInv, Goto, InTransaction, HasTokenRow, Over, Steps, memory, TypeOK, Shape
<1>1. ASSUME NEW r \in Requests, NEW k \in {"change", "self"},
             NEW given \in Passwords, NEW p \in Passwords, ReadUser(r, k, given, p)
      PROVE  Shape'
  BY <1>1 DEF ReadUser
<1>2. ASSUME NEW r \in Requests, NEW t \in Tokens, NEW p \in Passwords, Begin(r, t, p)
      PROVE  Shape'
  BY <1>2 DEF Begin
<1>3. ASSUME NEW r \in Requests, Check(r) PROVE Shape'
  BY <1>3 DEF Check
<1>4. ASSUME NEW r \in Requests, Reread(r) PROVE Shape'
  BY <1>4, PasswordType DEF Reread
<1>5. ASSUME NEW r \in Requests, Update(r) PROVE Shape'
  BY <1>5 DEF Update, Put
<1>6. ASSUME NEW r \in Requests, Lock(r) PROVE Shape'
  BY <1>6 DEF Lock
<1>7. ASSUME NEW r \in Requests, Screen(r) PROVE Shape'
  BY <1>7 DEF Screen
<1>8. ASSUME NEW r \in Requests, Write(r) PROVE Shape'
  BY <1>8 DEF Write
<1>9. ASSUME NEW r \in Requests, Commit(r) PROVE Shape'
  BY <1>9 DEF Commit, Put
<1>10. ASSUME NEW r \in Requests, Record(r) PROVE Shape'
  BY <1>10 DEF Record, SavedHash
<1>11. ASSUME NEW r \in Requests, Prune(r) PROVE Shape'
  BY <1>11 DEF Prune, Leave, Surplus
<1>12. ASSUME NEW r \in Requests, Delete(r) PROVE Shape'
  BY <1>12 DEF Delete, Leave
<1>13. ASSUME NEW r \in Requests, Timeout(r) \/ Fail(r) PROVE Shape'
  BY <1>13 DEF Timeout, Fail
<1>14. ASSUME NEW t \in Tokens, RequestReset(t) \/ Expire(t) PROVE Shape'
  BY <1>14 DEF RequestReset, Expire
<1>15. CASE UNCHANGED vars
  BY <1>15 DEF vars
<1> QED
  BY <1>1, <1>2, <1>3, <1>4, <1>5, <1>6, <1>7, <1>8, <1>9, <1>10, <1>11, <1>12, <1>13, <1>14, <1>15 DEF Next, Step

-----------------------------------------------------------------------------
(***************************************************************************)
(* The history                                                             *)
(***************************************************************************)
\* Appending a row leaves those that are there.
LEMMA RowsAfterRecord ==
    ASSUME IInv, NEW r \in Requests, Record(r)
    PROVE  /\ Len(rows) \in Nat /\ Len(rows') = Len(rows) + 1
           /\ \A i \in 1 .. Len(rows) : rows'[i] = rows[i]
           /\ rows'[Len(rows) + 1].by = r
<1>1. SavedHash(r) \in Passwords
  BY DEF IInv, Shape, TypeOK, Record, SavedHash
<1>2. rows \in Seq(Entry) /\ rows' = Append(rows, [pw |-> SavedHash(r), by |-> r])
  BY DEF IInv, TypeOK, Record
<1> QED
  BY <1>1, <1>2, Appended

\* The rows that a request finds surplus are the ones too old to be kept.
LEMMA SurplusRows ==
    ASSUME IInv
    PROVE  Surplus = {k \in kept : k + HistoryCount <= Len(rows)}
<1>1. Newest(HistoryCount) = {k \in kept : k + HistoryCount > Len(rows)}
  BY NewestRows DEF IInv
<1>2. Len(rows) \in Nat /\ \A k \in kept : k \in Nat
  BY DEF IInv, TypeOK
<1> QED
  BY <1>1, <1>2, LimitsAssumption DEF Surplus

\* The newest rows stay, and so do lists of older ones.
LEMMA StepKept == IInv /\ [Next]_vars => NewestAreKept' /\ SeenIsOld'
<1> SUFFICES ASSUME IInv, [Next]_vars PROVE NewestAreKept' /\ SeenIsOld'
  OBVIOUS
<1> USE LimitsAssumption DEF NewestAreKept, SeenIsOld
<1>1. Len(rows) \in Nat /\ kept \subseteq 1 .. Len(rows)
  BY DEF IInv, TypeOK
<1>2. \A r \in Requests : seen[r] \subseteq 1 .. Len(rows)
  BY DEF IInv, TypeOK
<1>3. NewestAreKept /\ SeenIsOld
  BY DEF IInv
<1>4. ASSUME NEW r \in Requests, Record(r) PROVE NewestAreKept' /\ SeenIsOld'
  <2>1. Len(rows') = Len(rows) + 1 /\ kept' = kept \cup {Len(rows) + 1} /\ seen' = seen
    BY <1>4, RowsAfterRecord DEF Record, memory
  <2> QED
    BY <1>1, <1>2, <1>3, <2>1
<1>5. ASSUME NEW r \in Requests, Prune(r) PROVE NewestAreKept' /\ SeenIsOld'
  <2>1. rows' = rows /\ kept' = kept /\ seen' = [seen EXCEPT ![r] = Surplus]
    BY <1>5 DEF Prune
  <2>2. seen \in [Requests -> SUBSET (1 .. Len(rows))]
    BY DEF IInv, TypeOK
  <2>3. \A q \in Requests : seen'[q] = IF q = r THEN Surplus ELSE seen[q]
    BY <2>1, <2>2
  <2> QED
    BY <1>3, <2>1, <2>3, SurplusRows
<1>6. ASSUME NEW r \in Requests, Delete(r) PROVE NewestAreKept' /\ SeenIsOld'
  <2>1. rows' = rows /\ kept' = kept \ seen[r] /\ seen' = seen
    BY <1>6 DEF Delete, memory
  <2> QED
    BY <1>1, <1>2, <1>3, <2>1
<1>7. CASE UNCHANGED <<rows, kept, seen>>
  BY <1>3, <1>7
<1> QED
  BY <1>4, <1>5, <1>6, <1>7
     DEF Next, Step, vars, memory, ReadUser, Begin, Check, Reread, Update, Lock,
         Screen, Write, Commit, Timeout, Fail, RequestReset, Expire

\* The handlers that are over with the history, or not in it yet, do not get
\* any further in it by a step that leaves the history alone.
LEMMA ElsewhereInHistory ==
    ASSUME IInv, NEW r \in Requests,
           \/ \E k \in {"change", "self"}, given, p \in Passwords : ReadUser(r, k, given, p)
           \/ \E t \in Tokens, p \in Passwords : Begin(r, t, p)
           \/ Check(r) \/ Reread(r) \/ Update(r)
           \/ Lock(r) \/ Screen(r) \/ Write(r) \/ Commit(r)
           \/ Timeout(r) \/ Fail(r)
    PROVE  /\ rows' = rows /\ kept' = kept /\ seen' = seen
           /\ \A q \in Requests : pc'[q] = "delete" => pc[q] = "delete"
           /\ \A q \in Requests : CleanedUp(q)' => CleanedUp(q)
  BY DEF IInv, TypeOK, Shape, CleanedUp, Goto, Over, InTransaction, memory, ReadUser,
         Begin, Check, Reread, Update, Lock, Screen, Write, Commit, Timeout, Fail

\* A request that has finished its clean-up left nothing behind, and still
\* will not have when others add and delete rows.
LEMMA StepCleanUp == IInv /\ [Next]_vars => SeenIsEnough' /\ CleanUpCatchesUp'
<1> SUFFICES ASSUME IInv, [Next]_vars PROVE SeenIsEnough' /\ CleanUpCatchesUp'
  OBVIOUS
<1> USE LimitsAssumption, NullAssumption DEF SeenIsEnough, CleanUpCatchesUp, CleanedUp
<1>1. Len(rows) \in Nat /\ kept \subseteq 1 .. Len(rows)
  BY DEF IInv, TypeOK
<1>2. \A i \in 1 .. Len(rows) : rows[i].by \in Requests \cup {Nobody}
  <2>1. \A i \in 1 .. Len(rows) : rows[i] \in Entry
    BY ElementOfSeq DEF IInv, TypeOK
  <2> QED
    BY <2>1 DEF Entry
<1>3. pc \in [Requests -> Steps] /\ seen \in [Requests -> SUBSET (1 .. Len(rows))]
  BY DEF IInv, TypeOK
<1>4. SeenIsEnough /\ CleanUpCatchesUp
  BY DEF IInv
<1>5. ASSUME NEW r \in Requests, Record(r) PROVE SeenIsEnough' /\ CleanUpCatchesUp'
  <2>1. /\ Len(rows') = Len(rows) + 1
        /\ \A i \in 1 .. Len(rows) : rows'[i] = rows[i]
        /\ rows'[Len(rows) + 1].by = r
    BY <1>5, RowsAfterRecord
  <2>2. /\ kept' = kept \cup {Len(rows) + 1} /\ seen' = seen /\ kind' = kind
        /\ \A q \in Requests : pc'[q] = IF q = r THEN "prune" ELSE pc[q]
    BY <1>3, <1>5 DEF Record, Goto, memory
  <2>3. \A q \in Requests : /\ pc'[q] = "delete" => pc[q] = "delete"
                            /\ CleanedUp(q)' => CleanedUp(q)
    BY <2>2 DEF CleanedUp
  <2>4. \A i \in 1 .. Len(rows') : i \in 1 .. Len(rows) \/ i = Len(rows) + 1
    BY <1>1, <2>1
  <2>5. SeenIsEnough'
    BY <1>1, <1>2, <1>4, <2>1, <2>2, <2>3, <2>4
  <2>6. CleanUpCatchesUp'
    <3> SUFFICES ASSUME NEW i \in 1 .. Len(rows'), rows'[i].by # Nobody,
                        CleanedUp(rows[i].by)', NEW k \in kept'
                 PROVE  k + HistoryCount > i
      BY DEF CleanUpCatchesUp
    <3>1. CASE i = Len(rows) + 1
      BY <2>1, <2>2, <3>1 DEF CleanedUp
    <3>2. CASE i \in 1 .. Len(rows)
      BY <1>1, <1>2, <1>4, <2>1, <2>2, <2>3, <3>2
    <3> QED
      BY <2>4, <3>1, <3>2
  <2> QED
    BY <2>5, <2>6
<1>6. ASSUME NEW r \in Requests, Prune(r) PROVE SeenIsEnough' /\ CleanUpCatchesUp'
  <2>1. /\ rows' = rows /\ kept' = kept /\ kind' = kind
        /\ \A q \in Requests : q # r => pc'[q] = pc[q] /\ seen'[q] = seen[q]
        /\ seen'[r] = Surplus
        /\ Surplus # {} => pc'[r] = "delete"
        /\ Surplus = {} => pc'[r] # "delete"
    BY <1>3, <1>6 DEF Prune, Leave, Goto
  <2>2. \A q \in Requests : q # r => (CleanedUp(q)' <=> CleanedUp(q))
    BY <2>1 DEF CleanedUp
  <2>3. \A i \in 1 .. Len(rows), k \in kept : k + HistoryCount > i \/ k \in Surplus
    BY <1>1, SurplusRows
  <2>4. CleanedUp(r)' => Surplus = {}
    BY <2>1 DEF CleanedUp
  <2> QED
    BY <1>2, <1>4, <2>1, <2>2, <2>3, <2>4
<1>7. ASSUME NEW r \in Requests, Delete(r) PROVE SeenIsEnough' /\ CleanUpCatchesUp'
  <2>1. /\ rows' = rows /\ kept' = kept \ seen[r] /\ seen' = seen /\ kind' = kind
        /\ pc[r] = "delete" /\ pc'[r] # "delete"
        /\ \A q \in Requests : q # r => pc'[q] = pc[q]
    BY <1>3, <1>7 DEF Delete, Leave, Goto, memory
  <2>2. \A q \in Requests : q # r => (CleanedUp(q)' <=> CleanedUp(q))
    BY <2>1 DEF CleanedUp
  <2> QED
    BY <1>2, <1>4, <2>1, <2>2
<1>8. ASSUME /\ rows' = rows /\ kept' = kept /\ seen' = seen
             /\ \A q \in Requests : pc'[q] = "delete" => pc[q] = "delete"
             /\ \A q \in Requests : CleanedUp(q)' => CleanedUp(q)
      PROVE  SeenIsEnough' /\ CleanUpCatchesUp'
  <2>1. SeenIsEnough'
    <3> SUFFICES ASSUME NEW i \in 1 .. Len(rows), rows[i].by # Nobody,
                        pc'[rows[i].by] = "delete", NEW k \in kept
                 PROVE  k + HistoryCount > i \/ k \in seen[rows[i].by]
      BY <1>8
    <3>1. rows[i].by \in Requests
      BY <1>2
    <3>2. pc[rows[i].by] = "delete"
      BY ONLY <1>8, <3>1, pc'[rows[i].by] = "delete"
    <3> QED
      BY <1>4, <3>2
  <2>2. CleanUpCatchesUp'
    <3> SUFFICES ASSUME NEW i \in 1 .. Len(rows), rows[i].by # Nobody,
                        CleanedUp(rows[i].by)', NEW k \in kept
                 PROVE  k + HistoryCount > i
      BY <1>8
    <3>1. rows[i].by \in Requests
      BY <1>2
    <3>2. CleanedUp(rows[i].by)
      BY <1>8, <3>1
    <3> QED
      BY <1>4, <3>2
  <2> QED
    BY <2>1, <2>2
<1>9. CASE UNCHANGED <<rows, kept, seen, pc, kind>>
  BY <1>8, <1>9 DEF CleanedUp
<1> QED
  BY <1>5, <1>6, <1>7, <1>8, <1>9, ElsewhereInHistory
     DEF Next, Step, vars, memory, RequestReset, Expire

-----------------------------------------------------------------------------
(***************************************************************************)
(* Setting the password                                                    *)
(***************************************************************************)
\* Every entry of past has a request or nobody behind it.
LEMMA PastTypes ==
    ASSUME TypeOK
    PROVE  /\ Len(past) \in Nat
           /\ \A i \in 1 .. Len(past) : past[i].by \in Requests \cup {Nobody}
<1>1. \A i \in 1 .. Len(past) : past[i] \in Entry
  BY ElementOfSeq DEF TypeOK
<1>2. Len(past) \in Nat
  BY LenProperties DEF TypeOK
<1> QED
  BY <1>1, <1>2 DEF Entry

\* Setting the password adds one entry.
LEMMA PastAfterPut ==
    ASSUME IInv, NEW r \in Requests, kind[r] # "none", Put(r)
    PROVE  /\ Len(past') = Len(past) + 1
           /\ \A i \in 1 .. Len(past) : past'[i] = past[i]
           /\ past'[Len(past) + 1].by = r /\ past'[Len(past) + 1].pw = new[r]
           /\ \A i \in 1 .. Len(past') : i \in 1 .. Len(past) \/ i = Len(past) + 1
<1>1. past \in Seq(Entry) /\ new[r] \in Passwords
  BY DEF IInv, TypeOK, Shape
<1>2. past' = Append(past, [pw |-> new[r], by |-> r])
  BY DEF Put
<1>3. /\ Len(past) \in Nat /\ Len(past') = Len(past) + 1
      /\ \A i \in 1 .. Len(past) : past'[i] = past[i]
      /\ past'[Len(past) + 1].by = r /\ past'[Len(past) + 1].pw = new[r]
  BY <1>1, <1>2, Appended
<1> QED
  BY <1>3

\* Commit and Update are the only steps that set the password.
LEMMA OtherSteps ==
    ASSUME Next
    PROVE  \/ \E r \in Requests : Commit(r)
           \/ \E r \in Requests : Update(r)
           \/ past' = past
  BY DEF Next, Step, vars, memory, ReadUser, Begin, Check, Reread, Lock, Screen, Write,
         Record, Prune, Delete, Timeout, Fail, RequestReset, Expire

\* What a request that has set its password still does: it remembers what it
\* set and how, and never comes back to set it again.
LEMMA SettersMoveOn ==
    ASSUME IInv, Next, NEW q \in Requests,
           pc[q] \in Over \/ (pc[q] \in {"record", "prune", "delete"} /\ kind[q] # "self")
    PROVE  /\ kind'[q] = kind[q] /\ new'[q] = new[q]
           /\ via'[q] = via[q] /\ since'[q] = since[q]
           /\ \/ pc'[q] \in Over
              \/ pc'[q] \in {"record", "prune", "delete"} /\ kind'[q] # "self"
<1> USE DEF IInv, TypeOK, Shape, Goto, Over, InTransaction, memory
<1>1. ASSUME NEW r \in Requests, NEW k \in {"change", "self"},
             NEW given \in Passwords, NEW p \in Passwords, ReadUser(r, k, given, p)
      PROVE  r # q
  BY <1>1 DEF ReadUser
<1>2. ASSUME NEW r \in Requests, NEW t \in Tokens, NEW p \in Passwords, Begin(r, t, p)
      PROVE  r # q
  BY <1>2 DEF Begin
<1>3. ASSUME NEW r \in Requests,
             Check(r) \/ Reread(r) \/ Update(r) \/ Lock(r) \/ Screen(r) \/ Write(r) \/ Commit(r)
      PROVE  r # q /\ pc'[q] = pc[q] /\ kind' = kind /\ new' = new /\ via' = via
             /\ since'[q] = since[q]
  BY <1>3 DEF Check, Reread, Update, Lock, Screen, Write, Commit
<1>4. ASSUME NEW r \in Requests, Record(r) \/ Prune(r) \/ Delete(r)
      PROVE  /\ UNCHANGED <<kind, new, via, since>>
             /\ \/ pc'[q] \in Over
                \/ pc'[q] \in {"record", "prune", "delete"} /\ kind'[q] # "self"
  BY <1>4 DEF Record, Prune, Delete, Leave
<1>5. ASSUME NEW r \in Requests, Timeout(r) \/ Fail(r)
      PROVE  UNCHANGED <<kind, new, via, since>> /\ (pc'[q] = pc[q] \/ pc'[q] = "failed")
  BY <1>5 DEF Timeout, Fail
<1>6. ASSUME NEW t \in Tokens, RequestReset(t) \/ Expire(t)
      PROVE  UNCHANGED <<kind, new, via, since, pc>>
  BY <1>6 DEF RequestReset, Expire
<1>7. ASSUME NEW r \in Requests, NEW k \in {"change", "self"},
             NEW given \in Passwords, NEW p \in Passwords, ReadUser(r, k, given, p)
      PROVE  /\ pc'[q] = pc[q] /\ kind'[q] = kind[q] /\ new'[q] = new[q]
             /\ via'[q] = via[q] /\ since'[q] = since[q]
  BY <1>1, <1>7 DEF ReadUser
<1>8. ASSUME NEW r \in Requests, NEW t \in Tokens, NEW p \in Passwords, Begin(r, t, p)
      PROVE  /\ pc'[q] = pc[q] /\ kind'[q] = kind[q] /\ new'[q] = new[q]
             /\ via'[q] = via[q] /\ since'[q] = since[q]
  BY <1>2, <1>8 DEF Begin
<1> QED
  BY <1>3, <1>4, <1>5, <1>6, <1>7, <1>8 DEF Next, Step

LEMMA StepSetsOnce == IInv /\ [Next]_vars => SetsOnce'
<1> SUFFICES ASSUME IInv, [Next]_vars PROVE SetsOnce'
  OBVIOUS
<1>1. Len(past) \in Nat /\ \A i \in 1 .. Len(past) : past[i].by \in Requests \cup {Nobody}
  BY PastTypes DEF IInv
<1>2. pc \in [Requests -> Steps]
  BY DEF IInv, TypeOK
<1>3. SetsOnce
  BY DEF IInv
<1>4. ASSUME NEW i \in 1 .. Len(past), Next, past'[i] = past[i], past[i].by # Nobody
      PROVE  \/ pc'[past[i].by] \in Over
             \/ pc'[past[i].by] \in {"record", "prune", "delete"} /\ kind'[past[i].by] # "self"
  BY <1>1, <1>3, <1>4, SettersMoveOn DEF SetsOnce
<1>5. ASSUME Next, NEW r \in Requests, Commit(r) \/ Update(r) PROVE SetsOnce'
  <2>1. kind[r] # "none" /\ Put(r)
    BY <1>5 DEF Commit, Update, IInv, Shape, InTransaction
  <2>2. pc'[r] \in Over \/ (pc'[r] = "record" /\ kind'[r] # "self")
    BY <1>2, <1>5 DEF Commit, Update, Goto, Over, memory, IInv, Shape, InTransaction
  <2> QED
    BY <1>1, <1>4, <1>5, <2>1, <2>2, PastAfterPut DEF SetsOnce
<1>6. ASSUME Next, past' = past PROVE SetsOnce'
  BY <1>4, <1>6 DEF SetsOnce
<1>7. CASE UNCHANGED vars
  BY <1>3, <1>7 DEF SetsOnce, vars, memory
<1> QED
  BY <1>5, <1>6, <1>7, OtherSteps

\* The row lock is passed from one transaction to the next.
LEMMA StepRowLock == IInv /\ [Next]_vars => RowLock'
<1> SUFFICES ASSUME IInv, [Next]_vars PROVE RowLock'
  OBVIOUS
<1> USE DEF IInv, TypeOK, Shape, RowLock, Goto, InTransaction, HasTokenRow, memory
<1>1. ASSUME NEW r \in Requests, NEW k \in {"change", "self"},
             NEW given \in Passwords, NEW p \in Passwords, ReadUser(r, k, given, p)
      PROVE  RowLock'
  BY <1>1 DEF ReadUser
<1>2. ASSUME NEW r \in Requests, NEW t \in Tokens, NEW p \in Passwords, Begin(r, t, p)
      PROVE  RowLock'
  BY <1>2 DEF Begin
<1>3. ASSUME NEW r \in Requests, Check(r) PROVE RowLock'
  BY <1>3 DEF Check
<1>4. ASSUME NEW r \in Requests, Reread(r) PROVE RowLock'
  BY <1>4 DEF Reread
<1>5. ASSUME NEW r \in Requests, Update(r) PROVE RowLock'
  BY <1>5 DEF Update
<1>6. ASSUME NEW r \in Requests, Lock(r) PROVE RowLock'
  BY <1>6 DEF Lock
<1>7. ASSUME NEW r \in Requests, Screen(r) PROVE RowLock'
  BY <1>7 DEF Screen
<1>8. ASSUME NEW r \in Requests, Write(r) PROVE RowLock'
  BY <1>8 DEF Write
<1>9. ASSUME NEW r \in Requests, Commit(r) PROVE RowLock'
  BY <1>9 DEF Commit
<1>10. ASSUME NEW r \in Requests, Record(r) PROVE RowLock'
  BY <1>10 DEF Record
<1>11. ASSUME NEW r \in Requests, Prune(r) PROVE RowLock'
  BY <1>11 DEF Prune, Leave
<1>12. ASSUME NEW r \in Requests, Delete(r) PROVE RowLock'
  BY <1>12 DEF Delete, Leave
<1>13. ASSUME NEW r \in Requests, Timeout(r) \/ Fail(r) PROVE RowLock'
  BY <1>13 DEF Timeout, Fail
<1>14. ASSUME NEW t \in Tokens, RequestReset(t) \/ Expire(t) PROVE RowLock'
  <2>1. /\ pc' = pc /\ via' = via
        /\ \A u \in Tokens :
              token[u] \in {"open", "expired"} => token'[u] \in {"open", "expired"}
    BY <1>14 DEF RequestReset, Expire
  <2>2. \A r \in Requests : pc[r] \in HasTokenRow => via[r] \in Tokens
    BY DEF IInv, Shape, InTransaction, HasTokenRow
  <2> QED
    BY <2>1, <2>2
<1>15. CASE UNCHANGED vars
  BY <1>15 DEF vars
<1> QED
  BY <1>1, <1>2, <1>3, <1>4, <1>5, <1>6, <1>7, <1>8, <1>9, <1>10, <1>11, <1>12, <1>13, <1>14, <1>15 DEF Next, Step

\* Only a commit spends a token.
LEMMA StepSpentOnce == IInv /\ [Next]_vars => ResetIsSpentOnce'
<1> SUFFICES ASSUME IInv, [Next]_vars PROVE ResetIsSpentOnce'
  OBVIOUS
<1> USE NullAssumption DEF ResetIsSpentOnce, SetWith
<1>1. Len(past) \in Nat /\ \A i \in 1 .. Len(past) : past[i].by \in Requests \cup {Nobody}
  BY PastTypes DEF IInv
<1>2. ResetIsSpentOnce
  BY DEF IInv
<1>3. token \in [Tokens -> {"none", "open", "used", "expired"}]
  BY DEF IInv, TypeOK
<1>4. ASSUME Next, NEW i \in 1 .. Len(past), past[i].by # Nobody
      PROVE  via'[past[i].by] = via[past[i].by]
  BY <1>1, <1>4, SettersMoveOn DEF IInv, SetsOnce
<1>5. ASSUME Next, NEW r \in Requests, Commit(r) PROVE ResetIsSpentOnce'
  <2>1. kind[r] = "reset" /\ via[r] \in Tokens /\ Put(r) /\ via' = via
    BY <1>5 DEF Commit, memory, IInv, Shape, InTransaction
  <2>2. token[via[r]] # "used"
    BY <1>5 DEF Commit, IInv, RowLock, HasTokenRow
  <2>3. \A t \in Tokens : token'[t] = IF t = via[r] THEN "used" ELSE token[t]
    BY <1>3, <1>5 DEF Commit
  <2>4. PICK n \in Nat : n = Len(past) + 1
    BY <1>1
  <2>5. /\ Len(past') = n /\ past'[n].by = r
        /\ \A i \in 1 .. Len(past) : past'[i] = past[i]
        /\ \A i \in 1 .. n : i \in 1 .. Len(past) \/ i = n
        /\ n \in 1 .. n /\ 1 .. Len(past) \subseteq 1 .. n
    BY <1>1, <2>1, <2>4, PastAfterPut
  <2>6. \A i \in 1 .. Len(past), t \in Tokens : SetWith(i, t)' <=> SetWith(i, t)
    BY <2>1, <2>5
  <2>7. \A t \in Tokens : SetWith(n, t)' <=> t = via[r]
    BY <2>1, <2>5
  <2> HIDE DEF SetWith
  <2>8. ASSUME NEW t \in Tokens
        PROVE  /\ \A i, j \in 1 .. n : SetWith(i, t)' /\ SetWith(j, t)' => i = j
               /\ token'[t] = "used" <=> \E i \in 1 .. n : SetWith(i, t)'
    BY <1>2, <2>2, <2>3, <2>5, <2>6, <2>7
  <2> QED
    BY <2>5, <2>8
<1>6. ASSUME Next, NEW r \in Requests, Update(r) PROVE ResetIsSpentOnce'
  <2>1. kind[r] # "none" /\ via[r] = NoToken /\ Put(r) /\ via' = via /\ token' = token
    BY <1>6 DEF Update, memory, IInv, Shape
  <2>2. /\ Len(past') = Len(past) + 1
        /\ \A i \in 1 .. Len(past) : past'[i] = past[i]
        /\ past'[Len(past) + 1].by = r
        /\ \A i \in 1 .. Len(past') : i \in 1 .. Len(past) \/ i = Len(past) + 1
    BY <2>1, PastAfterPut
  <2> QED
    BY <1>1, <1>2, <2>1, <2>2
<1>7. ASSUME Next, past' = past, \A r \in Requests : ~Commit(r) PROVE ResetIsSpentOnce'
  <2>1. \A t \in Tokens : token'[t] = "used" <=> token[t] = "used"
    BY <1>3, <1>7
       DEF Next, Step, memory, ReadUser, Begin, Check, Reread, Update, Lock, Screen, Write,
           Record, Prune, Delete, Timeout, Fail, RequestReset, Expire
  <2>2. \A i \in 1 .. Len(past), t \in Tokens : SetWith(i, t)' <=> SetWith(i, t)
    BY <1>4, <1>7
  <2> QED
    BY <1>2, <1>7, <2>1, <2>2
<1>8. CASE UNCHANGED vars
  BY <1>2, <1>8 DEF vars, memory
<1> QED
  BY <1>5, <1>6, <1>7, <1>8, OtherSteps

\* Rows are never changed once they are created.
LEMMA RowsStay ==
    ASSUME IInv, Next
    PROVE  /\ Len(rows) \in Nat /\ Len(rows') >= Len(rows)
           /\ \A i \in 1 .. Len(rows) : rows'[i] = rows[i]
<1>1. Len(rows) \in Nat
  BY LenProperties DEF IInv, TypeOK
<1>2. (\E r \in Requests : Record(r)) \/ rows' = rows
  BY DEF Next, Step, ReadUser, Begin, Check, Reread, Update, Lock, Screen, Write,
         Commit, Prune, Delete, Timeout, Fail, RequestReset, Expire
<1> QED
  BY <1>1, <1>2, RowsAfterRecord

\* What the check of a new password establishes.
LEMMA FreshPassword ==
    ASSUME IInv, NEW p, ~Reused(p), NEW i \in 1 .. Len(rows), i + HistoryCount > Len(rows)
    PROVE  rows[i].pw # p
<1>1. i \in kept
  BY DEF IInv, NewestAreKept
<1>2. i \in Newest(HistoryCount)
  BY <1>1, NewestRows DEF IInv
<1> QED
  BY <1>2 DEF Reused, Latest

\* A password that was checked stays so until it is set.
LEMMA StepChecked == IInv /\ [Next]_vars => Checked'
<1> SUFFICES ASSUME IInv, [Next]_vars PROVE Checked'
  OBVIOUS
<1> DEFINE Ahead(q) == pc[q] \in {"write", "commit"} \/ (pc[q] = "update" /\ kind[q] = "change")
<1>1. \A q \in Requests : since[q] \in 0 .. Len(rows)
  BY DEF IInv, TypeOK
<1>2. ASSUME Next, NEW q \in Requests,
             Ahead(q), new'[q] = new[q], since'[q] = since[q]
      PROVE  \A i \in 1 .. since'[q] : i + HistoryCount > since'[q] => rows'[i].pw # new'[q]
  <2>1. \A i \in 1 .. since[q] : i + HistoryCount > since[q] => rows[i].pw # new[q]
    BY <1>2 DEF IInv, Checked
  <2>2. \A i \in 1 .. since[q] : rows'[i] = rows[i]
    BY <1>1, <1>2, RowsStay
  <2> QED
    BY <1>2, <2>1, <2>2
<1>3. ASSUME Next, NEW q \in Requests, Check(q) \/ Screen(q), Ahead(q)'
      PROVE  \A i \in 1 .. since'[q] : i + HistoryCount > since'[q] => rows'[i].pw # new'[q]
  <2>1. since'[q] = Len(rows) /\ rows' = rows /\ new' = new
    BY <1>3 DEF Check, Screen, IInv, TypeOK
  <2>2. ~Reused(new[q])
    BY <1>3 DEF Check, Screen, Goto, IInv, TypeOK
  <2> QED
    BY <2>1, <2>2, FreshPassword
<1>4. ASSUME Next, NEW q \in Requests, Ahead(q)', ~Check(q), ~Screen(q)
      PROVE  Ahead(q) /\ new'[q] = new[q] /\ since'[q] = since[q]
  <2> USE DEF IInv, TypeOK, Shape, Goto, memory
  <2>1. ASSUME NEW r \in Requests, NEW k \in {"change", "self"},
               NEW given \in Passwords, NEW p \in Passwords, ReadUser(r, k, given, p)
        PROVE  Ahead(q) /\ new'[q] = new[q] /\ since'[q] = since[q]
    BY <1>4, <2>1 DEF ReadUser
  <2>2. ASSUME NEW r \in Requests, NEW t \in Tokens, NEW p \in Passwords, Begin(r, t, p)
        PROVE  Ahead(q) /\ new'[q] = new[q] /\ since'[q] = since[q]
    BY <1>4, <2>2 DEF Begin
  <2>3. ASSUME NEW r \in Requests, Check(r) \/ Screen(r)
        PROVE  Ahead(q) /\ new'[q] = new[q] /\ since'[q] = since[q]
    BY <1>4, <2>3 DEF Check, Screen
  <2>4. ASSUME NEW r \in Requests, Reread(r) \/ Update(r) \/ Lock(r) \/ Write(r) \/ Commit(r)
        PROVE  Ahead(q) /\ new'[q] = new[q] /\ since'[q] = since[q]
    BY <1>4, <2>4 DEF Reread, Update, Lock, Write, Commit
  <2>5. ASSUME NEW r \in Requests, Record(r) \/ Prune(r) \/ Delete(r)
        PROVE  Ahead(q) /\ new'[q] = new[q] /\ since'[q] = since[q]
    BY <1>4, <2>5 DEF Record, Prune, Delete, Leave
  <2>6. ASSUME NEW r \in Requests, Timeout(r) \/ Fail(r)
        PROVE  Ahead(q) /\ new'[q] = new[q] /\ since'[q] = since[q]
    BY <1>4, <2>6 DEF Timeout, Fail
  <2>7. ASSUME NEW t \in Tokens, RequestReset(t) \/ Expire(t)
        PROVE  Ahead(q) /\ new'[q] = new[q] /\ since'[q] = since[q]
    BY <1>4, <2>7 DEF RequestReset, Expire
  <2> QED
    BY <1>4, <2>1, <2>2, <2>3, <2>4, <2>5, <2>6, <2>7 DEF Next, Step
<1>5. CASE Next
  BY <1>2, <1>3, <1>4, <1>5 DEF Checked
<1>6. CASE UNCHANGED vars
  BY <1>6 DEF IInv, Checked, vars, memory
<1> QED
  BY <1>5, <1>6

\* A password that is set has been checked, and what it was checked against
\* stays on record.
LEMMA StepReuse == IInv /\ [Next]_vars => ReuseNeedsRace'
<1> SUFFICES ASSUME IInv, [Next]_vars PROVE ReuseNeedsRace'
  OBVIOUS
<1> DEFINE Fresh(j) ==
             LET q == past[j].by IN
             (q # Nobody /\ kind[q] \in {"change", "reset"}) =>
                 \A i \in 1 .. since[q] :
                     i + HistoryCount > since[q] => rows[i].pw # past[j].pw
<1>1. Len(past) \in Nat /\ \A j \in 1 .. Len(past) : past[j].by \in Requests \cup {Nobody}
  BY PastTypes DEF IInv
<1>2. \A j \in 1 .. Len(past) : Fresh(j)
  BY DEF IInv, ReuseNeedsRace
<1>3. \A q \in Requests : since[q] \in 0 .. Len(rows)
  BY DEF IInv, TypeOK
<1>4. ASSUME Next, NEW j \in 1 .. Len(past), past'[j] = past[j] PROVE Fresh(j)'
  <2> SUFFICES ASSUME past[j].by # Nobody, kind'[past[j].by] \in {"change", "reset"}
               PROVE  \A i \in 1 .. since'[past[j].by] :
                         i + HistoryCount > since'[past[j].by] => rows'[i].pw # past[j].pw
    BY <1>4
  <2>1. past[j].by \in Requests
    BY <1>1
  <2>2. kind'[past[j].by] = kind[past[j].by] /\ since'[past[j].by] = since[past[j].by]
    BY <1>4, <2>1, SettersMoveOn DEF IInv, SetsOnce
  <2>3. \A i \in 1 .. since[past[j].by] : rows'[i] = rows[i]
    BY <1>3, <1>4, <2>1, RowsStay
  <2> QED
    BY <1>2, <2>2, <2>3
<1>5. ASSUME Next, NEW r \in Requests, Commit(r) \/ Update(r) PROVE ReuseNeedsRace'
  <2>1. kind[r] # "none" /\ Put(r) /\ UNCHANGED <<rows, kind, since, new>>
    BY <1>5 DEF Commit, Update, memory, IInv, Shape, InTransaction
  <2>2. kind[r] \in {"change", "reset"} =>
            \A i \in 1 .. since[r] : i + HistoryCount > since[r] => rows[i].pw # new[r]
    BY <1>5 DEF Commit, Update, IInv, Checked, Shape
  <2>3. PICK n \in Nat : n = Len(past) + 1
    BY <1>1
  <2>4. /\ Len(past') = n /\ past'[n].by = r /\ past'[n].pw = new[r]
        /\ \A j \in 1 .. Len(past) : past'[j] = past[j]
        /\ \A j \in 1 .. n : j \in 1 .. Len(past) \/ j = n
    BY <1>1, <2>1, <2>3, PastAfterPut
  <2>5. Fresh(n)'
    BY <2>1, <2>2, <2>4
  <2>6. \A j \in 1 .. Len(past) : Fresh(j)'
    BY <1>4, <1>5, <2>4
  <2> HIDE DEF Fresh
  <2>7. \A j \in 1 .. n : Fresh(j)'
    BY <2>4, <2>5, <2>6
  <2> QED
    BY <2>4, <2>7 DEF ReuseNeedsRace, Fresh
<1>6. ASSUME Next, past' = past PROVE ReuseNeedsRace'
  BY <1>4, <1>6 DEF ReuseNeedsRace
<1>7. CASE UNCHANGED vars
  BY <1>2, <1>7 DEF ReuseNeedsRace, vars, memory
<1> QED
  BY <1>5, <1>6, <1>7, OtherSteps

-----------------------------------------------------------------------------
LEMMA InitIInv == Init => IInv
<1> SUFFICES ASSUME Init PROVE IInv
  OBVIOUS
<1> USE NullAssumption, LimitsAssumption
<1>1. PICK p \in Passwords :
          /\ past = <<[pw |-> p, by |-> Nobody]>>
          /\ rows \in {<<>>, <<[pw |-> p, by |-> Nobody]>>}
  BY DEF Init
<1>2. [pw |-> p, by |-> Nobody] \in Entry
  BY DEF Entry
<1>3. /\ past \in Seq(Entry) /\ past # <<>> /\ Len(past) = 1 /\ past[1].by = Nobody
      /\ rows \in Seq(Entry)
      /\ Len(rows) \in 0 .. 1 /\ \A i \in 1 .. Len(rows) : rows[i].by = Nobody
  <2> DEFINE e == [pw |-> p, by |-> Nobody]
  <2>1. e \in Entry /\ e.by = Nobody
    BY <1>2
  <2>2. past = <<e>> /\ (rows = <<>> \/ rows = <<e>>)
    BY <1>1
  <2> HIDE DEF e
  <2>3. past \in Seq(Entry) /\ past # <<>> /\ Len(past) = 1 /\ past[1].by = Nobody
    BY <2>1, <2>2
  <2>4. CASE rows = <<>>
    BY <2>3, <2>4
  <2>5. CASE rows = <<e>>
    BY <2>1, <2>3, <2>5
  <2> QED
    BY <2>2, <2>4, <2>5
<1>4. TypeOK
  BY <1>3 DEF Init, TypeOK, Steps
<1> QED
  BY <1>3, <1>4
     DEF Init, IInv, Shape, NewestAreKept, SeenIsOld, SeenIsEnough, CleanUpCatchesUp,
         SetsOnce, RowLock, ResetIsSpentOnce, SetWith, Checked, ReuseNeedsRace,
         InTransaction, HasTokenRow

\* The inductive invariant holds in every reachable state.
THEOREM InductiveInvariant == Spec => []IInv
<1>1. IInv /\ [Next]_vars => IInv'
  BY StepTypes, StepShape, StepKept, StepCleanUp, StepSetsOnce, StepRowLock,
     StepSpentOnce, StepChecked, StepReuse DEF IInv
<1> QED
  BY <1>1, InitIInv, PTL DEF Spec

\* Every variable has its type; no row of the history is without a hash.
THEOREM TypeCorrectness == Spec => []TypeOK
<1>1. IInv => TypeOK
  BY DEF IInv
<1> QED
  BY <1>1, InductiveInvariant, PTL

\* No interleaving of clean-ups deletes one of the newest rows.
THEOREM HistoryIsComplete == Spec => []NewestAreKept
<1>1. IInv => NewestAreKept
  BY DEF IInv
<1> QED
  BY <1>1, InductiveInvariant, PTL

\* A request that finishes its clean-up leaves nothing surplus behind.
THEOREM HistoryIsBounded == Spec => []CleanUpCatchesUp
<1>1. IInv => CleanUpCatchesUp
  BY DEF IInv
<1> QED
  BY <1>1, InductiveInvariant, PTL

\* A reset token changes the password once, if and only if it is used.
THEOREM ResetTokenIsSpentOnce == Spec => []ResetIsSpentOnce
<1>1. IInv => ResetIsSpentOnce
  BY DEF IInv
<1> QED
  BY <1>1, InductiveInvariant, PTL

\* Where reuse is checked, it takes a row created after the check.
THEOREM ReuseIsARace == Spec => []ReuseNeedsRace
<1>1. IInv => ReuseNeedsRace
  BY DEF IInv
<1> QED
  BY <1>1, InductiveInvariant, PTL

-----------------------------------------------------------------------------
(***************************************************************************)
(* How many rows the table has.                                            *)
(***************************************************************************)
\* Requests whose row is there and that have not finished their clean-up.
HasRow(r) == \E i \in 1 .. Len(rows) : rows[i].by = r
Behind    == {r \in Requests : HasRow(r) /\ ~CleanedUp(r)}

\* The table of an account has HISTORY_COUNT rows, and one more at most for
\* each request that was cut off or is still at work after its row.
HistoryFits ==
    /\ IsFiniteSet(Behind)
    /\ Cardinality(kept) <= HistoryCount + Cardinality(Behind)

\* A request comes to savePasswordHistory once.
PastRecord(r) ==
    pc[r] \in {"prune", "delete"} \cup Over \/ (pc[r] = "update" /\ kind[r] = "self")

OneRowEach ==
    \A i \in 1 .. Len(rows) :
        /\ rows[i].by = Nobody => i = 1
        /\ rows[i].by # Nobody =>
              /\ PastRecord(rows[i].by)
              /\ \A j \in 1 .. Len(rows) : rows[j].by = rows[i].by => i = j

LEMMA RowTypes ==
    ASSUME TypeOK
    PROVE  /\ Len(rows) \in Nat
           /\ \A i \in 1 .. Len(rows) : rows[i].by \in Requests \cup {Nobody}
<1>1. \A i \in 1 .. Len(rows) : rows[i] \in Entry
  BY ElementOfSeq DEF TypeOK
<1>2. Len(rows) \in Nat
  BY LenProperties DEF TypeOK
<1> QED
  BY <1>1, <1>2 DEF Entry

\* Nobody who has saved a row comes back to do so.
LEMMA RecordersMoveOn ==
    ASSUME IInv, Next, NEW q \in Requests, PastRecord(q)
    PROVE  PastRecord(q)' /\ ~Record(q)
<1> USE DEF IInv, TypeOK, Shape, PastRecord, Goto, Over, InTransaction, memory
<1>1. ~Record(q)
  BY DEF Record
<1>2. ASSUME NEW r \in Requests, NEW k \in {"change", "self"},
             NEW given \in Passwords, NEW p \in Passwords, ReadUser(r, k, given, p)
      PROVE  PastRecord(q)'
  BY <1>2 DEF ReadUser
<1>3. ASSUME NEW r \in Requests, NEW t \in Tokens, NEW p \in Passwords, Begin(r, t, p)
      PROVE  PastRecord(q)'
  BY <1>3 DEF Begin
<1>4. ASSUME NEW r \in Requests,
             Check(r) \/ Reread(r) \/ Lock(r) \/ Screen(r) \/ Write(r) \/ Commit(r)
      PROVE  PastRecord(q)'
  BY <1>4 DEF Check, Reread, Lock, Screen, Write, Commit
<1>5. ASSUME NEW r \in Requests, Update(r)
      PROVE  PastRecord(q)'
  BY <1>5 DEF Update
<1>6. ASSUME NEW r \in Requests, Record(r) \/ Prune(r) \/ Delete(r)
      PROVE  PastRecord(q)'
  BY <1>6 DEF Record, Prune, Delete, Leave
<1>7. ASSUME NEW r \in Requests, Timeout(r) \/ Fail(r)
      PROVE  PastRecord(q)'
  BY <1>7 DEF Timeout, Fail
<1>8. ASSUME NEW t \in Tokens, RequestReset(t) \/ Expire(t)
      PROVE  PastRecord(q)'
  BY <1>8 DEF RequestReset, Expire
<1> QED
  BY <1>1, <1>2, <1>3, <1>4, <1>5, <1>6, <1>7, <1>8 DEF Next, Step

LEMMA StepOneRowEach == IInv /\ OneRowEach /\ [Next]_vars => OneRowEach'
<1> SUFFICES ASSUME IInv, OneRowEach, [Next]_vars PROVE OneRowEach'
  OBVIOUS
<1>1. /\ Len(rows) \in Nat
      /\ \A i \in 1 .. Len(rows) : rows[i].by \in Requests \cup {Nobody}
  BY RowTypes DEF IInv
<1>2. ASSUME NEW r \in Requests, Record(r) PROVE OneRowEach'
  <2>1. /\ Len(rows') = Len(rows) + 1 /\ rows'[Len(rows) + 1].by = r
        /\ \A i \in 1 .. Len(rows) : rows'[i] = rows[i]
    BY <1>2, RowsAfterRecord
  <2>2. \A q \in Requests : PastRecord(q) => PastRecord(q)' /\ q # r
    BY <1>2, RecordersMoveOn DEF Next, Step
  <2>3. PastRecord(r)'
    BY <1>2 DEF Record, Goto, PastRecord, IInv, TypeOK
  <2>4. r # Nobody
    BY NullAssumption
  <2>5. \A i \in 1 .. Len(rows') : i \in 1 .. Len(rows) \/ i = Len(rows) + 1
    BY <1>1, <2>1
  <2>6. \A i \in 1 .. Len(rows) : rows'[i].by # r
    BY <1>1, <2>1, <2>2, <2>4 DEF OneRowEach
  <2>7. ASSUME NEW i \in 1 .. Len(rows), rows[i].by # Nobody
        PROVE  /\ PastRecord(rows[i].by)'
               /\ \A j \in 1 .. Len(rows') : rows'[j].by = rows'[i].by => i = j
    <3>1. rows'[i].by = rows[i].by /\ rows[i].by \in Requests /\ PastRecord(rows[i].by)
      BY <1>1, <2>1, <2>7 DEF OneRowEach
    <3>2. PastRecord(rows[i].by)'
      BY <2>2, <3>1 DEF PastRecord
    <3>3. \A j \in 1 .. Len(rows) : rows[j].by = rows[i].by => i = j
      BY <2>7 DEF OneRowEach
    <3> QED
      BY <2>1, <2>5, <2>6, <2>7, <3>1, <3>2, <3>3
  <2>8. \A i \in 1 .. Len(rows) : rows[i].by = Nobody => i = 1
    BY DEF OneRowEach
  <2>9. PastRecord(rows[Len(rows)].by)'
    BY <2>1, <2>3 DEF PastRecord
  <2> HIDE DEF PastRecord
  <2> QED
    BY <1>1, <2>1, <2>4, <2>5, <2>6, <2>7, <2>8, <2>9 DEF OneRowEach
<1>3. ASSUME Next, rows' = rows PROVE OneRowEach'
  BY <1>1, <1>3, RecordersMoveOn DEF OneRowEach
<1>4. CASE UNCHANGED vars
  BY <1>4 DEF OneRowEach, PastRecord, vars, memory
<1> QED
  BY <1>2, <1>3, <1>4 DEF Next, Step, ReadUser, Begin, Check, Reread, Update, Lock, Screen,
     Write, Commit, Prune, Delete, Timeout, Fail, RequestReset, Expire

LEMMA OneRowHolds == Spec => []OneRowEach
<1>1. Init => OneRowEach
  <2> SUFFICES ASSUME Init PROVE OneRowEach
    OBVIOUS
  <2>1. PICK p \in Passwords : rows \in {<<>>, <<[pw |-> p, by |-> Nobody]>>}
    BY DEF Init
  <2>2. CASE rows = <<>>
    BY <2>2 DEF OneRowEach
  <2>3. CASE rows = <<[pw |-> p, by |-> Nobody]>>
    <3>1. Len(rows) = 1 /\ rows[1].by = Nobody
      BY <2>3
    <3> QED
      BY <3>1 DEF OneRowEach
  <2> QED
    BY <2>1, <2>2, <2>3
<1> QED
  BY <1>1, StepOneRowEach, InductiveInvariant, PTL DEF Spec

\* The least of a set of numbers.
LessThan == {p \in Nat \X Nat : p[1] < p[2]}

LEMMA Least ==
    ASSUME NEW S \in SUBSET Nat, S # {}
    PROVE  \E x \in S : \A y \in S : x <= y
<1>1. IsWellFoundedOn(LessThan, Nat)
  BY NatLessThanWellFounded DEF OpToRel, LessThan
<1>2. PICK x \in S : \A y \in S : ~ (<<y, x>> \in LessThan)
  BY <1>1, WFMin
<1>3. ASSUME NEW y \in S PROVE x <= y
  <2>1. <<y, x>> \in LessThan <=> y < x
    BY DEF LessThan
  <2> QED
    BY <1>2, <2>1
<1> QED
  BY <1>3

\* Numbers that are close together are few.
LEMMA CloseMeansFew ==
    ASSUME NEW S \in SUBSET Nat, NEW n \in Nat,
           \A x, y \in S : x + n > y
    PROVE  IsFiniteSet(S) /\ Cardinality(S) <= n
<1>1. CASE S = {}
  BY <1>1, FS_EmptySet
<1>2. CASE S # {}
  <2>1. PICK x \in S : \A y \in S : x <= y
    BY <1>2, Least
  <2>2. S \subseteq x .. (x + n - 1)
    BY <2>1
  <2>3. /\ IsFiniteSet(x .. (x + n - 1))
        /\ Cardinality(x .. (x + n - 1)) = IF x > x + n - 1 THEN 0 ELSE (x + n - 1) - x + 1
    BY FS_Interval
  <2>4. Cardinality(x .. (x + n - 1)) = n
    BY <2>1, <2>3
  <2> QED
    BY <2>2, <2>3, <2>4, FS_Subset
<1> QED
  BY <1>1, <1>2

\* The rows of the requests that are behind are as many as these.
LEMMA RowsOfBehind ==
    ASSUME TypeOK, OneRowEach, NEW G, G = {k \in 1 .. Len(rows) : rows[k].by \in Behind}
    PROVE  /\ IsFiniteSet(G) /\ IsFiniteSet(Behind)
           /\ Cardinality(G) = Cardinality(Behind)
<1> DEFINE f == [k \in G |-> rows[k].by]
<1>1. IsFiniteSet(G)
  <2>1. Len(rows) \in Nat /\ G \in SUBSET (1 .. Len(rows))
    BY RowTypes
  <2>2. IsFiniteSet(1 .. Len(rows))
    BY <2>1, FS_Interval
  <2> QED
    BY <2>1, <2>2, FS_Subset
<1>2. \A r \in Behind : \E k \in G : f[k] = r
  BY DEF Behind, HasRow
<1>3. f \in [G -> Behind]
  OBVIOUS
<1>4. f \in Surjection(G, Behind)
  BY <1>2, <1>3 DEF Surjection
<1>5. \A k, m \in G : f[k] = f[m] => k = m
  BY NullAssumption DEF OneRowEach, Behind
<1>6. f \in Injection(G, Behind)
  BY <1>3, <1>5 DEF Injection, IsInjective
<1> QED
  BY <1>1, <1>4, <1>6, FS_Surjection

LEMMA RowsFit == IInv /\ OneRowEach => HistoryFits
<1> SUFFICES ASSUME IInv, OneRowEach PROVE HistoryFits
  OBVIOUS
<1> DEFINE G == {k \in 1 .. Len(rows) : rows[k].by \in Behind}
           S == kept \ G
<1>1. /\ Len(rows) \in Nat /\ kept \subseteq 1 .. Len(rows)
      /\ \A i \in 1 .. Len(rows) : rows[i].by \in Requests \cup {Nobody}
  BY RowTypes DEF IInv, TypeOK
<1>2. /\ IsFiniteSet(G) /\ IsFiniteSet(Behind)
      /\ Cardinality(G) = Cardinality(Behind)
  BY RowsOfBehind DEF IInv
<1>3. ASSUME NEW k \in S, NEW i \in S PROVE k + HistoryCount > i
  <2>1. k \in kept /\ k \in Nat /\ k >= 1 /\ i \in 1 .. Len(rows)
    BY <1>1
  <2>2. CASE rows[i].by = Nobody
    BY <2>1, <2>2, LimitsAssumption DEF OneRowEach
  <2>3. CASE rows[i].by # Nobody
    <3>1. CleanedUp(rows[i].by)
      BY <1>1, <2>1, <2>3 DEF Behind, HasRow
    <3> QED
      BY <2>1, <2>3, <3>1 DEF IInv, CleanUpCatchesUp
  <2> QED
    BY <2>2, <2>3
<1>4. IsFiniteSet(S) /\ Cardinality(S) <= HistoryCount
  <2>1. \A k \in kept : k \in Nat
    BY <1>1
  <2>2. S \in SUBSET Nat
    BY <2>1
  <2> HIDE DEF S
  <2> QED
    BY <1>3, <2>2, CloseMeansFew, LimitsAssumption
<1> HIDE DEF G
<1>5. /\ IsFiniteSet(S \cup G)
      /\ Cardinality(S \cup G) = Cardinality(S) + Cardinality(G) - Cardinality(S \cap G)
  BY <1>2, <1>4, FS_Union
<1>6. S \cap G = {} /\ Cardinality({}) = 0
  BY FS_EmptySet
<1>7. kept \subseteq S \cup G
  OBVIOUS
<1>8. Cardinality(kept) \in Nat /\ Cardinality(kept) <= Cardinality(S \cup G)
  BY <1>5, <1>7, FS_Subset, FS_CardinalityType
<1>9. Cardinality(S) \in Nat /\ Cardinality(G) \in Nat
  BY <1>2, <1>4, FS_CardinalityType
<1> QED
  BY <1>2, <1>4, <1>5, <1>6, <1>8, <1>9, LimitsAssumption DEF HistoryFits

\* The history of an account grows past HISTORY_COUNT by no more than the
\* requests that failed or are at work, with clean-ups that overlap.
THEOREM HistoryStaysSmall == Spec => []HistoryFits
  BY RowsFit, OneRowHolds, InductiveInvariant, PTL
=============================================================================
