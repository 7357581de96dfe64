-------------------------- MODULE TwoFactorProofs --------------------------
(***************************************************************************)
(* Proofs about TwoFactor, for any finite set of requests and any limits.  *)
(*                                                                         *)
(* The bound on wrong tries rests on TriesInv: while a row is pending, each *)
(* try at the limit or over it belongs to a request of its own that has    *)
(* yet to expire the row, and once it is not pending, only requests that   *)
(* have found it before are still to be counted.                           *)
(*                                                                         *)
(* The number of codes is counted in the same way: a request between its   *)
(* two statements has voided all, and counts as one (PendingFits).         *)
(***************************************************************************)
EXTENDS TwoFactor, FiniteSetTheorems, TLAPS

USE TwoFactorAssumption

CountingOn(o) == {r \in Requests : pc[r] = "count" /\ on[r] = o}
ExpiringOn(o) == {r \in Requests : pc[r] = "expire" /\ on[r] = o}

FreshInv ==
    \A o \in Otps : o > made => status[o] = "none" /\ attempts[o] = 0

HandlerInv ==
    \A r \in Requests :
        /\ pc[r] \in {"count", "expire", "mark", "switch"} => on[r] \in 1 .. made
        /\ pc[r] = "create" => seen[r] <= made /\ \A o \in Pending : o > seen[r]

TriesInv ==
    \A o \in Otps :
        <<o, "expire">> \notin cut =>
            /\ o \in Pending =>
                  attempts[o] < OtpMaxAttempts + Cardinality(ExpiringOn(o))
            /\ attempts[o] + Cardinality(CountingOn(o))
                  < OtpMaxAttempts + Cardinality(Requests)

IInv ==
    /\ TypeOK
    /\ FreshInv
    /\ HandlerInv
    /\ TriesInv
    /\ TwoCodesNeedOverlap
    /\ AcceptedCodeEnables

-----------------------------------------------------------------------------
(***************************************************************************)
(* Counting requests                                                       *)
(***************************************************************************)
LEMMA Parts ==
    ASSUME NEW A, NEW B, A \subseteq Requests, B \subseteq Requests, A \cap B = {}
    PROVE  /\ IsFiniteSet(A) /\ Cardinality(A) \in Nat
           /\ IsFiniteSet(B) /\ Cardinality(B) \in Nat
           /\ Cardinality(Requests) \in Nat
           /\ Cardinality(A) + Cardinality(B) <= Cardinality(Requests)
<1>1. IsFiniteSet(A) /\ IsFiniteSet(B) /\ IsFiniteSet(A \cup B)
  BY FS_Subset
<1>2. /\ Cardinality(A) \in Nat /\ Cardinality(B) \in Nat
      /\ Cardinality(Requests) \in Nat
  BY <1>1, FS_CardinalityType
<1>3. Cardinality(A \cup B) <= Cardinality(Requests)
  BY FS_Subset
<1>4. Cardinality(A \cup B) = Cardinality(A) + Cardinality(B)
  <2>1. Cardinality(A \cup B) = Cardinality(A) + Cardinality(B) - Cardinality(A \cap B)
    BY <1>1, FS_Union
  <2>2. Cardinality(A \cap B) = 0
    BY FS_EmptySet
  <2> QED
    BY <1>2, <2>1, <2>2
<1> QED
  BY <1>1, <1>2, <1>3, <1>4

LEMMA OneMore ==
    ASSUME NEW A, A \subseteq Requests, NEW r \in Requests, r \notin A
    PROVE  Cardinality(A \cup {r}) = Cardinality(A) + 1
  BY FS_Subset, FS_AddElement

LEMMA OneLess ==
    ASSUME NEW A, A \subseteq Requests, NEW r \in A
    PROVE  Cardinality(A \ {r}) = Cardinality(A) - 1
  BY FS_Subset, FS_RemoveElement

\* Only r moves.
Moves(r) ==
    \A q \in Requests \ {r} : pc'[q] = pc[q] /\ on'[q] = on[q]

LEMMA FinishTypes ==
    ASSUME TypeOK, NEW r \in Requests, Finish(r)
    PROVE  /\ pc' \in [Requests -> Steps] /\ on' \in [Requests -> 0 .. MaxRows]
           /\ seen' \in [Requests -> 0 .. MaxRows]
  BY DEF TypeOK, Finish, Steps

\* When nobody enters or leaves "count" or "expire", and no counter changes.
LEMMA NobodyMoves ==
    ASSUME TriesInv, attempts' = attempts, cut \subseteq cut',
           \A o \in Otps :
               CountingOn(o)' = CountingOn(o) /\ ExpiringOn(o)' = ExpiringOn(o),
           \A o \in Pending' : o \in Pending \/ attempts[o] = 0
    PROVE  TriesInv'
<1> SUFFICES ASSUME NEW o \in Otps, <<o, "expire">> \notin cut'
             PROVE  /\ o \in Pending' =>
                          attempts[o] < OtpMaxAttempts + Cardinality(ExpiringOn(o))
                    /\ attempts[o] + Cardinality(CountingOn(o))
                          < OtpMaxAttempts + Cardinality(Requests)
  BY DEF TriesInv
<1>1. Cardinality(ExpiringOn(o)) \in Nat
  <2>1. ExpiringOn(o) \subseteq Requests
    BY DEF ExpiringOn
  <2> QED
    BY <2>1, FS_Subset, FS_CardinalityType
<1> QED
  BY <1>1 DEF TriesInv

-----------------------------------------------------------------------------
(***************************************************************************)
(* The inductive invariant                                                 *)
(***************************************************************************)
LEMMA InitIInv == Init => IInv
<1> SUFFICES ASSUME Init PROVE IInv
  OBVIOUS
<1>1. TypeOK
  BY DEF Init, TypeOK, Steps
<1>2. Pending = {}
  BY DEF Init, Pending
<1>3. TriesInv
  <2> SUFFICES ASSUME NEW o \in Otps
               PROVE  attempts[o] + Cardinality(CountingOn(o))
                        < OtpMaxAttempts + Cardinality(Requests)
    BY <1>2 DEF TriesInv
  <2>1. CountingOn(o) \subseteq Requests
    BY DEF CountingOn
  <2> QED
    BY <2>1, Parts DEF Init
<1> QED
  BY <1>1, <1>2, <1>3 DEF Init, IInv, FreshInv, HandlerInv, TwoCodesNeedOverlap,
     AcceptedCodeEnables

LEMMA EnableKeepsIInv ==
    ASSUME IInv, NEW r \in Requests, Enable(r)
    PROVE  IInv'
<1> USE DEF IInv, Enable, Goto, rows, handlers, history
<1>1. TypeOK'
  BY DEF TypeOK, Steps, Otps
<1>2. FreshInv'
  BY DEF TypeOK, FreshInv, HandlerInv, Otps
<1>3. HandlerInv'
  BY DEF TypeOK, HandlerInv, Pending, Otps
<1>4. TriesInv'
  <2>1. \A o \in Otps :
          CountingOn(o)' = CountingOn(o) /\ ExpiringOn(o)' = ExpiringOn(o)
    BY DEF TypeOK, CountingOn, ExpiringOn
  <2>2. \A o \in Pending' : o \in Pending \/ attempts[o] = 0
    BY DEF TypeOK, Pending, FreshInv, Otps
  <2> QED
    BY <2>1, <2>2, NobodyMoves
<1>5. TwoCodesNeedOverlap'
  BY DEF TypeOK, TwoCodesNeedOverlap, HandlerInv, FreshInv, Pending, Otps
<1>6. AcceptedCodeEnables'
  BY DEF TypeOK, AcceptedCodeEnables, HandlerInv, Otps
<1> QED
  BY <1>1, <1>2, <1>3, <1>4, <1>5, <1>6

LEMMA VoidKeepsIInv ==
    ASSUME IInv, NEW r \in Requests, Void(r)
    PROVE  IInv'
<1> USE DEF IInv, Void, Goto, Voided, rows, handlers, history
<1>1. TypeOK'
  BY DEF TypeOK, Steps, Otps
<1>2. FreshInv'
  BY DEF FreshInv, Pending
<1>3. HandlerInv'
  BY DEF TypeOK, HandlerInv, Pending, Otps
<1>4. TriesInv'
  <2>1. \A o \in Otps :
          CountingOn(o)' = CountingOn(o) /\ ExpiringOn(o)' = ExpiringOn(o)
    BY DEF TypeOK, CountingOn, ExpiringOn
  <2>2. \A o \in Pending' : o \in Pending \/ attempts[o] = 0
    BY DEF TypeOK, Pending, FreshInv, Otps
  <2> QED
    BY <2>1, <2>2, NobodyMoves
<1>5. TwoCodesNeedOverlap'
  BY DEF TypeOK, TwoCodesNeedOverlap, HandlerInv, FreshInv, Pending, Otps
<1>6. AcceptedCodeEnables'
  BY DEF TypeOK, AcceptedCodeEnables, HandlerInv, Otps
<1> QED
  BY <1>1, <1>2, <1>3, <1>4, <1>5, <1>6

LEMMA CreateKeepsIInv ==
    ASSUME IInv, NEW r \in Requests, Create(r)
    PROVE  IInv'
<1> USE DEF IInv, Create, Finish, rows, handlers, history
<1>1. TypeOK'
  BY DEF TypeOK, Steps, Otps
<1>2. FreshInv'
  BY DEF TypeOK, FreshInv, HandlerInv, Otps
<1>3. HandlerInv'
  BY DEF TypeOK, HandlerInv, Pending, Otps
<1>4. TriesInv'
  <2>1. \A o \in Otps :
          CountingOn(o)' = CountingOn(o) /\ ExpiringOn(o)' = ExpiringOn(o)
    BY DEF TypeOK, CountingOn, ExpiringOn
  <2>2. \A o \in Pending' : o \in Pending \/ attempts[o] = 0
    BY DEF TypeOK, Pending, FreshInv, Otps
  <2> QED
    BY <2>1, <2>2, NobodyMoves
<1>5. TwoCodesNeedOverlap'
  BY DEF TypeOK, TwoCodesNeedOverlap, HandlerInv, FreshInv, Pending, Otps
<1>6. AcceptedCodeEnables'
  BY DEF TypeOK, AcceptedCodeEnables, HandlerInv, Otps
<1> QED
  BY <1>1, <1>2, <1>3, <1>4, <1>5, <1>6

LEMMA MarkKeepsIInv ==
    ASSUME IInv, NEW r \in Requests, Mark(r)
    PROVE  IInv'
<1> USE DEF IInv, Mark, Goto, rows, handlers, history
<1>1. TypeOK'
  BY DEF TypeOK, Steps, Otps
<1>2. FreshInv'
  BY DEF TypeOK, FreshInv, HandlerInv, Otps
<1>3. HandlerInv'
  BY DEF TypeOK, HandlerInv, Pending, Otps
<1>4. TriesInv'
  <2>1. \A o \in Otps :
          CountingOn(o)' = CountingOn(o) /\ ExpiringOn(o)' = ExpiringOn(o)
    BY DEF TypeOK, CountingOn, ExpiringOn
  <2>2. \A o \in Pending' : o \in Pending \/ attempts[o] = 0
    BY DEF TypeOK, Pending, FreshInv, Otps
  <2> QED
    BY <2>1, <2>2, NobodyMoves
<1>5. TwoCodesNeedOverlap'
  BY DEF TypeOK, TwoCodesNeedOverlap, HandlerInv, FreshInv, Pending, Otps
<1>6. AcceptedCodeEnables'
  BY DEF TypeOK, AcceptedCodeEnables, HandlerInv, Otps
<1> QED
  BY <1>1, <1>2, <1>3, <1>4, <1>5, <1>6

LEMMA SwitchKeepsIInv ==
    ASSUME IInv, NEW r \in Requests, Switch(r)
    PROVE  IInv'
<1> USE DEF IInv, Switch, Finish, rows, handlers, history
<1>1. TypeOK'
  BY DEF TypeOK, Steps, Otps
<1>2. FreshInv'
  BY DEF TypeOK, FreshInv, HandlerInv, Otps
<1>3. HandlerInv'
  BY DEF TypeOK, HandlerInv, Pending, Otps
<1>4. TriesInv'
  <2>1. \A o \in Otps :
          CountingOn(o)' = CountingOn(o) /\ ExpiringOn(o)' = ExpiringOn(o)
    BY DEF TypeOK, CountingOn, ExpiringOn
  <2>2. \A o \in Pending' : o \in Pending \/ attempts[o] = 0
    BY DEF TypeOK, Pending, FreshInv, Otps
  <2> QED
    BY <2>1, <2>2, NobodyMoves
<1>5. TwoCodesNeedOverlap'
  BY DEF TypeOK, TwoCodesNeedOverlap, HandlerInv, FreshInv, Pending, Otps
<1>6. AcceptedCodeEnables'
  BY DEF TypeOK, AcceptedCodeEnables, HandlerInv, Otps
<1> QED
  BY <1>1, <1>2, <1>3, <1>4, <1>5, <1>6

LEMMA DisableKeepsIInv ==
    ASSUME IInv, NEW r \in Requests, Disable(r)
    PROVE  IInv'
<1> USE DEF IInv, Disable, Goto, rows, handlers, history
<1>1. TypeOK'
  BY DEF TypeOK, Steps, Otps
<1>2. FreshInv'
  BY DEF TypeOK, FreshInv, HandlerInv, Otps
<1>3. HandlerInv'
  BY DEF TypeOK, HandlerInv, Pending, Otps
<1>4. TriesInv'
  <2>1. \A o \in Otps :
          CountingOn(o)' = CountingOn(o) /\ ExpiringOn(o)' = ExpiringOn(o)
    BY DEF TypeOK, CountingOn, ExpiringOn
  <2>2. \A o \in Pending' : o \in Pending \/ attempts[o] = 0
    BY DEF TypeOK, Pending, FreshInv, Otps
  <2> QED
    BY <2>1, <2>2, NobodyMoves
<1>5. TwoCodesNeedOverlap'
  BY DEF TypeOK, TwoCodesNeedOverlap, HandlerInv, FreshInv, Pending, Otps
<1>6. AcceptedCodeEnables'
  BY DEF TypeOK, AcceptedCodeEnables, HandlerInv, Otps
<1> QED
  BY <1>1, <1>2, <1>3, <1>4, <1>5, <1>6

LEMMA ClearKeepsIInv ==
    ASSUME IInv, NEW r \in Requests, Clear(r)
    PROVE  IInv'
<1> USE DEF IInv, Clear, Cleared, Finish, rows, handlers, history
<1>1. TypeOK'
  BY FinishTypes DEF TypeOK
<1>2. FreshInv'
  BY DEF TypeOK, FreshInv, HandlerInv, Otps
<1>3. HandlerInv'
  BY DEF TypeOK, HandlerInv, Pending, Otps
<1>4. TriesInv'
  <2>1. \A o \in Otps :
          CountingOn(o)' = CountingOn(o) /\ ExpiringOn(o)' = ExpiringOn(o)
    BY DEF TypeOK, CountingOn, ExpiringOn
  <2>2. \A o \in Pending' : o \in Pending \/ attempts[o] = 0
    BY DEF TypeOK, Pending, FreshInv, Otps
  <2> QED
    BY <2>1, <2>2, NobodyMoves
<1>5. TwoCodesNeedOverlap'
  BY DEF TypeOK, TwoCodesNeedOverlap, HandlerInv, FreshInv, Pending, Otps
<1>6. AcceptedCodeEnables'
  BY DEF TypeOK, AcceptedCodeEnables, HandlerInv, Otps
<1> QED
  BY <1>1, <1>2, <1>3, <1>4, <1>5, <1>6

LEMMA SubmitKeepsTries ==
    ASSUME IInv, NEW r \in Requests, NEW o \in Otps, NEW next \in {"mark", "count"},
           Submit(r, o, next)
    PROVE  TriesInv'
<1> USE DEF rows, history
<1>1. CASE next = "mark"
  <2>1. \A p \in Otps :
          CountingOn(p)' = CountingOn(p) /\ ExpiringOn(p)' = ExpiringOn(p)
    BY <1>1 DEF IInv, TypeOK, Submit, Goto, CountingOn, ExpiringOn
  <2>2. Pending' = Pending /\ attempts' = attempts /\ cut' = cut
    BY DEF Submit, Pending
  <2> QED
    BY <2>1, <2>2, NobodyMoves DEF IInv
<1>2. CASE next = "count"
  <2>1. /\ attempts' = attempts /\ cut' = cut /\ Pending' = Pending
        /\ o \in Pending
    BY DEF Submit, Valid, Pending
  <2>2. \A p \in Otps : ExpiringOn(p)' = ExpiringOn(p)
    BY <1>2 DEF IInv, TypeOK, Submit, Goto, ExpiringOn
  <2>3. \A p \in Otps \ {o} : CountingOn(p)' = CountingOn(p)
    BY DEF IInv, TypeOK, Submit, Goto, CountingOn
  <2>4. ASSUME <<o, "expire">> \notin cut
        PROVE  attempts[o] + Cardinality(CountingOn(o)')
                 < OtpMaxAttempts + Cardinality(Requests)
    <3>1. /\ CountingOn(o)' \subseteq Requests /\ ExpiringOn(o) \subseteq Requests
          /\ CountingOn(o)' \cap ExpiringOn(o) = {}
      <4>1. CountingOn(o)' \cap ExpiringOn(o)' = {}
        BY DEF CountingOn, ExpiringOn
      <4> QED
        BY <2>2, <4>1 DEF CountingOn, ExpiringOn
    <3>2. /\ Cardinality(CountingOn(o)') \in Nat
          /\ Cardinality(ExpiringOn(o)) \in Nat /\ Cardinality(Requests) \in Nat
          /\ Cardinality(CountingOn(o)') + Cardinality(ExpiringOn(o))
                <= Cardinality(Requests)
      BY <3>1, Parts
    <3>3. attempts[o] \in Nat
      BY DEF IInv, TypeOK
    <3> QED
      BY <2>1, <2>4, <3>2, <3>3 DEF IInv, TriesInv
  <2> QED
    BY <2>1, <2>2, <2>3, <2>4 DEF IInv, TriesInv
<1> QED
  BY <1>1, <1>2

LEMMA CountKeepsTries ==
    ASSUME IInv, NEW r \in Requests, Count(r)
    PROVE  TriesInv'
<1>0. on[r] \in Otps
  BY DEF IInv, TypeOK, HandlerInv, Count, Otps
<1>a. PICK o \in Otps : o = on[r]
  BY <1>0
<1>1. o = on[r] /\ pc[r] = "count" /\ attempts[o] \in Nat
  BY <1>a DEF IInv, TypeOK, Count
<1>2. /\ cut' = cut /\ Pending' = Pending
      /\ attempts'[o] = attempts[o] + 1
      /\ \A p \in Otps \ {o} : attempts'[p] = attempts[p]
  BY <1>1 DEF IInv, TypeOK, Count, Pending
<1>3. \A p \in Otps \ {o} :
          CountingOn(p)' = CountingOn(p) /\ ExpiringOn(p)' = ExpiringOn(p)
  BY <1>1 DEF IInv, TypeOK, Count, Goto, Finish, CountingOn, ExpiringOn
<1>4. CountingOn(o)' = CountingOn(o) \ {r} /\ r \in CountingOn(o)
  BY <1>1 DEF IInv, TypeOK, Count, Goto, Finish, CountingOn
<1>5. /\ CountingOn(o) \subseteq Requests /\ ExpiringOn(o) \subseteq Requests
      /\ CountingOn(o) \cap ExpiringOn(o) = {} /\ r \notin ExpiringOn(o)
  BY <1>1 DEF CountingOn, ExpiringOn
<1>6. /\ Cardinality(CountingOn(o)) \in Nat /\ Cardinality(ExpiringOn(o)) \in Nat
      /\ Cardinality(Requests) \in Nat
      /\ Cardinality(CountingOn(o)') = Cardinality(CountingOn(o)) - 1
  BY <1>4, <1>5, Parts, OneLess
<1>7. ASSUME o \in Pending, <<o, "expire">> \notin cut
      PROVE  attempts'[o] < OtpMaxAttempts + Cardinality(ExpiringOn(o)')
  <2>1. CASE Exhausted(attempts[o] + 1)
    <3>1. ExpiringOn(o)' = ExpiringOn(o) \cup {r}
      BY <1>1, <2>1 DEF IInv, TypeOK, Count, Goto, ExpiringOn
    <3>2. Cardinality(ExpiringOn(o)') = Cardinality(ExpiringOn(o)) + 1
      BY <1>5, <3>1, OneMore
    <3> QED
      BY <1>1, <1>2, <1>6, <1>7, <3>2 DEF IInv, TriesInv
  <2>2. CASE ~Exhausted(attempts[o] + 1)
    <3>1. ExpiringOn(o)' = ExpiringOn(o)
      BY <1>1, <2>2 DEF IInv, TypeOK, Count, Finish, ExpiringOn
    <3> QED
      BY <1>1, <1>2, <1>6, <2>2, <3>1 DEF Exhausted
  <2> QED
    BY <2>1, <2>2
<1>8. ASSUME <<o, "expire">> \notin cut
      PROVE  attempts'[o] + Cardinality(CountingOn(o)')
               < OtpMaxAttempts + Cardinality(Requests)
  <2>1. attempts[o] + Cardinality(CountingOn(o)) < OtpMaxAttempts + Cardinality(Requests)
    BY <1>1, <1>8 DEF IInv, TriesInv
  <2> QED
    BY <1>1, <1>2, <1>6, <2>1
<1> QED
  BY <1>2, <1>3, <1>7, <1>8 DEF IInv, TriesInv

\* When a request leaves "count" or "expire" without counting.
LEMMA LeavingKeepsTries ==
    ASSUME IInv, NEW r \in Requests, Finish(r), attempts' = attempts,
           Pending' \subseteq Pending, cut \subseteq cut',
           pc[r] = "expire" => on[r] \notin Pending' \/ <<on[r], "expire">> \in cut'
    PROVE  TriesInv'
<1> SUFFICES ASSUME NEW o \in Otps, <<o, "expire">> \notin cut'
             PROVE  /\ o \in Pending' =>
                          attempts[o] < OtpMaxAttempts + Cardinality(ExpiringOn(o)')
                    /\ attempts[o] + Cardinality(CountingOn(o)')
                          < OtpMaxAttempts + Cardinality(Requests)
  BY DEF TriesInv
<1>1. attempts[o] \in Nat
  BY DEF IInv, TypeOK
<1>2. /\ o \in Pending =>
            attempts[o] < OtpMaxAttempts + Cardinality(ExpiringOn(o))
      /\ attempts[o] + Cardinality(CountingOn(o))
            < OtpMaxAttempts + Cardinality(Requests)
  BY DEF IInv, TriesInv
<1>3. o \in Pending' => ExpiringOn(o)' = ExpiringOn(o)
  BY DEF IInv, TypeOK, Finish, ExpiringOn
<1>4. CountingOn(o)' \subseteq CountingOn(o) /\ CountingOn(o) \subseteq Requests
  BY DEF IInv, TypeOK, Finish, CountingOn
<1>5. /\ Cardinality(CountingOn(o)') \in Nat /\ Cardinality(CountingOn(o)) \in Nat
      /\ Cardinality(CountingOn(o)') <= Cardinality(CountingOn(o))
      /\ Cardinality(Requests) \in Nat
  BY <1>4, FS_Subset, FS_CardinalityType
<1> QED
  BY <1>1, <1>2, <1>3, <1>5

LEMMA SubmitKeepsIInv ==
    ASSUME IInv, NEW r \in Requests, NEW o \in Otps,
           NEW next \in {"mark", "count"}, Submit(r, o, next)
    PROVE  IInv'
<1> USE DEF IInv, Submit, Goto, rows, history
<1>1. TypeOK'
  <2>1. o \in 0 .. MaxRows /\ next \in Steps
    BY DEF Otps, Steps
  <2> QED
    BY <2>1 DEF TypeOK
<1>2. FreshInv'
  BY DEF TypeOK, FreshInv, HandlerInv, Otps
<1>3. HandlerInv'
  BY DEF TypeOK, HandlerInv, FreshInv, Pending, Valid, Otps
<1>4. TriesInv'
  BY SubmitKeepsTries
<1>5. TwoCodesNeedOverlap'
  BY DEF TypeOK, TwoCodesNeedOverlap, Pending, Otps
<1>6. AcceptedCodeEnables'
  BY DEF TypeOK, AcceptedCodeEnables, HandlerInv, Otps
<1> QED
  BY <1>1, <1>2, <1>3, <1>4, <1>5, <1>6

LEMMA CountKeepsIInv ==
    ASSUME IInv, NEW r \in Requests, Count(r)
    PROVE  IInv'
<1> USE DEF IInv, Count, Goto, Finish, rows, handlers, history
<1>1. TypeOK'
  <2>1. on[r] \in Otps /\ attempts[on[r]] + 1 \in 0 .. MaxTries
    BY DEF TypeOK, HandlerInv, Otps
  <2> QED
    BY <2>1 DEF TypeOK, Steps
<1>2. FreshInv'
  BY DEF TypeOK, FreshInv, HandlerInv, Otps
<1>3. HandlerInv'
  BY DEF TypeOK, HandlerInv, FreshInv, Pending, Valid, Otps
<1>4. TriesInv'
  BY CountKeepsTries
<1>5. TwoCodesNeedOverlap'
  BY DEF TypeOK, TwoCodesNeedOverlap, Pending, Otps
<1>6. AcceptedCodeEnables'
  BY DEF TypeOK, AcceptedCodeEnables, HandlerInv, Otps
<1> QED
  BY <1>1, <1>2, <1>3, <1>4, <1>5, <1>6

LEMMA ExpireKeepsIInv ==
    ASSUME IInv, NEW r \in Requests, Expire(r)
    PROVE  IInv'
<1> USE DEF IInv, Expire, Finish, rows, handlers, history
<1>1. TypeOK'
  BY FinishTypes DEF TypeOK
<1>2. FreshInv'
  BY DEF TypeOK, FreshInv, HandlerInv, Otps
<1>3. HandlerInv'
  BY DEF TypeOK, HandlerInv, FreshInv, Pending, Valid, Otps
<1>4. TriesInv'
  BY LeavingKeepsTries DEF TypeOK, Pending
<1>5. TwoCodesNeedOverlap'
  BY DEF TypeOK, TwoCodesNeedOverlap, Pending, Otps
<1>6. AcceptedCodeEnables'
  BY DEF TypeOK, AcceptedCodeEnables, HandlerInv, Otps
<1> QED
  BY <1>1, <1>2, <1>3, <1>4, <1>5, <1>6

LEMMA AbortKeepsIInv ==
    ASSUME IInv, NEW r \in Requests, Abort(r)
    PROVE  IInv'
<1> USE DEF IInv, Abort, Finish, rows, handlers, history
<1>1. TypeOK'
  <2>1. cut' \subseteq (0 .. MaxRows) \X {"expire", "switch"}
    BY DEF TypeOK
  <2> QED
    BY <2>1 DEF TypeOK, Steps
<1>2. FreshInv'
  BY DEF TypeOK, FreshInv, HandlerInv, Otps
<1>3. HandlerInv'
  BY DEF TypeOK, HandlerInv, FreshInv, Pending, Valid, Otps
<1>4. TriesInv'
  BY LeavingKeepsTries DEF Pending
<1>5. TwoCodesNeedOverlap'
  BY DEF TypeOK, TwoCodesNeedOverlap, Pending, Otps
<1>6. AcceptedCodeEnables'
  BY DEF TypeOK, AcceptedCodeEnables, HandlerInv, Otps
<1> QED
  BY <1>1, <1>2, <1>3, <1>4, <1>5, <1>6

LEMMA LapseKeepsIInv ==
    ASSUME IInv, NEW q \in Otps, Lapse(q)
    PROVE  IInv'
<1> USE DEF IInv, Lapse, rows, handlers, history
<1>1. TypeOK'
  BY DEF TypeOK
<1>2. FreshInv'
  BY DEF TypeOK, FreshInv, HandlerInv, Otps
<1>3. HandlerInv'
  BY DEF TypeOK, HandlerInv, FreshInv, Pending, Valid, Otps
<1>4. TriesInv'
  <2>1. \A o \in Otps :
          CountingOn(o)' = CountingOn(o) /\ ExpiringOn(o)' = ExpiringOn(o)
    BY DEF TypeOK, CountingOn, ExpiringOn
  <2>2. \A o \in Pending' : o \in Pending \/ attempts[o] = 0
    BY DEF TypeOK, Pending, FreshInv, Otps
  <2> QED
    BY <2>1, <2>2, NobodyMoves
<1>5. TwoCodesNeedOverlap'
  BY DEF TypeOK, TwoCodesNeedOverlap, Pending, Otps
<1>6. AcceptedCodeEnables'
  BY DEF TypeOK, AcceptedCodeEnables, HandlerInv, Otps
<1> QED
  BY <1>1, <1>2, <1>3, <1>4, <1>5, <1>6

LEMMA EnableAtOnceKeepsIInv ==
    ASSUME IInv, enable2FA
    PROVE  IInv'
<1> USE DEF IInv, enable2FA, rows, handlers, history
<1>1. TypeOK'
  BY DEF TypeOK
<1>2. FreshInv'
  BY DEF TypeOK, FreshInv, HandlerInv, Otps
<1>3. HandlerInv'
  BY DEF TypeOK, HandlerInv, FreshInv, Pending, Valid, Otps
<1>4. TriesInv'
  <2>1. \A o \in Otps :
          CountingOn(o)' = CountingOn(o) /\ ExpiringOn(o)' = ExpiringOn(o)
    BY DEF TypeOK, CountingOn, ExpiringOn
  <2>2. \A o \in Pending' : o \in Pending \/ attempts[o] = 0
    BY DEF TypeOK, Pending, FreshInv, Otps
  <2> QED
    BY <2>1, <2>2, NobodyMoves
<1>5. TwoCodesNeedOverlap'
  BY DEF TypeOK, TwoCodesNeedOverlap, Pending, Otps
<1>6. AcceptedCodeEnables'
  BY DEF TypeOK, AcceptedCodeEnables, HandlerInv, Otps
<1> QED
  BY <1>1, <1>2, <1>3, <1>4, <1>5, <1>6

LEMMA DisableAtOnceKeepsIInv ==
    ASSUME IInv, disable2FA
    PROVE  IInv'
<1> USE DEF IInv, disable2FA, Cleared, rows, handlers, history
<1>1. TypeOK'
  BY DEF TypeOK
<1>2. FreshInv'
  BY DEF TypeOK, FreshInv, HandlerInv, Otps
<1>3. HandlerInv'
  BY DEF TypeOK, HandlerInv, FreshInv, Pending, Valid, Otps
<1>4. TriesInv'
  <2>1. \A o \in Otps :
          CountingOn(o)' = CountingOn(o) /\ ExpiringOn(o)' = ExpiringOn(o)
    BY DEF TypeOK, CountingOn, ExpiringOn
  <2>2. \A o \in Pending' : o \in Pending \/ attempts[o] = 0
    BY DEF TypeOK, Pending, FreshInv, Otps
  <2> QED
    BY <2>1, <2>2, NobodyMoves
<1>5. TwoCodesNeedOverlap'
  BY DEF TypeOK, TwoCodesNeedOverlap, Pending, Otps
<1>6. AcceptedCodeEnables'
  BY DEF TypeOK, AcceptedCodeEnables, HandlerInv, Otps
<1> QED
  BY <1>1, <1>2, <1>3, <1>4, <1>5, <1>6

LEMMA StutterKeepsIInv ==
    ASSUME IInv, UNCHANGED vars
    PROVE  IInv'
<1> USE DEF IInv, vars, rows, handlers, history
<1>1. TypeOK'
  BY DEF TypeOK
<1>2. FreshInv'
  BY DEF TypeOK, FreshInv, HandlerInv, Otps
<1>3. HandlerInv'
  BY DEF TypeOK, HandlerInv, FreshInv, Pending, Valid, Otps
<1>4. TriesInv'
  <2>1. \A o \in Otps :
          CountingOn(o)' = CountingOn(o) /\ ExpiringOn(o)' = ExpiringOn(o)
    BY DEF TypeOK, CountingOn, ExpiringOn
  <2>2. \A o \in Pending' : o \in Pending \/ attempts[o] = 0
    BY DEF TypeOK, Pending, FreshInv, Otps
  <2> QED
    BY <2>1, <2>2, NobodyMoves
<1>5. TwoCodesNeedOverlap'
  BY DEF TypeOK, TwoCodesNeedOverlap, Pending, Otps
<1>6. AcceptedCodeEnables'
  BY DEF TypeOK, AcceptedCodeEnables, HandlerInv, Otps
<1> QED
  BY <1>1, <1>2, <1>3, <1>4, <1>5, <1>6

LEMMA NextKeepsIInv == IInv /\ [Next]_vars => IInv'
<1> SUFFICES ASSUME IInv, [Next]_vars PROVE IInv'
  OBVIOUS
<1>1. CASE \E r \in Requests : Enable(r) \/ Void(r) \/ Create(r)
  BY <1>1, EnableKeepsIInv, VoidKeepsIInv, CreateKeepsIInv
<1>2. CASE \E r \in Requests, o \in Otps, next \in {"mark", "count"} : Submit(r, o, next)
  BY <1>2, SubmitKeepsIInv
<1>3. CASE \E r \in Requests : Count(r) \/ Expire(r) \/ Mark(r) \/ Switch(r)
  BY <1>3, CountKeepsIInv, ExpireKeepsIInv, MarkKeepsIInv, SwitchKeepsIInv
<1>4. CASE \E r \in Requests : Disable(r) \/ Clear(r) \/ Abort(r)
  BY <1>4, DisableKeepsIInv, ClearKeepsIInv, AbortKeepsIInv
<1>5. CASE enable2FA \/ disable2FA
  BY <1>5, EnableAtOnceKeepsIInv, DisableAtOnceKeepsIInv
<1>6. CASE \E o \in Otps : Lapse(o)
  BY <1>6, LapseKeepsIInv
<1>7. CASE UNCHANGED vars
  BY <1>7, StutterKeepsIInv
<1> QED
  BY <1>1, <1>2, <1>3, <1>4, <1>5, <1>6, <1>7 DEF Next

-----------------------------------------------------------------------------
(***************************************************************************)
(* Theorems                                                                *)
(***************************************************************************)
\* IInv holds in every state that is reached.
THEOREM InductiveInvariant == Spec => []IInv
<1>1. Init => IInv
  BY InitIInv
<1>2. IInv /\ [Next]_vars => IInv'
  BY NextKeepsIInv
<1> QED
  BY <1>1, <1>2, PTL DEF Spec

\* Every variable has its type.
THEOREM TypeCorrect == Spec => []TypeOK
<1>1. IInv => TypeOK
  BY DEF IInv
<1> QED
  BY <1>1, InductiveInvariant, PTL

\* Wrong tries exceed their limit by fewer than there are requests.
THEOREM OvershootIsBounded == Spec => []TriesAreBounded
<1>1. IInv => TriesAreBounded
  <2> SUFFICES ASSUME IInv, NEW o \in Otps, <<o, "expire">> \notin cut
               PROVE  attempts[o] < OtpMaxAttempts + Cardinality(Requests)
    BY DEF TriesAreBounded
  <2>1. Cardinality(CountingOn(o)) \in Nat /\ Cardinality(Requests) \in Nat
    <3>1. CountingOn(o) \subseteq Requests
      BY DEF CountingOn
    <3> QED
      BY <3>1, FS_Subset, FS_CardinalityType
  <2>2. attempts[o] \in Nat
    BY DEF IInv, TypeOK
  <2> QED
    BY <2>1, <2>2 DEF IInv, TriesInv
<1> QED
  BY <1>1, InductiveInvariant, PTL

\* A code at its limit is about to be expired.
THEOREM LimitExpires == Spec => []ExhaustedIsExpired
<1>1. IInv => ExhaustedIsExpired
  <2> SUFFICES ASSUME IInv, NEW o \in Pending, attempts[o] >= OtpMaxAttempts,
                      <<o, "expire">> \notin cut
               PROVE  ExpiringOn(o) # {}
    BY DEF ExhaustedIsExpired, ExpiringOn
  <2>1. o \in Otps /\ attempts[o] \in Nat
    BY DEF Pending, IInv, TypeOK
  <2>2. attempts[o] < OtpMaxAttempts + Cardinality(ExpiringOn(o))
    BY <2>1 DEF IInv, TriesInv
  <2>3. ExpiringOn(o) = {} => Cardinality(ExpiringOn(o)) = 0
    BY FS_EmptySet
  <2> QED
    BY <2>1, <2>2, <2>3
<1> QED
  BY <1>1, InductiveInvariant, PTL

\* Two codes are usable only after two requests that overlapped.
THEOREM VoidingIsComplete == Spec => []TwoCodesNeedOverlap
<1>1. IInv => TwoCodesNeedOverlap
  BY DEF IInv
<1> QED
  BY <1>1, InductiveInvariant, PTL

\* An accepted code has set the flag.
THEOREM AcceptanceCounts == Spec => []AcceptedCodeEnables
<1>1. IInv => AcceptedCodeEnables
  BY DEF IInv
<1> QED
  BY <1>1, InductiveInvariant, PTL

-----------------------------------------------------------------------------
(***************************************************************************)
(* How many codes can be used at a time.                                   *)
(***************************************************************************)
Creating == {r \in Requests : pc[r] = "create"}

\* createOtpRequest voids the pending codes before it creates one, in two
\* statements: there are at most as many as requests that overlap in it.
PendingIsBounded == Cardinality(Pending) <= Cardinality(Requests)

\* A request that is about to create a code counts as one already.
PendingFits ==
    Cardinality(Pending) + Cardinality(Creating) <= Cardinality(Requests)

LEMMA PendingSizes ==
    /\ IsFiniteSet(Pending) /\ Cardinality(Pending) \in Nat
    /\ IsFiniteSet(Creating) /\ Cardinality(Creating) \in Nat
    /\ Cardinality(Requests) \in Nat /\ Cardinality(Creating) <= Cardinality(Requests)
<1>1. IsFiniteSet(1 .. MaxRows) /\ Pending \subseteq 1 .. MaxRows
  BY FS_Interval DEF Pending, Otps
<1>2. Creating \subseteq Requests
  BY DEF Creating
<1> QED
  BY <1>1, <1>2, FS_Subset, FS_CardinalityType

\* Fewer codes, and nobody new about to create one.
LEMMA FewerFit ==
    ASSUME PendingFits, Pending' \subseteq Pending, Creating' \subseteq Creating
    PROVE  PendingFits'
<1>1. /\ Cardinality(Pending') \in Nat /\ Cardinality(Pending') <= Cardinality(Pending)
      /\ Cardinality(Creating') \in Nat /\ Cardinality(Creating') <= Cardinality(Creating)
  BY PendingSizes, FS_Subset, FS_CardinalityType
<1> QED
  BY <1>1, PendingSizes DEF PendingFits

LEMMA PendingStep == TypeOK /\ PendingFits /\ [Next]_vars => PendingFits'
<1> SUFFICES ASSUME TypeOK, PendingFits, [Next]_vars PROVE PendingFits'
  OBVIOUS
<1>1. ASSUME NEW r \in Requests, Void(r) PROVE PendingFits'
  <2>1. Pending' = {}
    BY <1>1 DEF Void, Voided, Pending
  <2>2. Creating' \subseteq Requests
    BY DEF Creating
  <2>3. /\ Cardinality(Pending') = 0
        /\ Cardinality(Creating') \in Nat /\ Cardinality(Creating') <= Cardinality(Requests)
    BY <2>1, <2>2, FS_EmptySet, FS_Subset, FS_CardinalityType
  <2> QED
    BY <2>3 DEF PendingFits
<1>2. ASSUME NEW r \in Requests, Create(r) PROVE PendingFits'
  <2>1. Pending' = Pending \cup {made + 1}
    BY <1>2 DEF TypeOK, Create, Pending, Otps
  <2>2. Creating' = Creating \ {r} /\ r \in Creating
    BY <1>2 DEF TypeOK, Create, Finish, Creating
  <2>3. Creating \subseteq Requests
    BY DEF Creating
  <2>4. Cardinality(Creating') = Cardinality(Creating) - 1
    BY <2>2, <2>3, OneLess
  <2>5. /\ Cardinality(Pending') \in Nat
        /\ Cardinality(Pending') <= Cardinality(Pending) + 1
    <3> DEFINE more == Pending \cup {made + 1}
    <3>1. \/ Cardinality(more) = Cardinality(Pending)
          \/ Cardinality(more) = Cardinality(Pending) + 1
      BY PendingSizes, FS_AddElement
    <3>2. Cardinality(Pending') = Cardinality(more)
      BY <2>1
    <3> HIDE DEF more
    <3> QED
      BY <3>1, <3>2, PendingSizes
  <2> QED
    BY <2>4, <2>5, PendingSizes DEF PendingFits
<1> USE DEF TypeOK, Pending, Creating, Goto, Finish, rows, handlers, history
<1>3. ASSUME NEW r \in Requests, Enable(r) \/ Count(r) \/ Switch(r) \/ Disable(r)
      PROVE  Pending' \subseteq Pending /\ Creating' \subseteq Creating
  BY <1>3 DEF Enable, Count, Switch, Disable
<1>4. ASSUME NEW r \in Requests, Expire(r) \/ Mark(r)
      PROVE  Pending' \subseteq Pending /\ Creating' \subseteq Creating
  BY <1>4 DEF Expire, Mark
<1>5. ASSUME NEW r \in Requests, Clear(r) \/ Abort(r)
      PROVE  Pending' \subseteq Pending /\ Creating' \subseteq Creating
  BY <1>5 DEF Clear, Abort, Cleared
<1>6. ASSUME NEW r \in Requests, NEW o \in Otps, NEW next \in {"mark", "count"},
             Submit(r, o, next)
      PROVE  Pending' \subseteq Pending /\ Creating' \subseteq Creating
  BY <1>6 DEF Submit
<1>7. CASE UNCHANGED <<status, pc>>
  BY <1>7, FewerFit
<1> HIDE DEF TypeOK, Pending, Creating, Goto, Finish
<1> QED
  BY <1>1, <1>2, <1>3, <1>4, <1>5, <1>6, <1>7, FewerFit DEF Next, vars, enable2FA,
     disable2FA, Cleared, Lapse

\* Of the codes for switching the second factor on, no more than requests in
\* flight can be used, whatever requests failed between void and create.
THEOREM CodesAreFew == Spec => []PendingIsBounded
<1>1. Init => PendingFits
  <2> SUFFICES ASSUME Init PROVE PendingFits
    OBVIOUS
  <2>1. Pending = {}
    BY DEF Init, Pending
  <2> QED
    BY <2>1, PendingSizes, FS_EmptySet DEF PendingFits
<1>2. PendingFits => PendingIsBounded
  BY PendingSizes DEF PendingFits, PendingIsBounded
<1> QED
  BY <1>1, <1>2, PendingStep, TypeCorrect, PTL DEF Spec
=============================================================================
