------------------------ MODULE EmailDeliveryProofs ------------------------
(***************************************************************************)
(* Proofs about EmailDelivery, for any number of jobs and slots and any    *)
(* limits: its counters stay within their limits, a job that is over stays *)
(* so, and copies and log rows are accounted for.                          *)
(*                                                                         *)
(* The first two rest on what a lock in Redis means: its job is active.  A *)
(* slot that lost its lock therefore finds another holder, or none.  The   *)
(* others count the slots at work on a job: every fetch puts one slot      *)
(* before the send, and a job is fetched again only after it stalled.      *)
(***************************************************************************)
EXTENDS EmailDelivery, FiniteSetTheorems, TLAPS

LockedIsActive == \A j \in Jobs : holder[j] # Nobody => job[j] = "active"

UnderLimits ==
    \A j \in Jobs :
        job[j] \notin Over => tried[j] < Attempts /\ stalled[j] <= MaxStalled

BusyHasTask == \A s \in Slots : pc[s] # "idle" => task[s] \in Jobs

IInv == TypeOK /\ LockedIsActive /\ UnderLimits /\ BusyHasTask

-----------------------------------------------------------------------------
\* The invariant is inductive.
LEMMA StepIInv == IInv /\ [Next]_vars => IInv'
<1> SUFFICES ASSUME IInv, [Next]_vars PROVE IInv'
  OBVIOUS
<1> USE LimitsAssumption, JobsAssumption
    DEF IInv, TypeOK, LockedIsActive, UnderLimits, BusyHasTask, States, Over,
        Goto, Free, queue, worker
<1>1. ASSUME NEW j \in Jobs, Add(j) PROVE IInv'
  BY <1>1 DEF Add
<1>2. ASSUME NEW s \in Slots, NEW j \in Jobs, Fetch(s, j) PROVE IInv'
  BY <1>2 DEF Fetch
<1>3. ASSUME NEW s \in Slots, Send(s) PROVE IInv'
  BY <1>3 DEF Send, Post, WellFormed
<1>4. ASSUME NEW s \in Slots, Log(s) PROVE IInv'
  BY <1>4 DEF Log
<1>5. ASSUME NEW s \in Slots, Return(s) PROVE IInv'
  BY <1>5 DEF Return
<1>6. ASSUME NEW s \in Slots, Throw(s) PROVE IInv'
  BY <1>6 DEF Throw
<1>7. ASSUME NEW s \in Slots, Crash(s) PROVE IInv'
  BY <1>7 DEF Crash
<1>8. ASSUME NEW j \in Jobs, Promote(j) PROVE IInv'
  BY <1>8 DEF Promote
<1>9. ASSUME NEW j \in Jobs, LockExpires(j) PROVE IInv'
  BY <1>9 DEF LockExpires
<1>10. ASSUME NEW j \in Jobs, Reclaim(j) PROVE IInv'
  BY <1>10 DEF Reclaim
<1>11. CASE UNCHANGED vars
  BY <1>11 DEF vars
<1> QED
  BY <1>1, <1>2, <1>3, <1>4, <1>5, <1>6, <1>7, <1>8, <1>9, <1>10, <1>11 DEF Next

\* The inductive invariant holds in every reachable state.
THEOREM InductiveInvariant == Spec => []IInv
<1>1. Init => IInv
  BY LimitsAssumption
     DEF Init, IInv, TypeOK, LockedIsActive, UnderLimits, BusyHasTask, States, Over
<1> QED
  BY <1>1, StepIInv, PTL DEF Spec

\* Every variable has its type; no job is tried or stalls past its limit.
THEOREM TypeCorrectness == Spec => []TypeOK
<1>1. IInv => TypeOK
  BY DEF IInv
<1> QED
  BY <1>1, InductiveInvariant, PTL

\* No slot, however late, changes a job that is over.
THEOREM OverStaysOver == Spec => OverIsFinal
<1> DEFINE A == \A j \in Jobs : job[j] \in Over => job'[j] = job[j]
<1>1. ASSUME IInv, Next PROVE A
  <2> USE <1>1, JobsAssumption DEF IInv, TypeOK, LockedIsActive, BusyHasTask, Over
  <2>1. ASSUME NEW s \in Slots, Return(s) \/ Throw(s) PROVE A
    <3>1. task[s] \in Jobs
      BY <2>1 DEF Return, Throw
    <3>2. holder[task[s]] = s => job[task[s]] = "active"
      BY <3>1
    <3> QED
      BY <2>1, <3>1, <3>2 DEF Return, Throw
  <2>2. ASSUME NEW s \in Slots, NEW j \in Jobs, Fetch(s, j) PROVE A
    BY <2>2 DEF Fetch
  <2>3. ASSUME NEW s \in Slots, Send(s) \/ Log(s) \/ Crash(s) PROVE A
    BY <2>3 DEF Send, Post, WellFormed, Log, Crash, queue
  <2>4. ASSUME NEW j \in Jobs,
               Add(j) \/ Promote(j) \/ LockExpires(j) \/ Reclaim(j)
        PROVE  A
    BY <2>4 DEF Add, Promote, LockExpires, Reclaim
  <2> QED
    BY <2>1, <2>2, <2>3, <2>4 DEF Next
<1>2. IInv /\ [Next]_vars => [A]_vars
  BY <1>1
<1> QED
  BY <1>2, InductiveInvariant, PTL DEF Spec, OverIsFinal

-----------------------------------------------------------------------------
\* The slots that are at a step of a job.
At(step, j) == {s \in Slots : pc[s] = step /\ task[s] = j}

\* The run the job is in, or was in when it ended.
Run(j) == IF job[j] \in {"active", "completed"} THEN 1 ELSE 0

CopiesOK ==
    \A j \in Jobs :
        IF j \in Malformed
          THEN accepted[j] = 0
          ELSE accepted[j] + Cardinality(At("send", j)) <= stalled[j] + Run(j)

ThrowIsMalformed == \A s \in Slots : pc[s] = "throw" => task[s] \in Malformed

LogIsHonest == \A j \in Jobs : logged[j] <= accepted[j]

LogOK == \A j \in Jobs : logged[j] + Cardinality(At("log", j)) <= accepted[j]

\* The slots at a step of a job can be counted.
LEMMA AtIsFinite ==
    ASSUME NEW step, NEW j
    PROVE  /\ IsFiniteSet(At(step, j))
           /\ Cardinality(At(step, j)) \in Nat
  BY JobsAssumption, FS_Subset, FS_CardinalityType DEF At

\* One slot more, or one less, at a step of a job.
LEMMA AtCount ==
    ASSUME NEW step, NEW j, NEW s
    PROVE  /\ At(step, j)' = At(step, j) \cup {s} /\ s \notin At(step, j) =>
                 Cardinality(At(step, j)') = Cardinality(At(step, j)) + 1
           /\ At(step, j)' = At(step, j) \ {s} /\ s \in At(step, j) =>
                 Cardinality(At(step, j)') = Cardinality(At(step, j)) - 1
           /\ At(step, j)' = At(step, j) \ {s} =>
                 Cardinality(At(step, j)') <= Cardinality(At(step, j))
<1> DEFINE S == At(step, j)
           T == At(step, j)'
<1>1. IsFiniteSet(S) /\ Cardinality(S) \in Nat
  BY AtIsFinite
<1> HIDE DEF S, T
<1>2. T = S \cup {s} /\ s \notin S => Cardinality(T) = Cardinality(S) + 1
  BY <1>1, FS_AddElement
<1>3. T = S \ {s} /\ s \in S => Cardinality(T) = Cardinality(S) - 1
  BY <1>1, FS_RemoveElement
<1>4. T = S \ {s} => Cardinality(T) <= Cardinality(S)
  BY <1>1, FS_RemoveElement
<1> QED
  BY <1>2, <1>3, <1>4 DEF S, T

\* Every accepted message, and every slot about to send one, has a run.
LEMMA CopiesStep ==
    IInv /\ ThrowIsMalformed /\ CopiesOK /\ [Next]_vars => ThrowIsMalformed' /\ CopiesOK'
<1> SUFFICES ASSUME IInv, ThrowIsMalformed, CopiesOK, [Next]_vars
             PROVE  ThrowIsMalformed' /\ CopiesOK'
  OBVIOUS
<1>1. ThrowIsMalformed'
  BY DEF IInv, TypeOK, BusyHasTask, ThrowIsMalformed, Next, Add, Fetch, Send, Post,
         WellFormed, Log, Return, Throw, Crash, Promote, LockExpires, Reclaim, Goto, Free, worker, vars
<1>2. CopiesOK'
  <2> SUFFICES ASSUME NEW j \in Jobs
               PROVE  /\ j \in Malformed => accepted'[j] = 0
                      /\ j \notin Malformed =>
                            accepted'[j] + Cardinality(At("send", j)') <= stalled'[j] + Run(j)'
    BY DEF CopiesOK
  <2> DEFINE A == At("send", j)
             Goal == /\ j \in Malformed => accepted'[j] = 0
                     /\ j \notin Malformed =>
                           accepted'[j] + Cardinality(A') <= stalled'[j] + Run(j)'
  <2> USE DEF Goto, Free, queue, worker
  <2>0. /\ Cardinality(A) \in Nat /\ Cardinality(A') \in Nat
        /\ accepted[j] \in Nat /\ stalled[j] \in Nat
        /\ Run(j) \in {0, 1}
        /\ j \in Malformed => accepted[j] = 0
        /\ j \notin Malformed => accepted[j] + Cardinality(A) <= stalled[j] + Run(j)
    <3>1. Cardinality(A) \in Nat
      BY AtIsFinite
    <3>2. IsFiniteSet(A')
      BY JobsAssumption, FS_Subset DEF At
    <3> QED
      BY <3>1, <3>2, FS_CardinalityType DEF CopiesOK, IInv, TypeOK, Run
  <2>1. ASSUME NEW k \in Jobs, Add(k) \/ Promote(k) \/ LockExpires(k)
        PROVE  Goal
    <3>1. A' = A
      BY <2>1 DEF Add, Promote, LockExpires, At
    <3>2. Run(j)' = Run(j) /\ accepted' = accepted /\ stalled' = stalled
      BY <2>1 DEF Add, Promote, LockExpires, Run, IInv, TypeOK
    <3> QED
      BY <2>0, <3>1, <3>2
  <2>2. ASSUME NEW s \in Slots, NEW k \in Jobs, Fetch(s, k)
        PROVE  Goal
    <3>1. accepted' = accepted /\ stalled' = stalled
      BY <2>2 DEF Fetch
    <3>2. CASE k = j
      <4>1. A' = A \cup {s} /\ s \notin A
        BY <2>2, <3>2 DEF Fetch, At, IInv, TypeOK
      <4>2. Cardinality(A') = Cardinality(A) + 1
        BY <4>1, AtCount
      <4>3. Run(j) = 0 /\ Run(j)' = 1
        BY <2>2, <3>2 DEF Fetch, Run, IInv, TypeOK
      <4> QED
        BY <2>0, <3>1, <4>2, <4>3
    <3>3. CASE k # j
      <4>1. A' = A
        BY <2>2, <3>3 DEF Fetch, At, IInv, TypeOK
      <4>2. Run(j)' = Run(j)
        BY <2>2, <3>3 DEF Fetch, Run, IInv, TypeOK
      <4> QED
        BY <2>0, <3>1, <4>1, <4>2
    <3> QED
      BY <3>2, <3>3
  <2>3. ASSUME NEW s \in Slots, Send(s)
        PROVE  Goal
    <3>1. stalled' = stalled /\ Run(j)' = Run(j) /\ task[s] \in Jobs
      BY <2>3 DEF Send, Post, WellFormed, Run, IInv, BusyHasTask
    <3>2. CASE task[s] = j
      <4>1. A' = A \ {s} /\ s \in A
        BY <2>3, <3>2 DEF Send, Post, WellFormed, At, IInv, TypeOK
      <4>2. Cardinality(A') = Cardinality(A) - 1
        BY <4>1, AtCount
      <4>3. /\ accepted'[j] = accepted[j] \/ accepted'[j] = accepted[j] + 1
            /\ j \in Malformed => accepted'[j] = accepted[j]
        BY <2>3, <3>2 DEF Send, Post, WellFormed, IInv, TypeOK
      <4> QED
        BY <2>0, <3>1, <4>2, <4>3
    <3>3. CASE task[s] # j
      <4>1. A' = A
        BY <2>3, <3>3 DEF Send, Post, WellFormed, At, IInv, TypeOK
      <4>2. accepted'[j] = accepted[j]
        BY <2>3, <3>1, <3>3 DEF Send, Post, WellFormed, IInv, TypeOK
      <4> QED
        BY <2>0, <3>1, <4>1, <4>2
    <3> QED
      BY <3>2, <3>3
  <2>4. ASSUME NEW s \in Slots, Log(s) \/ Return(s) \/ Throw(s)
        PROVE  Goal
    <3>1. accepted' = accepted /\ stalled' = stalled /\ task[s] \in Jobs
      BY <2>4 DEF Log, Return, Throw, IInv, BusyHasTask
    <3>2. A' = A
      BY <2>4 DEF Log, Return, Throw, At, IInv, TypeOK
    <3>3. j \notin Malformed => Run(j)' = Run(j)
      <4>1. CASE Log(s)
        BY <4>1 DEF Log, Run
      <4>2. CASE Return(s)
        BY <3>1, <4>2, JobsAssumption DEF Return, Run, IInv, TypeOK, LockedIsActive
      <4>3. CASE Throw(s)
        BY <3>1, <4>3 DEF Throw, Run, IInv, TypeOK, ThrowIsMalformed
      <4> QED
        BY <2>4, <4>1, <4>2, <4>3
    <3> QED
      BY <2>0, <3>1, <3>2, <3>3
  <2>5. ASSUME NEW s \in Slots, Crash(s)
        PROVE  Goal
    <3>1. A' = A \ {s}
      BY <2>5, JobsAssumption DEF Crash, At, IInv, TypeOK
    <3>2. Cardinality(A') <= Cardinality(A)
      BY <3>1, AtCount
    <3>3. accepted' = accepted /\ stalled' = stalled /\ Run(j)' = Run(j)
      BY <2>5 DEF Crash, Run
    <3> QED
      BY <2>0, <3>2, <3>3
  <2>6. ASSUME NEW k \in Jobs, Reclaim(k)
        PROVE  Goal
    <3>1. A' = A /\ accepted' = accepted
      BY <2>6 DEF Reclaim, At
    <3>2. stalled'[j] + Run(j)' = stalled[j] + Run(j)
      BY <2>6 DEF Reclaim, Run, IInv, TypeOK
    <3> QED
      BY <2>0, <3>1, <3>2
  <2>7. CASE UNCHANGED vars
    <3>1. A' = A /\ accepted' = accepted /\ stalled' = stalled /\ Run(j)' = Run(j)
      BY <2>7 DEF vars, At, Run
    <3> QED
      BY <2>0, <3>1
  <2> QED
    BY <2>1, <2>2, <2>3, <2>4, <2>5, <2>6, <2>7 DEF Next
<1> QED
  BY <1>1, <1>2

\* An e-mail is sent once more than its job stalled, at most.
THEOREM CopiesAreBounded == Spec => []CopiesAreStalls
<1>1. Init => ThrowIsMalformed /\ CopiesOK
  <2> SUFFICES ASSUME Init PROVE ThrowIsMalformed /\ CopiesOK
    OBVIOUS
  <2>1. \A j \in Jobs : At("send", j) = {}
    BY DEF Init, At
  <2> QED
    BY <2>1, FS_EmptySet DEF Init, ThrowIsMalformed, CopiesOK, Run
<1>2. IInv /\ CopiesOK => CopiesAreStalls
  <2> SUFFICES ASSUME IInv, CopiesOK, NEW j \in Jobs PROVE accepted[j] <= 1 + stalled[j]
    BY DEF CopiesAreStalls
  <2>1. Cardinality(At("send", j)) \in Nat
    BY AtIsFinite
  <2> QED
    BY <2>1 DEF IInv, TypeOK, CopiesOK, Run
<1> QED
  BY <1>1, <1>2, CopiesStep, InductiveInvariant, PTL DEF Spec

-----------------------------------------------------------------------------
\* Every SENT row, and every slot about to write one, has an accepted message.
LEMMA LogStep == IInv /\ LogOK /\ [Next]_vars => LogOK'
<1> SUFFICES ASSUME IInv, LogOK, [Next]_vars, NEW j \in Jobs
             PROVE  logged'[j] + Cardinality(At("log", j)') <= accepted'[j]
  BY DEF LogOK
<1> DEFINE A == At("log", j)
           Goal == logged'[j] + Cardinality(A') <= accepted'[j]
<1> USE DEF Goto, Free, queue, worker
<1>0. /\ Cardinality(A) \in Nat
      /\ logged[j] \in Nat /\ accepted[j] \in Nat
      /\ logged[j] + Cardinality(A) <= accepted[j]
  BY AtIsFinite DEF LogOK, IInv, TypeOK
<1>1. ASSUME NEW k \in Jobs, Add(k) \/ Promote(k) \/ LockExpires(k) \/ Reclaim(k)
      PROVE  Goal
  <2>1. A' = A /\ accepted' = accepted /\ logged' = logged
    BY <1>1 DEF Add, Promote, LockExpires, Reclaim, At
  <2> QED
    BY <1>0, <2>1
<1>2. ASSUME NEW s \in Slots, NEW k \in Jobs, Fetch(s, k)
      PROVE  Goal
  <2>1. A' = A /\ accepted' = accepted /\ logged' = logged
    BY <1>2 DEF Fetch, At, IInv, TypeOK
  <2> QED
    BY <1>0, <2>1
<1>3. ASSUME NEW s \in Slots, Send(s)
      PROVE  Goal
  <2>1. logged' = logged /\ task[s] \in Jobs /\ s \notin A
    BY <1>3 DEF Send, Post, WellFormed, IInv, BusyHasTask, At
  <2>2. CASE task[s] = j /\ pc'[s] = "log"
    <3>1. A' = A \cup {s}
      BY <1>3, <2>2 DEF Send, Post, WellFormed, At, IInv, TypeOK
    <3>2. Cardinality(A') = Cardinality(A) + 1
      BY <2>1, <3>1, AtCount
    <3>3. accepted'[j] = accepted[j] + 1
      BY <1>3, <2>2 DEF Send, Post, WellFormed, IInv, TypeOK
    <3> QED
      BY <1>0, <2>1, <3>2, <3>3
  <2>3. CASE ~ (task[s] = j /\ pc'[s] = "log")
    <3>1. A' = A
      BY <1>3, <2>3 DEF Send, Post, WellFormed, At, IInv, TypeOK
    <3>2. accepted'[j] = accepted[j] \/ accepted'[j] = accepted[j] + 1
      BY <1>3, <2>1 DEF Send, Post, WellFormed, IInv, TypeOK
    <3> QED
      BY <1>0, <2>1, <3>1, <3>2
  <2> QED
    BY <2>2, <2>3
<1>4. ASSUME NEW s \in Slots, Log(s)
      PROVE  Goal
  <2>1. accepted' = accepted /\ task[s] \in Jobs
    BY <1>4 DEF Log, IInv, BusyHasTask
  <2>2. CASE task[s] = j
    <3>1. A' = A \ {s} /\ s \in A
      BY <1>4, <2>2 DEF Log, At, IInv, TypeOK
    <3>2. Cardinality(A') = Cardinality(A) - 1
      BY <3>1, AtCount
    <3>3. logged'[j] = logged[j] \/ logged'[j] = logged[j] + 1
      BY <1>4, <2>2 DEF Log, IInv, TypeOK
    <3> QED
      BY <1>0, <2>1, <3>2, <3>3
  <2>3. CASE task[s] # j
    <3>1. A' = A /\ logged'[j] = logged[j]
      BY <1>4, <2>1, <2>3 DEF Log, At, IInv, TypeOK
    <3> QED
      BY <1>0, <2>1, <3>1
  <2> QED
    BY <2>2, <2>3
<1>5. ASSUME NEW s \in Slots, Return(s) \/ Throw(s)
      PROVE  Goal
  <2>1. A' = A /\ accepted' = accepted /\ logged' = logged
    BY <1>5 DEF Return, Throw, At, IInv, TypeOK
  <2> QED
    BY <1>0, <2>1
<1>6. ASSUME NEW s \in Slots, Crash(s)
      PROVE  Goal
  <2>1. A' = A \ {s} /\ accepted' = accepted /\ logged' = logged
    BY <1>6, JobsAssumption DEF Crash, At, IInv, TypeOK
  <2>2. Cardinality(A') <= Cardinality(A) /\ Cardinality(A') \in Nat
    <3>1. IsFiniteSet(A')
      BY JobsAssumption, FS_Subset DEF At
    <3> QED
      BY <2>1, <3>1, AtCount, FS_CardinalityType
  <2> QED
    BY <1>0, <2>1, <2>2
<1>7. CASE UNCHANGED vars
  <2>1. A' = A /\ accepted' = accepted /\ logged' = logged
    BY <1>7 DEF vars, At
  <2> QED
    BY <1>0, <2>1
<1> QED
  BY <1>1, <1>2, <1>3, <1>4, <1>5, <1>6, <1>7 DEF Next

\* EmailLog never shows more SENT rows for an e-mail than SendGrid accepted.
THEOREM LogIsBacked == Spec => []LogIsHonest
<1>1. Init => LogOK
  <2> SUFFICES ASSUME Init PROVE LogOK
    OBVIOUS
  <2>1. \A j \in Jobs : At("log", j) = {}
    BY DEF Init, At
  <2> QED
    BY <2>1, FS_EmptySet DEF Init, LogOK
<1>2. IInv /\ LogOK => LogIsHonest
  <2> SUFFICES ASSUME IInv, LogOK, NEW j \in Jobs PROVE logged[j] <= accepted[j]
    BY DEF LogIsHonest
  <2>1. Cardinality(At("log", j)) \in Nat
    BY AtIsFinite
  <2> QED
    BY <2>1 DEF IInv, TypeOK, LogOK
<1> QED
  BY <1>1, <1>2, LogStep, InductiveInvariant, PTL DEF Spec

-----------------------------------------------------------------------------
\* How a job may end: completed if its data was fit for its template, failed
\* if it stalled too often, or if its data was not fit and all attempts went.
\* Only such a job is ever tried again: a message that SendGrid refuses, or
\* does not answer, uses none of its attempts (failed_send_not_retried).
EndsForAReason ==
    \A j \in Jobs :
        /\ job[j] = "completed" => j \notin Malformed
        /\ job[j] = "failed" =>
              stalled[j] > MaxStalled \/ (j \in Malformed /\ tried[j] = Attempts)
        /\ j \notin Malformed => tried[j] = 0 /\ job[j] # "delayed"

WayIsTemplate ==
    \A s \in Slots :
        /\ pc[s] = "throw" => task[s] \in Malformed
        /\ pc[s] \in {"log", "return"} => task[s] \notin Malformed

LEMMA EndsStep ==
    IInv /\ WayIsTemplate /\ EndsForAReason /\ [Next]_vars =>
        WayIsTemplate' /\ EndsForAReason'
<1> SUFFICES ASSUME IInv, WayIsTemplate, EndsForAReason, [Next]_vars
             PROVE  WayIsTemplate' /\ EndsForAReason'
  OBVIOUS
<1> USE LimitsAssumption, JobsAssumption DEF Goto, Free, queue, worker
<1>1. WayIsTemplate'
  BY DEF IInv, TypeOK, BusyHasTask, WayIsTemplate, Next, Add, Fetch, Send, Post,
         WellFormed, Log, Return, Throw, Crash, Promote, LockExpires, Reclaim, vars
<1>2. EndsForAReason'
  <2> SUFFICES ASSUME NEW j \in Jobs
               PROVE  /\ job'[j] = "completed" => j \notin Malformed
                      /\ job'[j] = "failed" =>
                            \/ stalled'[j] > MaxStalled
                            \/ j \in Malformed /\ tried'[j] = Attempts
                      /\ j \notin Malformed => tried'[j] = 0 /\ job'[j] # "delayed"
    BY DEF EndsForAReason
  <2> DEFINE Goal == /\ job'[j] = "completed" => j \notin Malformed
                     /\ job'[j] = "failed" =>
                           \/ stalled'[j] > MaxStalled
                           \/ j \in Malformed /\ tried'[j] = Attempts
                     /\ j \notin Malformed => tried'[j] = 0 /\ job'[j] # "delayed"
  <2> USE DEF EndsForAReason
  <2>1. CASE UNCHANGED <<job, tried, stalled>>
    BY <2>1
  <2>2. ASSUME NEW k \in Jobs, Add(k) \/ Promote(k) \/ \E s \in Slots : Fetch(s, k)
        PROVE  Goal
    BY <2>2 DEF Add, Promote, Fetch, IInv, TypeOK
  <2>3. ASSUME NEW s \in Slots, Return(s)
        PROVE  Goal
    BY <2>1, <2>3 DEF Return, IInv, TypeOK, WayIsTemplate, BusyHasTask
  <2>4. ASSUME NEW s \in Slots, Throw(s), holder[task[s]] = s
        PROVE  Goal
    <3> DEFINE k == task[s]
    <3>1. k \in Jobs /\ k \in Malformed /\ job[k] = "active" /\ tried[k] < Attempts
      BY <2>4 DEF Throw, IInv, TypeOK, BusyHasTask, LockedIsActive, UnderLimits, Over,
         WayIsTemplate
    <3>2. /\ tried' = [tried EXCEPT ![k] = @ + 1] /\ stalled' = stalled
          /\ job' = [job EXCEPT ![k] =
                         IF tried[k] + 1 < Attempts THEN "delayed" ELSE "failed"]
      BY <2>4 DEF Throw
    <3>3. tried[k] \in Nat
      BY <3>1 DEF IInv, TypeOK
    <3> QED
      BY <3>1, <3>2, <3>3 DEF IInv, TypeOK
  <2>5. ASSUME NEW k \in Jobs, Reclaim(k)
        PROVE  Goal
    BY <2>5 DEF Reclaim, IInv, TypeOK
  <2> QED
    BY <2>1, <2>2, <2>3, <2>4, <2>5 DEF Next, Send, Log, Throw, Crash, LockExpires, vars
<1> QED
  BY <1>1, <1>2

\* Whatever the slots and their locks do, no job ends for another reason.
THEOREM JobsEndForAReason == Spec => []EndsForAReason
<1>1. Init => WayIsTemplate /\ EndsForAReason
  BY DEF Init, WayIsTemplate, EndsForAReason
<1> QED
  BY <1>1, EndsStep, InductiveInvariant, PTL DEF Spec

-----------------------------------------------------------------------------
(***************************************************************************)
(* The worker and the contract with the webhooks.                          *)
(***************************************************************************)
\* An e-mail is sent no more often than Copies has numbers for.
CountsFit == \A j \in Jobs : logged[j] <= accepted[j] /\ accepted[j] <= MaxStalled + 2

LEMMA CountsFitAlways ==
    IInv /\ CopiesAreStalls /\ LogIsHonest => CountsFit
  BY LimitsAssumption DEF IInv, TypeOK, CopiesAreStalls, LogIsHonest, CountsFit

\* Counting one more message is adding the message of that number.
LEMMA UpToNext ==
    ASSUME NEW c \in [Jobs -> Nat], NEW d \in [Jobs -> Nat], NEW j \in Jobs,
           d = [c EXCEPT ![j] = @ + 1], d[j] <= MaxStalled + 2
    PROVE  /\ <<j, c[j] + 1>> \in Copies \ UpTo(c)
           /\ UpTo(d) = UpTo(c) \cup {<<j, c[j] + 1>>}
<1>1. c[j] + 1 \in 1 .. MaxStalled + 2
  BY LimitsAssumption
<1>2. ASSUME NEW k \in Jobs, NEW i \in 1 .. MaxStalled + 2
      PROVE  i <= d[k] <=> i <= c[k] \/ (k = j /\ i = c[j] + 1)
  BY LimitsAssumption
<1> QED
  BY <1>1, <1>2 DEF UpTo, Copies

LEMMA StepImplementsMail ==
    IInv /\ IInv' /\ CountsFit /\ CountsFit' /\ [Next]_vars => [Mail!Next]_(Mail!vars)
<1> SUFFICES ASSUME IInv, IInv', CountsFit, CountsFit', [Next]_vars
             PROVE  Mail!Next \/ UNCHANGED Mail!vars
  OBVIOUS
<1> DEFINE sent == UpTo(accepted)
           rows == UpTo(logged)
<1>1. ASSUME UNCHANGED <<accepted, logged>> PROVE UNCHANGED Mail!vars
  BY <1>1 DEF Mail!vars, UpTo
<1>2. ASSUME NEW s \in Slots, Send(s) PROVE Mail!Next \/ UNCHANGED Mail!vars
  <2>1. CASE UNCHANGED accepted
    BY <1>1, <1>2, <2>1 DEF Send
  <2>2. CASE accepted' = [accepted EXCEPT ![task[s]] = @ + 1]
    <3> DEFINE m == <<task[s], accepted[task[s]] + 1>>
    <3>1. task[s] \in Jobs /\ logged' = logged
      BY <1>2 DEF Send, IInv, BusyHasTask
    <3>2. m \in Copies \ sent /\ sent' = sent \cup {m}
      <4>1. accepted'[task[s]] <= MaxStalled + 2
        BY <3>1 DEF CountsFit
      <4>2. UpTo(accepted)' = UpTo(accepted')
        BY DEF UpTo
      <4> QED
        BY <2>2, <3>1, <4>1, <4>2, UpToNext DEF IInv, TypeOK
    <3>3. rows' = rows
      BY <3>1 DEF UpTo
    <3> QED
      BY <3>2, <3>3 DEF Mail!Next, Mail!Accept
  <2> QED
    BY <1>2, <2>1, <2>2 DEF Send, Post
<1>3. ASSUME NEW s \in Slots, Log(s) PROVE Mail!Next \/ UNCHANGED Mail!vars
  <2>1. CASE UNCHANGED logged
    BY <1>1, <1>3, <2>1 DEF Log
  <2>2. CASE logged' = [logged EXCEPT ![task[s]] = @ + 1]
    <3> DEFINE m == <<task[s], logged[task[s]] + 1>>
    <3>1. task[s] \in Jobs /\ accepted' = accepted
      BY <1>3 DEF Log, IInv, BusyHasTask
    <3>2. logged'[task[s]] <= accepted[task[s]] /\ logged'[task[s]] <= MaxStalled + 2
      BY <3>1, LimitsAssumption DEF CountsFit, IInv, TypeOK
    <3>3. m \in Copies \ rows /\ rows' = rows \cup {m}
      <4>1. UpTo(logged)' = UpTo(logged')
        BY DEF UpTo
      <4> QED
        BY <2>2, <3>1, <3>2, <4>1, UpToNext DEF IInv, TypeOK
    <3>4. m \in sent /\ sent' = sent
      BY <2>2, <3>1, <3>2, <3>3 DEF UpTo, IInv, TypeOK
    <3> QED
      BY <3>3, <3>4 DEF Mail!Next, Mail!Record
  <2> QED
    BY <1>3, <2>1, <2>2 DEF Log
<1> QED
  BY <1>1, <1>2, <1>3 DEF Next, vars, queue, worker, Add, Fetch, Return, Throw, Crash,
     Promote, LockExpires, Reclaim

\* Every step of the worker is one of the contract, or none.
THEOREM WorkerKeepsContract == Spec => ImplementsMail
<1>1. Init => Mail!Init
  BY LimitsAssumption DEF Init, Mail!Init, UpTo, Copies
<1> QED
  BY <1>1, InductiveInvariant, CopiesAreBounded, LogIsBacked, CountsFitAlways,
     StepImplementsMail, PTL DEF Spec, ImplementsMail, Mail!Spec
=============================================================================
