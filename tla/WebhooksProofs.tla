--------------------------- MODULE WebhooksProofs ---------------------------
(***************************************************************************)
(* Proofs about Webhooks, for any number of processes, messages and POSTs. *)
(*                                                                         *)
(* What holds the argument together is the key in Redis: its value is a    *)
(* task that set it under the id of its own event, and knows of it or does *)
(* not; and a handler whose lock has not run out still finds its value     *)
(* there, since only its own release may delete it.                        *)
(***************************************************************************)
EXTENDS Webhooks, TLAPS

\* A task that has had the lock runs its handler, or is over without having
\* been dropped; a handler has had the lock.
LockComesFirst ==
    \A d \in Posts :
        /\ pc[d] \in {"handle", "release"} => d \in locked
        /\ d \in locked => pc[d] \in {"handle", "release", "handled", "lost"}

\* The value of a key is a task for an event with that id.
ValueIsTask ==
    \A i \in Ids :
        lock[i] # Nobody =>
            lock[i] \in locked \cup unheard /\ EventOf[lock[i]].id = i

\* A handler has its lock, unless that ran out.
HandlerHasLock ==
    \A d \in Posts :
        pc[d] = "handle" /\ d \notin overran => lock[EventOf[d].id] = d

LockInv ==
    /\ TypeOK
    /\ LockComesFirst
    /\ ValueIsTask
    /\ HandlerHasLock
    /\ DuplicateHasReason

\* The row of a message is written at the end of the run that sent it.
RowEndsJob == \A m \in Messages : row[m] # "none" => mail[m] = "over"

\* A delivery that was handled while there was no row is known as early.
NoRowIsEarly ==
    \A d \in wrote :
        EventOf[d].kind = "delivered" /\ row[EventOf[d].msg] = "none" => d \in early

TablesInv ==
    /\ RowEndsJob
    /\ NoRowIsEarly
    /\ EffectsHaveEvents
    /\ SentMeansOvertaken

-----------------------------------------------------------------------------
\* What an event is, and that each POST has one.
LEMMA EventTypes ==
    ASSUME NEW d \in Posts
    PROVE  /\ EventOf[d].id \in Ids
           /\ EventOf[d].msg \in Messages
           /\ Address(d) \in Addresses
  BY MailAssumption DEF Event, Address

\* The locks and the tasks, step by step.
LEMMA LockStep == LockInv /\ [Next]_vars => LockInv'
<1> SUFFICES ASSUME LockInv, [Next]_vars PROVE LockInv'
  OBVIOUS
<1> USE NullAssumption, EventTypes
    DEF LockInv, TypeOK, LockComesFirst, ValueIsTask, HandlerHasLock,
        DuplicateHasReason, TaskSteps, Running, Finished, Goto, Finish, Key,
        TakeKey, DropKey, tables, tasks
<1>1. ASSUME NEW p \in Procs, Down(p) PROVE LockInv'
  BY <1>1 DEF Down
<1>2. ASSUME NEW p \in Procs, Up(p) PROVE LockInv'
  BY <1>2 DEF Up
<1>3. ASSUME NEW m \in Messages, Send(m) PROVE LockInv'
  BY <1>3 DEF Send
<1>4. ASSUME NEW m \in Messages, Log(m) PROVE LockInv'
  BY <1>4 DEF Log
<1>5. ASSUME NEW p \in Procs, NEW d \in Posts, Post(p, d) PROVE LockInv'
  BY <1>5 DEF Post
<1>6. ASSUME NEW d \in Posts, Refuse(d) PROVE LockInv'
  BY <1>6 DEF Refuse
<1>7. ASSUME NEW d \in Posts, Spawn(d) PROVE LockInv'
  BY <1>7 DEF Spawn
<1>8. ASSUME NEW d \in Posts, Acquire(d) PROVE LockInv'
  BY <1>8 DEF Acquire
<1>9. ASSUME NEW d \in Posts, GiveUp(d) PROVE LockInv'
  BY <1>9 DEF GiveUp
<1>10. ASSUME NEW d \in Posts, RedisFails(d) PROVE LockInv'
  BY <1>10 DEF RedisFails
<1>11. ASSUME NEW d \in Posts, Handle(d) PROVE LockInv'
  <2>1. /\ row' \in [Messages -> {"none", "SENT", "DELIVERED"}]
        /\ bounced' \subseteq Addresses
        /\ wrote' \subseteq locked /\ early' \subseteq wrote'
    BY <1>11 DEF Handle, MarkDelivered, CreateBounce, NothingWritten
  <2> QED
    BY <1>11, <2>1 DEF Handle
<1>12. ASSUME NEW d \in Posts, Release(d) PROVE LockInv'
  BY <1>12 DEF Release
<1>13. ASSUME NEW i \in Ids, LockExpires(i) PROVE LockInv'
  BY <1>13 DEF LockExpires
<1>14. ASSUME NEW d \in Posts, LoseReply(d) PROVE LockInv'
  BY <1>14 DEF LoseReply
<1>15. CASE UNCHANGED vars
  BY <1>15 DEF vars
<1> QED
  BY <1>1, <1>2, <1>3, <1>4, <1>5, <1>6, <1>7, <1>8, <1>9, <1>10, <1>11,
     <1>12, <1>13, <1>14, <1>15 DEF Next, TaskStep

\* Only Send, Log and Handle touch what the events are about.
LEMMA TablesStep == LockInv /\ TablesInv /\ [Next]_vars => TablesInv'
<1> SUFFICES ASSUME LockInv, TablesInv, [Next]_vars PROVE TablesInv'
  OBVIOUS
<1> USE EventTypes
    DEF TablesInv, RowEndsJob, NoRowIsEarly, EffectsHaveEvents, SentMeansOvertaken,
        LockInv, TypeOK
<1>1. ASSUME UNCHANGED <<mail, tables, wrote, early>> PROVE TablesInv'
  BY <1>1 DEF tables, Address
<1>2. ASSUME NEW m \in Messages, Send(m) PROVE TablesInv'
  BY <1>2 DEF Send, tables, tasks, Address
<1>3. ASSUME NEW m \in Messages, Log(m) PROVE TablesInv'
  BY <1>3 DEF Log, tasks, Address
<1>4. ASSUME NEW d \in Posts, Handle(d) PROVE TablesInv'
  <2>1. CASE MarkDelivered(d)
    <3>1. /\ wrote' = wrote \cup {d} /\ bounced' = bounced /\ mail' = mail
          /\ EventOf[d].kind = "delivered"
          /\ d \in early' <=> d \in early \/ row[EventOf[d].msg] = "none"
          /\ early \subseteq early'
      BY <1>4, <2>1 DEF MarkDelivered, Handle
    <3>2. ASSUME NEW m \in Messages
          PROVE  row'[m] = IF row[m] = "SENT" /\ Recipient[m] = Address(d)
                             THEN "DELIVERED" ELSE row[m]
      BY <2>1 DEF MarkDelivered, Matching
    <3>3. RowEndsJob'
      BY <3>1, <3>2
    <3>4. NoRowIsEarly'
      BY <3>1, <3>2
    <3>5. EffectsHaveEvents'
      BY <3>1, <3>2 DEF Address
    <3>6. SentMeansOvertaken'
      BY <3>1, <3>2 DEF Address
    <3> QED
      BY <3>3, <3>4, <3>5, <3>6
  <2>2. CASE CreateBounce(d)
    BY <1>4, <2>2 DEF CreateBounce, Handle, Address
  <2>3. CASE NothingWritten(d)
    BY <1>4, <2>3, <1>1 DEF NothingWritten, Handle
  <2> QED
    BY <1>4, <2>1, <2>2, <2>3 DEF Handle
<1>5. ASSUME NEW p \in Procs, Down(p) \/ Up(p) PROVE TablesInv'
  BY <1>1, <1>5 DEF Down, Up, tasks
<1>6. ASSUME NEW p \in Procs, NEW d \in Posts, Post(p, d) PROVE TablesInv'
  BY <1>1, <1>6 DEF Post
<1>7. ASSUME NEW d \in Posts, Refuse(d) \/ Spawn(d) PROVE TablesInv'
  BY <1>1, <1>7 DEF Refuse, Spawn
<1>8. ASSUME NEW d \in Posts,
             Acquire(d) \/ LoseReply(d) \/ GiveUp(d) \/ RedisFails(d) \/ Release(d)
      PROVE  TablesInv'
  BY <1>1, <1>8 DEF Acquire, LoseReply, GiveUp, RedisFails, Release
<1>9. ASSUME NEW i \in Ids, LockExpires(i) PROVE TablesInv'
  BY <1>1, <1>9 DEF LockExpires
<1>10. CASE UNCHANGED vars
  BY <1>1, <1>10 DEF vars, tasks
<1> QED
  BY <1>2, <1>3, <1>4, <1>5, <1>6, <1>7, <1>8, <1>9, <1>10 DEF Next, TaskStep

\* Both invariants hold in every reachable state.
THEOREM InductiveInvariant == Spec => [](LockInv /\ TablesInv)
<1>1. Init => LockInv
  BY NullAssumption
     DEF Init, LockInv, TypeOK, LockComesFirst, ValueIsTask, HandlerHasLock,
         DuplicateHasReason, TaskSteps
<1>2. Init => TablesInv
  BY DEF Init, TablesInv, RowEndsJob, NoRowIsEarly, EffectsHaveEvents,
         SentMeansOvertaken
<1> QED
  BY <1>1, <1>2, LockStep, TablesStep, PTL DEF Spec

\* Every variable has its type.
THEOREM TypeCorrect == Spec => []TypeOK
<1>1. LockInv => TypeOK
  BY DEF LockInv
<1> QED
  BY <1>1, InductiveInvariant, PTL

\* processEvent handles no two copies of an event at a time, but for one
\* whose lock ran out.
THEOREM LockExcludes == Spec => []OneHandlerPerEvent
<1>1. LockInv => OneHandlerPerEvent
  BY DEF LockInv, HandlerHasLock, OneHandlerPerEvent
<1> QED
  BY <1>1, InductiveInvariant, PTL

\* processEvent drops an event as a duplicate if another one with its id had
\* the lock, or if the key was set and nobody heard of it.
THEOREM DropsHaveReason == Spec => []DuplicateHasReason
<1>1. LockInv => DuplicateHasReason
  BY DEF LockInv
<1> QED
  BY <1>1, InductiveInvariant, PTL

\* No two events have one id, which SendGrid promises of sg_event_id.
IdsTellApart ==
    \A c, d \in Posts : EventOf[c].id = EventOf[d].id => EventOf[c] = EventOf[d]

\* An event that was dropped as a duplicate has a copy that was not dropped,
\* or the reply to a copy of it was lost.
CopyIsKept ==
    \A d \in Posts :
        pc[d] = "duplicate" =>
            \E c \in Posts :
                /\ EventOf[c] = EventOf[d]
                /\ c \in unheard \/ pc[c] \in {"handle", "release", "handled", "lost"}

\* Only with ids of SendGrid's own does processEvent drop nothing but copies:
\* then one of them was handled or died, unless a reply of Redis was lost.
THEOREM DropsOnlyCopies ==
    ASSUME IdsTellApart
    PROVE  Spec => []CopyIsKept
<1>1. LockInv => CopyIsKept
  BY IdsTellApart DEF LockInv, DuplicateHasReason, IdsTellApart, CopyIsKept
<1> QED
  BY <1>1, InductiveInvariant, PTL

\* handleDelivered and handleBounce write what an event is for.
THEOREM EffectsAreCaused == Spec => []EffectsHaveEvents
<1>1. TablesInv => EffectsHaveEvents
  BY DEF TablesInv
<1> QED
  BY <1>1, InductiveInvariant, PTL

\* handleDelivered misses the row of its message for one of two reasons only.
THEOREM DeliveryIsMissedEarly == Spec => []SentMeansOvertaken
<1>1. TablesInv => SentMeansOvertaken
  BY DEF TablesInv
<1> QED
  BY <1>1, InductiveInvariant, PTL

LEMMA StepImplementsMail ==
    LockInv /\ TablesInv /\ [Next]_vars => [Mail!Next]_(Mail!vars)
<1> SUFFICES ASSUME LockInv, TablesInv, [Next]_vars
             PROVE  Mail!Next \/ UNCHANGED Mail!vars
  OBVIOUS
<1> USE DEF LockInv, TypeOK
<1> DEFINE sent == {m \in Messages : mail[m] # "queued"}
           rows == {m \in Messages : row[m] # "none"}
<1>1. ASSUME sent' = sent, rows' = rows PROVE UNCHANGED Mail!vars
  BY <1>1 DEF Mail!vars
<1>2. ASSUME NEW m \in Messages, Send(m) PROVE Mail!Next
  <2>1. m \notin sent /\ sent' = sent \cup {m} /\ rows' = rows
    BY <1>2 DEF Send, tables
  <2> QED
    BY <2>1 DEF Mail!Next, Mail!Accept
<1>3. ASSUME NEW m \in Messages, Log(m) PROVE Mail!Next \/ UNCHANGED Mail!vars
  <2>1. m \in sent \ rows /\ sent' = sent
    BY <1>3 DEF Log, TablesInv, RowEndsJob
  <2>2. rows' = rows \/ rows' = rows \cup {m}
    BY <1>3 DEF Log
  <2> QED
    BY <1>1, <2>1, <2>2 DEF Mail!Next, Mail!Record
<1>4. ASSUME NEW d \in Posts, Handle(d) PROVE UNCHANGED Mail!vars
  <2>1. sent' = sent
    BY <1>4 DEF Handle
  <2>2. rows' = rows
    BY <1>4 DEF Handle, MarkDelivered, Matching, CreateBounce, NothingWritten, tables
  <2> QED
    BY <1>1, <2>1, <2>2
<1>5. ASSUME UNCHANGED <<mail, row>> PROVE UNCHANGED Mail!vars
  BY <1>1, <1>5
<1> QED
  BY <1>2, <1>3, <1>4, <1>5 DEF Next, vars, tables, tasks, TaskStep, Down, Up, Post,
     Refuse, Spawn, Acquire, LoseReply, GiveUp, RedisFails, Release, LockExpires

\* The webhooks see a worker that keeps the contract, and leave it kept: they
\* neither write nor remove a row, whatever they make of its status.
THEOREM WebhooksKeepContract == Spec => ImplementsMail
<1>1. Init => Mail!Init
  BY DEF Init, Mail!Init
<1> QED
  BY <1>1, InductiveInvariant, StepImplementsMail, PTL DEF Spec, ImplementsMail, Mail!Spec
=============================================================================
