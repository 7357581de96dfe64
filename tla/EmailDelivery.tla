--------------------------- MODULE EmailDelivery ---------------------------
(***************************************************************************)
(* The e-mail queue and its worker                                         *)
(* (src/src/infrastructure/queue/email.worker.ts, queue.ts and             *)
(* src/src/infrastructure/email/clients/sendgrid.client.ts).               *)
(*                                                                         *)
(* A job is in a BullMQ queue in Redis.  Ten slots of every process fetch  *)
(* jobs, hand the message to SendGrid, log it in EmailLog and report back. *)
(* A slot owns the job it runs by a lock that it renews; when its process  *)
(* dies, or is too busy to renew, the lock runs out and BullMQ gives the   *)
(* job to another slot, while the first one may still be at work on it.    *)
(* BullMQ and SendGrid are modelled from how the code uses them.           *)
(***************************************************************************)
EXTENDS Naturals, FiniteSets

CONSTANTS
    Jobs,        \* e-mails to be sent
    Malformed,   \* those whose data lacks a variable of their template
    Slots,       \* worker slots, of all processes
    Nobody,      \* "no slot"
    NoJob,       \* "no job"
    Attempts,    \* defaultJobOptions.attempts
    MaxStalled   \* BullMQ's maxStalledCount, left at its default

ASSUME JobsAssumption ==
    /\ Malformed \subseteq Jobs
    /\ NoJob \notin Jobs
    /\ Nobody \notin Slots
    /\ IsFiniteSet(Slots)

ASSUME LimitsAssumption ==
    /\ Attempts \in Nat \ {0}
    /\ MaxStalled \in Nat

VARIABLES
    job,       \* state of each job in the queue
    tried,     \* per job: attemptsMade
    stalled,   \* per job: stalledCounter
    holder,    \* per job: the slot whose lock is in Redis, or Nobody
    pc,        \* per slot: what it does next
    task,      \* per slot: the job it runs, or NoJob
    accepted,  \* history: messages SendGrid accepted for the job
    logged     \* per job: EmailLog rows with status SENT

queue  == <<job, tried, stalled, holder>>
worker == <<pc, task>>
vars   == <<queue, worker, accepted, logged>>

States == {"none", "wait", "active", "delayed", "completed", "failed"}
Over   == {"completed", "failed"}

Init ==
    /\ job = [j \in Jobs |-> "none"]
    /\ tried = [j \in Jobs |-> 0]
    /\ stalled = [j \in Jobs |-> 0]
    /\ holder = [j \in Jobs |-> Nobody]
    /\ pc = [s \in Slots |-> "idle"]
    /\ task = [s \in Slots |-> NoJob]
    /\ accepted = [j \in Jobs |-> 0]
    /\ logged = [j \in Jobs |-> 0]

Goto(s, step) == pc' = [pc EXCEPT ![s] = step]

\* The slot is free again.
Free(s) ==
    /\ pc' = [pc EXCEPT ![s] = "idle"]
    /\ task' = [task EXCEPT ![s] = NoJob]

\* A handler adds the job ("void EmailQueueManager.queue...").
Add(j) ==
    /\ job[j] = "none"
    /\ job' = [job EXCEPT ![j] = "wait"]
    /\ UNCHANGED <<tried, stalled, holder, worker, accepted, logged>>

Fetch(s, j) ==
    /\ pc[s] = "idle"
    /\ job[j] = "wait"
    /\ job' = [job EXCEPT ![j] = "active"]
    /\ holder' = [holder EXCEPT ![j] = s]
    /\ Goto(s, "send")
    /\ task' = [task EXCEPT ![s] = j]
    /\ UNCHANGED <<tried, stalled, accepted, logged>>

(***************************************************************************)
(* processEmailJob                                                         *)
(***************************************************************************)
\* Every variable the template requires is there.
WellFormed(j) == j \notin Malformed

\* SendGridEmailClient.send: SendGrid accepts the message and says so, or its
\* answer is lost, or it refuses.  The client throws in no case: the last two
\* are a result with success = false.
Post(s) ==
    \/ /\ accepted' = [accepted EXCEPT ![task[s]] = @ + 1]
       /\ Goto(s, "log") \/ Goto(s, "return")
    \/ /\ Goto(s, "return")
       /\ UNCHANGED accepted

\* Fault: the row is written before the message is sent.
LogFirst(s) ==
    /\ pc[s] = "send"
    /\ WellFormed(task[s])
    /\ logged' = [logged EXCEPT ![task[s]] = @ + 1]
    /\ UNCHANGED <<queue, worker, accepted>>

Send(s) ==
    /\ pc[s] = "send"
    /\ \/ WellFormed(task[s]) /\ Post(s)
       \/ ~ WellFormed(task[s]) /\ Goto(s, "throw") /\ UNCHANGED accepted
    /\ UNCHANGED <<queue, task, logged>>

\* Fault: a failed write makes the handler run the job once more.
LogAgain(s) ==
    /\ pc[s] = "log"
    /\ \/ logged' = [logged EXCEPT ![task[s]] = @ + 1] /\ Goto(s, "return")
       \/ UNCHANGED logged /\ Goto(s, "send")
    /\ UNCHANGED <<queue, task, accepted>>

\* emailLog.create; an error is logged and otherwise ignored.
Log(s) ==
    /\ pc[s] = "log"
    /\ \/ logged' = [logged EXCEPT ![task[s]] = @ + 1]
       \/ UNCHANGED logged
    /\ Goto(s, "return")
    /\ UNCHANGED <<queue, task, accepted>>

\* Fault: a slot that lost its lock completes the job all the same.
ReturnUnlocked(s) ==
    /\ pc[s] = "return"
    /\ job' = [job EXCEPT ![task[s]] = "completed"]
    /\ holder' = [holder EXCEPT ![task[s]] = Nobody]
    /\ Free(s)
    /\ UNCHANGED <<tried, stalled, accepted, logged>>

\* The handler returned, whatever success says: the job is completed and
\* removed, if the slot's lock is still there.
Return(s) ==
    /\ pc[s] = "return"
    /\ IF holder[task[s]] = s
         THEN /\ job' = [job EXCEPT ![task[s]] = "completed"]
              /\ holder' = [holder EXCEPT ![task[s]] = Nobody]
         ELSE UNCHANGED <<job, holder>>
    /\ Free(s)
    /\ UNCHANGED <<tried, stalled, accepted, logged>>

\* Fault: attempts are not counted.
ThrowUncounted(s) ==
    /\ pc[s] = "throw"
    /\ IF holder[task[s]] = s
         THEN /\ job' = [job EXCEPT ![task[s]] = "delayed"]
              /\ holder' = [holder EXCEPT ![task[s]] = Nobody]
         ELSE UNCHANGED <<job, holder>>
    /\ Free(s)
    /\ UNCHANGED <<tried, stalled, accepted, logged>>

\* The handler threw.  Its FAILED row never gets written: it names a column
\* EmailLog does not have, and that error is ignored.  The job is tried again
\* after a delay, up to Attempts times.
Throw(s) ==
    /\ pc[s] = "throw"
    /\ IF holder[task[s]] = s
         THEN LET j == task[s] IN
              /\ tried' = [tried EXCEPT ![j] = @ + 1]
              /\ job' = [job EXCEPT ![j] =
                     IF tried[j] + 1 < Attempts THEN "delayed" ELSE "failed"]
              /\ holder' = [holder EXCEPT ![j] = Nobody]
         ELSE UNCHANGED <<tried, job, holder>>
    /\ Free(s)
    /\ UNCHANGED <<stalled, accepted, logged>>

\* The process of the slot dies; its locks stay in Redis until they run out.
Crash(s) ==
    /\ pc[s] # "idle"
    /\ Free(s)
    /\ UNCHANGED <<queue, accepted, logged>>

(***************************************************************************)
(* BullMQ                                                                  *)
(***************************************************************************)
\* The backoff is over.
Promote(j) ==
    /\ job[j] = "delayed"
    /\ job' = [job EXCEPT ![j] = "wait"]
    /\ UNCHANGED <<tried, stalled, holder, worker, accepted, logged>>

\* lockDuration passed without a renewal.
LockExpires(j) ==
    /\ holder[j] # Nobody
    /\ holder' = [holder EXCEPT ![j] = Nobody]
    /\ UNCHANGED <<job, tried, stalled, worker, accepted, logged>>

\* The periodic check finds a job that is active and has no lock.
Reclaim(j) ==
    /\ job[j] = "active"
    /\ holder[j] = Nobody
    /\ stalled' = [stalled EXCEPT ![j] = @ + 1]
    /\ job' = [job EXCEPT ![j] = IF stalled[j] < MaxStalled THEN "wait" ELSE "failed"]
    /\ UNCHANGED <<tried, holder, worker, accepted, logged>>

Step(s) == Send(s) \/ Log(s) \/ Return(s) \/ Throw(s)

Next ==
    \/ \E j \in Jobs : Add(j)
    \/ \E s \in Slots, j \in Jobs : Fetch(s, j)
    \/ \E s \in Slots : Send(s)
    \/ \E s \in Slots : Log(s)
    \/ \E s \in Slots : Return(s)
    \/ \E s \in Slots : Throw(s)
    \/ \E s \in Slots : Crash(s)
    \/ \E j \in Jobs : Promote(j)
    \/ \E j \in Jobs : LockExpires(j)
    \/ \E j \in Jobs : Reclaim(j)

Spec == Init /\ [][Next]_vars

\* The slot that has the lock of j is not at work on it any more.
Deserted(j) == holder[j] # Nobody /\ task[holder[j]] # j

(***************************************************************************)
(* Workers fetch and run jobs, delays and the locks of dead slots run out, *)
(* and BullMQ checks for stalled jobs.  Nothing makes a handler add one, a *)
(* slot die or a live slot lose its lock.                                  *)
(***************************************************************************)
Fairness ==
    /\ \A s \in Slots : WF_vars(Step(s))
    /\ \A j \in Jobs :
          /\ WF_vars(\E s \in Slots : Fetch(s, j))
          /\ WF_vars(Promote(j))
          /\ WF_vars(Deserted(j) /\ LockExpires(j))
          /\ WF_vars(Reclaim(j))

FairSpec == Spec /\ Fairness

-----------------------------------------------------------------------------
(***************************************************************************)
(* Properties                                                              *)
(***************************************************************************)
\* Every variable has its type, and a counter stays within its limit.
TypeOK ==
    /\ job \in [Jobs -> States]
    /\ tried \in [Jobs -> 0 .. Attempts]
    /\ stalled \in [Jobs -> 0 .. MaxStalled + 1]
    /\ holder \in [Jobs -> Slots \cup {Nobody}]
    /\ pc \in [Slots -> {"idle", "send", "log", "return", "throw"}]
    /\ task \in [Slots -> Jobs \cup {NoJob}]
    /\ accepted \in [Jobs -> Nat]
    /\ logged \in [Jobs -> Nat]

\* An e-mail is sent twice only if the job was taken from a slot that lost
\* its lock, and then once more for each time: no error, retry or answer that
\* never came makes the worker itself send a second copy.
CopiesAreStalls == \A j \in Jobs : accepted[j] <= 1 + stalled[j]

\* A job that is over stays so: a slot that comes back after it lost its lock
\* neither revives a finished job nor changes how it ended.
OverIsFinal ==
    [][\A j \in Jobs : job[j] \in Over => job'[j] = job[j]]_vars

\* No job is left behind, in the queue, in a delay or on a dead slot: each
\* one that is added is completed or failed in the end.
EveryJobEnds == \A j \in Jobs : job[j] = "wait" ~> job[j] \in Over

(***************************************************************************)
(* What the webhooks may rely on.  Message i of job j is the i-th that     *)
(* SendGrid accepts for it.                                                *)
(***************************************************************************)
Copies == Jobs \X (1 .. MaxStalled + 2)

UpTo(count) == {m \in Copies : m[2] <= count[m[1]]}

Mail == INSTANCE MailContract
            WITH Messages <- Copies, sent <- UpTo(accepted), logged <- UpTo(logged)

\* The worker writes a SENT row only after SendGrid has accepted the message,
\* and one row for each, although two slots may be at work on one job and
\* rows may fail to be written.
ImplementsMail == Mail!Spec

(***************************************************************************)
(* What the documents say, and the steps do not keep.                      *)
(***************************************************************************)
\* "Failed emails automatically retry": a job is completed only if SendGrid
\* has accepted its message.
CompletedWasAccepted == \A j \in Jobs : job[j] = "completed" => accepted[j] > 0
=============================================================================
