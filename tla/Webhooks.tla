----------------------------- MODULE Webhooks ------------------------------
(***************************************************************************)
(* SendGrid's delivery events (src/src/modules/webhooks and                *)
(* src/src/infrastructure/lock/redlock.ts), in processes that come and go, *)
(* next to the e-mail jobs whose rows in EmailLog the events are about.    *)
(*                                                                         *)
(* SendGrid reports an event by a POST, and may POST it more than once.    *)
(* The controller answers in the turn in which it starts processEvent,     *)
(* which nobody waits for: a task that takes a lock in Redis named after   *)
(* the event, runs the handler and releases the lock.  The name is no more *)
(* than a guess at the event: without an sg_event_id it is made of the     *)
(* address, the second and the type, which another event may have as well. *)
(*                                                                         *)
(* Redis, SendGrid and PostgreSQL are modelled from how the code uses      *)
(* them.  Of an e-mail job only what concerns the events is here;          *)
(* EmailDelivery has the rest.  A process is there or not: Lifecycle has   *)
(* how it starts and ends, and no end of it waits for a task.              *)
(***************************************************************************)
EXTENDS Naturals, FiniteSets

CONSTANTS
    Procs,       \* processes of the service
    Messages,    \* e-mails that SendGrid gets, each in one run of a job
    Addresses,   \* e-mail addresses, as text
    Recipient,   \* per message: the address its job was queued for
    Lower,       \* per address: what toLowerCase makes of it
    Posts,       \* POSTs of an event; those of one event are its copies
    MaxPosts,    \* bound: so many of them are made
    Ids,         \* sg_event_ids, and what stands in for them
    EventOf,     \* per POST: the event, a [kind, msg, id]
    Nobody,      \* "no task"
    Nowhere      \* "no process"

Kinds == {"delivered", "temporary", "permanent", "complaint", "unsubscribe", "open"}

\* Two events may have one id: a temporary and a permanent bounce, say, or two
\* deliveries to one address in one second.
Event == [kind : Kinds, msg : Messages, id : Ids]

ASSUME MailAssumption ==
    /\ Recipient \in [Messages -> Addresses]
    /\ Lower \in [Addresses -> Addresses]
    /\ EventOf \in [Posts -> Event]

ASSUME BoundAssumption == MaxPosts \in Nat

ASSUME NullAssumption ==
    /\ Nobody \notin Posts
    /\ Nowhere \notin Procs

VARIABLES
    up,        \* processes that serve
    mail,      \* per message: how far the run is that sends it
    row,       \* per message: status of its row in EmailLog
    bounced,   \* addresses with a row in EmailBounce
    pc,        \* per POST: what the controller, then its task, does next
    at,        \* per POST: the process that is at work on it
    lock,      \* per id: the task whose value the key in Redis has
    locked,    \* history: tasks that have had the lock
    unheard,   \* history: tasks for which the key was set, the reply being lost
    overran,   \* history: tasks in a handler that their lock ran out on
    wrote,     \* history: tasks whose handler's statement succeeded
    early      \* history: those of them that found no row of their message

tables == <<row, bounced>>
tasks  == <<pc, at, lock, locked, unheard, overran, wrote, early>>
vars   == <<up, mail, tables, tasks>>

Running   == {"acquire", "handle", "release"}
Finished  == {"handled", "duplicate", "dropped", "lost"}
TaskSteps == {"none", "posted", "refused"} \cup Running \cup Finished

Init ==
    /\ up = Procs
    /\ mail = [m \in Messages |-> "queued"]
    /\ row = [m \in Messages |-> "none"]
    /\ bounced = {}
    /\ pc = [d \in Posts |-> "none"]
    /\ at = [d \in Posts |-> Nowhere]
    /\ lock = [i \in Ids |-> Nobody]
    /\ locked = {} /\ unheard = {} /\ overran = {} /\ wrote = {} /\ early = {}

Goto(d, step) == pc' = [pc EXCEPT ![d] = step] /\ at' = at

Finish(d, step) ==
    /\ pc' = [pc EXCEPT ![d] = step]
    /\ at' = [at EXCEPT ![d] = Nowhere]

(***************************************************************************)
(* The e-mail job                                                          *)
(***************************************************************************)
\* SendGrid has accepted the message, and may report events of it from now on.
Send(m) ==
    /\ mail[m] = "queued"
    /\ mail' = [mail EXCEPT ![m] = "sent"]
    /\ UNCHANGED <<up, tables, tasks>>

\* The worker writes the row, or fails to, or is dead by then.
Log(m) ==
    /\ mail[m] = "sent"
    /\ mail' = [mail EXCEPT ![m] = "over"]
    /\ \/ row' = [row EXCEPT ![m] = "SENT"]
       \/ row' = row
    /\ UNCHANGED <<up, bounced, tasks>>

(***************************************************************************)
(* The controller                                                          *)
(***************************************************************************)
Post(p, d) ==
    /\ pc[d] = "none"
    /\ Cardinality({c \in Posts : pc[c] # "none"}) < MaxPosts
    /\ mail[EventOf[d].msg] # "queued"
    /\ p \in up
    /\ pc' = [pc EXCEPT ![d] = "posted"]
    /\ at' = [at EXCEPT ![d] = p]
    /\ UNCHANGED <<up, mail, tables, lock, locked, unheard, overran, wrote, early>>

\* The signature is not that of the body: status 401.
Refuse(d) ==
    /\ pc[d] = "posted"
    /\ Finish(d, "refused")
    /\ UNCHANGED <<up, mail, tables, lock, locked, unheard, overran, wrote, early>>

\* void processEvent(event), and status 200.
Spawn(d) ==
    /\ pc[d] = "posted"
    /\ Goto(d, "acquire")
    /\ UNCHANGED <<up, mail, tables, lock, locked, unheard, overran, wrote, early>>

(***************************************************************************)
(* processEvent                                                            *)
(***************************************************************************)
\* Fault: the name of the lock has nothing of the event.
SharedKey(d) == CHOOSE i \in Ids : TRUE

\* resourceKey: sg_event_id, or else address, time and type.
Key(d) == EventOf[d].id

\* Fault: the key is set, also if it exists.
TakeAnyKey(d) ==
    /\ pc[d] = "acquire"
    /\ lock' = [lock EXCEPT ![Key(d)] = d]

\* Redlock (external) sets the key if it does not exist.
TakeKey(d) ==
    /\ pc[d] = "acquire"
    /\ lock[Key(d)] = Nobody
    /\ lock' = [lock EXCEPT ![Key(d)] = d]

Acquire(d) ==
    /\ TakeKey(d)
    /\ locked' = locked \cup {d}
    /\ Goto(d, "handle")
    /\ UNCHANGED <<up, mail, tables, unheard, overran, wrote, early>>

\* The key is set, and the reply is lost with the connection.  As
\* maxRetriesPerRequest is null, ioredis sends the script again, which now
\* finds the key and is refused.
LoseReply(d) ==
    /\ TakeKey(d)
    /\ unheard' = unheard \cup {d}
    /\ UNCHANGED <<up, mail, tables, pc, at, locked, overran, wrote, early>>

\* Redlock deletes the key if its value is that of this task, and does
\* nothing otherwise, or when it does not get through.
DropKey(d) ==
    \/ lock[Key(d)] = d /\ lock' = [lock EXCEPT ![Key(d)] = Nobody]
    \/ lock' = lock

\* Fault: it is tried again for as long as the lock is held.
NeverGiveUp(d) == FALSE /\ UNCHANGED vars

\* REDLOCK_RETRY_COUNT tries were in vain: an ExecutionError, taken for a
\* duplicate, whoever the key is of.  Redlock cleans up before it throws.
GiveUp(d) ==
    /\ pc[d] = "acquire"
    /\ lock[Key(d)] # Nobody
    /\ DropKey(d)
    /\ Finish(d, "duplicate")
    /\ UNCHANGED <<up, mail, tables, locked, unheard, overran, wrote, early>>

\* Redis answers with errors, which processEvent takes for a duplicate too;
\* it is kept apart here, as nothing is said of it.  The key may have been set
\* by then (LoseReply), and stay.
RedisFails(d) ==
    /\ pc[d] = "acquire"
    /\ DropKey(d)
    /\ Finish(d, "dropped")
    /\ UNCHANGED <<up, mail, tables, locked, unheard, overran, wrote, early>>

\* The address of the event, as the handlers compare it.
Address(d) == Lower[Recipient[EventOf[d].msg]]

\* Fault: the rows of everybody.
SentRows(d) == {m \in Messages : row[m] = "SENT"}

\* Fault: the status that a row has by default.
QueuedRows(d) == {m \in Messages : row[m] = "QUEUED" /\ Recipient[m] = Address(d)}

\* The rows that handleDelivered updates: those of the address, as it was
\* stored, whichever message the event is about.
Matching(d) == {m \in Messages : row[m] = "SENT" /\ Recipient[m] = Address(d)}

\* handleDelivered.
MarkDelivered(d) ==
    /\ EventOf[d].kind = "delivered"
    /\ row' = [m \in Messages |-> IF m \in Matching(d) THEN "DELIVERED" ELSE row[m]]
    /\ early' = IF row[EventOf[d].msg] = "none" THEN early \cup {d} ELSE early
    /\ wrote' = wrote \cup {d}
    /\ UNCHANGED bounced

\* handleBounce of a temporary bounce; the address is a unique key.
CreateBounce(d) ==
    /\ EventOf[d].kind = "temporary"
    /\ Address(d) \notin bounced
    /\ bounced' = bounced \cup {Address(d)}
    /\ wrote' = wrote \cup {d}
    /\ UNCHANGED <<row, early>>

\* The statement fails, which the handler logs.  It always does for the
\* events that set columns that User does not have (permanent bounces,
\* complaints, unsubscriptions) and for the second bounce of an address.
\* Events of the other kinds have no handler.
NothingWritten(d) == UNCHANGED <<tables, wrote, early>>

\* A handler knows nothing of its lock: it also runs when that has run out.
Handle(d) ==
    /\ pc[d] = "handle"
    /\ MarkDelivered(d) \/ CreateBounce(d) \/ NothingWritten(d)
    /\ Goto(d, "release")
    /\ overran' = overran \ {d}
    /\ UNCHANGED <<up, mail, lock, locked, unheard>>

\* release throws when the key is no longer of this lock, or when Redis
\* fails; the task is over all the same.
Release(d) ==
    /\ pc[d] = "release"
    /\ DropKey(d)
    /\ Finish(d, "handled")
    /\ UNCHANGED <<up, mail, tables, locked, unheard, overran, wrote, early>>

\* The TTL of a key runs out.
LockExpires(i) ==
    /\ lock[i] # Nobody
    /\ lock' = [lock EXCEPT ![i] = Nobody]
    /\ overran' = overran \cup {d \in {lock[i]} : pc[d] = "handle"}
    /\ UNCHANGED <<up, mail, tables, pc, at, locked, unheard, wrote, early>>

(***************************************************************************)
(* Processes                                                               *)
(***************************************************************************)
\* A process ends; its requests and its tasks end with it, also when it is
\* shut down gracefully.  The keys in Redis stay.
Down(p) ==
    /\ p \in up
    /\ up' = up \ {p}
    /\ pc' = [d \in Posts |-> IF at[d] = p THEN "lost" ELSE pc[d]]
    /\ at' = [d \in Posts |-> IF at[d] = p THEN Nowhere ELSE at[d]]
    /\ overran' = {d \in overran : at[d] # p}
    /\ UNCHANGED <<mail, tables, lock, locked, unheard, wrote, early>>

Up(p) ==
    /\ p \notin up
    /\ up' = up \cup {p}
    /\ UNCHANGED <<mail, tables, tasks>>

TaskStep(d) ==
    \/ Acquire(d) \/ LoseReply(d) \/ GiveUp(d) \/ RedisFails(d)
    \/ Handle(d) \/ Release(d)

Next ==
    \/ \E p \in Procs : Down(p) \/ Up(p)
    \/ \E m \in Messages : Send(m) \/ Log(m)
    \/ \E p \in Procs, d \in Posts : Post(p, d)
    \/ \E d \in Posts : Refuse(d) \/ Spawn(d) \/ TaskStep(d)
    \/ \E i \in Ids : LockExpires(i)

Spec == Init /\ [][Next]_vars

(***************************************************************************)
(* A task that runs gets an answer, or an error, from Redis and from the   *)
(* database.  That a lock expires is not needed.                           *)
(***************************************************************************)
Fairness ==
    \A d \in Posts :
        /\ WF_vars(Acquire(d) \/ GiveUp(d))
        /\ WF_vars(Handle(d))
        /\ WF_vars(Release(d))

FairSpec == Spec /\ Fairness

-----------------------------------------------------------------------------
(***************************************************************************)
(* Properties                                                              *)
(***************************************************************************)
\* Every variable has its type.
TypeOK ==
    /\ up \subseteq Procs
    /\ mail \in [Messages -> {"queued", "sent", "over"}]
    /\ row \in [Messages -> {"none", "SENT", "DELIVERED"}]
    /\ bounced \subseteq Addresses
    /\ pc \in [Posts -> TaskSteps]
    /\ at \in [Posts -> Procs \cup {Nowhere}]
    /\ lock \in [Ids -> Posts \cup {Nobody}]
    /\ unheard \subseteq Posts /\ locked \subseteq Posts /\ overran \subseteq locked
    /\ wrote \subseteq locked /\ early \subseteq wrote

\* Two copies of an event are handled at the same time only if one of them
\* outlasted its lock, whatever copies that came too late release.
OneHandlerPerEvent ==
    \A c, d \in Posts :
        c # d /\ EventOf[c] = EventOf[d] /\ pc[c] = "handle" /\ pc[d] = "handle"
            => c \in overran \/ d \in overran

\* What is left of "another container handled this webhook duplicate": an
\* event that was dropped as a duplicate has the id of one that had the lock,
\* and went on to be handled or died with its process, or of one for which
\* the key was set unheard, which may be the event itself.  Where no two events
\* have one id, the first is a copy of it.
DuplicateHasReason ==
    \A d \in Posts :
        pc[d] = "duplicate" =>
            \E c \in Posts :
                /\ EventOf[c].id = EventOf[d].id
                /\ \/ /\ c # d /\ c \in locked
                      /\ pc[c] \in {"handle", "release", "handled", "lost"}
                   \/ c \in unheard

\* A row says DELIVERED, and an address has a bounce, only if an event for
\* that very address was handled.
EffectsHaveEvents ==
    /\ \A m \in Messages :
          row[m] = "DELIVERED" =>
              \E d \in wrote : EventOf[d].kind = "delivered" /\ Address(d) = Recipient[m]
    /\ \A a \in bounced :
          \E d \in wrote : EventOf[d].kind = "temporary" /\ Address(d) = a

\* A row stays SENT, although the delivery of its message was handled, only
\* if the event overtook the row, or if the address is not in lower case.
SentMeansOvertaken ==
    \A d \in wrote :
        (EventOf[d].kind = "delivered" /\ row[EventOf[d].msg] = "SENT")
            => d \in early \/ Address(d) # Recipient[EventOf[d].msg]

\* Every event that was answered with 200 comes to an end: handled, dropped
\* or lost with its process.
EveryEventEnds ==
    \A d \in Posts : pc[d] = "acquire" ~> pc[d] \in Finished

(***************************************************************************)
(* Of the worker, the steps above assume what it keeps (EmailDelivery).    *)
(***************************************************************************)
Mail == INSTANCE MailContract
            WITH sent   <- {m \in Messages : mail[m] # "queued"},
                 logged <- {m \in Messages : row[m] # "none"}

\* Whatever the events do to the rows, a row is written once, for a message
\* that was accepted.
ImplementsMail == Mail!Spec
=============================================================================
