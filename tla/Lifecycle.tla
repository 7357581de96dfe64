----------------------------- MODULE Lifecycle -----------------------------
(***************************************************************************)
(* The life of the service's processes (src/src/index.ts): they start,     *)
(* serve, shut down on a signal and are started again.                     *)
(*                                                                         *)
(* Of what a process does there are its HTTP requests and the jobs of its  *)
(* e-mail worker, which the shutdown waits for.  It does not wait for work *)
(* that the handlers leave behind ("void ..."): see Webhooks.              *)
(*                                                                         *)
(* Each signal starts a shutdown of its own.  The second one finds the     *)
(* server closed already, but its callback runs as well, when the last     *)
(* connection is gone.                                                     *)
(***************************************************************************)
EXTENDS Naturals

CONSTANTS
    Procs,     \* processes (containers) of the service
    Signals,   \* signals a process may get: SIGTERM, SIGINT
    Requests,  \* requests of clients
    Jobs       \* jobs in the e-mail queue

VARIABLES
    stage,    \* per process: how far it has come
    chain,    \* per process and signal: the step its shutdown is at
    open,     \* per process: requests whose connection is open
    jobs,     \* per process: jobs its worker is running
    unclean   \* per process: emailWorker.stop() threw

vars == <<stage, chain, open, jobs, unclean>>

\* "clean" is process.exit(0), "failed" is process.exit(1) or a crash.
Gone   == {"down", "clean", "failed"}
Stages == {"database", "worker", "serving"} \cup Gone
Links  == {"none", "closing", "stopping", "disconnecting"}

Init ==
    /\ stage = [p \in Procs |-> "down"]
    /\ chain = [p \in Procs |-> [s \in Signals |-> "none"]]
    /\ open = [p \in Procs |-> {}]
    /\ jobs = [p \in Procs |-> {}]
    /\ unclean = [p \in Procs |-> FALSE]

Alive(p)    == stage[p] \notin Gone
Stopping(p) == \E s \in Signals : chain[p][s] # "none"

\* worker.close() has been called: BullMQ fetches no more jobs.
Halted(p) == \E s \in Signals : chain[p][s] \in {"stopping", "disconnecting"}

Reach(p, to)   == stage' = [stage EXCEPT ![p] = to]
Link(p, s, to) == chain' = [chain EXCEPT ![p][s] = to]

(***************************************************************************)
(* start()                                                                 *)
(***************************************************************************)
\* The process is started, or started again; it knows nothing of before.
Boot(p) ==
    /\ ~Alive(p)
    /\ Reach(p, "database")
    /\ chain' = [chain EXCEPT ![p] = [s \in Signals |-> "none"]]
    /\ open' = [open EXCEPT ![p] = {}]
    /\ jobs' = [jobs EXCEPT ![p] = {}]
    /\ unclean' = [unclean EXCEPT ![p] = FALSE]

\* SELECT 1 succeeds.
Connect(p) ==
    /\ stage[p] = "database"
    /\ Reach(p, "worker")
    /\ UNCHANGED <<chain, open, jobs, unclean>>

\* The worker runs, the server listens and the handlers are registered: the
\* last two happen in one turn.
Listen(p) ==
    /\ stage[p] = "worker"
    /\ Reach(p, "serving")
    /\ UNCHANGED <<chain, open, jobs, unclean>>

\* A step of start() fails, an exception or a rejection is not handled, or
\* the process is killed; a signal before there are handlers does that too.
Crash(p) ==
    /\ Alive(p)
    /\ Reach(p, "failed")
    /\ UNCHANGED <<chain, open, jobs, unclean>>

(***************************************************************************)
(* gracefulShutdown()                                                      *)
(***************************************************************************)
\* server.close() takes no more connections.
Signal(p, s) ==
    /\ stage[p] = "serving"
    /\ chain[p][s] = "none"
    /\ Link(p, s, "closing")
    /\ UNCHANGED <<stage, open, jobs, unclean>>

\* Fault: server.close() is not waited for.
NoWait(p) == TRUE

\* The server emits "close" when the last connection has gone.
Drained(p) == open[p] = {}

\* The callback of server.close() calls emailWorker.stop().
Close(p, s) ==
    /\ stage[p] = "serving"
    /\ chain[p][s] = "closing"
    /\ Drained(p)
    /\ Link(p, s, "stopping")
    /\ UNCHANGED <<stage, open, jobs, unclean>>

\* worker.close() resolves when no job is active; both shutdowns wait for
\* the same promise.
Stop(p, s) ==
    /\ stage[p] = "serving"
    /\ chain[p][s] = "stopping"
    /\ jobs[p] = {}
    /\ Link(p, s, "disconnecting")
    /\ UNCHANGED <<stage, open, jobs, unclean>>

\* emailWorker.stop() throws; the shutdown goes on.
StopFails(p, s) ==
    /\ stage[p] = "serving"
    /\ chain[p][s] = "stopping"
    /\ Link(p, s, "disconnecting")
    /\ unclean' = [unclean EXCEPT ![p] = TRUE]
    /\ UNCHANGED <<stage, open, jobs>>

\* $disconnect and process.exit(0).  If it rejects, the process crashes.
Exit(p, s) ==
    /\ stage[p] = "serving"
    /\ chain[p][s] = "disconnecting"
    /\ Reach(p, "clean")
    /\ UNCHANGED <<chain, open, jobs, unclean>>

\* Fault: the timer is started in the callback of server.close().
ForceExitLate(p) ==
    /\ stage[p] = "serving"
    /\ Halted(p)
    /\ Reach(p, "failed")
    /\ UNCHANGED <<chain, open, jobs, unclean>>

\* Thirty seconds after a signal: process.exit(1).
ForceExit(p) ==
    /\ stage[p] = "serving"
    /\ Stopping(p)
    /\ Reach(p, "failed")
    /\ UNCHANGED <<chain, open, jobs, unclean>>

(***************************************************************************)
(* Requests and jobs                                                       *)
(***************************************************************************)
\* A request comes over a new connection, or, while the server closes, over
\* one that is still open.
Accept(p, r) ==
    /\ stage[p] = "serving"
    /\ Stopping(p) => open[p] # {}
    /\ open' = [open EXCEPT ![p] = @ \cup {r}]
    /\ UNCHANGED <<stage, chain, jobs, unclean>>

Respond(p, r) ==
    /\ stage[p] = "serving"
    /\ r \in open[p]
    /\ open' = [open EXCEPT ![p] = @ \ {r}]
    /\ UNCHANGED <<stage, chain, jobs, unclean>>

\* The worker runs from the moment it is started; a job that another process
\* died with comes again.
Take(p, j) ==
    /\ stage[p] \in {"worker", "serving"}
    /\ ~Halted(p)
    /\ jobs' = [jobs EXCEPT ![p] = @ \cup {j}]
    /\ UNCHANGED <<stage, chain, open, unclean>>

End(p, j) ==
    /\ Alive(p)
    /\ j \in jobs[p]
    /\ jobs' = [jobs EXCEPT ![p] = @ \ {j}]
    /\ UNCHANGED <<stage, chain, open, unclean>>

Start(p) == Boot(p) \/ Connect(p) \/ Listen(p)

Shutdown(p, s) ==
    Signal(p, s) \/ Close(p, s) \/ Stop(p, s) \/ StopFails(p, s) \/ Exit(p, s)

Next ==
    \/ \E p \in Procs : Start(p) \/ Crash(p) \/ ForceExit(p)
    \/ \E p \in Procs, s \in Signals : Shutdown(p, s)
    \/ \E p \in Procs, r \in Requests : Accept(p, r) \/ Respond(p, r)
    \/ \E p \in Procs, j \in Jobs : Take(p, j) \/ End(p, j)

\* Only the timer is certain: a request or a job may never end.
Fairness == \A p \in Procs : WF_vars(ForceExit(p))

Spec == Init /\ [][Next]_vars

FairSpec == Spec /\ Fairness

-----------------------------------------------------------------------------
(***************************************************************************)
(* Properties                                                              *)
(***************************************************************************)
\* Every variable has its type.
TypeOK ==
    /\ stage \in [Procs -> Stages]
    /\ chain \in [Procs -> [Signals -> Links]]
    /\ open \in [Procs -> SUBSET Requests]
    /\ jobs \in [Procs -> SUBSET Jobs]
    /\ unclean \in [Procs -> BOOLEAN]

\* An exit with status 0 cuts no request off, and no e-mail job unless the
\* worker could not be stopped, also when two signals came.
CleanExitLosesNothing ==
    \A p \in Procs :
        stage[p] = "clean" => open[p] = {} /\ (jobs[p] = {} \/ unclean[p])

\* A process that got a signal ends, whatever its requests and jobs do.
ShutdownEnds ==
    \A p \in Procs : stage[p] = "serving" /\ Stopping(p) ~> stage[p] \in Gone
=============================================================================
