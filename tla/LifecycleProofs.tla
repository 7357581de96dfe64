-------------------------- MODULE LifecycleProofs ---------------------------
(***************************************************************************)
(* Proofs about Lifecycle, for any number of processes, signals, requests  *)
(* and jobs: an exit with status 0 cuts nothing off.                       *)
(*                                                                         *)
(* A shutdown that has passed server.close() has seen the last connection  *)
(* go, and no new one can come; one that has passed worker.close() has     *)
(* seen the last job end, or an error.  Both facts last while the other    *)
(* shutdowns of the process go on.                                         *)
(***************************************************************************)
EXTENDS Lifecycle, TLAPS

\* Only a process that serves, or has served, is shutting down.
SignalsComeLate ==
    \A p \in Procs, s \in Signals :
        chain[p][s] # "none" => stage[p] \in {"serving", "clean", "failed"}

\* What each shutdown has seen holds for as long as the process is there.
ClosedIsDrained ==
    \A p \in Procs, s \in Signals :
        chain[p][s] \in {"stopping", "disconnecting"} => open[p] = {}

StoppedIsIdle ==
    \A p \in Procs, s \in Signals :
        chain[p][s] = "disconnecting" => jobs[p] = {} \/ unclean[p]

CleanWasShutDown ==
    \A p \in Procs :
        stage[p] = "clean" => \E s \in Signals : chain[p][s] = "disconnecting"

IInv ==
    /\ TypeOK
    /\ SignalsComeLate
    /\ ClosedIsDrained
    /\ StoppedIsIdle
    /\ CleanWasShutDown

-----------------------------------------------------------------------------
\* The steps of start(), and a crash, keep the invariant.
LEMMA StartKeeps ==
    ASSUME IInv, NEW p \in Procs, Start(p) \/ Crash(p)
    PROVE  IInv'
<1> USE DEF IInv, TypeOK, SignalsComeLate, ClosedIsDrained, StoppedIsIdle,
            CleanWasShutDown, Stages, Gone, Links, Reach, Alive
<1>1. CASE Boot(p)
  BY <1>1 DEF Boot
<1>2. CASE Connect(p)
  BY <1>2 DEF Connect
<1>3. CASE Listen(p)
  BY <1>3 DEF Listen
<1>4. CASE Crash(p)
  BY <1>4 DEF Crash
<1> QED
  BY <1>1, <1>2, <1>3, <1>4 DEF Start

\* The steps of a shutdown, and its timer, keep the invariant.
LEMMA ShutdownKeeps ==
    ASSUME IInv, NEW p \in Procs, NEW s \in Signals, Shutdown(p, s) \/ ForceExit(p)
    PROVE  IInv'
<1> USE DEF IInv, TypeOK, SignalsComeLate, ClosedIsDrained, StoppedIsIdle,
            CleanWasShutDown, Stages, Gone, Links, Reach, Link
<1>1. CASE Signal(p, s)
  BY <1>1 DEF Signal
<1>2. CASE Close(p, s)
  BY <1>2 DEF Close, Drained
<1>3. CASE Stop(p, s)
  BY <1>3 DEF Stop
<1>4. CASE StopFails(p, s)
  BY <1>4 DEF StopFails
<1>5. CASE Exit(p, s)
  BY <1>5 DEF Exit
<1>6. CASE ForceExit(p)
  BY <1>6 DEF ForceExit
<1> QED
  BY <1>1, <1>2, <1>3, <1>4, <1>5, <1>6 DEF Shutdown

\* Requests and jobs keep the invariant: none begins that a shutdown has
\* seen the last of.
LEMMA WorkKeeps ==
    ASSUME IInv, NEW p \in Procs,
           \/ \E r \in Requests : Accept(p, r) \/ Respond(p, r)
           \/ \E j \in Jobs : Take(p, j) \/ End(p, j)
    PROVE  IInv'
<1> USE DEF IInv, TypeOK, SignalsComeLate, ClosedIsDrained, StoppedIsIdle,
            CleanWasShutDown, Stages, Gone, Links
<1>1. ASSUME NEW r \in Requests, Accept(p, r) PROVE IInv'
  <2>1. ASSUME NEW s \in Signals, chain[p][s] \in {"stopping", "disconnecting"}
        PROVE  FALSE
    BY <1>1, <2>1 DEF Accept, Stopping
  <2> QED
    BY <1>1, <2>1 DEF Accept
<1>2. ASSUME NEW r \in Requests, Respond(p, r) PROVE IInv'
  BY <1>2 DEF Respond
<1>3. ASSUME NEW j \in Jobs, Take(p, j) PROVE IInv'
  BY <1>3 DEF Take, Halted
<1>4. ASSUME NEW j \in Jobs, End(p, j) PROVE IInv'
  BY <1>4 DEF End, Alive
<1> QED
  BY <1>1, <1>2, <1>3, <1>4

\* The invariant holds in every reachable state.
THEOREM InductiveInvariant == Spec => []IInv
<1>1. Init => IInv
  BY DEF Init, IInv, TypeOK, SignalsComeLate, ClosedIsDrained, StoppedIsIdle,
         CleanWasShutDown, Stages, Gone, Links
<1>2. IInv /\ [Next]_vars => IInv'
  <2> SUFFICES ASSUME IInv, [Next]_vars PROVE IInv'
    OBVIOUS
  <2>1. ASSUME NEW p \in Procs, Start(p) \/ Crash(p) PROVE IInv'
    BY <2>1, StartKeeps
  <2>2. ASSUME NEW p \in Procs, ForceExit(p) PROVE IInv'
    <3>1. PICK s \in Signals : chain[p][s] # "none"
      BY <2>2 DEF ForceExit, Stopping
    <3> QED
      BY <2>2, <3>1, ShutdownKeeps
  <2>3. ASSUME NEW p \in Procs, NEW s \in Signals, Shutdown(p, s) PROVE IInv'
    BY <2>3, ShutdownKeeps
  <2>4. ASSUME NEW p \in Procs, NEW r \in Requests, Accept(p, r) \/ Respond(p, r)
        PROVE  IInv'
    BY <2>4, WorkKeeps
  <2>5. ASSUME NEW p \in Procs, NEW j \in Jobs, Take(p, j) \/ End(p, j)
        PROVE  IInv'
    BY <2>5, WorkKeeps
  <2>6. CASE UNCHANGED vars
    BY <2>6 DEF vars, IInv, TypeOK, SignalsComeLate, ClosedIsDrained,
                StoppedIsIdle, CleanWasShutDown
  <2> QED
    BY <2>1, <2>2, <2>3, <2>4, <2>5, <2>6 DEF Next
<1> QED
  BY <1>1, <1>2, PTL DEF Spec

\* Every variable has its type.
THEOREM TypeCorrect == Spec => []TypeOK
<1>1. IInv => TypeOK
  BY DEF IInv
<1> QED
  BY <1>1, InductiveInvariant, PTL

\* gracefulShutdown reaches process.exit(0) only when the requests are
\* answered, and the jobs are done or the worker could not be stopped.
THEOREM ExitIsClean == Spec => []CleanExitLosesNothing
<1>1. IInv => CleanExitLosesNothing
  BY DEF IInv, CleanWasShutDown, ClosedIsDrained, StoppedIsIdle,
         CleanExitLosesNothing
<1> QED
  BY <1>1, InductiveInvariant, PTL
=============================================================================
