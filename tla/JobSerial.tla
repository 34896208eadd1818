------------------------------ MODULE JobSerial ------------------------------
(***************************************************************************)
(* The job queue when its operations do not overlap: a single goroutine    *)
(* serves requests and does the maintenance passes.  Here a row is what it *)
(* was when it was read, and the queue keeps the lifecycle of docs/JOBS.md *)
(* to the letter; the runs of JobQueue itself show what is left of it when *)
(* operations overlap.                                                     *)
(***************************************************************************)
EXTENDS JobQueue

ASSUME OneThread == \E t \in Handlers : Handlers = {t} /\ Workers = {t}

Lifecycle == INSTANCE JobLifecycle
             WITH status   <- [j \in Jobs |-> rows[j].status],
                  attempts <- [j \in Jobs |-> rows[j].attempts],
                  told     <- outbox

(* Without overlap the queue implements the documented lifecycle: terminal *)
(* is final, every claim is counted once, each job is announced once and   *)
(* before it is purged, and every terminal job is announced.               *)
ImplementsLifecycle == Lifecycle!LSpec

(* When a scan sends a job back to the queue it has been claimed less      *)
(* often than max_attempts allows: after the last claim it fails instead.  *)
RequeuedWithinBudget ==
  [][\A t \in Threads :
        LET j == thread[t].job
        IN (UpdateJob(t) /\ thread[t].ret = "scan" /\ thread[t].buf.status = "pending")
             => MaxAttempts[j] = 0 \/ claims[j] < MaxAttempts[j]]_vars
=============================================================================
