------------------------------ MODULE JobRunner ------------------------------
(***************************************************************************)
(* The runner in worker mode, on the user's machines: it claims a job, gets *)
(* a session, brings the drive to its mount point, runs the agent command, *)
(* pushes the workspace back and completes the job, with one goroutine for *)
(* heartbeats and one that watches for a cancellation.                     *)
(*                                                                         *)
(* Several runners work for one queue.  The handlers of the queue are      *)
(* atomic here; how they interleave is the subject of JobQueue.  rclone    *)
(* sync makes its target equal to its source: a content says which drive   *)
(* it is of, whether all of it is there, and which jobs' work is in it.    *)
(* All sessions of a runner name the same mount point (AI_CLOUDHUB_MOUNT). *)
(* rclone and the agent are child processes: a runner that dies, or exits  *)
(* on a signal, may leave them working at that mount point.                *)
(***************************************************************************)
EXTENDS Integers, FiniteSets

CONSTANTS
  Jobs, Runners, Drives,
  DriveOf,   \* the drive of a job
  ModeOf,    \* its mode, "mount" or "sync_workspace"
  Timed,     \* the jobs that have a timeout
  Starts     \* the jobs that wait at the start, with the bounds, in that
             \* behaviour, on cancellations, purges and signals (asks) and on
             \* failures (faults)

ASSUME RunnerAssumption == DriveOf \in [Jobs -> Drives]

VARIABLES
  job,       \* status of each job, "gone" when it is purged
  claims,    \* claims of each job so far
  run,       \* what each runner is at
  local,     \* what is at each runner's mount point
  remote,    \* what each drive holds
  armed,     \* runs of each process whose goroutine waits for a signal
  orphans,   \* what runners have left working: rclone sync either way,
             \* rclone mount, and the agent (or its connector)
  asks, faults,  \* what is left of the bounds
  decided,   \* history: the claim whose completion gave the verdict
  late,      \* history: jobs reclaimed from a runner that was at work
  mixed,     \* history: drives at which two runs, or a run and an orphan,
             \* were together, or that a signal pushed to
  failed     \* history: the calls of rclone sync that have failed

queue == <<job, claims, decided>>
data  == <<local, remote, armed, orphans, mixed>>
bound == <<asks, faults, failed>>
vars  == <<queue, run, data, bound, late>>

Idle == [pc |-> "idle"]
Down == [pc |-> "down"]
Synced(j)   == ModeOf[j] = "sync_workspace"
Terminal    == {"succeeded", "failed", "cancelled"}
At(r, pc)   == run[r].pc = pc
Busy(r)     == run[r].pc \notin {"idle", "down"}
JobOf(r)    == run[r].job
DriveAt(r)  == DriveOf[JobOf(r)]
To(r, pc)   == run' = [run EXCEPT ![r].pc = pc]
Ends(r, out) == run' = [run EXCEPT ![r].pc = "cleanup", ![r].out = out]

Ask == asks > 0 /\ asks' = asks - 1 /\ UNCHANGED <<faults, failed>>
Fault == faults > 0 /\ faults' = faults - 1 /\ UNCHANGED <<asks, failed>>
SyncFault(kind) ==
  /\ faults > 0
  /\ faults' = faults - 1
  /\ failed' = failed \cup {kind}
  /\ UNCHANGED asks

-----------------------------------------------------------------------------
(* The queue, as the runners and users see it.                             *)

\* ClaimPendingJob.
Claimable(j) == job[j] = "pending"
Claimed(j) ==
  /\ Claimable(j)
  /\ job' = [job EXCEPT ![j] = "running"]
  /\ claims' = [claims EXCEPT ![j] = @ + 1]
  /\ UNCHANGED decided

\* Complete: a job that is terminal or gone is left alone; any other, whoever
\* has claimed it by now, gets its verdict.
Completed(j, ok, claim) ==
  IF job[j] \in Terminal \cup {"gone"} THEN UNCHANGED <<job, decided>>
  ELSE /\ job' = [job EXCEPT ![j] = IF ok THEN "succeeded" ELSE "failed"]
       /\ decided' = [decided EXCEPT ![j] = claim]

\* cancelStoreJob.
Cancel(j) ==
  /\ Ask
  /\ job[j] \in {"pending", "running"}
  /\ job' = [job EXCEPT ![j] = "cancelled"]
  /\ UNCHANGED <<claims, decided, run, data, late>>

\* PurgeTerminalJobs.
Purge(j) ==
  /\ Ask
  /\ job[j] \in Terminal
  /\ job' = [job EXCEPT ![j] = "gone"]
  /\ UNCHANGED <<claims, decided, run, data, late>>

\* Mutant: the heartbeats end with the agent.
BeatsForAgent(r, j) ==
  Busy(r) /\ JobOf(r) = j /\ run[r].pc \in {"session", "fetch", "prepare", "agent"}

\* startJobHeartbeat: from the claim until runOnce has returned; what is left
\* then, the call of Complete, is within the lease.
Beats(r, j) == Busy(r) /\ JobOf(r) = j

\* ReclaimStale: no heartbeat within the lease, because no runner is at the
\* job, or because heartbeats or a completion were lost or late.  The same step
\* of the row is a timeout the server enforces and an admin's release of a
\* running job; for a runner that is at the job all three are a fault.
Reclaim(j) ==
  /\ job[j] = "running"
  /\ IF \E r \in Runners : Beats(r, j) THEN Fault ELSE UNCHANGED bound
  /\ late' = IF \E r \in Runners : Beats(r, j) THEN late \cup {j} ELSE late
  /\ \E s \in {"pending", "failed"} : job' = [job EXCEPT ![j] = s]
  /\ UNCHANGED <<claims, decided, run, data>>

-----------------------------------------------------------------------------
(* A runner: runWorker and runOnce.                                        *)

\* claimNext: the runner takes what it is given.
ClaimNext(r, j) ==
  /\ At(r, "idle")
  /\ Claimed(j)
  /\ run' = [run EXCEPT ![r] = [pc |-> "session", job |-> j, out |-> "none",
                                claim |-> claims[j] + 1, watch |-> TRUE,
                                stop |-> FALSE]]
  /\ UNCHANGED <<data, bound, late>>

\* The answer to the claim is lost.
ClaimLost(r, j) ==
  /\ At(r, "idle")
  /\ Fault
  /\ Claimed(j)
  /\ UNCHANGED <<run, data, late>>

\* A run that is at its drive and its mount point.
Present(r) == run[r].pc \in {"fetch", "prepare", "agent", "cleanup"}

\* A run of x copies drive d, or a push it left behind does.
AtDrive(x, d) ==
  \/ Present(x) /\ Synced(JobOf(x)) /\ DriveAt(x) = d
  \/ \E o \in orphans[x] : o.kind = "push" /\ DriveOf[o.job] = d

\* The drives that share their content with another run when r begins: with
\* one that copies the same drive, or with what works at the mount point.
Met(r) ==
  LET left == {DriveOf[o.job] : o \in orphans[r]}
  IN  CASE left # {} -> left \cup {DriveAt(r)}
        [] left = {} /\ Synced(JobOf(r)) ->
             {d \in {DriveAt(r)} : \E x \in Runners \ {r} : AtDrive(x, d)}
        [] OTHER -> {}

\* runOnce: the session is issued; without one nothing is cleaned up.
Session(r) ==
  /\ At(r, "session")
  /\ \/ To(r, "fetch") /\ mixed' = mixed \cup Met(r) /\ UNCHANGED bound
     \/ /\ Fault
        /\ run' = [run EXCEPT ![r].pc = "report", ![r].out = "error"]
        /\ UNCHANGED mixed
  /\ UNCHANGED <<queue, local, remote, armed, orphans, late>>

\* The drives that rclone has mounted at the mount point of r.
MountedAt(r) ==
  {DriveOf[o.job] : o \in {p \in orphans[r] : p.kind = "mount"}}
    \cup {d \in Drives : /\ run[r].pc \in {"prepare", "agent", "cleanup"}
                         /\ ~Synced(JobOf(r)) /\ DriveAt(r) = d}

\* What is copied to the mount point of r, or done there by the agent of j,
\* goes to the drive that is mounted over it too.
Copied(r, new) ==
  /\ local' = [local EXCEPT ![r] = new]
  /\ IF MountedAt(r) = {} THEN UNCHANGED remote
     ELSE \E d \in MountedAt(r) : remote' = [remote EXCEPT ![d] = new]
Worked(r, j) ==
  /\ local' = [local EXCEPT ![r].work = @ \cup {j}]
  /\ IF MountedAt(r) = {} THEN UNCHANGED remote
     ELSE \E d \in MountedAt(r) :
            remote' = [remote EXCEPT ![d].work = @ \cup {j}]

\* Mutant: a workspace that is there already is kept.
FetchIfAbsent(r) ==
  /\ At(r, "fetch")
  /\ To(r, "prepare")
  /\ IF Synced(JobOf(r)) /\ local[r].drive # DriveAt(r)
       THEN Copied(r, remote[DriveAt(r)]) ELSE UNCHANGED <<local, remote>>
  /\ UNCHANGED <<queue, armed, orphans, mixed, bound, late>>

\* runOnce: the workspace is pulled, or rclone mount is started.
Fetch(r) ==
  /\ At(r, "fetch")
  /\ To(r, "prepare")
  /\ IF Synced(JobOf(r)) THEN Copied(r, remote[DriveAt(r)])
                         ELSE UNCHANGED <<local, remote>>
  /\ UNCHANGED <<queue, armed, orphans, mixed, bound, late>>

\* runOnce: rclone fails, before it has changed anything or half way.  The
\* cleanup is deferred already.
FetchFails(r) ==
  /\ At(r, "fetch")
  /\ SyncFault("pull")
  /\ Ends(r, "error")
  /\ \/ UNCHANGED <<local, remote>>
     \/ Synced(JobOf(r)) /\ Copied(r, [remote[DriveAt(r)] EXCEPT !.whole = FALSE])
  /\ UNCHANGED <<queue, armed, orphans, mixed, late>>

\* A goroutine will clean up for this run on a signal.
Arms(r) == armed' = [armed EXCEPT ![r] = @ \cup {JobOf(r)}]

\* runOnce: the connector is materialized, the goroutine that cleans up on a
\* signal is armed for the rest of the process, the jail checks the command,
\* and the agent starts with its watcher.
Prepare(r) ==
  /\ At(r, "prepare")
  /\ To(r, "agent")
  /\ Arms(r)
  /\ UNCHANGED <<queue, local, remote, orphans, mixed, bound, late>>

\* A strict connector fails, before the goroutine; the jail or seccomp refuse,
\* after it.
PrepareFails(r) ==
  /\ At(r, "prepare")
  /\ Fault
  /\ Ends(r, "error")
  /\ UNCHANGED armed \/ Arms(r)
  /\ UNCHANGED <<queue, local, remote, orphans, mixed, late>>

\* The agent ends with or without an error; its work is at the mount point.
\* Which error it was (exit code and note) is left out.
AgentEnds(r) ==
  /\ At(r, "agent")
  /\ Ends(r, "ok") \/ Ends(r, "error")
  /\ IF Synced(JobOf(r)) THEN Worked(r, JobOf(r)) ELSE UNCHANGED <<local, remote>>
  /\ UNCHANGED <<queue, armed, orphans, mixed, bound, late>>

\* The deadline of the job, or the watcher, kills the agent.
AgentKilled(r) ==
  /\ At(r, "agent")
  /\ run[r].stop \/ JobOf(r) \in Timed
  /\ Ends(r, "error")
  /\ UNCHANGED <<queue, data, bound, late>>

\* watchJobCancel: only "cancelled" stops the agent ...
Watch(r) ==
  /\ At(r, "agent") /\ run[r].watch
  /\ job[JobOf(r)] = "cancelled"
  /\ run' = [run EXCEPT ![r].watch = FALSE, ![r].stop = TRUE]
  /\ UNCHANGED <<queue, data, bound, late>>

\* Mutant: the watcher gives up at the first error.
WatchGivesUp(r) ==
  /\ At(r, "agent") /\ run[r].watch
  /\ Fault
  /\ run' = [run EXCEPT ![r].watch = FALSE]
  /\ UNCHANGED <<queue, data, late>>

\* ... and an error is passed over.
WatchFails(r) ==
  /\ At(r, "agent") /\ run[r].watch
  /\ Fault
  /\ UNCHANGED <<queue, run, data, late>>

\* cleanup, deferred by runOnce: the workspace is pushed, whatever came
\* before and with its own error ignored; a mount is ended.
Cleanup(r) ==
  /\ At(r, "cleanup")
  /\ To(r, "report")
  /\ \/ /\ remote' = IF Synced(JobOf(r)) THEN [remote EXCEPT ![DriveAt(r)] = local[r]]
                                         ELSE remote
        /\ UNCHANGED bound
     \/ Synced(JobOf(r)) /\ SyncFault("push") /\ UNCHANGED remote
  /\ UNCHANGED <<queue, local, armed, orphans, mixed, late>>

\* runWorker: completeJob, whose error is ignored.
Report(r) ==
  /\ At(r, "report")
  /\ Completed(JobOf(r), run[r].out = "ok", run[r].claim)
  /\ run' = [run EXCEPT ![r] = Idle]
  /\ UNCHANGED <<claims, data, bound, late>>

ReportLost(r) ==
  /\ At(r, "report")
  /\ Fault
  /\ run' = [run EXCEPT ![r] = Idle]
  /\ UNCHANGED <<queue, data, late>>

\* The child processes of the run that r is at.
Child(r, kind) == [kind |-> kind, job |-> JobOf(r)]
Children(r) ==
  {Child(r, kind) : kind \in
     CASE At(r, "fetch")   -> {IF Synced(JobOf(r)) THEN "pull" ELSE "mount"}
       [] At(r, "cleanup") -> {IF Synced(JobOf(r)) THEN "push" ELSE "mount"}
       [] run[r].pc \in {"prepare", "agent"} ->
            {"work"} \cup IF Synced(JobOf(r)) THEN {} ELSE {"mount"}
       [] OTHER -> {}}

\* A signal: the goroutines of this and of all earlier runs of the process
\* push what is at the mount point now, each to its own drive, as many as get
\* to it before one of them exits.  os.Exit waits neither for the children of
\* the run nor for the pushes of the other goroutines.  Without any goroutine
\* the signal is heard between two jobs.
Signal(r) ==
  LET own == {x \in armed[r] : Synced(x)}
  IN  /\ Ask
      /\ At(r, "idle") \/ armed[r] # {}
      /\ run' = [run EXCEPT ![r] = Down]
      /\ \E done, begun \in SUBSET own, left \in SUBSET Children(r) :
           LET pushed == {DriveOf[j] : j \in done}
           IN  /\ remote' = [d \in Drives |-> IF d \in pushed THEN local[r]
                                                            ELSE remote[d]]
               /\ orphans' = [orphans EXCEPT ![r] = @ \cup left \cup
                                [kind : {"push"}, job : begun]]
               /\ mixed' = mixed \cup {DriveOf[j] : j \in done \cup begun}
      /\ armed' = [armed EXCEPT ![r] = {}]
      /\ UNCHANGED <<queue, local, late>>

\* The runner dies, with its children or without them.
Crash(r) ==
  /\ Fault
  /\ ~At(r, "down")
  /\ run' = [run EXCEPT ![r] = Down]
  /\ \E left \in SUBSET Children(r) :
       orphans' = [orphans EXCEPT ![r] = @ \cup left]
  /\ armed' = [armed EXCEPT ![r] = {}]
  /\ UNCHANGED <<queue, local, remote, mixed, late>>

\* What a runner has left ends: a copy is complete now, an agent has done its
\* work, in its own drive if that is mounted still; or it dies before it has.
OrphanEnds(r, o) ==
  /\ o \in orphans[r]
  /\ \/ o.kind = "pull" /\ Copied(r, remote[DriveOf[o.job]])
     \/ /\ o.kind = "push"
        /\ remote' = [remote EXCEPT ![DriveOf[o.job]] = local[r]]
        /\ UNCHANGED local
     \/ /\ o.kind = "work" /\ [o EXCEPT !.kind = "mount"] \notin orphans[r]
        /\ Worked(r, o.job)
     \/ UNCHANGED <<local, remote>>
  /\ orphans' = [orphans EXCEPT ![r] = @ \ {o}]
  /\ UNCHANGED <<queue, run, armed, mixed, bound, late>>

Start(r) ==
  /\ At(r, "down")
  /\ run' = [run EXCEPT ![r] = Idle]
  /\ UNCHANGED <<queue, data, bound, late>>

-----------------------------------------------------------------------------
Empty == [drive |-> "none", whole |-> TRUE, work |-> {}]

Init ==
  /\ \E s \in Starts :
       /\ job = [j \in Jobs |-> IF j \in s.jobs THEN "pending" ELSE "gone"]
       /\ asks = s.asks /\ faults = s.faults
  /\ claims = [j \in Jobs |-> 0]
  /\ run = [r \in Runners |-> Idle]
  /\ local = [r \in Runners |-> Empty]
  /\ remote = [d \in Drives |-> [Empty EXCEPT !.drive = d]]
  /\ armed = [r \in Runners |-> {}] /\ orphans = [r \in Runners |-> {}]
  /\ decided = [j \in Jobs |-> 0]
  /\ late = {} /\ mixed = {} /\ failed = {}

RunnerStep(r) ==
  \/ Session(r) \/ Fetch(r) \/ FetchFails(r) \/ Prepare(r) \/ PrepareFails(r)
  \/ AgentEnds(r) \/ Watch(r) \/ WatchFails(r) \/ AgentKilled(r)
  \/ Cleanup(r) \/ Report(r) \/ ReportLost(r)
  \/ \E j \in Jobs : ClaimNext(r, j) \/ ClaimLost(r, j)

Next ==
  \/ \E j \in Jobs : Cancel(j) \/ Purge(j) \/ Reclaim(j)
  \/ \E r \in Runners :
       \/ RunnerStep(r) \/ Signal(r) \/ Crash(r) \/ Start(r)
       \/ \E o \in orphans[r] : OrphanEnds(r, o)

\* The watcher polls on, and an agent whose context is cancelled is killed.
\* Nothing is assumed of agents, users, failures or the queue.
Fairness ==
  \A r \in Runners : WF_vars(Watch(r)) /\ WF_vars(AgentKilled(r))

Spec == Init /\ [][Next]_vars /\ Fairness

-----------------------------------------------------------------------------
(* Properties.                                                             *)

\* A drive holds its own content, all of it, with no work of other drives'
\* jobs and with the work of every synced job that succeeded on it, through
\* crashes, orphans, lost calls and repeated runs; unless rclone failed, or two
\* runs, a run and what a dead runner left at its mount point or pushing, or
\* a signal came together at the drive.
WorkArrives ==
  failed = {} =>
    \A d \in Drives \ mixed :
      /\ remote[d].drive = d /\ remote[d].whole
      /\ \A j \in remote[d].work : DriveOf[j] = d
      /\ \A j \in Jobs : Synced(j) /\ DriveOf[j] = d /\ job[j] = "succeeded"
                           => j \in remote[d].work

\* No two runners are at one job, and its verdict comes from the run of its
\* latest claim, though a completion does not say which claim it is for;
\* unless the job was reclaimed from a runner that was at work.
HolderDecides ==
  \A j \in Jobs \ late :
    /\ Cardinality({r \in Runners : Busy(r) /\ JobOf(r) = j}) <= 1
    /\ decided[j] \in {0, claims[j]}

\* The agent of r works for a job that is cancelled.
OnCancelled(r) == At(r, "agent") /\ job[JobOf(r)] = "cancelled"

\* The agent of a living runner whose job is cancelled is stopped in the end,
\* though polls fail; unless the job is purged before the watcher has seen it.
\* Nobody watches the agent a dead runner has left.
CancelStops ==
  \A r \in Runners : OnCancelled(r) ~> ~OnCancelled(r)
=============================================================================
