------------------------------ MODULE JobQueue ------------------------------
(***************************************************************************)
(* The job queue of the control plane: internal/job/service.go on top of   *)
(* the jobs table of internal/store.                                       *)
(*                                                                         *)
(* Every operation of the service is a goroutine that issues one store     *)
(* statement after another; a statement is atomic, the operation is not.   *)
(* Except for ClaimPendingJob, which is one conditional UPDATE, an         *)
(* operation reads the whole row, decides on what it read, and writes the  *)
(* WHOLE row back with UpdateJob, whose only condition is that the row     *)
(* still exists.  A model step is one store statement, together with the   *)
(* local computation on what it returned.                                  *)
(*                                                                         *)
(* Times are kept as ages (how long ago), which only Tick changes, capped  *)
(* at MaxAge: past every duration the code compares with, an age no longer *)
(* matters.  The jobs are those of one user, named in order of creation.   *)
(***************************************************************************)
EXTENDS Integers, FiniteSets

CONSTANTS
  Jobs,            \* job ids, numbered in order of creation
  Handlers,        \* goroutines that serve HTTP requests
  Workers,         \* maintenance goroutines, one per API process
  Runners,         \* runner ids that may claim
  NoRunner,        \* the empty claimed_by_runner_id
  TimeoutSec,      \* [Jobs -> Nat] timeout_sec of each job, 0 = unset
  MaxAttempts,     \* [Jobs -> Nat] max_attempts of each job, 0 = unlimited
  Priority,        \* [Jobs -> Int] priority of each job
  Lease,           \* AI_CLOUDHUB_JOB_LEASE_SEC, 0 = leases disabled
  DefaultTimeout,  \* AI_CLOUDHUB_JOB_TIMEOUT_SEC, 0 = unset
  Retain,          \* AI_CLOUDHUB_JOB_RETAIN_SEC, 0 = no purge
  Requests,        \* the operations clients and admins use
  Silent,          \* jobs whose runners send no heartbeat
  Crashes,         \* whether the API process may crash and restart
  MaxAge,          \* bound: ages saturate here
  MaxClaims        \* bound: successful claims of one job

Threads == Handlers \cup Workers

RequestKinds == {"heartbeat", "complete", "cancel", "release", "claimNext",
                 "claimOne", "deny", "reclaim", "purge", "cancelAll"}

ASSUME JobsAssumption == Jobs \subseteq Nat \ {0}

ASSUME RunnersAssumption == NoRunner \notin Runners

ASSUME JobFieldsAssumption ==
  /\ TimeoutSec \in [Jobs -> Nat]
  /\ MaxAttempts \in [Jobs -> Nat]
  /\ Priority \in [Jobs -> Int]

ASSUME SettingsAssumption ==
  /\ Lease \in Nat /\ DefaultTimeout \in Nat /\ Retain \in Nat
  /\ Requests \subseteq RequestKinds
  /\ Crashes \in BOOLEAN

(* The cap on ages is past every duration that an age is compared with.    *)
ASSUME BoundsAssumption ==
  /\ MaxAge \in Nat /\ MaxClaims \in Nat
  /\ MaxAge > Lease /\ MaxAge > DefaultTimeout /\ MaxAge > Retain
  /\ \A j \in Jobs : MaxAge > TimeoutSec[j]

VARIABLES
  rows,    \* the jobs table
  outbox,  \* the terminal events put into job_webhook_outbox for each job
  claims,  \* history: successful claims of each job
  thread   \* what each goroutine is doing

vars == <<rows, outbox, claims, thread>>

-----------------------------------------------------------------------------
(* Rows of the jobs table.  "none": not created yet; "gone": purged.        *)

Never == -1     \* the zero time.Time
NoJob == 0

Claimable == {"pending", "dispatched"}
Terminal  == {"succeeded", "failed", "cancelled"}
Statuses  == Claimable \cup Terminal \cup {"none", "running", "gone"}

Ages == {Never} \cup 0..MaxAge

Row == [status   : Statuses,
        runner   : Runners \cup {NoRunner},
        attempts : Nat,
        hb       : Ages,       \* heartbeat_at
        claimed  : Ages,       \* claimed_at
        updated  : Ages]       \* updated_at

NoRow == [status |-> "none", runner |-> NoRunner, attempts |-> 0,
          hb |-> Never, claimed |-> Never, updated |-> Never]

\* Mutant: UpdateJob as an upsert.
PresentOrPurged(j) == rows[j].status # "none"

Present(j) == rows[j].status \notin {"none", "gone"}

\* Mutant: the terminal check is dropped.
UnfinishedIfPresent(j) == Present(j)

Unfinished(j) == Present(j) /\ rows[j].status \notin Terminal

Older(a) == IF a = Never \/ a = MaxAge THEN a ELSE a + 1

OlderRow(r) == [r EXCEPT !.hb = Older(@), !.claimed = Older(@),
                         !.updated = Older(@)]

(* What each operation makes of the row it has read.  Complete and Cancel  *)
(* keep claimed_by_runner_id for attribution; a release or a reclaim that  *)
(* fails the job clears it.                                                *)
CreateRow == [NoRow EXCEPT !.status = "pending", !.updated = 0]

ClaimRow(r, k) == [r EXCEPT !.status = "running", !.runner = k,
                            !.attempts = @ + 1, !.hb = 0, !.claimed = 0,
                            !.updated = 0]

\* Mutant: a heartbeat renews the claim.
HeartbeatReclaims(r) == ClaimRow(r, r.runner)

HeartbeatRow(r) == [r EXCEPT !.hb = 0, !.updated = 0]

CompleteRow(r, ok) == [r EXCEPT !.status = IF ok THEN "succeeded" ELSE "failed",
                                !.hb = Never, !.claimed = Never, !.updated = 0]

CancelRow(r) == [r EXCEPT !.status = "cancelled", !.hb = Never,
                          !.claimed = Never, !.updated = 0]

\* Mutants: a release leaves claimed_at set; a release starts a new count.
ReleaseKeepsClaimedAt(r) == [r EXCEPT !.status = "pending", !.runner = NoRunner,
                                      !.hb = Never, !.updated = 0]

ReleaseResetsAttempts(r) == CreateRow

ReleaseRow(r) == [r EXCEPT !.status = "pending", !.runner = NoRunner,
                           !.hb = Never, !.claimed = Never, !.updated = 0]

FailRow(r) == [r EXCEPT !.status = "failed", !.runner = NoRunner,
                        !.hb = Never, !.claimed = Never, !.updated = 0]

(* effectiveTimeoutSec, and the first time stamp that is set.              *)
EffectiveTimeout(j) == IF TimeoutSec[j] > 0 THEN TimeoutSec[j] ELSE DefaultTimeout

FirstSet(a, b) == IF a # Never THEN a ELSE b

(* What a reclaim scan decides for a listed running job.  "max" and        *)
(* "timeout" both fail it, after another look at its status.               *)
Verdicts == {"keep", "timeout", "max", "release"}

\* Mutant: the lease is counted from the claim, heartbeats or not.
LeaseFromClaim(r, global) == FirstSet(r.claimed, r.updated)

(* ReclaimStaleAll (global) also tries claimed_at before updated_at.       *)
LeaseAge(r, global) ==
  FirstSet(r.hb, IF global THEN FirstSet(r.claimed, r.updated) ELSE r.updated)

\* Mutant: every heartbeat extends the timeout.
StartFromHeartbeat(r) == FirstSet(r.hb, FirstSet(r.claimed, r.updated))

StartAge(r) == FirstSet(r.claimed, FirstSet(r.hb, r.updated))

\* Mutant: one attempt more than max_attempts.
ExhaustedLate(r, j) == MaxAttempts[j] > 0 /\ r.attempts > MaxAttempts[j]

Exhausted(r, j) == MaxAttempts[j] > 0 /\ r.attempts >= MaxAttempts[j]

Verdict(r, j, global) ==
  IF r.status # "running" THEN "keep"
  ELSE IF EffectiveTimeout(j) > 0 /\ StartAge(r) > EffectiveTimeout(j) THEN "timeout"
  ELSE IF Lease = 0 \/ LeaseAge(r, global) <= Lease THEN "keep"
  ELSE IF Exhausted(r, j) THEN "max"
  ELSE "release"

-----------------------------------------------------------------------------
(* Goroutines.                                                             *)

Pcs == {"idle", "write", "notify", "scan", "list", "claim", "recheck",
        "select", "delete", "cascade", "cancel"}

Ops == {"none", "claimNext", "claimOne", "reclaim", "reclaimAll", "purge",
        "maintain", "cancelAll", "cancelPending", "cancelRunning"}

Thread == [pc    : Pcs,
           op    : Ops,                        \* the operation being served
           job   : Jobs \cup {NoJob},          \* row at hand
           buf   : Row,                        \* row about to be written
           event : Terminal \cup {"none"},     \* event about to be enqueued
           ret   : {"idle", "scan", "claim", "cancel"},  \* where it goes next
           who   : Runners \cup {NoRunner},    \* claiming runner
           todo  : [Jobs -> Verdicts],         \* rest of a reclaim scan
           snap  : [Jobs -> Row],              \* rest of a cancel-all list
           cand  : SUBSET Jobs,                \* candidates, ids to delete
           ids   : SUBSET Jobs]                \* ids to cascade

Idle == [pc |-> "idle", op |-> "none", job |-> NoJob, buf |-> NoRow,
         event |-> "none", ret |-> "idle", who |-> NoRunner,
         todo |-> [j \in Jobs |-> "keep"], snap |-> [j \in Jobs |-> NoRow],
         cand |-> {}, ids |-> {}]

Become(t, th) == thread' = [thread EXCEPT ![t] = th]

(* Return from the inner operation to the one that called it.              *)
Resume(th) == IF th.ret = "idle"
              THEN Idle
              ELSE [th EXCEPT !.pc = th.ret, !.job = NoJob, !.buf = NoRow,
                              !.event = "none", !.ret = "idle"]

(* Go on to UpdateJob with row r for job j.                                *)
ToWrite(th, j, r, ret) == [th EXCEPT !.pc = "write", !.job = j, !.buf = r,
                                     !.ret = ret]

-----------------------------------------------------------------------------
(* Operations that read one row, decide, and write it back.  When the      *)
(* guard fails the code returns an error and changes nothing.              *)

Create(j) ==
  /\ rows[j].status = "none"
  /\ \A i \in Jobs : i < j => rows[i].status # "none"
  /\ rows' = [rows EXCEPT ![j] = CreateRow]
  /\ UNCHANGED <<outbox, claims, thread>>

Request(t, kind) == t \in Handlers /\ kind \in Requests /\ thread[t].pc = "idle"

Heartbeat(t, j) ==
  /\ Request(t, "heartbeat") /\ j \notin Silent
  /\ rows[j].status = "running"
  /\ Become(t, ToWrite(Idle, j, HeartbeatRow(rows[j]), "idle"))
  /\ UNCHANGED <<rows, outbox, claims>>

(* Complete and AdminComplete: a terminal job is returned as it is.        *)
Complete(t, j, ok) ==
  /\ Request(t, "complete")
  /\ Unfinished(j)
  /\ Become(t, ToWrite(Idle, j, CompleteRow(rows[j], ok), "idle"))
  /\ UNCHANGED <<rows, outbox, claims>>

(* Cancel and AdminCancel, by cancelStoreJob.                              *)
Cancel(t, j) ==
  /\ Request(t, "cancel")
  /\ Unfinished(j)
  /\ Become(t, ToWrite(Idle, j, CancelRow(rows[j]), "idle"))
  /\ UNCHANGED <<rows, outbox, claims>>

Releasable(j) == rows[j].status \in {"running", "dispatched"}

(* AdminRelease, by ReleaseToPending.                                      *)
Release(t, j) ==
  /\ Request(t, "release")
  /\ Releasable(j)
  /\ Become(t, ToWrite(Idle, j, ReleaseRow(rows[j]), "idle"))
  /\ UNCHANGED <<rows, outbox, claims>>

\* Mutants: every write is announced; no write is.
AnnounceAll(th) == [th EXCEPT !.pc = "notify", !.event = th.buf.status, !.buf = NoRow]

AnnounceNone(th) == Resume(th)

(* A terminal write is followed by notifyJobTerminal.                      *)
AfterUpdate(th) == IF th.buf.status \in Terminal
                   THEN [th EXCEPT !.pc = "notify", !.event = th.buf.status,
                                   !.buf = NoRow]
                   ELSE Resume(th)

(* UpdateJob overwrites the row whatever became of it since it was read;   *)
(* it fails only when the row has been purged.  A failed release ends a    *)
(* claim; a reclaim scan goes on.                                          *)
UpdateJob(t) ==
  LET th == thread[t]  j == th.job IN
  /\ th.pc = "write"
  /\ \/ /\ Present(j)
        /\ rows' = [rows EXCEPT ![j] = th.buf]
        /\ Become(t, AfterUpdate(th))
     \/ /\ ~Present(j)
        /\ Become(t, IF th.ret = "claim" THEN Idle ELSE Resume(th))
        /\ UNCHANGED rows
  /\ UNCHANGED <<outbox, claims>>

(* notifyJobTerminal: enqueue the outbox row, a statement of its own.      *)
NotifyJobTerminal(t) ==
  LET th == thread[t] IN
  /\ th.pc = "notify"
  /\ outbox' = [outbox EXCEPT ![th.job] = @ \cup {th.event}]
  /\ Become(t, Resume(th))
  /\ UNCHANGED <<rows, claims>>

-----------------------------------------------------------------------------
(* Reclaim scans: ReclaimStale before every claim and on admin request,    *)
(* ReclaimStaleAll in the maintenance worker.  The list is read once and   *)
(* all verdicts are taken on that snapshot; then the jobs are handled one  *)
(* after another, oldest first.                                            *)

ListRunning(t, op, k, one) ==
  LET global == op \in {"reclaimAll", "maintain"} IN
  /\ Become(t, [Idle EXCEPT !.pc = "scan", !.op = op, !.who = k, !.cand = one,
                            !.todo = [j \in Jobs |->
                                        Verdict(rows[j], j, global)]])
  /\ UNCHANGED <<rows, outbox, claims>>

ClaimNext(t, k) == Request(t, "claimNext") /\ ListRunning(t, "claimNext", k, {})

\* An id is known to clients once its job exists.
Claim(t, j, k) == /\ Request(t, "claimOne")
                  /\ rows[j].status # "none"
                  /\ ListRunning(t, "claimOne", k, {j})

\* Of one user, or of all.
AdminReclaim(t, op) == Request(t, "reclaim") /\ ListRunning(t, op, NoRunner, {})

Maintain(t) == /\ t \in Workers
               /\ thread[t].pc = "idle"
               /\ ListRunning(t, "maintain", NoRunner, {})

Stale(th) == {j \in Jobs : th.todo[j] # "keep"}

(* failTimeout, failMaxAttempts and ReleaseToPending read the row again    *)
(* but check its status only.                                              *)
ReclaimOne(t) ==
  LET th == thread[t] IN
  /\ th.pc = "scan"
  /\ \E j \in Stale(th) :
       /\ \A i \in Stale(th) : j <= i
       /\ LET rest == [th EXCEPT !.todo[j] = "keep"]
          IN Become(t, CASE th.todo[j] = "release" /\ Releasable(j)
                               -> ToWrite(rest, j, ReleaseRow(rows[j]), "scan")
                         [] th.todo[j] # "release" /\ rows[j].status = "running"
                               -> ToWrite(rest, j, FailRow(rows[j]), "scan")
                         [] OTHER -> rest)
  /\ UNCHANGED <<rows, outbox, claims>>

EndScan(t) ==
  LET th == thread[t] IN
  /\ th.pc = "scan"
  /\ Stale(th) = {}
  /\ Become(t, CASE th.op = "claimNext" -> [th EXCEPT !.pc = "list"]
                 [] th.op = "claimOne"  -> [th EXCEPT !.pc = "claim"]
                 [] th.op = "maintain" /\ Retain > 0
                                        -> [th EXCEPT !.pc = "select"]
                 [] OTHER               -> Idle)
  /\ UNCHANGED <<rows, outbox, claims>>

-----------------------------------------------------------------------------
(* Claiming: ClaimNextFiltered and Claim.                                  *)

ListPending(t) ==
  LET th == thread[t] IN
  /\ th.pc = "list"
  /\ Become(t, [th EXCEPT !.pc = "claim",
                          !.cand = {j \in Jobs : rows[j].status \in Claimable}])
  /\ UNCHANGED <<rows, outbox, claims>>

(* Priority descending, then oldest first.                                 *)
Before(i, j) == \/ Priority[i] > Priority[j]
                \/ Priority[i] = Priority[j] /\ i <= j

First(S, j) == j \in S /\ \A i \in S : Before(j, i)

(* A candidate of another region, or whose drive the agent may not use.    *)
SkipCandidate(t) ==
  LET th == thread[t] IN
  /\ th.pc = "claim" /\ th.op = "claimNext" /\ "deny" \in Requests
  /\ \E j \in Jobs : First(th.cand, j) /\ Become(t, [th EXCEPT !.cand = @ \ {j}])
  /\ UNCHANGED <<rows, outbox, claims>>

(* UPDATE ... WHERE status IN ('pending','dispatched') RETURNING.  Another *)
(* worker may have been first (MaxClaims counts as that).                  *)
ClaimPendingJob(t) ==
  LET th == thread[t] IN
  /\ th.pc = "claim"
  /\ \E j \in Jobs :
       /\ First(th.cand, j)
       /\ \/ /\ rows[j].status \in Claimable /\ claims[j] < MaxClaims
             /\ rows' = [rows EXCEPT ![j] = ClaimRow(@, th.who)]
             /\ claims' = [claims EXCEPT ![j] = @ + 1]
             /\ Become(t, [th EXCEPT !.pc = "recheck", !.job = j,
                                     !.cand = @ \ {j}])
          \/ /\ rows[j].status \notin Claimable \/ claims[j] >= MaxClaims
             /\ Become(t, [th EXCEPT !.cand = @ \ {j}])
             /\ UNCHANGED <<rows, claims>>
  /\ UNCHANGED outbox

NothingToClaim(t) ==
  /\ thread[t].pc = "claim" /\ thread[t].cand = {}
  /\ Become(t, Idle)
  /\ UNCHANGED <<rows, outbox, claims>>

(* The claimed job is handed to the runner.                                *)
HandOver(t) ==
  /\ thread[t].pc = "recheck"
  /\ Become(t, Idle)
  /\ UNCHANGED <<rows, outbox, claims>>

(* The policy re-check denies the drive: release the job, and go on with   *)
(* the next candidate.  If the release finds it not running any more the   *)
(* request fails.                                                          *)
DenyAfterClaim(t) ==
  LET th == thread[t] IN
  /\ th.pc = "recheck" /\ "deny" \in Requests
  /\ Become(t, IF Releasable(th.job)
               THEN ToWrite(th, th.job, ReleaseRow(rows[th.job]),
                            IF th.op = "claimNext" THEN "claim" ELSE "idle")
               ELSE Idle)
  /\ UNCHANGED <<rows, outbox, claims>>

-----------------------------------------------------------------------------
(* PurgeTerminalJobs: the worker's second half, or on admin request.       *)
(* SELECT the ids, DELETE each by id alone, then delete their outbox rows. *)

\* Mutant: the outbox rows are deleted first.
SelectThenCascade(t, th, age) ==
  LET old == {j \in Jobs : rows[j].status \in Terminal /\ rows[j].updated > age}
  IN /\ Become(t, IF old = {} THEN Idle
                  ELSE [th EXCEPT !.pc = "cascade", !.cand = old, !.ids = old])
     /\ UNCHANGED <<rows, outbox, claims>>

SelectOld(t, th, age) ==
  LET old == {j \in Jobs : rows[j].status \in Terminal /\ rows[j].updated > age}
  IN /\ Become(t, IF old = {} THEN Idle
                  ELSE [th EXCEPT !.pc = "delete", !.cand = old, !.ids = old])
     /\ UNCHANGED <<rows, outbox, claims>>

\* older_than_sec is the admin's choice.
AdminPurge(t, older) == /\ Request(t, "purge")
                        /\ SelectOld(t, [Idle EXCEPT !.op = "purge"], older)

PurgeSelect(t) == thread[t].pc = "select" /\ SelectOld(t, thread[t], Retain)

PurgeDelete(t) ==
  LET th == thread[t] IN
  /\ th.pc = "delete"
  /\ \E j \in th.cand :
       /\ rows' = [rows EXCEPT ![j] = [NoRow EXCEPT !.status = "gone"]]
       /\ Become(t, [th EXCEPT !.cand = @ \ {j},
                               !.pc = IF th.cand = {j} THEN "cascade" ELSE @])
  /\ UNCHANGED <<outbox, claims>>

DeleteWebhookOutboxByJobIDs(t) ==
  LET th == thread[t] IN
  /\ th.pc = "cascade"
  /\ \E j \in th.ids :
       /\ outbox' = [outbox EXCEPT ![j] = {}]
       /\ Become(t, IF th.ids = {j} THEN Idle ELSE [th EXCEPT !.ids = @ \ {j}])
  /\ UNCHANGED <<rows, claims>>

-----------------------------------------------------------------------------
(* AdminCancelAll: lists the pending jobs, then the running ones, and      *)
(* cancels each list newest first, writing the rows as they were LISTED    *)
(* (cancelStoreJob does not read again).  Nothing ever stores "dispatched",*)
(* the status listed in between.                                           *)

ListToCancel(t, op, st) ==
  /\ Become(t, [Idle EXCEPT !.pc = "cancel", !.op = op,
                            !.snap = [j \in Jobs |-> IF rows[j].status = st
                                                     THEN rows[j] ELSE NoRow]])
  /\ UNCHANGED <<rows, outbox, claims>>

\* The admin may restrict it to one status.
AdminCancelAll(t, op) ==
  /\ Request(t, "cancelAll")
  /\ ListToCancel(t, op, IF op = "cancelRunning" THEN "running" ELSE "pending")

Listed(th) == {j \in Jobs : th.snap[j].status # "none"}

CancelListed(t) ==
  LET th == thread[t] IN
  /\ th.pc = "cancel"
  /\ \E j \in Listed(th) :
       /\ \A i \in Listed(th) : i <= j
       /\ LET rest == [th EXCEPT !.snap[j] = NoRow]
          IN \/ /\ Present(j)
                /\ rows' = [rows EXCEPT ![j] = CancelRow(th.snap[j])]
                /\ Become(t, [rest EXCEPT !.pc = "notify", !.job = j,
                                          !.event = "cancelled", !.ret = "cancel"])
             \/ /\ ~Present(j)
                /\ Become(t, rest)
                /\ UNCHANGED rows
  /\ UNCHANGED <<outbox, claims>>

EndCancelList(t) ==
  LET th == thread[t] IN
  /\ th.pc = "cancel"
  /\ Listed(th) = {}
  /\ \/ th.op = "cancelAll" /\ ListToCancel(t, "cancelRunning", "running")
     \/ /\ th.op # "cancelAll"
        /\ Become(t, Idle)
        /\ UNCHANGED <<rows, outbox, claims>>

-----------------------------------------------------------------------------
(* The environment: time passes; the process dies with what its goroutines *)
(* held and is started again on the same store.                            *)

Tick ==
  /\ rows' = [j \in Jobs |-> OlderRow(rows[j])]
  /\ thread' = [t \in Threads |->
                  [thread[t] EXCEPT !.buf = OlderRow(@),
                                    !.snap = [j \in Jobs |-> OlderRow(@[j])]]]
  /\ UNCHANGED <<outbox, claims>>

Crash ==
  /\ Crashes
  /\ thread' = [t \in Threads |-> Idle]
  /\ UNCHANGED <<rows, outbox, claims>>

-----------------------------------------------------------------------------
Init ==
  /\ rows = [j \in Jobs |-> NoRow]
  /\ outbox = [j \in Jobs |-> {}]
  /\ claims = [j \in Jobs |-> 0]
  /\ thread = [t \in Threads |-> Idle]

(* A request arrives at an idle goroutine.                                 *)
Begin(t) ==
  \/ \E j \in Jobs : \/ Heartbeat(t, j)
                     \/ \E ok \in BOOLEAN : Complete(t, j, ok)
                     \/ Cancel(t, j)
                     \/ Release(t, j)
                     \/ \E k \in Runners : Claim(t, j, k)
  \/ \E k \in Runners : ClaimNext(t, k)
  \/ \E op \in {"reclaim", "reclaimAll"} : AdminReclaim(t, op)
  \/ \E older \in 1..(MaxAge - 1) : AdminPurge(t, older)
  \/ \E op \in {"cancelAll", "cancelPending", "cancelRunning"} : AdminCancelAll(t, op)

(* A busy goroutine goes on with what it has begun.                        *)
Continue(t) ==
  \/ UpdateJob(t) \/ NotifyJobTerminal(t)
  \/ ReclaimOne(t) \/ EndScan(t)
  \/ ListPending(t) \/ SkipCandidate(t) \/ ClaimPendingJob(t)
  \/ NothingToClaim(t) \/ HandOver(t) \/ DenyAfterClaim(t)
  \/ PurgeSelect(t) \/ PurgeDelete(t) \/ DeleteWebhookOutboxByJobIDs(t)
  \/ CancelListed(t) \/ EndCancelList(t)

Next ==
  \/ \E j \in Jobs : Create(j)
  \/ \E t \in Threads : Begin(t) \/ Maintain(t) \/ Continue(t)
  \/ Tick
  \/ Crash

Spec == Init /\ [][Next]_vars

(* Go schedules every goroutine, the maintenance ticker fires for ever,    *)
(* and time passes.  Nothing obliges a client to send a request.           *)
Fairness ==
  /\ \A t \in Threads : WF_vars(Continue(t))
  /\ \A t \in Workers : WF_vars(Maintain(t))
  /\ WF_vars(Tick)

FairSpec == Spec /\ Fairness

-----------------------------------------------------------------------------
(* Properties.                                                             *)

(* Every table and goroutine has its type; in particular only terminal     *)
(* statuses are ever announced.                                            *)
TypeOK ==
  /\ rows \in [Jobs -> Row]
  /\ outbox \in [Jobs -> SUBSET Terminal]
  /\ claims \in [Jobs -> Nat]
  /\ thread \in [Threads -> Thread]

StampsMatch(r) ==
  /\ r.status = "running" <=> r.hb # Never
  /\ r.status = "running" <=> r.claimed # Never
  /\ r.status \in Claimable => r.runner = NoRunner

(* Whatever full-row writes race, a stored row has heartbeat_at and        *)
(* claimed_at exactly while it is running, and a claimable row names no    *)
(* runner; so does every row a goroutine is about to write.  The reclaim   *)
(* scans rely on it: a running row without stamps would never expire.      *)
LeaseStamps ==
  /\ \A j \in Jobs : StampsMatch(rows[j])
  /\ \A t \in Threads : /\ StampsMatch(thread[t].buf)
                        /\ \A j \in Jobs : StampsMatch(thread[t].snap[j])

(* attempt_count never exceeds the number of successful claims: no race    *)
(* makes a job run out of max_attempts early.                              *)
AttemptsNeverOvercount == \A j \in Jobs : rows[j].attempts <= claims[j]

Notifying(j, s) == \E t \in Threads : /\ thread[t].pc = "notify"
                                      /\ thread[t].job = j
                                      /\ thread[t].event = s

(* While the process lives, the verdict a terminal row shows is in the     *)
(* outbox or a goroutine is on its way to put it there - for every order   *)
(* of competing terminal writes, reclaims and purges.                      *)
NotifiedOrNotifying ==
  \A j \in Jobs : rows[j].status \in Terminal =>
     \/ rows[j].status \in outbox[j]
     \/ Notifying(j, rows[j].status)

(* A purged job stays purged: the write of a goroutine that read the row   *)
(* before the purge fails instead of bringing it back.                     *)
PurgeIsFinal ==
  [][\A j \in Jobs : rows[j].status = "gone" => rows'[j].status = "gone"]_vars

(* The purge's cascade drops outbox rows only of jobs that are gone.       *)
OnlyPurgeForgets ==
  [][\A j \in Jobs : outbox[j] \subseteq outbox'[j] \/ rows[j].status = "gone"]_vars

(* A job that can expire does not run for ever.  It can expire when it has *)
(* a timeout, or when its runner no longer sends heartbeats.               *)
CanExpire(j) == \/ EffectiveTimeout(j) > 0
                \/ Lease > 0 /\ j \in Silent

RunningJobsLeave ==
  \A j \in Jobs : (CanExpire(j) /\ rows[j].status = "running")
                   ~> rows[j].status # "running"

-----------------------------------------------------------------------------
(* What the documentation says of a job.  Overlapping operations break     *)
(* each of these (TerminalIsFinal in the run job_terminal_race); without   *)
(* overlap they hold (run job_serial).                                     *)

(* A terminal status is the last one until the job is purged.              *)
TerminalIsFinal ==
  [][\A j \in Jobs : rows[j].status \in Terminal =>
        rows'[j].status \in {rows[j].status, "gone"}]_vars

(* attempt_count is the number of successful claims.                       *)
AttemptsExact == \A j \in Jobs : Present(j) => rows[j].attempts = claims[j]

(* A reclaim scan takes a job from its runner only when, at that moment,   *)
(* its lease or its timeout has run out.                                   *)
Expired(j) == \/ Lease > 0 /\ rows[j].hb > Lease
              \/ EffectiveTimeout(j) > 0 /\ rows[j].claimed > EffectiveTimeout(j)

ReclaimOnlyExpired ==
  [][\A t \in Threads : (UpdateJob(t) /\ thread[t].ret = "scan")
                          => Expired(thread[t].job)]_vars
=============================================================================
