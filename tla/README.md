# A formal model of AI-cloudhub

AI-cloudhub is a control plane, written in Go, for "bring your own compute"
work: users map cloud storage as drives, bind drives to devices, and queue jobs
which their own runners claim and execute. The control plane is one API process
(or several replicas) over a store (SQLite, PostgreSQL or memory); runners, a
mount daemon and an MCP server are its clients.

This directory holds TLA+ modules that model the parts of that system whose
state several actors share, TLC configurations that check them on small
instances, and TLAPS proofs for every instance.

## 1. Inventory

### 1.1 Components

| Component | Source | State | Operations | Made correct by |
|---|---|---|---|---|
| Job queue | `internal/job/service.go` | table `jobs`: status, claimer, attempt count, time stamps | create, claim, heartbeat, complete, cancel, release, reclaim, purge, admin forms | a verdict is final, claims are counted, an abandoned job is taken back, every verdict is announced |
| Webhook outbox | same file, second half | table `job_webhook_outbox`, one mutex per process | enqueue, delivery pass, retry, purge, cascade | at-least-once delivery within an attempt budget; delivered means taken |
| Maintenance worker | `StartJobMaintenanceWorker` | none | every 30 s: reclaim for all users, purge terminal jobs | running jobs leave the running state |
| Store | `internal/store` | all tables | one statement per call; no transactions across calls | claim is atomic; update and delete report missing rows |
| HTTP API | `internal/httpserver` | none | one goroutine per request | checks scope and policy before and after a claim |
| Runner | `cmd/runner` | mounts, environment, child process | poll, claim, mount, run, heartbeat, complete | a job's settings do not leak into the next; a lost lease stops the work |
| Mount daemon | `cmd/hubd`, `internal/drive/binding.go` | bindings (desired, actual) | reconcile, report | actual converges to desired |
| Auth | `internal/auth` | users, refresh tokens, token versions, revoked ids | register, login, refresh, revoke, roles | one refresh token yields one successor; revoked means revoked; an admin remains |
| Agents | `internal/agent` | agents with scopes, drives, token version | create, update, delete, check | tightening an agent invalidates its tokens |
| Drives, snapshots, barriers | `internal/drive` | drives, snapshots, in-memory barriers | create, delete, quota checks | quotas hold |
| Mount sessions | `internal/sts/session.go` | in-memory sessions by token | issue, refresh with grace, revoke | one valid token per session |
| Policy | `internal/policy` | rules file, token buckets, lockouts, Redis windows | evaluate, reload, allow | the last written file is the one in force; limits hold |
| Marketplace | `internal/marketplace` | items, purchases | checkout, payment webhook, install | paid stays paid |
| Others | memory kernel, workspaces, devices, providers, connectors, identity graph, lineage, manifest, mount specification, sandbox, secret box, object store client, metrics, configuration, MCP | single statements, pure functions or I/O | | see `PROJECT.json` |

### 1.2 How they interact

* Every HTTP request is a goroutine. It calls a service, which calls the store
  once per statement; between two calls any other goroutine may run.
* A claim first runs a reclaim scan over the user's running jobs; the
  maintenance worker runs the same scan over everybody's.
* Every terminal write is followed by an enqueue into the outbox (a second
  statement) and by a kick of a delivery pass in a goroutine of its own.
* Delivery passes are serialized by a mutex of the process; replicas share only
  the table.
* The purge of terminal jobs deletes their outbox rows as well.
* Runners and the mount daemon see the control plane only through HTTP: their
  calls may be late, repeated or never come.

### 1.3 What is hard

Except for the claim, which is one conditional `UPDATE`, every job operation is
a read, a decision and a write of the *whole* row whose only condition is that
the row still exists. So verdicts, counters and claims can be overwritten by
goroutines that read earlier. The same shape returns in the outbox (the row
read before a post is written after it), in bindings, agents and purchases.
Around it: crashes between two statements, stale lists (reclaim, cancel-all,
purges), answers that are lost, replicas without a common mutex, and bounds
(attempt budgets, leases, timeouts, retention). The complete list, by line, is
`hazards` in `PROJECT.json`.

## 2. Plan

| Step | Modules | Status |
|---|---|---|
| 1 | `JobQueue`, its abstract specification `JobLifecycle`, the non-overlapping instance `JobSerial`; proofs | done |
| 2 | `WebhookOutbox`; proofs | done |
| 3 | `Stores`: the persistence interface on its three backends, idempotency keys and times as text included | done |
| 4 | `Accounts`: sessions, roles, lockout, agents and their tokens | done |
| 5 | `Mounts`: bindings, mount sessions, barriers and the mount daemon composed | done |
| 6 | `JobRunner`: several runners composed with the queue | done |
| 7 | Proofs: `JobRunner`, `Stores`, `Mounts`, `Accounts`, the outbox of one process, the queue without overlap and its refinement of `JobLifecycle` | done |
| 8 | Policy reload, limiters, purchases | left out, section 6 |

The modules with theorems are written for step 7: no recursive operators, one
action per step, properties as invariants over histories that name the
exemptions (`raced`, `failed`, `late`, `mixed`).

## 3. Modules

### 3.1 `JobQueue`

State: `rows` (the jobs table), `outbox` (the terminal events enqueued per
job), `claims` (history: successful claims) and `thread` (what each goroutine
is at: program counter, the row about to be written, the rest of a scan or a
list). Handlers are request goroutines, workers are maintenance goroutines, one
per API process.

One step is one store statement with the computation on what it returned.

| Action | Code |
|---|---|
| `Create` | `Create` without idempotency key, `CreateJob` |
| `Heartbeat`, `Complete`, `Cancel`, `Release` | the read and the decision of `Heartbeat`, `Complete`/`AdminComplete`, `Cancel`/`AdminCancel`, `AdminRelease`→`ReleaseToPending` |
| `UpdateJob` | the write of the row read earlier; fails only when the row is gone |
| `NotifyJobTerminal` | `notifyJobTerminal` up to the enqueue |
| `ClaimNext`, `Claim`, `AdminReclaim`, `Maintain` | start of a reclaim scan: `ListRunningJobs` and all verdicts |
| `ReclaimOne`, `EndScan` | `failTimeout`, `failMaxAttempts`, `ReleaseToPending` on one listed job; end of the scan |
| `ListPending`, `SkipCandidate`, `ClaimPendingJob`, `NothingToClaim`, `HandOver`, `DenyAfterClaim` | `ClaimNextFiltered` and the claim handler: order of candidates, policy checks before and after |
| `AdminPurge`, `PurgeSelect`, `PurgeDelete`, `DeleteWebhookOutboxByJobIDs` | `PurgeTerminalJobs`: select, delete by id, cascade |
| `AdminCancelAll`, `CancelListed`, `EndCancelList` | `AdminCancelAll`: writes the rows as listed |
| `Tick`, `Crash` | time; the process stops and is started again on the same store |

Abstractions. Times are ages, which saturate at `MaxAge`, past every duration
the code compares with (`BoundsAssumption`). All jobs belong to one user: jobs
of different users meet only in the maintenance worker, which treats them
alike. Notes, output, labels and exit codes are left out; the agent that
claimed is left out, since every operation treats it as it does the runner
(except that a timeout keeps it). `Silent` is the set of jobs whose runner sends
no heartbeat, for the liveness property. `dispatched` is in the code's conditions and
in the model's, but nothing ever stores it. Statements do not fail other than
by a missing row. The webhook URL is set. Limits on lists (500, 2000) are not
reached.

`JobLifecycle` is the abstract specification: what `docs/JOBS.md` says of a
job. `JobSerial` is `JobQueue` with one goroutine for everything; it implements
`JobLifecycle` (refinement mapping: status and attempts of the rows, the
outbox as what has been told). `LSafety` is the part without fairness, which is
proved; TLC checks `LSpec`.

### 3.2 `WebhookOutbox`

State: `rows` (the table), `pass` (the delivery pass of each goroutine: the
listed rows, the rows in flight, the answers), `desk` (the retry or purge each
clerk goroutine is at), and histories of what the receiver took (`accepted`),
of the successes heard (`answered`) and of crashes.

| Action | Code |
|---|---|
| `BeginPass` | `ProcessWebhookOutbox`: lock, `ListDueWebhookOutbox` |
| `Fetch` | `GetWebhookOutbox` and the status check |
| `Post` | `deliverWebhookOnce` and the receiver: it may take the event and still answer with an error, late or not at all |
| `Finish` | `finishWebhookAttempt`, `UpdateWebhookOutbox` |
| `EndPass` | unlock |
| `Enqueue` | `EnqueueWebhookOutbox` |
| `AdminRetryWebhook`, `AdminRetryWebhooksBatch`, `RequeueWebhookRow` | the retry requests: read or list, then one write per row |
| `PurgeWebhookOutbox`, `PurgeDelete`, `Leave` | select, delete by id |
| `Cascade` | the purge of the event's job |

Abstractions. A pass may start whenever the mutex is free: the worker's ticker
and the kicks after enqueue and retry are all such starts. The semaphore of a
parallel pass only delays posts, which the model lets be as late as they like.
A row's age and remaining delay are kept only in the statuses in which the code
reads them. Payload, signature and error texts are left out. The batch limits
(8, 32, 500) are not reached.

### 3.3 `Stores`

The interface of `internal/store/store.go` and its three implementations. A
behaviour drives one backend on one of its 18 tables with every call the
interface has for it; an operator per table and backend says what the call
answers and leaves behind (`SqliteDrives`, `PgDrives`, `MemDrives`, ...), and
the properties compare the three in every state reached.

A row has five fields, named in the module's head: what the statements of all
tables look at is an id, a user, one key, one value and one more column. A call
answers an error or a list; where the order is open (iteration over a Go map)
it answers the set of possible lists. Sorted lists are defined by what they are
(`Orders`: the lists of a set whose ranks fall), not by how they are made, and
a filter in Go keeps the order of the list it reads (`Pass`). `Clock` and `Text` are the two orders of
instants: `Text` orders them as RFC3339Nano strings, whose trailing zeros are
dropped. Instants may be equal, and the order of the ids' texts (`names`), which
are random, is any: a list by `created_at` alone then answers the set of its
possible orders (`Latest`), while job pages go by `created_at` and then `id`
(`ByIds`), and their cursor by both (`After`). The purge of jobs takes the
oldest rows by `updated_at`; of rows of one time at its limit the model takes
some fixed ones, the database some of its own, and `StoresAgree` says nothing of
that case (`TiedPurge`). The memory store keeps the audit events of all users in
one slice, which every append cuts to the newest `AuditCap` (`Recent`). Page
sizes and that cap are scaled down to one or two rows. Statements are atomic:
what happens between two of them is the business of the other modules.

### 3.4 `Accounts`

State: the tables of users, tokens (access and refresh) and agents, the
failure tracker, and the requests in flight. A request takes one step per
store statement, and two requests interleave.

| Actions | Code |
|---|---|
| `BeginRegister` … `RegisterCreate` | `Register`: name, count of users (the first is admin), creation |
| `BeginCreateUser` …, `BeginSetRole` … `SetRoleWrite` | admin routes; `SetUserRole` with its count of admins |
| `BeginLogin` … `LoginClear` | lock, read, failure or rehash, `IssueTokens`, reset of failures |
| `BeginRefresh` … `RefreshIssue` | `Refresh`: read of token and user, conditional revocation, new pair |
| `BeginLogout` … , `BeginRevokeAll` …, `BeginPassword` … | logout, `RevokeAllSessions`, `ChangePassword` |
| `CreateAgent`, `BeginUpdate`, `UpdateWrite`, `DeleteAgent`, `BeginMint`, `MintIssue` | agents and their tokens; an update that tightens raises the version |
| `WindowPasses` | the failure window of a login ends |

A request for an agent's token may name scopes. The route passes them on and
`IssueAgentToken` asks of them only that they are known scope names: the token
gets what was asked, not the agent's own scopes, which serve as the default
(`docs/QUICKSTART-AGENT.md:119` documents them as such). `scopes` is what the
token carries, `asked` what its request named, and `AgentWithinGrant` bounds
`scopes` by the two together: that an agent's grant bounds its tokens is not true
of scopes that a mint names.

Abstractions. Passwords are two values, a user's name is its id. A login's
failures are counted per user in one table: the code's key is user and client
address, and each API process has a table of its own, so the limit is per
address and replica. Tokens do not
expire: expiry only shortens what the properties speak of. `raced` records
which kinds of requests overlapped on what; a property that the code keeps only
without such an overlap names it.

### 3.5 `Mounts`

Control plane and daemon in one module: `bind` (desired and actual state),
`sess` (mount sessions), `barriers`, the API's handlers, and hubd's loop with
the mounts it keeps, the rclone processes on the device and the unpushed work in
the workspaces.

| Actions | Code |
|---|---|
| `BeginCreateBinding`, `EndCreateBinding`, `DeleteDrive` | quota check, then creation; deletion of a drive |
| `BeginSetDesired`/`EndSetDesired`, `BeginReport`/`EndReport` | read and write of the whole binding |
| `List`, `Unmount`, `Look`, `Replace`, `IssueSession`, `StartMount`, `SoftRefresh…` | hubd's `reconcile` and `mountOne`, in their order |
| `…Fails`, `ReportLost`, `ReportTimesOut`, `ListStoreFails` | calls that fail, are lost, or end late |
| `Signal`, `Shutdown`, `HubCrashes`, `HubStarts`, `ApiRestarts` | hubd told to stop, killed, started; the API's memory lost |
| `SessionAges`, `RcloneDies`, `MountHangs`, `WorkspaceChanges` | time, external failures, the user's work |

The directory of a synced workspace is an ordinary one and can be written at any
time (`WorkspaceChanges`); each piece of work is marked with whether hubd kept
the workspace then (`kept`). `stop` pushes what is there and `startMount` pulls
over it. Between the two, while `remount` asks for a session (up to 30 s), after
a session or a pull that failed, and before the first pull of a hubd that was
started again, hubd does not keep the workspace: what is written then the next
pull overwrites, and the model shows it (`lost` with `kept` false). `WorkKept`
is about the rest.

Abstractions. One device. `SetDesired` and `ReportActual` accept any string;
only the ones clients send are used. What a session carries is left out. A
crash of hubd in the middle of a push is the crash before it; an `rclone sync`
that outlives a dead hubd and ends later is left out (`WorkKept` exempts
crashes). A pull or a push is one step as far as the user's work goes. Each behaviour
has a budget of user acts, failures and passings of time (`Budgets`).

### 3.6 `JobRunner`

Several runners in worker mode, with what is at their mount points and on the
drives. `rclone sync` makes its target equal to its source, so a content is the
drive it is of, whether it is whole, and which jobs' work it holds.

| Actions | Code |
|---|---|
| `ClaimNext`, `ClaimLost`, `Session`, `Fetch`, `FetchFails`, `Prepare`, `PrepareFails` | claim, session, pull or mount, connector |
| `AgentEnds`, `Watch`, `WatchFails`, `AgentKilled` | the agent and its cancellation watcher |
| `Cleanup`, `Report`, `ReportLost` | the deferred push or unmount; completion |
| `Cancel`, `Purge`, `Reclaim` | the queue: users, retention, expiry of a lease or timeout |
| `Signal`, `Crash`, `Start` | the process |
| `OrphanEnds` | a child process whose runner is gone |

`rclone` and the agent are child processes without a parent-death signal. A
runner that is killed (`Crash`) and one that leaves by `os.Exit(1)` after a
signal (`Signal`, main.go:787) may leave each of the children it has then
(`Children`: a pull, a mount, a push, the agent), a signal also the pushes its
goroutines have begun. These `orphans` go on at the runner's one mount point
beside the next run, and end when they like: a pull or a push with its copy
made, an agent with its work done, in whatever is at the mount point or mounted
over it by then (`Copied`, `Worked`), or any of them without. `mixed` collects
the drives where a run met another run or an orphan.

Abstractions. The queue's handlers are atomic here; their interleavings are the
subject of `JobQueue`. All sessions of a runner name one mount point
(`AI_CLOUDHUB_MOUNT`). The agent's child processes, its environment and its
output are left out: that a cancelled agent's run returns assumes that the agent
leaves no children of its own that hold its pipes (the command has no
`WaitDelay`), and polling that the HTTP call returns.

## 4. Runs

Passing:

| Run | Question | Instance |
|---|---|---|
| `job_race` | what survives every interleaving on one job: types, time stamps, attempt count; purged jobs stay purged, only purges forget events | 1 job without timeout, 2 handlers, worker, crashes; heartbeat, claim with denial, purge, cancel-all |
| `job_live` | a job with a timeout stops running whatever its runner does, a job of a silent runner is taken back by the lease, every verdict is announced or about to be | 2 jobs of different priority, 1 handler, worker, fairness; heartbeat, complete, claim |
| `job_serial` | without overlap: the documented lifecycle, exact counts, reclaim only after expiry, no requeue by the lease past `max_attempts` | 2 jobs, one goroutine, every request, fairness |
| `webhook_process` | within one process backoff is kept, and no second post follows a success that was heard unless an admin asks for it | 2 events, 2 goroutines, parallel posts, an admin, purges, cascades |
| `webhook_crash` | every event is taken or dead, crashes between post and record included; budget and delivery marks stay true | 1 event, 2 replicas, 2 crashes, fairness |
| `stores_agree` | users kept apart; the three backends agree but for named differences; unique keys; pages join; lists newest first; revocations stick | 18 tables, 3 backends, 2 users, 2 keys, 2 or 3 rows, pages of 1 or 2, an audit slice of 2; instants with texts of one length, and with one cut short, two of them equal, ids in no order of time |
| `accounts` | spent, revoked and refused tokens stay so; an admin remains; agents' tokens are void once the grant is cut; the lock bounds guesses | 2 requests at a time, 5 in all, 2 users, 1 agent, 8 mixes of operations |
| `mounts` | desired state honoured, mounts converge and are kept, nothing left behind, work in kept workspaces pushed before it is overwritten, actual state follows | a mounted drive or a synced workspace, 2 handlers, 5 budgets |
| `job_runner` | work of succeeded jobs is on its drive, verdicts come from the holder, cancelled agents stop | 2 runners; one job, two synced jobs on one drive or on two, or a synced and a mounted one on two |

Bounds. Lease, timeout and retention are 1 and ages stop at 2: not yet expired,
just at the limit, and past it are the three cases the code tells apart.
`MaxClaims` of 2 lets a job be claimed again after a release while a goroutine
still holds a row of the first claim; with a budget of 2 the second claim is the
last one allowed, so a requeue after it would show a scan that ignores the
budget. Two jobs are needed for priority and for lists longer than one; in
`job_live` one has a timeout and the other only the lease (`Silent`). Two attempts per
event give a first, a last and an exhausted attempt.

In `stores_agree` paged tables hold one row more than a page, so that a page
can be full, and the audit table one more than the slice, so that it is cut. Two
equal instants whose ids stand in the other order are what the tie-break of the
cursor is for; the mutant that drops it fails. In `accounts` two requests in flight meet on each pair of statements, five
in all are a login, two rotations and a revocation with one to spare; a
behaviour uses one of the mixes, the groups of operations that meet on the same
rows. In `mounts` the budgets `<<asks, faults, times>>` are `<<1,2,0>>`,
`<<0,2,1>>`, `<<2,1,0>>`, `<<2,0,1>>` and `<<1,1,2>>`: two failures together,
two changes of mind around one, a session that ages beside a local change and a
failure. In `job_runner` each set of waiting jobs has its own (`SomeStarts`): one
job alone an act and a failure, two jobs on two drives two failures, the other
pairs one of either; crashes and orphans need one and no more, the second job is
the one that meets the orphan. The cap of
500 barriers is 1 in `mounts`, so that it is reached.

Violations. Each shows the code departing from a line of its documentation or
comments; `findings` in `PROJECT.json` quotes it.

| Run | What is violated | How |
|---|---|---|
| `job_terminal_race` | a verdict is final | complete and cancel both read the row before either has written it; the job is pending in this run, and Complete only asks that the row it read is not terminal |
| `accounts_revoke_race` | all refresh tokens are revoked | a refresh stores the successor of a token it rotated before the revocation |
| `hubd_barrier` | a barrier follows the flush | the push fails, the barrier is posted |

Departures with the same causes, which the models contain and the properties
exempt or restrict:

* A heartbeat writes back the attempt count from before a release and a new
  claim: `AttemptsExact` is checked without overlap only, `AttemptsNeverOvercount`
  with it. `internal/store/store.go:159` says that every claim counts.
* A reclaim acts on a list that a heartbeat has outdated: `ReclaimOnlyExpired` is
  checked without overlap only (`docs/JOBS.md:68`).
* A crash between a terminal write and its enqueue loses the event
  (`docs/JOBS.md:105`): `NotifiedOrNotifying` is stated without crashes.
* The purge of a job deletes its pending events, and a row requeued between the
  select and the delete of `PurgeWebhookOutbox` goes too, though pending rows are
  "never auto-purged" (`docs/JOBS.md:107`).
* An attempt in flight writes its old row over an admin's retry.
* SQLite sorts and compares times as texts: within a second a fraction that
  ends in a zero sorts above longer ones, so lists, and the pruning of revoked
  ids, go by an order that is not the time's (`InStep` in `Stores`). Pages
  join all the same: `PagesJoin` has no such condition.
* The memory store's audit slice forgets the oldest events of all users, so one
  user's events push out another's and its lists differ from SQL's (`Trims`).
* PostgreSQL's `UpsertDevice` of another user's id succeeds without effect.
* Overlapping role changes can leave no admin, overlapping first registrations
  two, overlapping updates of an agent an old version (`raced` in `Accounts`).
* A report that overlaps a `SetDesired` undoes it (`raced` in `Mounts`); a store
  failure in `ListBindings` unmounts everything until the next pass; a crash of
  hubd leaves its rclone processes behind; a lost report is not repeated; what is
  written to a synced workspace between a push and the next pull is lost.
* A runner whose pull fails pushes the partial workspace; two runs at one drive
  push over each other, and so do a run and what a dead runner has left at its
  mount point; a runner that lost its lease still completes the job, and so does
  one whose running job an admin has released or the server has timed out
  (`failed`, `mixed` and `late` in `JobRunner`).
* An agent's token carries the scopes its mint names, whatever the agent's own.

Fairness. `FairSpec` of the queue assumes that a goroutine which is in the
middle of an operation goes on (Go schedules it and the store answers), that
the maintenance ticker keeps firing, and that time passes; no client is obliged
to do anything. `FairSpec` of the outbox assumes that the worker polls, that a
post ends (the HTTP client has a timeout), that a clerk finishes, and that time
passes; nothing is assumed of the receiver's answers. Crashes are bounded in
the liveness run: a process that always dies first delivers nothing. `Mounts`
assumes that hubd's loop goes on (a ticker drives it, its client has a timeout)
and that a handler which has begun ends. `JobRunner` assumes that the watcher
polls on and that an agent whose context is cancelled is killed; the watcher's
HTTP client has no timeout, so the first is an assumption on the network.

## 5. Proofs

Each theorem holds for any sets of jobs, goroutines, runners, events,
processes, users, bindings and so on, and any settings that satisfy the named
assumptions of the modules.

| Theorem | Statement |
|---|---|
| `JobQueueProofs!TypeCorrect` | `Spec => []TypeOK` |
| `JobQueueProofs!StampsCorrect` | `Spec => []LeaseStamps` |
| `JobQueueProofs!PurgeFinal` | `Spec => PurgeIsFinal` |
| `JobQueueProofs!AttemptsNeverOvercounted` | `Spec => []AttemptsNeverOvercount` |
| `JobOutboxProofs!PurgeAloneForgets` | `Spec => OnlyPurgeForgets` |
| `JobOutboxProofs!VerdictsAnnounced` | without crashes, `Spec => []NotifiedOrNotifying` |
| `JobSerialProofs!ClaimsCounted` | without overlap, `Spec => []AttemptsExact` |
| `JobSerialProofs!ReclaimJustified` | without overlap, `Spec => ReclaimOnlyExpired` |
| `JobSerialProofs!RequeueWithinBudget` | without overlap, `Spec => RequeuedWithinBudget` |
| `JobSerialProofs!VerdictsFinal` | without overlap, `Spec => TerminalIsFinal` |
| `JobSerialProofs!LifecycleKept` | without overlap and crashes, `Spec => Lifecycle!LSafety` |
| `WebhookProofs!OutboxTyped` | `Spec => []TypeOK` |
| `WebhookProofs!BudgetAlwaysKept` | `Spec => []BudgetKept` |
| `WebhookProofs!DeliveredMeansAccepted` | `Spec => []DeliveredWasAccepted` |
| `WebhookProofs!BackoffHolds` | in one process, `Spec => BackoffRespected` |
| `WebhookProofs!HeardOnce` | in one process without crashes, `Spec => []AnsweredOnce` |
| `JobRunnerProofs!OneHolderPerJob` | `Spec => []HolderDecides` |
| `JobRunnerProofs!WorkReachesDrive` | `Spec => []WorkArrives` |
| `StoresProofs!RowsInvariant` | `Spec => []Inv` |
| `StoresProofs!TenantsStayApart` | `Spec => []TenantsApart` |
| `StoresProofs!StoresAlike` | `Spec => []StoresAgree` |
| `StoresProofs!PagesComplete` | `Spec => []PagesJoin` |
| `StoresProofs!NewestFirst` | `Spec => []ListsNewestFirst` |
| `StoresProofs!UniqueHolds` | `Spec => []UniqueKept` |
| `StoresProofs!RevocationStays` | `Spec => RevocationSticks` |
| `MountsProofs!TypesKept` | `Spec => []TypeOK` |
| `MountsProofs!NoProcessLeft` | `Spec => []NoneLeft` |
| `MountsProofs!NoWorkLost` | `Spec => []WorkKept` |
| `MountsProofs!LastWishStands` | `Spec => []DesiredHonoured` |
| `MountsProofs!WellMountsStay` | `Spec => KeptWhileWanted` |
| `AccountsProofs!SpentOnce` | `Spec => []RefreshSpentOnce` |
| `AccountsProofs!RevocationHolds` | `Spec => []RevokedForGood` |
| `AccountsProofs!RefusalHolds` | `Spec => RejectedForGood` |
| `AccountsProofs!WithinGrant` | `Spec => []AgentWithinGrant` |
| `AccountsProofs!SomeAdmin` | `Spec => []AdminRemains` |
| `AccountsProofs!OneFirstUser` | `Spec => []OneFounder` |
| `AccountsProofs!LockBounds` | `Spec => []LockoutBound` |

### 5.1 Assumptions

Most are types of the constants. The others:

* *Queue.* Jobs are numbered from 1, no runner is the empty runner id, and ages
  are capped past every duration they are compared with.
* *Without overlap* is the assumption `OneThread` of `JobSerial`. It is the
  antecedent of what `docs/JOBS.md` says; the run `job_terminal_race` shows that
  it cannot be dropped.
* *Outbox.* `SameProcess` (all delivery goroutines share one mutex) and, for
  `HeardOnce`, `MaxCrashes = 0`: replicas do not exclude each other, and a crash
  between a post and its record posts again, by design.
* *Stores.* Backends and tables are the three and the eighteen there are, page
  sizes and the audit slice hold at least one row, and the instants of a
  behaviour do not fall within its one second; they may be equal. The texts of
  ids are distinct, in any order.
* *Accounts.* Finitely many users and concurrent requests; a table of users
  that a behaviour starts from has an admin unless it is empty; no agent is
  called "none"; a patch sets an agent active or disabled.
* *Mounts, runner.* Every binding and every job has a drive; caps, quotas and
  retries are at least one.

### 5.2 Arguments

* *Queue, types and stamps.* What a table holds is only as good as what
  goroutines are about to write, so the inductive invariant says of every row
  in flight (`buf`, and the rows of a cancel-all list) what it says of stored
  rows: the stamps match the status. It also ties the program counter to the
  fields in use: at "write" there is a job and a row to write, at "notify" a
  terminal event.
* *Attempts.* The count of a stored row and of every row in flight is at most
  the number of claims of that job. A full-row write can only bring back an
  older, hence smaller, count; claims add one to both sides.
* *Announcement.* A terminal status enters a row only by a step that sends its
  goroutine to "notify" with that very status; it leaves "notify" by the step
  that enqueues it; the outbox forgets it only after the row is gone
  (`PurgeAloneForgets`, from the invariant that the ids a purge cascades are
  deleted already, and that a deleted row stays deleted). A crash breaks
  exactly the middle step, hence the assumption `Crashes = FALSE` (section 4,
  departures).
* *Queue without overlap.* `Serial` says that everything the goroutine carries
  is still true of the table: the row it is about to write follows from the
  stored one, the verdicts left of a scan would be taken again (ages only
  grow), the rows left of a cancel-all list are as listed, what a purge is about
  to delete is terminal, what is about to be announced is the stored status and
  the first announcement. Counts, budget, expiry and finality follow without
  looking at histories, with crashes. For the refinement each step is shown to
  be a step of `LNext` on the mapped variables or to leave them alone; a
  purged job has been announced by `VerdictsAnnounced`, since the goroutine that
  purges is not announcing.
* *Outbox.* A row in flight is pending with an attempt left, because it was so
  when fetched and nothing else writes it; a success that waits to be recorded
  was taken by the receiver. With that, whatever `finishWebhookAttempt` writes,
  over whatever is there, keeps the budget and the mark.
* *Outbox of one process.* The mutex leaves one pass at a time, and what it has
  in flight it has taken off its list (`Serial`). So a listed row that is
  pending is due (`Fresh`): no other pass can have failed it meanwhile, and a
  retry makes it due at once. A success counts while it waits, then the row
  shows it (`OnceAnswered`).
* *Stores, rows.* `Dated`: an id that a service made up is older than the next
  one, so the map assignment of a new row, which the in-memory store does
  without looking, replaces nothing, a spent token least of all, and does what
  the INSERT does. `Once`: no two rows have one id, so the in-memory
  `UpdatePurchase`, which compares no owner, only replaces the caller's row; for
  edges this is that the hash of user and key is injective (`HashOnce`), for
  devices the check of the owner. Every call of every table on every backend is
  shown to be `Kept`; the unique keys and the revocations then take a lemma for
  each table they speak of. For pruned token ids, `TextOrder` says what `InStep`
  gives: where texts compare like times, SQLite prunes nothing that has not
  expired.
* *Stores, lists.* A finite set can be listed by any ranks (`Sorts`,
  `DescSorts`): a member's place is the number of members that come before it,
  so that no induction is needed. A list holds each row of its set once
  (`ListOf`), and cuts, filters and reversals show no others (`CutRows`,
  `PassRows`, `ReverseRows`). With these, what a call shows is traced to the rows
  its conditions select (`<Table>Show`, hence `TenantsStayApart`), and the lists
  of the three stores are compared (`<Table>Agree`, hence `StoresAlike`): two
  columns that compare alike (`SameColumns`) allow the same lists (`SameLatest`);
  while the audit slice has room it keeps all (`RecentRows`); where the
  in-memory store leaves the order open every order shows the same rows
  (`SameShown`); a table of at most a page is cut nowhere (`WholePage`,
  `WholePass`, `WholeAny`). `Settled` adds to the invariant that the times a
  purge or a delivery compares are instants, and that a purchase has nothing but
  its owner and its status, so that replacing it is updating it.
* *Stores, pages.* A number, `created_at` first and the place of the id's text
  second (`ByIds`), orders the jobs like the pair and is different for different
  jobs (`ByIdsOrder`), even where the order of the texts of times is wrong. By
  ranks that differ there is one list (`OneOrder`, from `PlaceCounts`; `OneList`),
  and what the cursor's condition lets through is what ranks below the cursor's
  row (`AfterCursor`). So what a store lists after a row is the rest of its list
  (`RestOfList`) and a page after a prefix makes a longer prefix (`NextPage`).
  `Walk` is a recursive function: the prefixes of the list satisfy its
  equation, and another function that does would first differ from them at some
  least number of pages (`LeastOf`), which the equation excludes
  (`WalkGathers`). There are fewer rows than instants (`RowsCounted`), so the
  walk ends with the whole list. The argument uses that cursor and order go by
  the same two columns, not that texts compare like times nor that times differ.
* *Runner.* Of a job never reclaimed from a runner at work, the one runner at
  it holds the latest claim (`OneHolder`). At a drive where nobody met
  there is one runner at most, and it has its mount point for itself: a run
  that begins beside an orphan, or where another copies, puts the drive in
  `mixed`, and an orphan is the only one there until then (`Apart`). So the
  mount point that has such a drive, or an orphan that pushes to it, holds at
  least what the drive holds and nothing foreign (`DriveSound`), and a push adds
  and takes nothing away.
* *Mounts.* `Mounted` and `Placed` tie hubd's table to the processes and its
  place in the loop to the binding at hand, `OneCall` to the handler it waits
  for; unpushed work that was done in a kept workspace is in one that is kept
  still, since every way to let go of it pushes first (`WorkHeld`, `KeptSafe`). For the wishes,
  a report in flight that no `SetDesired` overlapped carries the desired state
  that is stored (`Asked`), and whatever hubd is about to unmount was once asked
  to be unmounted (`Unwanted`): hubd's list, the rows that handlers carry and
  the table are all traced to a request.
* *Accounts.* `Held`: tokens and requests belong to users that exist, with
  versions the user had at some time; versions only grow, so a refused token
  stays refused. `Spent`: an exchanged token is revoked and at most one request
  is past the conditional revocation. `Revoked`: once a revocation without a
  refresh beside it has reached its second statement, no session it covers is
  live. `Granted`: a token with the agent's current version has a grant the
  agent still covers, through any chain of updates, since an update that takes
  something away raises the version; what it carries is that grant's scopes or
  what its mint named. `Noted` says that overlaps are in `raced`,
  which `Ruled`, `Founded` and `Granted` exempt. `Bounded` counts, beside the
  failures, the requests that are past the lock already.

The proofs found one fault in the model: `LoginRead` decided with a `CASE` whose
guards overlapped where the code's `if` and `else` do not. It is an `IF` now.

### 5.3 Only model-checked

* Liveness (`RunningJobsLeave`, `AtLeastOnce`, `Converges`, `ActualFollows`,
  `CancelStops`) and the fairness part of `ImplementsLifecycle`: liveness under
  fairness is out of the prover's reach.

Every invariant and every action property that a passing run checks is also
proved, under the assumptions of 5.1; the three runs that expect a violation
check properties that do not hold.

## 6. Not modelled

* The policy engine's rules and file reload, the token buckets and the Redis
  window: their state meets no other component's; `hazards` lists what is
  exposed there.
* Checkout and payment webhooks of the marketplace: they follow Stripe's
  protocol, of which the repository shows one side. The statements on items and
  purchases are in `Stores`.
* Workspaces, the object store client, vendor clients, rclone itself, seccomp,
  cryptography, metrics, configuration and the MCP server: I/O, formatting or
  static tables.
* The single-run mode of the runner, connectors, the environment passed to
  agents, and hubd's checks of its host.
* Errors of the store other than a missing row or a violated index (`Mounts`
  has a failing `ListBindings`), and migrations.

`PROJECT.json` lists each component with its reason.
