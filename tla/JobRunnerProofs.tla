--------------------------- MODULE JobRunnerProofs ---------------------------
(***************************************************************************)
(* The runners of one queue, for any number of jobs, runners and drives:   *)
(* a job has one runner and its verdict comes from that one, and the work  *)
(* of a job that succeeded is on its drive.                                *)
(***************************************************************************)
EXTENDS JobRunner, FiniteSetTheorems, TLAPS

Content == [drive : Drives \cup {"none"}, whole : BOOLEAN, work : SUBSET Jobs]
Stages  == {"session", "fetch", "prepare", "agent", "cleanup", "report"}
Active  == [pc : Stages, job : Jobs, out : {"none", "ok", "error"},
            claim : Nat, watch : BOOLEAN, stop : BOOLEAN]
Orphan  == {o \in [kind : {"pull", "push", "mount", "work"}, job : Jobs] :
              /\ o.kind \in {"pull", "push"} => Synced(o.job)
              /\ o.kind = "mount" => ~Synced(o.job)}

(* The queue and the runners keep their types, and only a run that is past *)
(* its agent has an outcome to report as a success.                        *)
Types ==
  /\ job \in [Jobs -> {"pending", "running", "gone"} \cup Terminal]
  /\ claims \in [Jobs -> Nat] /\ decided \in [Jobs -> Nat]
  /\ run \in [Runners -> Active \cup {Idle, Down}]
  /\ local \in [Runners -> Content] /\ remote \in [Drives -> Content]
  /\ armed \in [Runners -> SUBSET Jobs]
  /\ orphans \in [Runners -> SUBSET Orphan]
  /\ \A r \in Runners : Busy(r) /\ run[r].out = "ok"
                          => run[r].pc \in {"cleanup", "report"}

(* A job that was never taken from a runner at work: the one runner that is*)
(* at it holds its latest claim, and a verdict ended it.                   *)
OneHolder(j) ==
  /\ \A r \in Runners : Busy(r) /\ JobOf(r) = j
        => run[r].claim = claims[j] /\ job[j] # "pending"
  /\ \A r, x \in Runners :
        Busy(r) /\ JobOf(r) = j /\ Busy(x) /\ JobOf(x) = j => r = x
  /\ decided[j] # 0 => /\ decided[j] = claims[j]
                       /\ job[j] \in Terminal \cup {"gone"}

Holders == \A j \in Jobs \ late : OneHolder(j)

(* The runner holds what it pulled from drive d and has not pushed yet; an *)
(* orphan of it pushes that still.                                         *)
Holding(r, d) ==
  /\ run[r].pc \in {"prepare", "agent", "cleanup"}
  /\ Synced(JobOf(r)) /\ DriveAt(r) = d
Pushing(r, d) == \E o \in orphans[r] : o.kind = "push" /\ DriveOf[o.job] = d

(* Where nobody met at drive d, one runner at most is at it or pushes to   *)
(* it; a run at d has its mount point for itself, and what a dead run at d *)
(* has left has it for itself but for orphans that only read there.        *)
Apart(d) ==
  /\ \A r, x \in Runners : AtDrive(r, d) /\ AtDrive(x, d) => r = x
  /\ \A r \in Runners : Present(r) /\ DriveAt(r) = d => orphans[r] = {}
  /\ \A r \in Runners : \A o \in orphans[r] : DriveOf[o.job] = d =>
       /\ ~Present(r)
       /\ \A p \in orphans[r] : p.kind = "push" \/ p.job = o.job
       /\ o.kind = "push" => \A p \in orphans[r] : p.kind = "push"

AllApart == \A d \in Drives \ mixed : Apart(d)

(* All of drive d's content, and no work that is not of d.                 *)
Own(c, d) == c.drive = d /\ c.whole /\ \A j \in c.work : DriveOf[j] = d

(* Such a drive holds its own content with the work of the jobs that       *)
(* succeeded, and so does the mount point it is at or is pushed from, so   *)
(* that a push takes nothing from the drive.                               *)
DriveSound(d) ==
  /\ Own(remote[d], d)
  /\ \A j \in Jobs : Synced(j) /\ DriveOf[j] = d /\ job[j] = "succeeded"
                       => j \in remote[d].work
  /\ \A r \in Runners : Holding(r, d) \/ Pushing(r, d) =>
       Own(local[r], d) /\ remote[d].work \subseteq local[r].work
  /\ \A r \in Runners :
       Holding(r, d) /\ run[r].out = "ok" => JobOf(r) \in local[r].work
  /\ \A r \in Runners :
       At(r, "report") /\ run[r].out = "ok" /\ Synced(JobOf(r)) /\ DriveAt(r) = d
         => JobOf(r) \in remote[d].work

DrivesSound == failed = {} => \A d \in Drives \ mixed : DriveSound(d)

LEMMA BusyIsActive ==
  ASSUME Types, NEW r \in Runners
  PROVE  /\ Busy(r) <=> run[r] \in Active
         /\ Busy(r) => JobOf(r) \in Jobs /\ DriveAt(r) \in Drives
  BY RunnerAssumption
     DEF Types, Busy, Active, Stages, Idle, Down, JobOf, DriveAt

LEMMA InitTypes == Init => Types
<1>. SUFFICES ASSUME Init PROVE Types
  OBVIOUS
<1>1. Empty \in Content /\ \A d \in Drives : [Empty EXCEPT !.drive = d] \in Content
  BY DEF Empty, Content
<1>2. local \in [Runners -> Content] /\ remote \in [Drives -> Content]
  BY <1>1 DEF Init
<1>3. \A r \in Runners : run[r].pc = "idle"
  BY DEF Init, Idle
<1>4. job \in [Jobs -> {"pending", "running", "gone"} \cup Terminal]
  BY DEF Init
<1>. QED
  BY <1>2, <1>3, <1>4 DEF Init, Types, Busy

(* The steps of a runner between its claim and its report.                 *)
Inside(r) ==
  \/ Session(r) \/ Fetch(r) \/ FetchFails(r) \/ Prepare(r) \/ PrepareFails(r)
  \/ AgentEnds(r) \/ Watch(r) \/ WatchFails(r) \/ AgentKilled(r) \/ Cleanup(r)

LEMMA MovedRun ==
  ASSUME NEW a \in Active, NEW pc \in Stages, NEW out \in {"none", "ok", "error"}
  PROVE  /\ [a EXCEPT !.pc = pc] \in Active
         /\ [a EXCEPT !.pc = pc].pc = pc /\ [a EXCEPT !.pc = pc].out = a.out
         /\ [a EXCEPT !.pc = pc].job = a.job
         /\ [a EXCEPT !.pc = pc].claim = a.claim
         /\ [a EXCEPT !.pc = pc, !.out = out] \in Active
         /\ [a EXCEPT !.pc = pc, !.out = out].pc = pc
         /\ [a EXCEPT !.pc = pc, !.out = out].out = out
         /\ [a EXCEPT !.pc = pc, !.out = out].job = a.job
         /\ [a EXCEPT !.pc = pc, !.out = out].claim = a.claim
  BY DEF Active

LEMMA StoppedRun ==
  ASSUME NEW a \in Active
  PROVE  LET new == [a EXCEPT !.watch = FALSE, !.stop = TRUE]
         IN  /\ new \in Active /\ new.pc = a.pc /\ new.out = a.out
             /\ new.job = a.job /\ new.claim = a.claim
<1>. DEFINE new == [a EXCEPT !.watch = FALSE, !.stop = TRUE]
<1>1. FALSE \in BOOLEAN /\ TRUE \in BOOLEAN
  OBVIOUS
<1>2. /\ new.pc = a.pc /\ new.out = a.out
      /\ new.job = a.job /\ new.claim = a.claim
  BY DEF Active
<1>3. new \in Active
  BY <1>1 DEF Active
<1>. QED
  BY <1>2, <1>3

(* Inside a run the runner keeps its job and its claim, the queue is left  *)
(* alone, and the outcome turns "ok" with the end of the agent only.       *)
LEMMA InsideRun ==
  ASSUME Types, NEW r \in Runners, Inside(r)
  PROVE  /\ Busy(r) /\ run[r] \in Active /\ run'[r] \in Active
         /\ run' = [run EXCEPT ![r] = run'[r]]
         /\ run'[r].job = run[r].job /\ run'[r].claim = run[r].claim
         /\ run'[r].out = "ok" => run'[r].pc \in {"cleanup", "report"}
         /\ UNCHANGED <<queue, late>>
<1>1. Busy(r) /\ run[r] \in Active
  BY BusyIsActive DEF Inside, Session, Fetch, FetchFails, Prepare, PrepareFails,
       AgentEnds, Watch, WatchFails, AgentKilled, Cleanup, At, Busy
<1>2. UNCHANGED <<queue, late>>
  BY DEF Inside, Session, Fetch, FetchFails, Prepare, PrepareFails,
       AgentEnds, Watch, WatchFails, AgentKilled, Cleanup
<1>3. run[r].out = "ok" => run[r].pc \in {"cleanup", "report"}
  BY <1>1 DEF Types
<1>4. ASSUME NEW pc \in Stages, To(r, pc), run[r].out = "ok" => pc \in {"cleanup", "report"}
      PROVE  /\ run'[r] \in Active /\ run' = [run EXCEPT ![r] = run'[r]]
             /\ run'[r].job = run[r].job /\ run'[r].claim = run[r].claim
             /\ run'[r].out = "ok" => run'[r].pc \in {"cleanup", "report"}
  <2>. DEFINE new == [run[r] EXCEPT !.pc = pc]
  <2>1. run' = [run EXCEPT ![r] = new]
    BY <1>4 DEF To
  <2>2. /\ new \in Active /\ new.pc = pc /\ new.out = run[r].out
        /\ new.job = run[r].job /\ new.claim = run[r].claim
    BY <1>1, MovedRun, ZenonT(40)
  <2>. HIDE DEF new
  <2>. QED
    BY <1>4, <2>1, <2>2, SMTT(20) DEF Types
<1>5. ASSUME NEW pc \in Stages, NEW out \in {"ok", "error"},
             run' = [run EXCEPT ![r].pc = pc, ![r].out = out],
             out = "ok" => pc = "cleanup"
      PROVE  /\ run'[r] \in Active /\ run' = [run EXCEPT ![r] = run'[r]]
             /\ run'[r].job = run[r].job /\ run'[r].claim = run[r].claim
             /\ run'[r].out = "ok" => run'[r].pc \in {"cleanup", "report"}
  <2>. DEFINE new == [run[r] EXCEPT !.pc = pc, !.out = out]
  <2>1. run' = [run EXCEPT ![r] = new]
    BY <1>5
  <2>2. out \in {"none", "ok", "error"}
    OBVIOUS
  <2>3. /\ new \in Active /\ new.pc = pc /\ new.out = out
        /\ new.job = run[r].job /\ new.claim = run[r].claim
    BY <1>1, <2>2 DEF Active
  <2>. HIDE DEF new
  <2>. QED
    BY <1>5, <2>1, <2>3 DEF Types
<1>6. CASE Session(r)
  BY <1>1, <1>2, <1>3, <1>4, <1>5, <1>6 DEF Session, At, Stages
<1>7. CASE Fetch(r) \/ Prepare(r)
  BY <1>1, <1>2, <1>3, <1>4, <1>7 DEF Fetch, Prepare, At, Stages
<1>8. CASE FetchFails(r) \/ PrepareFails(r) \/ AgentEnds(r) \/ AgentKilled(r)
  BY <1>1, <1>2, <1>5, <1>8
     DEF FetchFails, PrepareFails, AgentEnds, AgentKilled, Ends, Stages
<1>9. CASE Watch(r)
  <2>. DEFINE new == [run[r] EXCEPT !.watch = FALSE, !.stop = TRUE]
  <2>1. run' = [run EXCEPT ![r] = new]
    BY <1>9 DEF Watch
  <2>2. /\ new \in Active /\ new.pc = run[r].pc /\ new.out = run[r].out
        /\ new.job = run[r].job /\ new.claim = run[r].claim
    BY <1>1, StoppedRun
  <2>. HIDE DEF new
  <2>. QED
    BY <1>1, <1>2, <1>3, <2>1, <2>2 DEF Types
<1>10. CASE WatchFails(r)
  BY <1>1, <1>2, <1>3, <1>10 DEF WatchFails, Types
<1>11. CASE Cleanup(r)
  BY <1>1, <1>2, <1>3, <1>4, <1>11 DEF Cleanup, At, Stages
<1>. QED
  BY <1>6, <1>7, <1>8, <1>9, <1>10, <1>11 DEF Inside

(* What is copied to a mount point or done there reaches no other mount    *)
(* point and no drive but one that is mounted there.                       *)
LEMMA CopiedTo ==
  ASSUME Types, NEW r \in Runners, NEW new \in Content, Copied(r, new)
  PROVE  /\ local' \in [Runners -> Content] /\ remote' \in [Drives -> Content]
         /\ local'[r] = new /\ \A x \in Runners \ {r} : local'[x] = local[x]
         /\ \A d \in Drives \ MountedAt(r) : remote'[d] = remote[d]
<1>1. local' = [local EXCEPT ![r] = new]
  BY DEF Copied
<1>2. UNCHANGED remote \/ \E d \in MountedAt(r) : remote' = [remote EXCEPT ![d] = new]
  BY DEF Copied
<1>3. local \in [Runners -> Content] /\ remote \in [Drives -> Content]
  BY DEF Types
<1>. QED
  BY <1>1, <1>2, <1>3

LEMMA WorkedOn ==
  ASSUME Types, NEW r \in Runners, NEW j \in Jobs, Worked(r, j)
  PROVE  /\ local' \in [Runners -> Content] /\ remote' \in [Drives -> Content]
         /\ local'[r] = [local[r] EXCEPT !.work = @ \cup {j}]
         /\ \A x \in Runners \ {r} : local'[x] = local[x]
         /\ \A d \in Drives \ MountedAt(r) : remote'[d] = remote[d]
<1>1. local' = [local EXCEPT ![r] = [local[r] EXCEPT !.work = @ \cup {j}]]
  BY DEF Worked
<1>2. \/ UNCHANGED remote
      \/ \E d \in MountedAt(r) :
           remote' = [remote EXCEPT ![d] = [remote[d] EXCEPT !.work = @ \cup {j}]]
  BY DEF Worked
<1>3. local \in [Runners -> Content] /\ remote \in [Drives -> Content]
  BY DEF Types
<1>4. ASSUME NEW c \in Content PROVE [c EXCEPT !.work = @ \cup {j}] \in Content
  BY DEF Content
<1>5. local' \in [Runners -> Content]
  BY <1>1, <1>3, <1>4
<1>6. remote' \in [Drives -> Content]
  <2>1. CASE UNCHANGED remote
    BY <1>3, <2>1
  <2>2. ASSUME NEW d \in MountedAt(r),
               remote' = [remote EXCEPT ![d] = [remote[d] EXCEPT !.work = @ \cup {j}]]
        PROVE  remote' \in [Drives -> Content]
    <3>1. CASE d \in Drives
      BY <1>3, <1>4, <2>2, <3>1
    <3>2. CASE d \notin Drives
      BY <1>3, <2>2, <3>2
    <3>. QED
      BY <3>1, <3>2
  <2>. QED
    BY <1>2, <2>1, <2>2
<1>7. \A d \in Drives \ MountedAt(r) : remote'[d] = remote[d]
  BY <1>2, <1>3
<1>. QED
  BY <1>1, <1>3, <1>5, <1>6, <1>7

(* What is at the mount points and on the drives stays a content.          *)
LEMMA InsideData ==
  ASSUME Types, NEW r \in Runners, Inside(r)
  PROVE  /\ local' \in [Runners -> Content] /\ remote' \in [Drives -> Content]
         /\ armed' \in [Runners -> SUBSET Jobs] /\ UNCHANGED orphans
<1>1. JobOf(r) \in Jobs /\ DriveAt(r) \in Drives
  BY InsideRun, BusyIsActive
<1>2. /\ local[r] \in Content /\ remote[DriveAt(r)] \in Content
      /\ armed[r] \in SUBSET Jobs
  BY <1>1 DEF Types
<1>3. armed' \in [Runners -> SUBSET Jobs]
  <2>1. UNCHANGED armed \/ Arms(r)
    BY DEF Inside, Session, Fetch, FetchFails, Prepare, PrepareFails,
       AgentEnds, Watch, WatchFails, AgentKilled, Cleanup, data
  <2>. QED
    BY <1>1, <2>1 DEF Arms, Types
<1>4. UNCHANGED orphans
  BY DEF Inside, Session, Fetch, FetchFails, Prepare, PrepareFails,
     AgentEnds, Watch, WatchFails, AgentKilled, Cleanup, data
<1>5. local' \in [Runners -> Content] /\ remote' \in [Drives -> Content]
  <2>1. [remote[DriveAt(r)] EXCEPT !.whole = FALSE] \in Content
    BY <1>2 DEF Content
  <2>2. \/ UNCHANGED <<local, remote>>
        \/ Copied(r, remote[DriveAt(r)])
        \/ Copied(r, [remote[DriveAt(r)] EXCEPT !.whole = FALSE])
        \/ Worked(r, JobOf(r))
        \/ UNCHANGED local /\ remote' = [remote EXCEPT ![DriveAt(r)] = local[r]]
    BY DEF Inside, Session, Fetch, FetchFails, Prepare, PrepareFails,
       AgentEnds, Watch, WatchFails, AgentKilled, Cleanup, data
  <2>3. CASE UNCHANGED <<local, remote>>
    BY <2>3 DEF Types
  <2>4. CASE Copied(r, remote[DriveAt(r)])
    BY <1>2, <2>4, CopiedTo
  <2>5. CASE Copied(r, [remote[DriveAt(r)] EXCEPT !.whole = FALSE])
    BY <2>1, <2>5, CopiedTo
  <2>6. CASE Worked(r, JobOf(r))
    BY <1>1, <2>6, WorkedOn
  <2>7. CASE UNCHANGED local /\ remote' = [remote EXCEPT ![DriveAt(r)] = local[r]]
    BY <1>2, <2>7 DEF Types
  <2>. QED
    BY <2>2, <2>3, <2>4, <2>5, <2>6, <2>7
<1>. QED
  BY <1>3, <1>4, <1>5

(* A runner that ends leaves orphans, of the kinds that its run has.       *)
LEMMA LeftBehind ==
  ASSUME Types, NEW r \in Runners
  PROVE  /\ Children(r) \subseteq Orphan
         /\ ~Present(r) => Children(r) = {}
         /\ \A o \in Children(r) : o.job = JobOf(r)
         /\ \A o \in Children(r) : o.kind = "push" =>
              At(r, "cleanup") /\ Synced(JobOf(r)) /\ \A p \in Children(r) : p.kind = "push"
<1>1. Present(r) => JobOf(r) \in Jobs
  BY BusyIsActive DEF Present, Busy
<1>2. ~Present(r) => Children(r) = {}
  BY DEF Children, Present, At
<1>3. CASE Present(r)
  <2>1. Children(r) \subseteq Orphan
    BY <1>1, <1>3 DEF Children, Child, Orphan, Present, At
  <2>2. \A o \in Children(r) : o.job = JobOf(r)
    BY DEF Children, Child
  <2>3. \A o \in Children(r) : o.kind = "push" =>
          At(r, "cleanup") /\ Synced(JobOf(r)) /\ \A p \in Children(r) : p.kind = "push"
    BY <1>3 DEF Children, Child, Present, At
  <2>. QED
    BY <1>2, <2>1, <2>2, <2>3
<1>. QED
  BY <1>2, <1>3

LEMMA StepTypes == Types /\ [Next]_vars => Types'
<1>. SUFFICES ASSUME Types, [Next]_vars PROVE Types'
  OBVIOUS
<1>1. ASSUME NEW j \in Jobs, Cancel(j) \/ Purge(j) \/ Reclaim(j) PROVE Types'
  <2>1. job' \in [Jobs -> {"pending", "running", "gone"} \cup Terminal]
    BY <1>1 DEF Cancel, Purge, Reclaim, Types, Terminal
  <2>2. UNCHANGED <<claims, decided, run, data>>
    BY <1>1 DEF Cancel, Purge, Reclaim
  <2>. QED
    BY <2>1, <2>2 DEF Types, data, Busy
<1>2. ASSUME NEW r \in Runners, NEW new \in Active \cup {Idle, Down},
             run' = [run EXCEPT ![r] = new],
             new.pc \notin {"idle", "down"} /\ new.out = "ok"
               => new.pc \in {"cleanup", "report"}
      PROVE  /\ run' \in [Runners -> Active \cup {Idle, Down}]
             /\ \A x \in Runners : Busy(x)' /\ run'[x].out = "ok"
                                     => run'[x].pc \in {"cleanup", "report"}
  BY <1>2 DEF Types, Busy
<1>3. ASSUME NEW r \in Runners, Inside(r) PROVE Types'
  <2>1. /\ run'[r] \in Active /\ run' = [run EXCEPT ![r] = run'[r]]
        /\ run'[r].out = "ok" => run'[r].pc \in {"cleanup", "report"}
        /\ UNCHANGED queue
    BY <1>3, InsideRun
  <2>. QED
    BY <1>2, <1>3, <2>1, InsideData DEF Types, queue
<1>4. ASSUME NEW r \in Runners, NEW j \in Jobs, ClaimNext(r, j) PROVE Types'
  <2>1. /\ job' \in [Jobs -> {"pending", "running", "gone"} \cup Terminal]
        /\ claims' \in [Jobs -> Nat] /\ decided' = decided
        /\ UNCHANGED data
    BY <1>4 DEF ClaimNext, Claimed, Claimable, Types
  <2>. DEFINE new == [pc |-> "session", job |-> j, out |-> "none",
                      claim |-> claims[j] + 1, watch |-> TRUE, stop |-> FALSE]
  <2>2. new \in Active /\ run' = [run EXCEPT ![r] = new] /\ new.out # "ok"
    BY <1>4 DEF ClaimNext, Types, Active, Stages
  <2>. HIDE DEF new
  <2>. QED
    BY <1>2, <2>1, <2>2 DEF Types, data
<1>5. ASSUME NEW r \in Runners, NEW j \in Jobs, ClaimLost(r, j) PROVE Types'
  BY <1>5 DEF ClaimLost, Claimed, Claimable, Types, Fault, data, Busy
<1>6. ASSUME NEW r \in Runners, Report(r) \/ ReportLost(r) PROVE Types'
  <2>1. run' = [run EXCEPT ![r] = Idle] /\ UNCHANGED <<claims, data>>
    BY <1>6 DEF Report, ReportLost, queue
  <2>2. run[r] \in Active /\ JobOf(r) \in Jobs
    BY <1>6, BusyIsActive DEF Report, ReportLost, At, Busy
  <2>3. /\ job' \in [Jobs -> {"pending", "running", "gone"} \cup Terminal]
        /\ decided' \in [Jobs -> Nat]
    BY <1>6, <2>2 DEF Report, ReportLost, Completed, queue, Types, Terminal, Active
  <2>4. Idle.pc = "idle"
    BY DEF Idle
  <2>. QED
    BY <1>2, <2>1, <2>3, <2>4 DEF Types, data
<1>7. ASSUME NEW r \in Runners, Signal(r) \/ Crash(r) \/ Start(r) PROVE Types'
  <2>1. run' = [run EXCEPT ![r] = Down] \/ run' = [run EXCEPT ![r] = Idle]
    BY <1>7 DEF Signal, Crash, Start
  <2>2. Down.pc = "down" /\ Idle.pc = "idle"
    BY DEF Down, Idle
  <2>3. UNCHANGED <<queue, local>> /\ armed' \in [Runners -> SUBSET Jobs]
    BY <1>7 DEF Signal, Crash, Start, data, Types
  <2>4. local[r] \in Content
    BY DEF Types
  <2>5. remote' \in [Drives -> Content]
    BY <1>7, <2>4 DEF Signal, Crash, Start, data, Types
  <2>6. orphans' \in [Runners -> SUBSET Orphan]
    <3>1. CASE Start(r)
      BY <3>1 DEF Start, data, Types
    <3>2. ASSUME NEW new \in SUBSET Orphan,
                 orphans' = [orphans EXCEPT ![r] = @ \cup new]
          PROVE  orphans' \in [Runners -> SUBSET Orphan]
      BY <3>2 DEF Types
    <3>3. CASE Crash(r)
      <4>1. PICK left \in SUBSET Children(r) :
              orphans' = [orphans EXCEPT ![r] = @ \cup left]
        BY <3>3 DEF Crash
      <4>. QED
        BY <3>2, <4>1, LeftBehind
    <3>4. CASE Signal(r)
      <4>. DEFINE own == {x \in armed[r] : Synced(x)}
      <4>1. PICK begun \in SUBSET own, left \in SUBSET Children(r) :
              orphans' = [orphans EXCEPT ![r] = @ \cup left \cup
                            [kind : {"push"}, job : begun]]
        BY <3>4 DEF Signal
      <4>2. [kind : {"push"}, job : begun] \subseteq Orphan
        BY <4>1 DEF Orphan, Types
      <4>3. left \cup [kind : {"push"}, job : begun] \in SUBSET Orphan
        BY <4>1, <4>2, LeftBehind
      <4>4. orphans' = [orphans EXCEPT ![r] = @ \cup
                          (left \cup [kind : {"push"}, job : begun])]
        BY <4>1 DEF Types
      <4>. QED
        BY <3>2, <4>3, <4>4
    <3>. QED
      BY <1>7, <3>1, <3>3, <3>4
  <2>. QED
    BY <1>2, <2>1, <2>2, <2>3, <2>5, <2>6 DEF Types, queue
<1>9. ASSUME NEW r \in Runners, NEW o \in orphans[r], OrphanEnds(r, o) PROVE Types'
  <2>1. o \in Orphan /\ o.job \in Jobs /\ DriveOf[o.job] \in Drives
    BY RunnerAssumption DEF Types, Orphan
  <2>2. UNCHANGED <<queue, run, armed>>
    BY <1>9 DEF OrphanEnds
  <2>3. orphans' \in [Runners -> SUBSET Orphan]
    BY <1>9 DEF OrphanEnds, Types
  <2>4. /\ local[r] \in Content /\ remote[DriveOf[o.job]] \in Content
    BY <2>1 DEF Types
  <2>5. local' \in [Runners -> Content] /\ remote' \in [Drives -> Content]
    <3>1. CASE Copied(r, remote[DriveOf[o.job]])
      BY <2>4, <3>1, CopiedTo
    <3>2. CASE Worked(r, o.job)
      BY <2>1, <3>2, WorkedOn
    <3>3. CASE /\ remote' = [remote EXCEPT ![DriveOf[o.job]] = local[r]]
               /\ UNCHANGED local
      BY <2>4, <3>3 DEF Types
    <3>4. CASE UNCHANGED <<local, remote>>
      BY <3>4 DEF Types
    <3>. QED
      BY <1>9, <3>1, <3>2, <3>3, <3>4 DEF OrphanEnds
  <2>. QED
    BY <2>2, <2>3, <2>5 DEF Types, queue, Busy
<1>8. CASE UNCHANGED vars
  BY <1>8 DEF vars, queue, data, Types, Busy
<1>. QED
  BY <1>1, <1>3, <1>4, <1>5, <1>6, <1>7, <1>8, <1>9 DEF Next, RunnerStep, Inside

LEMMA TypesAlways == Spec => []Types
  BY InitTypes, StepTypes, PTL DEF Spec

-----------------------------------------------------------------------------
(* One runner per job.                                                     *)

LEMMA HoldersStep == Types /\ Types' /\ Holders /\ [Next]_vars => Holders'
<1>. SUFFICES ASSUME Types, Types', Holders, [Next]_vars,
                     NEW j \in Jobs, j \notin late'
              PROVE  OneHolder(j)'
  BY DEF Holders
<1>0. late \subseteq late'
  BY DEF Next, RunnerStep, Cancel, Purge, Reclaim, ClaimNext, ClaimLost, Session,
       Fetch, FetchFails, Prepare, PrepareFails, AgentEnds, Watch, WatchFails,
       AgentKilled, Cleanup, Report, ReportLost, Signal, Crash, Start,
       OrphanEnds, vars
<1>1. OneHolder(j)
  BY <1>0 DEF Holders
(* Steps that leave the runners alone.                                     *)
<1>2. ASSUME NEW i \in Jobs, Cancel(i) \/ Purge(i) PROVE OneHolder(j)'
  BY <1>1, <1>2 DEF Cancel, Purge, OneHolder, Types, Busy, JobOf, Terminal
<1>3. ASSUME NEW i \in Jobs, Reclaim(i) PROVE OneHolder(j)'
  <2>1. i # j \/ ~\E r \in Runners : Busy(r) /\ JobOf(r) = j
    BY <1>3 DEF Reclaim, Beats
  <2>2. job' \in [Jobs -> {"pending", "running", "gone"} \cup Terminal]
        /\ (i # j => job'[j] = job[j])
    BY <1>3 DEF Reclaim, Types
  <2>3. job[i] \notin Terminal \cup {"gone"} /\ UNCHANGED <<run, claims, decided>>
    BY <1>3 DEF Reclaim, Terminal
  <2>. QED
    BY <1>1, <2>1, <2>2, <2>3 DEF OneHolder, Types, Busy, JobOf
<1>4. ASSUME NEW r \in Runners, Inside(r) PROVE OneHolder(j)'
  <2>1. /\ Busy(r) /\ UNCHANGED <<job, claims, decided>>
        /\ run' = [run EXCEPT ![r] = run'[r]]
        /\ run'[r].job = run[r].job /\ run'[r].claim = run[r].claim
    BY <1>4, InsideRun DEF queue
  <2>2. \A x \in Runners : Busy(x)' => /\ Busy(x) /\ run'[x].job = run[x].job
                                        /\ run'[x].claim = run[x].claim
    BY <2>1 DEF Types, Busy
  <2>. QED
    BY <1>1, <2>1, <2>2 DEF OneHolder, JobOf
<1>5. ASSUME NEW r \in Runners, NEW i \in Jobs, ClaimNext(r, i) PROVE OneHolder(j)'
  <2>. DEFINE new == [pc |-> "session", job |-> i, out |-> "none",
                      claim |-> claims[i] + 1, watch |-> TRUE, stop |-> FALSE]
  <2>1. /\ run' = [run EXCEPT ![r] = new] /\ new.job = i
        /\ new.claim = claims[i] + 1 /\ new.pc = "session"
    BY <1>5 DEF ClaimNext
  <2>2. /\ job[i] = "pending" /\ job' = [job EXCEPT ![i] = "running"]
        /\ claims' = [claims EXCEPT ![i] = @ + 1] /\ decided' = decided
    BY <1>5 DEF ClaimNext, Claimed, Claimable
  <2>. HIDE DEF new
  <2>3. \A x \in Runners : Busy(x)' /\ x # r => Busy(x) /\ run'[x] = run[x]
    BY <2>1 DEF Types, Busy
  <2>4. run'[r] = new
    BY <2>1 DEF Types
  <2>5. CASE i = j
    <3>1. \A x \in Runners : ~(Busy(x) /\ JobOf(x) = j)
      BY <1>1, <2>2, <2>5 DEF OneHolder
    <3>2. \A x \in Runners : Busy(x)' /\ JobOf(x)' = j => x = r
      BY <2>3, <3>1 DEF JobOf
    <3>3. run'[r].claim = claims'[j] /\ job'[j] # "pending"
      BY <2>1, <2>2, <2>4, <2>5 DEF Types
    <3>4. decided[j] = 0
      BY <1>1, <2>2, <2>5 DEF OneHolder, Terminal
    <3>. QED
      BY <2>2, <3>2, <3>3, <3>4 DEF OneHolder
  <2>6. CASE i # j
    <3>1. claims'[j] = claims[j] /\ job'[j] = job[j] /\ decided'[j] = decided[j]
      BY <2>2, <2>6 DEF Types
    <3>2. JobOf(r)' # j
      BY <2>1, <2>4, <2>6 DEF JobOf
    <3>. QED
      BY <1>1, <2>3, <3>1, <3>2 DEF OneHolder, JobOf
  <2>. QED
    BY <2>5, <2>6
<1>6. ASSUME NEW r \in Runners, NEW i \in Jobs, ClaimLost(r, i) PROVE OneHolder(j)'
  <2>1. /\ job[i] = "pending" /\ job' = [job EXCEPT ![i] = "running"]
        /\ claims' = [claims EXCEPT ![i] = @ + 1] /\ UNCHANGED <<run, decided>>
    BY <1>6 DEF ClaimLost, Claimed, Claimable
  <2>2. CASE i = j
    BY <1>1, <2>1, <2>2 DEF OneHolder, Types, Terminal, Busy, JobOf
  <2>3. CASE i # j
    BY <1>1, <2>1, <2>3 DEF OneHolder, Types, Busy, JobOf
  <2>. QED
    BY <2>2, <2>3
(* Steps after which the runner is at no job.                              *)
<1>7. ASSUME NEW r \in Runners, NEW to \in {Idle, Down}, run' = [run EXCEPT ![r] = to]
      PROVE  \A x \in Runners : Busy(x)' => Busy(x) /\ run'[x] = run[x]
  BY <1>7 DEF Types, Busy, Idle, Down
<1>8. ASSUME NEW r \in Runners, Report(r) PROVE OneHolder(j)'
  <2>1. Busy(r) /\ run' = [run EXCEPT ![r] = Idle] /\ UNCHANGED claims
    BY <1>8 DEF Report, At, Busy
  <2>2. JobOf(r) \in Jobs /\ run[r].claim \in Nat
    BY <2>1, BusyIsActive DEF Active
  <2>3. \A x \in Runners : Busy(x)' => Busy(x) /\ run'[x] = run[x]
    BY <1>7, <2>1
  <2>4. CASE JobOf(r) # j \/ job[j] \in Terminal \cup {"gone"}
    <3>1. job'[j] = job[j] /\ decided'[j] = decided[j]
      BY <1>8, <2>2, <2>4 DEF Report, Completed, Types
    <3>. QED
      BY <1>1, <2>1, <2>3, <3>1 DEF OneHolder, JobOf
  <2>5. CASE JobOf(r) = j /\ job[j] \notin Terminal \cup {"gone"}
    <3>1. run[r].claim = claims[j]
      BY <1>1, <2>1, <2>5 DEF OneHolder
    <3>2. decided'[j] = claims[j] /\ job'[j] \in {"succeeded", "failed"}
      BY <1>8, <2>5, <3>1 DEF Report, Completed, Types
    <3>. QED
      BY <1>1, <2>1, <2>3, <3>2 DEF OneHolder, JobOf, Terminal
  <2>. QED
    BY <2>4, <2>5
<1>9. ASSUME NEW r \in Runners,
             ReportLost(r) \/ Signal(r) \/ Crash(r) \/ Start(r)
      PROVE  OneHolder(j)'
  <2>1. /\ UNCHANGED <<job, claims, decided>>
        /\ run' = [run EXCEPT ![r] = Idle] \/ run' = [run EXCEPT ![r] = Down]
    BY <1>9 DEF ReportLost, Signal, Crash, Start, queue
  <2>2. \A x \in Runners : Busy(x)' => Busy(x) /\ run'[x] = run[x]
    BY <1>7, <2>1
  <2>. QED
    BY <1>1, <2>1, <2>2 DEF OneHolder, JobOf
<1>10. CASE UNCHANGED vars
  BY <1>1, <1>10 DEF vars, queue, OneHolder, Busy, JobOf
<1>11. ASSUME NEW r \in Runners, NEW o \in orphans[r], OrphanEnds(r, o)
       PROVE  OneHolder(j)'
  BY <1>1, <1>11 DEF OrphanEnds, queue, OneHolder, Busy, JobOf
<1>. QED
  BY <1>2, <1>3, <1>4, <1>5, <1>6, <1>8, <1>9, <1>10, <1>11
     DEF Next, RunnerStep, Inside

LEMMA HoldersAlways == Spec => []Holders
<1>1. Init => Holders
  BY DEF Init, Holders, OneHolder, Busy, Idle
<1>. QED
  BY <1>1, HoldersStep, TypesAlways, PTL DEF Spec

(* No two runners are at one job, and its verdict comes from the run of its*)
(* latest claim, unless ReclaimStale took it from a runner that was at     *)
(* work: for any number of runners and jobs, lost claims and completions,  *)
(* crashes, cancellations and purges.                                      *)
THEOREM OneHolderPerJob == Spec => []HolderDecides
<1>1. Types /\ Holders => HolderDecides
  <2>. SUFFICES ASSUME Types, Holders, NEW j \in Jobs \ late
                PROVE  /\ Cardinality({r \in Runners : Busy(r) /\ JobOf(r) = j}) <= 1
                       /\ decided[j] \in {0, claims[j]}
    BY DEF HolderDecides
  <2>. DEFINE at == {r \in Runners : Busy(r) /\ JobOf(r) = j}
  <2>1. OneHolder(j)
    BY DEF Holders
  <2>2. CASE at = {}
    BY <2>1, <2>2, FS_EmptySet DEF OneHolder
  <2>3. CASE at # {}
    <3>1. PICK r \in at : TRUE
      BY <2>3
    <3>2. at = {r}
      BY <2>1, <3>1 DEF OneHolder
    <3>3. Cardinality({r}) = 1
      BY FS_Singleton, Zenon
    <3>. QED
      BY <2>1, <3>2, <3>3 DEF OneHolder
  <2>. QED
    BY <2>2, <2>3
<1>. QED
  BY <1>1, TypesAlways, HoldersAlways, PTL

-----------------------------------------------------------------------------
(* The work of a job reaches its drive.                                    *)

LEMMA HistoryGrows ==
  ASSUME [Next]_vars
  PROVE  mixed \subseteq mixed' /\ (failed' = {} => failed = {})
  BY ZenonT(40) DEF Next, RunnerStep, Cancel, Purge, Reclaim, ClaimNext, ClaimLost, Session,
       Fetch, FetchFails, Prepare, PrepareFails, AgentEnds, Watch, WatchFails,
       AgentKilled, Cleanup, Report, ReportLost, Signal, Crash, Start, OrphanEnds,
       vars, data, bound, Ask, Fault, SyncFault

LEMMA PresentIsBusy ==
  ASSUME Types, NEW r \in Runners, Present(r)
  PROVE  /\ Busy(r) /\ run[r] \in Active /\ JobOf(r) \in Jobs
         /\ DriveAt(r) \in Drives
  BY BusyIsActive DEF Present, Busy

(* Nobody comes to a mount point or to drive d, no orphan is left there.   *)
LEMMA ApartKept ==
  ASSUME NEW d \in Drives, Apart(d),
         \A x \in Runners : Present(x)' => Present(x) /\ run'[x].job = run[x].job,
         \A x \in Runners : orphans'[x] \subseteq orphans[x]
  PROVE  Apart(d)'
<1>1. \A x \in Runners : Present(x)' => Present(x) /\ JobOf(x)' = JobOf(x)
                                          /\ DriveAt(x)' = DriveAt(x)
  BY DEF JobOf, DriveAt
<1>2. \A x \in Runners : AtDrive(x, d)' => AtDrive(x, d)
  BY <1>1 DEF AtDrive, Synced
<1>3. \A r, x \in Runners : AtDrive(r, d)' /\ AtDrive(x, d)' => r = x
  BY <1>2 DEF Apart
<1>4. \A r \in Runners : Present(r)' /\ DriveAt(r)' = d => orphans'[r] = {}
  BY <1>1 DEF Apart
<1>5. \A r \in Runners : \A o \in orphans'[r] : DriveOf[o.job] = d =>
        /\ ~Present(r)'
        /\ \A p \in orphans'[r] : p.kind = "push" \/ p.job = o.job
        /\ o.kind = "push" => \A p \in orphans'[r] : p.kind = "push"
  BY <1>1 DEF Apart
<1>. QED
  BY <1>3, <1>4, <1>5 DEF Apart

(* A run that is over leaves some of its children at drive d, and pushes   *)
(* to other drives.                                                        *)
LEMMA ApartLeft ==
  ASSUME Types, NEW d \in Drives, Apart(d), NEW r \in Runners,
         run' = [run EXCEPT ![r] = Down],
         NEW left \in SUBSET Children(r), NEW begun,
         orphans' = [orphans EXCEPT ![r] = @ \cup left \cup begun],
         \A o \in begun : o.kind = "push" /\ DriveOf[o.job] # d
  PROVE  Apart(d)'
<1>1. ~Present(r)' /\ \A x \in Runners \ {r} : run'[x] = run[x] /\ orphans'[x] = orphans[x]
  BY DEF Types, Present, Down
<1>2. orphans'[r] = orphans[r] \cup left \cup begun
  BY DEF Types
<1>3. /\ ~Present(r) => left = {}
      /\ \A o \in left : o.job = JobOf(r)
      /\ \A o \in left : o.kind = "push" =>
           At(r, "cleanup") /\ Synced(JobOf(r)) /\ \A p \in left : p.kind = "push"
  BY LeftBehind
<1>4. \A o \in left : DriveOf[o.job] = d => orphans[r] = {}
  BY <1>3 DEF Apart, DriveAt
<1>5. \A x \in Runners \ {r} : /\ Present(x)' <=> Present(x)
                               /\ DriveAt(x)' = DriveAt(x)
                               /\ AtDrive(x, d)' <=> AtDrive(x, d)
  BY <1>1 DEF Present, AtDrive, JobOf, DriveAt, Synced
<1>6. AtDrive(r, d)' => AtDrive(r, d)
  <2>. SUFFICES ASSUME NEW o \in orphans'[r], o.kind = "push", DriveOf[o.job] = d
                PROVE  AtDrive(r, d)
    BY <1>1 DEF AtDrive
  <2>1. CASE o \in orphans[r]
    BY <2>1 DEF AtDrive
  <2>2. CASE o \in left
    BY <1>3, <2>2 DEF AtDrive, DriveAt, At, Present
  <2>. QED
    BY <1>2, <2>1, <2>2
<1>7. \A y, x \in Runners : AtDrive(y, d)' /\ AtDrive(x, d)' => y = x
  BY <1>5, <1>6 DEF Apart
<1>8. \A x \in Runners : Present(x)' /\ DriveAt(x)' = d => orphans'[x] = {}
  BY <1>1, <1>5 DEF Apart
<1>9. ASSUME NEW o \in orphans'[r], DriveOf[o.job] = d
      PROVE  /\ \A p \in orphans'[r] : p.kind = "push" \/ p.job = o.job
             /\ o.kind = "push" => \A p \in orphans'[r] : p.kind = "push"
  <2>1. CASE o \in orphans[r]
    <3>1. left = {}
      BY <1>3, <1>9, <2>1 DEF Apart
    <3>. QED
      BY <1>2, <1>9, <2>1, <3>1 DEF Apart
  <2>2. CASE o \in left
    <3>1. orphans[r] = {}
      BY <1>4, <1>9, <2>2
    <3>. QED
      BY <1>2, <1>3, <2>2, <3>1
  <2>. QED
    BY <1>2, <1>9, <2>1, <2>2
<1>10. \A x \in Runners : \A o \in orphans'[x] : DriveOf[o.job] = d =>
        /\ ~Present(x)'
        /\ \A p \in orphans'[x] : p.kind = "push" \/ p.job = o.job
        /\ o.kind = "push" => \A p \in orphans'[x] : p.kind = "push"
  BY <1>1, <1>5, <1>9 DEF Apart
<1>. QED
  BY <1>7, <1>8, <1>10 DEF Apart

LEMMA ApartStep == Types /\ Types' /\ AllApart /\ [Next]_vars => AllApart'
<1>. SUFFICES ASSUME Types, Types', AllApart, [Next]_vars,
                     NEW d \in Drives, d \notin mixed'
              PROVE  Apart(d)'
  BY DEF AllApart
<1>1. Apart(d) /\ d \notin mixed
  BY HistoryGrows DEF AllApart
<1>2. ASSUME NEW j \in Jobs, Cancel(j) \/ Purge(j) \/ Reclaim(j) PROVE Apart(d)'
  <2>1. UNCHANGED <<run, orphans>>
    BY <1>2 DEF Cancel, Purge, Reclaim, data
  <2>. QED
    BY <1>1, <2>1, ApartKept DEF Present
<1>3. ASSUME NEW r \in Runners, NEW to \in Active \cup {Idle, Down},
             run' = [run EXCEPT ![r] = to], to.pc \in {"idle", "down", "session"},
             \A x \in Runners : orphans'[x] \subseteq orphans[x]
      PROVE  Apart(d)'
  <2>1. \A x \in Runners : Present(x)' => Present(x) /\ run'[x].job = run[x].job
    BY <1>3 DEF Types, Present
  <2>. QED
    BY <1>1, <1>3, <2>1, ApartKept
<1>4. ASSUME NEW r \in Runners, NEW j \in Jobs, ClaimNext(r, j) \/ ClaimLost(r, j)
      PROVE  Apart(d)'
  <2>1. CASE ClaimLost(r, j)
    <3>1. UNCHANGED <<run, orphans>>
      BY <2>1 DEF ClaimLost, data
    <3>. QED
      BY <1>1, <3>1, ApartKept DEF Present
  <2>2. CASE ClaimNext(r, j)
    <3>1. UNCHANGED orphans
      BY <2>2 DEF ClaimNext, data
    <3>2. \A x \in Runners : run'[x] = run[x] \/ run'[x].pc = "session"
      BY <2>2 DEF ClaimNext, Types
    <3>3. \A x \in Runners : Present(x)' => Present(x) /\ run'[x].job = run[x].job
      BY <3>2 DEF Present
    <3>. QED
      BY <1>1, <3>1, <3>3, ApartKept
  <2>. QED
    BY <1>4, <2>1, <2>2
<1>5. ASSUME NEW r \in Runners, Report(r) \/ ReportLost(r) \/ Start(r) PROVE Apart(d)'
  <2>1. UNCHANGED orphans /\ run' = [run EXCEPT ![r] = Idle] /\ Idle.pc = "idle"
    BY <1>5 DEF Report, ReportLost, Start, data, Idle
  <2>. QED
    BY <1>3, <2>1
<1>6. ASSUME NEW r \in Runners, Crash(r) PROVE Apart(d)'
  <2>1. PICK left \in SUBSET Children(r) :
          orphans' = [orphans EXCEPT ![r] = @ \cup left]
    BY <1>6 DEF Crash
  <2>2. orphans' = [orphans EXCEPT ![r] = @ \cup left \cup {}]
    BY <2>1
  <2>3. run' = [run EXCEPT ![r] = Down]
    BY <1>6 DEF Crash
  <2>4. \A o \in {} : o.kind = "push" /\ DriveOf[o.job] # d
    OBVIOUS
  <2>. DEFINE none == {}
  <2>5. /\ orphans' = [orphans EXCEPT ![r] = @ \cup left \cup none]
        /\ \A o \in none : o.kind = "push" /\ DriveOf[o.job] # d
    BY <2>2, <2>4
  <2>. HIDE DEF none
  <2>. QED
    BY <1>1, <2>3, <2>5, ApartLeft
<1>7. ASSUME NEW r \in Runners, Signal(r) PROVE Apart(d)'
  <2>. DEFINE own == {x \in armed[r] : Synced(x)}
  <2>1. PICK done \in SUBSET own, begun \in SUBSET own, left \in SUBSET Children(r) :
          /\ orphans' = [orphans EXCEPT ![r] = @ \cup left \cup
                            [kind : {"push"}, job : begun]]
          /\ mixed' = mixed \cup {DriveOf[j] : j \in done \cup begun}
    BY <1>7 DEF Signal
  <2>2. \A o \in [kind : {"push"}, job : begun] : o.kind = "push" /\ DriveOf[o.job] # d
    BY <2>1
  <2>3. run' = [run EXCEPT ![r] = Down]
    BY <1>7 DEF Signal
  <2>. QED
    BY <1>1, <2>1, <2>2, <2>3, ApartLeft
<1>8. ASSUME NEW r \in Runners, NEW o \in orphans[r], OrphanEnds(r, o) PROVE Apart(d)'
  <2>1. UNCHANGED run /\ \A x \in Runners : orphans'[x] \subseteq orphans[x]
    BY <1>8 DEF OrphanEnds, Types
  <2>. QED
    BY <1>1, <2>1, ApartKept DEF Present
<1>9. ASSUME NEW r \in Runners, Inside(r) PROVE Apart(d)'
  <2>1. /\ run[r] \in Active /\ run'[r] \in Active /\ UNCHANGED orphans
        /\ run'[r].job = run[r].job
        /\ \A x \in Runners \ {r} : run'[x] = run[x]
        /\ JobOf(r) \in Jobs /\ DriveAt(r) \in Drives
    BY <1>9, InsideRun, InsideData, BusyIsActive DEF Types
  <2>2. CASE Present(r)
    <3>1. \A x \in Runners : Present(x)' => Present(x) /\ run'[x].job = run[x].job
      BY <2>1, <2>2 DEF Present
    <3>. QED
      BY <1>1, <2>1, <3>1, ApartKept
  <2>3. CASE ~Present(r)
    <3>1. Session(r)
      BY <1>9, <2>3 DEF Inside, Fetch, FetchFails, Prepare, PrepareFails,
         AgentEnds, Watch, WatchFails, AgentKilled, Cleanup, At, Present
    <3>2. CASE run'[r].pc # "fetch"
      <4>1. run'[r].pc = "report"
        BY <2>1, <3>1, <3>2 DEF Session, To, Types, Active
      <4>2. \A x \in Runners : Present(x)' => Present(x) /\ run'[x].job = run[x].job
        BY <2>1, <4>1 DEF Present
      <4>. QED
        BY <1>1, <2>1, <4>2, ApartKept
    <3>3. CASE run'[r].pc = "fetch"
      <4>1. d \notin Met(r)
        <5>1. run' = [run EXCEPT ![r].pc = "report", ![r].out = "error"]
                => run'[r].pc = "report"
          BY <2>1 DEF Types, Active
        <5>2. mixed' = mixed \cup Met(r)
          BY <3>1, <3>3, <5>1 DEF Session
        <5>. QED
          BY <5>2
      <4>2. DriveAt(r) = d => orphans[r] = {}
        BY <4>1 DEF Met
      <4>3. \A o \in orphans[r] : DriveOf[o.job] # d
        BY <4>1 DEF Met
      <4>4. Synced(JobOf(r)) /\ DriveAt(r) = d
              => \A x \in Runners \ {r} : ~AtDrive(x, d)
        BY <4>1, <4>2 DEF Met
      <4>5. \A x \in Runners \ {r} : /\ Present(x)' <=> Present(x)
                                     /\ DriveAt(x)' = DriveAt(x)
                                     /\ AtDrive(x, d)' <=> AtDrive(x, d)
        BY <2>1 DEF Present, AtDrive, JobOf, DriveAt, Synced
      <4>6. /\ DriveAt(r)' = DriveAt(r)
            /\ AtDrive(r, d)' => Synced(JobOf(r)) /\ DriveAt(r) = d
        BY <2>1, <4>3 DEF AtDrive, JobOf, DriveAt, Synced
      <4>7. \A y, x \in Runners : AtDrive(y, d)' /\ AtDrive(x, d)' => y = x
        BY <1>1, <4>4, <4>5, <4>6 DEF Apart
      <4>8. \A x \in Runners : Present(x)' /\ DriveAt(x)' = d => orphans'[x] = {}
        BY <1>1, <2>1, <4>2, <4>5, <4>6 DEF Apart
      <4>9. \A x \in Runners : \A o \in orphans'[x] : DriveOf[o.job] = d =>
              /\ ~Present(x)'
              /\ \A p \in orphans'[x] : p.kind = "push" \/ p.job = o.job
              /\ o.kind = "push" => \A p \in orphans'[x] : p.kind = "push"
        BY <1>1, <2>1, <4>3, <4>5 DEF Apart
      <4>. QED
        BY <4>7, <4>8, <4>9 DEF Apart
    <3>. QED
      BY <3>2, <3>3
  <2>. QED
    BY <2>2, <2>3
<1>10. CASE UNCHANGED vars
  <2>1. UNCHANGED <<run, orphans>>
    BY <1>10 DEF vars, data
  <2>. QED
    BY <1>1, <2>1, ApartKept DEF Present
<1>. QED
  BY <1>2, <1>4, <1>5, <1>6, <1>7, <1>8, <1>9, <1>10 DEF Next, RunnerStep, Inside

LEMMA ApartAlways == Spec => []AllApart
<1>1. Init => AllApart
  BY DEF Init, AllApart, Apart, AtDrive, Present, Idle
<1>. QED
  BY <1>1, ApartStep, TypesAlways, PTL DEF Spec

-----------------------------------------------------------------------------
(* The work of a job reaches its drive.                                    *)

(* No contents of drive d change, no run begins to copy it, and no synced  *)
(* job of d succeeds but one whose work is there.                          *)
LEMMA DriveKept ==
  ASSUME NEW d \in Drives, DriveSound(d),
         remote'[d] = remote[d],
         \A j \in Jobs : Synced(j) /\ DriveOf[j] = d /\ job'[j] = "succeeded"
            => job[j] = "succeeded" \/ j \in remote[d].work,
         \A r \in Runners :
            Holding(r, d)' => /\ Holding(r, d) /\ run'[r].job = run[r].job
                              /\ run'[r].out = run[r].out /\ local'[r] = local[r],
         \A r \in Runners :
            Pushing(r, d)' => /\ Holding(r, d) \/ Pushing(r, d)
                              /\ local'[r] = local[r],
         \A r \in Runners :
            At(r, "report")' /\ run'[r].out = "ok" =>
              At(r, "report") /\ run[r].out = "ok" /\ run'[r].job = run[r].job
  PROVE  DriveSound(d)'
<1>1. \A r \in Runners : Holding(r, d)' \/ Pushing(r, d)' =>
        Own(local'[r], d) /\ remote'[d].work \subseteq local'[r].work
  BY DEF DriveSound
<1>2. \A r \in Runners :
        Holding(r, d)' /\ run'[r].out = "ok" => JobOf(r)' \in local'[r].work
  BY DEF DriveSound, JobOf
<1>3. \A r \in Runners :
       At(r, "report")' /\ run'[r].out = "ok" /\ Synced(JobOf(r)') /\ DriveAt(r)' = d
         => JobOf(r)' \in remote'[d].work
  BY DEF DriveSound, JobOf, DriveAt
<1>4. \A j \in Jobs : Synced(j) /\ DriveOf[j] = d /\ job'[j] = "succeeded"
                       => j \in remote'[d].work
  BY DEF DriveSound
<1>5. Own(remote'[d], d)
  BY DEF DriveSound
<1>. QED
  BY <1>1, <1>2, <1>3, <1>4, <1>5 DEF DriveSound, Own, Synced

LEMMA HoldingIsPresent ==
  ASSUME NEW r \in Runners, NEW d \in Drives
  PROVE  /\ Holding(r, d) => Present(r) /\ AtDrive(r, d)
         /\ Pushing(r, d) => AtDrive(r, d)
  BY DEF Holding, Pushing, Present, AtDrive

(* Drive d is not mounted at the mount point where a synced run is, nor    *)
(* where a copy or a workspace's agent is left, nor is d pulled or pushed  *)
(* there but by that run.                                                  *)
LEMMA MountedElsewhere ==
  ASSUME Types, NEW d \in Drives, Apart(d), NEW r \in Runners,
         \/ Present(r) /\ Synced(JobOf(r))
         \/ \E o \in orphans[r] :
              \/ o.kind = "pull"
              \/ o.kind = "work" /\ [o EXCEPT !.kind = "mount"] \notin orphans[r]
  PROVE  d \notin MountedAt(r)
<1>. SUFFICES ASSUME d \in MountedAt(r) PROVE FALSE
  OBVIOUS
<1>1. CASE \E o \in orphans[r] : o.kind = "mount" /\ DriveOf[o.job] = d
  <2>1. PICK m \in orphans[r] : m.kind = "mount" /\ DriveOf[m.job] = d
    BY <1>1
  <2>2. m \in Orphan
    BY DEF Types
  <2>3. ~Present(r)
    BY <2>1 DEF Apart
  <2>4. PICK o \in orphans[r] :
              \/ o.kind = "pull"
              \/ o.kind = "work" /\ [o EXCEPT !.kind = "mount"] \notin orphans[r]
    BY <2>3
  <2>5. o \in Orphan
    BY DEF Types
  <2>6. o.job = m.job
    BY <2>1, <2>4 DEF Apart
  <2>7. [o EXCEPT !.kind = "mount"] = m
    BY <2>1, <2>2, <2>5, <2>6 DEF Orphan
  <2>. QED
    BY <2>1, <2>2, <2>4, <2>5, <2>6, <2>7 DEF Orphan
<1>2. CASE Present(r) /\ ~Synced(JobOf(r)) /\ DriveAt(r) = d
  <2>1. orphans[r] = {}
    BY <1>2 DEF Apart
  <2>. QED
    BY <1>2, <2>1
<1>. QED
  BY <1>1, <1>2 DEF MountedAt, Present

(* A synced run that is at another drive, or an orphan that writes at its  *)
(* mount point, writes where nothing of drive d is.                        *)
LEMMA WritesElsewhere ==
  ASSUME Types, NEW d \in Drives, Apart(d), NEW r \in Runners,
         \/ Present(r) /\ Synced(JobOf(r)) /\ DriveAt(r) # d
         \/ \E o \in orphans[r] : o.kind \in {"pull", "work"}
  PROVE  ~Holding(r, d) /\ ~Pushing(r, d)
<1>1. CASE Present(r) /\ Synced(JobOf(r)) /\ DriveAt(r) # d
  BY <1>1 DEF Apart, Holding, Pushing
<1>2. ASSUME NEW o \in orphans[r], o.kind \in {"pull", "work"}
      PROVE  ~Holding(r, d) /\ ~Pushing(r, d)
  <2>1. ~Holding(r, d)
    BY <1>2, HoldingIsPresent DEF Apart, Holding, DriveAt
  <2>2. ~Pushing(r, d)
    BY <1>2 DEF Apart, Pushing
  <2>. QED
    BY <2>1, <2>2
<1>. QED
  BY <1>1, <1>2

(* Such a write leaves drive d sound.                                      *)
LEMMA ElsewhereKept ==
  ASSUME Types, NEW d \in Drives, DriveSound(d), NEW r \in Runners,
         ~Holding(r, d)', ~Holding(r, d), ~Pushing(r, d),
         UNCHANGED job, remote'[d] = remote[d],
         \A x \in Runners : orphans'[x] \subseteq orphans[x],
         \A x \in Runners \ {r} : local'[x] = local[x] /\ run'[x] = run[x],
         At(r, "report")' /\ run'[r].out = "ok" =>
           At(r, "report") /\ run[r].out = "ok" /\ run'[r].job = run[r].job
  PROVE  DriveSound(d)'
<1>1. \A x \in Runners : Pushing(x, d)' => x # r /\ Pushing(x, d)
  BY DEF Pushing
<1>2. \A x \in Runners : Holding(x, d)' => x # r /\ Holding(x, d)
  BY DEF Holding, JobOf, DriveAt, Synced
<1>3. \A x \in Runners : At(x, "report")' /\ run'[x].out = "ok" =>
              At(x, "report") /\ run[x].out = "ok" /\ run'[x].job = run[x].job
  BY DEF At
<1>. QED
  BY <1>1, <1>2, <1>3, DriveKept

LEMMA DrivesStep ==
  Types /\ Types' /\ AllApart /\ AllApart' /\ DrivesSound /\ [Next]_vars => DrivesSound'
<1>. SUFFICES ASSUME Types, Types', AllApart, AllApart', DrivesSound, [Next]_vars,
                     failed' = {}, NEW d \in Drives, d \notin mixed'
              PROVE  DriveSound(d)'
  BY DEF DrivesSound
<1>1. DriveSound(d) /\ d \notin mixed /\ Apart(d) /\ Apart(d)'
  BY HistoryGrows DEF DrivesSound, AllApart
(* The queue moves, the runs and the contents do not.                      *)
<1>2. ASSUME NEW j \in Jobs, Cancel(j) \/ Purge(j) \/ Reclaim(j)
      PROVE  DriveSound(d)'
  <2>1. UNCHANGED <<run, local, remote, orphans>>
    BY <1>2 DEF Cancel, Purge, Reclaim, data
  <2>2. \A i \in Jobs : job'[i] = "succeeded" => job[i] = "succeeded"
    BY <1>2 DEF Cancel, Purge, Reclaim, Types
  <2>3. \A x \in Runners : /\ Holding(x, d)' <=> Holding(x, d)
                           /\ Pushing(x, d)' <=> Pushing(x, d)
                           /\ At(x, "report")' <=> At(x, "report")
    BY <2>1 DEF Holding, Pushing, At, JobOf, DriveAt, Synced
  <2>. QED
    BY <1>1, <2>1, <2>2, <2>3, DriveKept
(* Steps that bring a run to a stage without a drive.                      *)
<1>3. ASSUME NEW r \in Runners, remote'[d] = remote[d], UNCHANGED local,
             \A x \in Runners \ {r} : run'[x] = run[x],
             run'[r].pc \in {"idle", "down", "session", "fetch"}
               \/ (run'[r].pc = "report" /\ run'[r].out = "error"),
             \A x \in Runners : Pushing(x, d)' => Pushing(x, d) \/ Holding(x, d),
             \A j \in Jobs : Synced(j) /\ DriveOf[j] = d /\ job'[j] = "succeeded"
               => job[j] = "succeeded" \/ j \in remote[d].work
      PROVE  DriveSound(d)'
  <2>1. \A x \in Runners : Holding(x, d)' => Holding(x, d) /\ run'[x] = run[x]
    BY <1>3 DEF Holding, JobOf, DriveAt, Synced
  <2>2. \A x \in Runners : At(x, "report")' /\ run'[x].out = "ok"
          => At(x, "report") /\ run'[x] = run[x]
    BY <1>3 DEF At
  <2>. QED
    BY <1>1, <1>3, <2>1, <2>2, DriveKept
<1>4. ASSUME NEW r \in Runners, NEW to \in {Idle, Down}, run' = [run EXCEPT ![r] = to]
      PROVE  /\ \A x \in Runners \ {r} : run'[x] = run[x]
             /\ run'[r].pc \in {"idle", "down", "session", "fetch"}
  BY <1>4 DEF Types, Idle, Down
<1>5. ASSUME NEW r \in Runners, NEW j \in Jobs, ClaimNext(r, j) \/ ClaimLost(r, j)
      PROVE  DriveSound(d)'
  <2>1. UNCHANGED <<local, remote, orphans>>
    BY <1>5 DEF ClaimNext, ClaimLost, data
  <2>2. \A i \in Jobs : job'[i] = "succeeded" => job[i] = "succeeded"
    BY <1>5 DEF ClaimNext, ClaimLost, Claimed, Types
  <2>3. /\ \A x \in Runners \ {r} : run'[x] = run[x]
        /\ run'[r].pc \in {"idle", "down", "session", "fetch"}
    BY <1>5 DEF ClaimNext, ClaimLost, Types, At
  <2>4. \A x \in Runners : Pushing(x, d)' <=> Pushing(x, d)
    BY <2>1 DEF Pushing
  <2>. QED
    BY <1>3, <2>1, <2>2, <2>3, <2>4
<1>6. ASSUME NEW r \in Runners, Report(r) PROVE DriveSound(d)'
  <2>1. UNCHANGED <<local, remote, orphans>> /\ run' = [run EXCEPT ![r] = Idle]
    BY <1>6 DEF Report, data
  <2>2. JobOf(r) \in Jobs
    BY <1>6, BusyIsActive DEF Report, At, Busy
  <2>3. \A i \in Jobs : job'[i] = "succeeded"
          => job[i] = "succeeded" \/ (i = JobOf(r) /\ run[r].out = "ok")
    BY <1>6, <2>2 DEF Report, Completed, Types
  <2>4. run[r].out = "ok" /\ Synced(JobOf(r)) /\ DriveAt(r) = d
          => JobOf(r) \in remote[d].work
    BY <1>1, <1>6 DEF DriveSound, Report
  <2>5. /\ \A x \in Runners \ {r} : run'[x] = run[x]
        /\ run'[r].pc \in {"idle", "down", "session", "fetch"}
    BY <1>4, <2>1
  <2>6. \A x \in Runners : Pushing(x, d)' <=> Pushing(x, d)
    BY <2>1 DEF Pushing
  <2>. QED
    BY <1>3, <2>1, <2>3, <2>4, <2>5, <2>6 DEF DriveAt
<1>7. ASSUME NEW r \in Runners, ReportLost(r) \/ Start(r) PROVE DriveSound(d)'
  <2>1. UNCHANGED <<job, local, remote, orphans>> /\ run' = [run EXCEPT ![r] = Idle]
    BY <1>7 DEF ReportLost, Start, data, queue
  <2>2. /\ \A x \in Runners \ {r} : run'[x] = run[x]
        /\ run'[r].pc \in {"idle", "down", "session", "fetch"}
    BY <1>4, <2>1
  <2>3. \A x \in Runners : Pushing(x, d)' <=> Pushing(x, d)
    BY <2>1 DEF Pushing
  <2>. QED
    BY <1>3, <2>1, <2>2, <2>3
(* The runner goes; a push of its run to d may stay.                       *)
<1>8. ASSUME NEW r \in Runners, Crash(r) \/ Signal(r) PROVE DriveSound(d)'
  <2>1. /\ UNCHANGED <<job, local>> /\ remote'[d] = remote[d]
        /\ run' = [run EXCEPT ![r] = Down]
    BY <1>8 DEF Signal, Crash, queue
  <2>2. /\ \A x \in Runners \ {r} : run'[x] = run[x]
        /\ run'[r].pc \in {"idle", "down", "session", "fetch"}
    BY <1>4, <2>1
  <2>3. /\ \A x \in Runners \ {r} : orphans'[x] = orphans[x]
        /\ \A o \in orphans'[r] : o.kind = "push" /\ DriveOf[o.job] = d
             => o \in orphans[r] \cup Children(r)
    <3>1. CASE Crash(r)
      BY <3>1 DEF Crash, Types
    <3>2. CASE Signal(r)
      <4>. DEFINE own == {x \in armed[r] : Synced(x)}
      <4>1. PICK done \in SUBSET own, begun \in SUBSET own, left \in SUBSET Children(r) :
              /\ orphans' = [orphans EXCEPT ![r] = @ \cup left \cup
                                [kind : {"push"}, job : begun]]
              /\ mixed' = mixed \cup {DriveOf[j] : j \in done \cup begun}
        BY <3>2 DEF Signal
      <4>2. \A o \in [kind : {"push"}, job : begun] : DriveOf[o.job] # d
        BY <4>1
      <4>3. /\ \A x \in Runners \ {r} : orphans'[x] = orphans[x]
            /\ orphans'[r] = orphans[r] \cup left \cup [kind : {"push"}, job : begun]
        BY <4>1 DEF Types
      <4>. QED
        BY <4>1, <4>2, <4>3
    <3>. QED
      BY <1>8, <3>1, <3>2
  <2>4. \A o \in Children(r) : o.kind = "push" /\ DriveOf[o.job] = d => Holding(r, d)
    BY LeftBehind DEF Holding, At, DriveAt
  <2>5. \A x \in Runners : Pushing(x, d)' => Pushing(x, d) \/ Holding(x, d)
    BY <2>3, <2>4 DEF Pushing
  <2>. QED
    BY <1>3, <2>1, <2>2, <2>5
(* An orphan ends.                                                         *)
<1>9. ASSUME NEW r \in Runners, NEW o \in orphans[r], OrphanEnds(r, o)
      PROVE  DriveSound(d)'
  <2>1. /\ o \in Orphan /\ o.job \in Jobs /\ DriveOf[o.job] \in Drives
        /\ UNCHANGED <<job, run>>
        /\ orphans'[r] = orphans[r] \ {o}
        /\ \A x \in Runners \ {r} : orphans'[x] = orphans[x]
    BY <1>9, RunnerAssumption DEF OrphanEnds, Types, Orphan, queue
  <2>2. \A x \in Runners : orphans'[x] \subseteq orphans[x]
    BY <2>1
  <2>3. \A x \in Runners : /\ Holding(x, d)' <=> Holding(x, d)
                           /\ Pushing(x, d)' => Pushing(x, d)
    BY <2>1, <2>2 DEF Holding, Pushing, JobOf, DriveAt, Synced
  <2>4. CASE o.kind = "pull" /\ Copied(r, remote[DriveOf[o.job]])
    <3>1. remote[DriveOf[o.job]] \in Content
      BY <2>1 DEF Types
    <3>2. d \notin MountedAt(r)
      BY <1>1, <2>4, MountedElsewhere
    <3>3. remote'[d] = remote[d] /\ \A x \in Runners \ {r} : local'[x] = local[x]
      BY <2>4, <3>1, <3>2, CopiedTo
    <3>4. ~Holding(r, d) /\ ~Pushing(r, d)
      BY <1>1, <2>4, WritesElsewhere
    <3>. QED
      BY <1>1, <2>1, <2>2, <2>3, <3>3, <3>4, ElsewhereKept DEF At
  <2>5. CASE /\ o.kind = "work" /\ [o EXCEPT !.kind = "mount"] \notin orphans[r]
             /\ Worked(r, o.job)
    <3>1. d \notin MountedAt(r)
      BY <1>1, <2>5, MountedElsewhere
    <3>2. remote'[d] = remote[d] /\ \A x \in Runners \ {r} : local'[x] = local[x]
      BY <2>1, <2>5, <3>1, WorkedOn
    <3>3. ~Holding(r, d) /\ ~Pushing(r, d)
      BY <1>1, <2>5, WritesElsewhere
    <3>. QED
      BY <1>1, <2>1, <2>2, <2>3, <3>2, <3>3, ElsewhereKept DEF At
  <2>6. CASE UNCHANGED <<local, remote>>
    BY <1>1, <2>1, <2>3, <2>6, DriveKept DEF At
  <2>7. CASE /\ o.kind = "push" /\ UNCHANGED local
             /\ remote' = [remote EXCEPT ![DriveOf[o.job]] = local[r]]
    <3>1. CASE DriveOf[o.job] # d
      <4>1. remote'[d] = remote[d]
        BY <2>7, <3>1 DEF Types
      <4>. QED
        BY <1>1, <2>1, <2>3, <2>7, <4>1, DriveKept DEF At
    <3>2. CASE DriveOf[o.job] = d
      <4>1. remote'[d] = local[r] /\ Pushing(r, d)
        BY <2>7, <3>2 DEF Types, Pushing
      <4>2. Own(local[r], d) /\ remote[d].work \subseteq local[r].work
        BY <1>1, <4>1 DEF DriveSound
      <4>3. \A x \in Runners : ~Holding(x, d)
        <5>. SUFFICES ASSUME NEW x \in Runners, Holding(x, d) PROVE FALSE
          OBVIOUS
        <5>1. x = r /\ Present(r)
          BY <1>1, <4>1, HoldingIsPresent DEF Apart
        <5>. QED
          BY <1>1, <3>2, <5>1 DEF Apart
      <4>4. \A x \in Runners : Pushing(x, d)' => x = r
        BY <1>1, <2>3, <4>1, HoldingIsPresent DEF Apart
      <4>5. \A x \in Runners :
             At(x, "report")' /\ run'[x].out = "ok" /\ Synced(JobOf(x)') /\ DriveAt(x)' = d
               => JobOf(x)' \in remote'[d].work
        BY <1>1, <2>1, <4>1, <4>2 DEF DriveSound, At, JobOf, DriveAt, Synced
      <4>6. \A x \in Runners : Holding(x, d)' \/ Pushing(x, d)' =>
              Own(local'[x], d) /\ remote'[d].work \subseteq local'[x].work
        BY <2>3, <2>7, <4>1, <4>2, <4>3, <4>4
      <4>7. \A j \in Jobs : Synced(j) /\ DriveOf[j] = d /\ job'[j] = "succeeded"
                       => j \in remote'[d].work
        BY <1>1, <2>1, <4>1, <4>2 DEF DriveSound
      <4>8. Own(remote'[d], d)
        BY <4>1, <4>2
      <4>. QED
        BY <2>3, <4>3, <4>5, <4>6, <4>7, <4>8 DEF DriveSound, Own, Synced
    <3>. QED
      BY <3>1, <3>2
  <2>. QED
    BY <1>9, <2>4, <2>5, <2>6, <2>7 DEF OrphanEnds
(* Steps inside a run.                                                     *)
<1>10. ASSUME NEW r \in Runners, Inside(r) PROVE DriveSound(d)'
  <2>1. /\ Busy(r) /\ UNCHANGED <<job, orphans>> /\ run[r] \in Active
        /\ run' = [run EXCEPT ![r] = run'[r]] /\ run'[r] \in Active
        /\ run'[r].job = run[r].job
        /\ JobOf(r) \in Jobs /\ DriveAt(r) \in Drives
    BY <1>10, InsideRun, InsideData, BusyIsActive DEF queue
  <2>2. \A x \in Runners \ {r} : run'[x] = run[x]
    BY <2>1 DEF Types
  <2>3. \A x \in Runners : Pushing(x, d)' <=> Pushing(x, d)
    BY <2>1 DEF Pushing
  <2>4. \A x \in Runners \ {r} : Holding(x, d)' <=> Holding(x, d)
    BY <2>2 DEF Holding, JobOf, DriveAt, Synced
  <2>5. CASE Session(r)
    <3>1. UNCHANGED <<local, remote>>
      BY <2>5 DEF Session
    <3>2. \/ run'[r].pc = "fetch"
          \/ run'[r].pc = "report" /\ run'[r].out = "error"
      BY <2>1, <2>5 DEF Session, To, Types, Active
    <3>. QED
      BY <1>3, <2>1, <2>2, <2>3, <3>1, <3>2
  <2>6. CASE Watch(r) \/ WatchFails(r)
    <3>1. UNCHANGED <<local, remote>>
      BY <2>6 DEF Watch, WatchFails, data
    <3>2. run'[r].pc = run[r].pc /\ run'[r].out = run[r].out
      BY <2>1, <2>6 DEF Watch, WatchFails, Types, Active
    <3>3. Holding(r, d)' <=> Holding(r, d)
      BY <2>1, <3>2 DEF Holding, JobOf, DriveAt, Synced
    <3>. QED
      BY <1>1, <2>1, <2>2, <2>3, <2>4, <3>1, <3>2, <3>3, DriveKept DEF At
(* A run at its drive that does not push.                                  *)
  <2>7. ASSUME Present(r), Present(r)', UNCHANGED <<local, remote>>,
               Holding(r, d)' => Holding(r, d), run'[r].out # "ok"
        PROVE  DriveSound(d)'
    <3>1. \A x \in Runners : Holding(x, d)' \/ Pushing(x, d)' =>
            Own(local'[x], d) /\ remote'[d].work \subseteq local'[x].work
      BY <1>1, <2>3, <2>4, <2>7 DEF DriveSound
    <3>2. \A x \in Runners :
            Holding(x, d)' /\ run'[x].out = "ok" => JobOf(x)' \in local'[x].work
      BY <1>1, <2>2, <2>4, <2>7 DEF DriveSound, JobOf
    <3>3. \A x \in Runners :
           At(x, "report")' /\ run'[x].out = "ok" /\ Synced(JobOf(x)') /\ DriveAt(x)' = d
             => JobOf(x)' \in remote'[d].work
      BY <1>1, <2>2, <2>7 DEF DriveSound, At, JobOf, DriveAt
    <3>. QED
      BY <1>1, <2>1, <2>7, <3>1, <3>2, <3>3 DEF DriveSound, Synced
  <2>8. run[r].out = "ok" => run[r].pc \in {"cleanup", "report"}
    BY <2>1 DEF Types
  <2>9. CASE Prepare(r) \/ PrepareFails(r) \/ AgentKilled(r)
    <3>1. /\ run[r].pc \in {"prepare", "agent"} /\ UNCHANGED <<local, remote>>
      BY <2>9 DEF Prepare, PrepareFails, AgentKilled, At, data
    <3>2. run'[r].pc \in {"agent", "cleanup"} /\ run'[r].out # "ok"
      BY <2>1, <2>8, <2>9, <3>1 DEF Prepare, PrepareFails, AgentKilled, To, Ends, Types, Active
    <3>3. Holding(r, d)' => Holding(r, d)
      BY <2>1, <3>1 DEF Holding, JobOf, DriveAt, Synced
    <3>. QED
      BY <2>7, <3>1, <3>2, <3>3 DEF Present
  <2>10. CASE FetchFails(r)
    BY <2>10 DEF FetchFails, SyncFault
  <2>11. CASE Fetch(r)
    <3>1. /\ run[r].pc = "fetch" /\ Present(r)
          /\ run'[r].pc = "prepare" /\ run'[r].out # "ok"
      BY <2>1, <2>8, <2>11 DEF Fetch, At, To, Types, Active, Present
    <3>2. CASE ~Synced(JobOf(r))
      <4>1. UNCHANGED <<local, remote>>
        BY <2>11, <3>2 DEF Fetch
      <4>2. ~Holding(r, d)'
        BY <2>1, <3>2 DEF Holding, JobOf, Synced
      <4>. QED
        BY <2>7, <3>1, <4>1, <4>2 DEF Present
    <3>3. CASE Synced(JobOf(r))
      <4>1. d \notin MountedAt(r)
        BY <1>1, <3>1, <3>3, MountedElsewhere
      <4>2. remote[DriveAt(r)] \in Content /\ Copied(r, remote[DriveAt(r)])
        BY <2>1, <2>11, <3>3 DEF Fetch, Types
      <4>3. /\ remote'[d] = remote[d] /\ local'[r] = remote[DriveAt(r)]
            /\ \A x \in Runners \ {r} : local'[x] = local[x]
        BY <4>1, <4>2, CopiedTo
      <4>4. CASE DriveAt(r) # d
        <5>1. ~Holding(r, d) /\ ~Pushing(r, d)
          BY <1>1, <3>1, <3>3, <4>4, WritesElsewhere
        <5>2. ~Holding(r, d)'
          BY <2>1, <4>4 DEF Holding, JobOf, DriveAt
        <5>. QED
          BY <1>1, <2>1, <2>2, <3>1, <4>3, <5>1, <5>2, ElsewhereKept DEF At
      <4>5. CASE DriveAt(r) = d
        <5>1. AtDrive(r, d)
          BY <3>1, <3>3, <4>5 DEF AtDrive
        <5>2. \A x \in Runners \ {r} : ~Holding(x, d)' /\ ~Pushing(x, d)'
          BY <1>1, <2>3, <2>4, <5>1, HoldingIsPresent DEF Apart
        <5>3. Own(local'[r], d) /\ remote'[d].work \subseteq local'[r].work
          BY <1>1, <4>3, <4>5 DEF DriveSound
        <5>4. \A x \in Runners : Holding(x, d)' \/ Pushing(x, d)' =>
                Own(local'[x], d) /\ remote'[d].work \subseteq local'[x].work
          BY <5>2, <5>3
        <5>5. \A x \in Runners :
                Holding(x, d)' /\ run'[x].out = "ok" => JobOf(x)' \in local'[x].work
          BY <3>1, <5>2
        <5>6. \A x \in Runners :
               At(x, "report")' /\ run'[x].out = "ok" /\ Synced(JobOf(x)') /\ DriveAt(x)' = d
                 => JobOf(x)' \in remote'[d].work
          BY <1>1, <2>2, <3>1, <4>3 DEF DriveSound, At, JobOf, DriveAt
        <5>. QED
          BY <1>1, <2>1, <4>3, <5>4, <5>5, <5>6 DEF DriveSound, Own, Synced
      <4>. QED
        BY <4>4, <4>5
    <3>. QED
      BY <3>2, <3>3
  <2>12. CASE AgentEnds(r)
    <3>1. run[r].pc = "agent" /\ Present(r) /\ run'[r].pc = "cleanup"
      BY <2>1, <2>12 DEF AgentEnds, At, Ends, Types, Active, Present
    <3>2. CASE ~Synced(JobOf(r))
      <4>1. UNCHANGED <<local, remote>>
        BY <2>12, <3>2 DEF AgentEnds
      <4>2. ~Holding(r, d)' /\ \A x \in Runners : At(x, "report")' => x # r
        BY <2>1, <3>1, <3>2 DEF Holding, JobOf, Synced, At
      <4>. QED
        BY <1>1, <2>1, <2>2, <2>3, <2>4, <4>1, <4>2, DriveKept DEF At
    <3>3. CASE Synced(JobOf(r))
      <4>1. d \notin MountedAt(r)
        BY <1>1, <3>1, <3>3, MountedElsewhere
      <4>2. Worked(r, JobOf(r))
        BY <2>12, <3>3 DEF AgentEnds
      <4>3. /\ remote'[d] = remote[d]
            /\ local'[r] = [local[r] EXCEPT !.work = @ \cup {JobOf(r)}]
            /\ \A x \in Runners \ {r} : local'[x] = local[x]
        BY <2>1, <4>1, <4>2, WorkedOn
      <4>4. CASE DriveAt(r) # d
        <5>1. ~Holding(r, d) /\ ~Pushing(r, d)
          BY <1>1, <3>1, <3>3, <4>4, WritesElsewhere
        <5>2. ~Holding(r, d)'
          BY <2>1, <4>4 DEF Holding, JobOf, DriveAt
        <5>. QED
          BY <1>1, <2>1, <2>2, <3>1, <4>3, <5>1, <5>2, ElsewhereKept DEF At
      <4>5. CASE DriveAt(r) = d
        <5>1. AtDrive(r, d) /\ Holding(r, d)
          BY <3>1, <3>3, <4>5 DEF AtDrive, Holding
        <5>2. \A x \in Runners \ {r} : ~Holding(x, d)' /\ ~Pushing(x, d)'
          BY <1>1, <2>3, <2>4, <5>1, HoldingIsPresent DEF Apart
        <5>3. Own(local[r], d) /\ remote[d].work \subseteq local[r].work
          BY <1>1, <5>1 DEF DriveSound
        <5>4. /\ local'[r].drive = local[r].drive /\ local'[r].whole = local[r].whole
              /\ local'[r].work = local[r].work \cup {JobOf(r)}
          BY <4>3 DEF Types, Content
        <5>5. Own(local'[r], d) /\ remote'[d].work \subseteq local'[r].work
          BY <4>3, <4>5, <5>3, <5>4 DEF Own, DriveAt
        <5>6. \A x \in Runners : Holding(x, d)' \/ Pushing(x, d)' =>
                Own(local'[x], d) /\ remote'[d].work \subseteq local'[x].work
          BY <5>2, <5>5
        <5>7. \A x \in Runners :
                Holding(x, d)' /\ run'[x].out = "ok" => JobOf(x)' \in local'[x].work
          BY <2>1, <5>2, <5>4 DEF JobOf
        <5>8. \A x \in Runners :
               At(x, "report")' /\ run'[x].out = "ok" /\ Synced(JobOf(x)') /\ DriveAt(x)' = d
                 => JobOf(x)' \in remote'[d].work
          BY <1>1, <2>2, <3>1, <4>3 DEF DriveSound, At, JobOf, DriveAt
        <5>. QED
          BY <1>1, <2>1, <4>3, <5>6, <5>7, <5>8 DEF DriveSound, Own, Synced
      <4>. QED
        BY <4>4, <4>5
    <3>. QED
      BY <3>2, <3>3
  <2>13. CASE Cleanup(r)
    <3>1. /\ run[r].pc = "cleanup" /\ Present(r) /\ UNCHANGED local
          /\ remote' = IF Synced(JobOf(r)) THEN [remote EXCEPT ![DriveAt(r)] = local[r]]
                                            ELSE remote
      BY <2>13 DEF Cleanup, At, SyncFault, Present
    <3>2. run'[r].pc = "report" /\ run'[r].out = run[r].out
      BY <2>1, <2>13 DEF Cleanup, To, Types, Active
    <3>3. ~Holding(r, d)'
      BY <3>2 DEF Holding
    <3>4. CASE Synced(JobOf(r)) /\ DriveAt(r) = d
      <4>1. Holding(r, d) /\ remote'[d] = local[r] /\ AtDrive(r, d)
        BY <2>1, <3>1, <3>4 DEF Holding, Types, AtDrive
      <4>2. /\ Own(local[r], d) /\ remote[d].work \subseteq local[r].work
            /\ run[r].out = "ok" => JobOf(r) \in local[r].work
        BY <1>1, <4>1 DEF DriveSound
      <4>3. ~Pushing(r, d)
        BY <1>1, <3>1, <3>4 DEF Apart, Pushing
      <4>4. \A x \in Runners : ~Holding(x, d)' /\ ~Pushing(x, d)'
        <5>1. \A x \in Runners \ {r} : ~AtDrive(x, d)
          BY <1>1, <4>1 DEF Apart
        <5>. QED
          BY <2>3, <2>4, <3>3, <4>3, <5>1, HoldingIsPresent
      <4>5. \A x \in Runners : /\ At(x, "report")' /\ run'[x].out = "ok"
                                /\ Synced(JobOf(x)') /\ DriveAt(x)' = d
              => JobOf(x)' \in remote'[d].work
        <5>. SUFFICES ASSUME NEW x \in Runners, At(x, "report")', run'[x].out = "ok",
                             Synced(JobOf(x)'), DriveAt(x)' = d
                      PROVE  JobOf(x)' \in local[r].work
          BY <4>1
        <5>1. CASE x = r
          BY <2>1, <3>2, <4>2, <5>1 DEF JobOf
        <5>2. CASE x # r
          BY <1>1, <2>2, <4>2, <5>2 DEF DriveSound, At, JobOf, DriveAt
        <5>. QED
          BY <5>1, <5>2
      <4>6. \A j \in Jobs : Synced(j) /\ DriveOf[j] = d /\ job'[j] = "succeeded"
                       => j \in remote'[d].work
        BY <1>1, <2>1, <4>1, <4>2 DEF DriveSound
      <4>. QED
        BY <4>1, <4>2, <4>4, <4>5, <4>6 DEF DriveSound, Own, Synced
    <3>5. CASE ~(Synced(JobOf(r)) /\ DriveAt(r) = d)
      <4>1. remote'[d] = remote[d]
        BY <2>1, <3>1, <3>5 DEF Types
      <4>2. \A x \in Runners : Holding(x, d)' =>
              /\ Holding(x, d) /\ run'[x] = run[x]
        BY <2>2, <2>4, <3>3
      <4>3. \A x \in Runners : /\ At(x, "report")' /\ run'[x].out = "ok"
                                /\ Synced(JobOf(x)') /\ DriveAt(x)' = d
              => x # r /\ run'[x] = run[x]
        BY <2>1, <2>2, <3>5 DEF JobOf, DriveAt
      <4>4. \A x \in Runners : Holding(x, d)' \/ Pushing(x, d)' =>
              Own(local'[x], d) /\ remote'[d].work \subseteq local'[x].work
        BY <1>1, <2>3, <3>1, <4>1, <4>2 DEF DriveSound
      <4>5. \A x \in Runners :
              Holding(x, d)' /\ run'[x].out = "ok" => JobOf(x)' \in local'[x].work
        BY <1>1, <3>1, <4>2 DEF DriveSound, JobOf
      <4>6. \A x \in Runners : /\ At(x, "report")' /\ run'[x].out = "ok"
                                /\ Synced(JobOf(x)') /\ DriveAt(x)' = d
              => JobOf(x)' \in remote'[d].work
        BY <1>1, <4>1, <4>3 DEF DriveSound, At, JobOf, DriveAt
      <4>. QED
        BY <1>1, <2>1, <4>1, <4>4, <4>5, <4>6 DEF DriveSound, Own, Synced
    <3>. QED
      BY <3>4, <3>5
  <2>. QED
    BY <1>10, <2>5, <2>6, <2>9, <2>10, <2>11, <2>12, <2>13 DEF Inside
<1>11. CASE UNCHANGED vars
  <2>1. UNCHANGED <<job, run, local, remote, orphans>>
    BY <1>11 DEF vars, queue, data
  <2>2. \A x \in Runners : /\ Holding(x, d)' <=> Holding(x, d)
                           /\ Pushing(x, d)' <=> Pushing(x, d)
    BY <2>1 DEF Holding, Pushing, JobOf, DriveAt, Synced
  <2>. QED
    BY <1>1, <2>1, <2>2, DriveKept DEF At
<1>. QED
  BY <1>2, <1>5, <1>6, <1>7, <1>8, <1>9, <1>10, <1>11 DEF Next, RunnerStep, Inside

(* A drive holds all of its own content and no work of other drives' jobs, *)
(* with the work of every synced job that succeeded on it, through         *)
(* crashes, orphans, lost claims and completions and repeated runs, unless *)
(* rclone failed or two runs, a run and an orphan, or a signal met at the  *)
(* drive: for any number of runners, jobs and drives.                      *)
THEOREM WorkReachesDrive == Spec => []WorkArrives
<1>1. Init => DrivesSound
  <2>. SUFFICES ASSUME Init, NEW d \in Drives PROVE DriveSound(d)
    BY DEF DrivesSound
  <2>1. Own(remote[d], d)
    BY DEF Init, Empty, Own
  <2>2. \A r \in Runners : run[r].pc = "idle" /\ orphans[r] = {}
    BY DEF Init, Idle
  <2>3. \A j \in Jobs : job[j] # "succeeded"
    BY DEF Init
  <2>. QED
    BY <2>1, <2>2, <2>3 DEF DriveSound, Holding, Pushing, At
<1>2. DrivesSound => WorkArrives
  BY DEF DrivesSound, DriveSound, Own, WorkArrives
<1>. QED
  BY <1>1, <1>2, DrivesStep, TypesAlways, ApartAlways, PTL DEF Spec
=============================================================================
