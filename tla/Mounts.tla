------------------------------- MODULE Mounts -------------------------------
(***************************************************************************)
(* Bindings of drives to a device, the mount sessions issued for them, the *)
(* write barriers, and hubd, the daemon on the device that brings its      *)
(* mounts to the desired state and reports the actual one.                 *)
(*                                                                         *)
(* Control plane and daemon meet over HTTP only.  SetDesired and           *)
(* ReportActual read the whole binding and write the whole binding back,   *)
(* so their handlers take two steps here; a call of hubd may get lost, may *)
(* time out while its handler goes on, and is answered otherwise.  rclone, *)
(* FUSE and the network are external: they fail in the ways hubd looks     *)
(* for.  Sessions and barriers live in the memory of the API process.      *)
(* What a session holds (credentials, manifest, path) is left out.         *)
(***************************************************************************)
EXTENDS Integers, Sequences, FiniteSets

CONSTANTS
  Bindings,      \* binding ids
  Drives,        \* drive ids
  DriveOf,       \* the drive of a binding
  ModeOf,        \* its mode, "mount" or "sync_workspace": no call changes it
  Handlers,      \* requests the API serves at once
  Quota,         \* MaxConcurrentBindings
  BarrierCap,    \* barriers kept before all but the newest are dropped (500)
  MountedTries,  \* attempts to report "mounted" (3)
  ErrorTries,    \* attempts to report "error" when those fail (2)
  ForceRemount,  \* AI_CLOUDHUB_FORCE_REMOUNT_ON_REFRESH
  Starts,        \* sets of bindings that may be there at the start
  Budgets        \* bounds, by behaviour, on what the user does (asks), on
                 \* failures of calls, store, rclone and processes (faults),
                 \* and on time passing and local changes (times)

ASSUME MountsAssumption ==
  /\ Quota \in Nat \ {0} /\ BarrierCap \in Nat \ {0}
  /\ MountedTries \in Nat \ {0} /\ ErrorTries \in Nat \ {0}
  /\ DriveOf \in [Bindings -> Drives]

VARIABLES
  drives,    \* drives that exist
  bind,      \* the table of bindings
  sess,      \* sts.Service: the newest session of each binding
  barriers,  \* drive.Service: barriers of this API process, in order
  hd,        \* the handlers of the API
  hub,       \* hubd: where its loop is and what it works on
  active,    \* hubd: the mounts it keeps
  rclone,    \* rclone processes per binding, those of a dead hubd included
  dirty,     \* work in synced workspaces that was not pushed, that done
             \* while hubd keeps the workspace apart from the rest
  asks, faults, times,  \* what is left of the bounds
  asked,     \* history: the desired states users' calls have confirmed
  raced,     \* history: bindings whose SetDesired and ReportActual overlapped
  failed,    \* history: kinds of failures so far
  lost       \* history: work that was overwritten before it was pushed

plane  == <<drives, bind, sess, barriers, hd>>
device == <<hub, active, rclone, dirty>>
budget == <<asks, faults, times>>
past   == <<asked, raced, failed, lost>>
vars   == <<plane, device, budget, past>>

NoBinding == [desired |-> "none", actual |-> "none"]
NoMount   == [rot |-> 0]
Free      == [op |-> "free"]
Here(b)   == bind[b] # NoBinding
Kept(b)   == active[b] # NoMount

\* Work in the workspace of b, done while hubd keeps it or while it does not.
Work(b, kept) == [ws |-> b, kept |-> kept]
WorkIn(b)     == {w \in dirty : w.ws = b}

\* What the bounds allow: an act of the user, a failure, a passing of time.
Ask == asks > 0 /\ asks' = asks - 1 /\ UNCHANGED <<faults, times, failed>>
Fault(kind) ==
  /\ faults > 0
  /\ faults' = faults - 1
  /\ failed' = failed \cup {kind}
  /\ UNCHANGED <<asks, times>>
Pass == times > 0 /\ times' = times - 1 /\ UNCHANGED <<asks, faults>>

-----------------------------------------------------------------------------
(* The control plane: bindings and drives.                                 *)

\* Handlers that are between their read and their write of a binding.
Midway(b, op) == \E h \in Handlers : hd[h].op = op /\ hd[h].b = b

\* CreateBinding: the drive is there and the quota leaves room.
BeginCreateBinding(h, b, d) ==
  /\ Ask
  /\ hd[h] = Free /\ ~Here(b) /\ ~Midway(b, "create")
  /\ DriveOf[b] \in drives
  /\ Cardinality({x \in Bindings : Here(x)}) < Quota
  /\ hd' = [hd EXCEPT ![h] = [op |-> "create", b |-> b, val |-> d]]
  /\ UNCHANGED <<drives, bind, sess, barriers, device, asked, raced, lost>>

\* CreateBinding: the row is stored, its actual state "unknown".
EndCreateBinding(h) ==
  LET r == hd[h]
  IN  /\ r.op = "create"
      /\ bind' = [bind EXCEPT ![r.b] = [desired |-> r.val,
                                        actual |-> "unknown"]]
      /\ asked' = [asked EXCEPT ![r.b] = <<r.val>>]
      /\ hd' = [hd EXCEPT ![h] = Free]
      /\ UNCHANGED <<drives, sess, barriers, device, budget, raced, failed,
                     lost>>

\* SetDesired: GetBinding.
BeginSetDesired(h, b, d) ==
  /\ Ask
  /\ hd[h] = Free /\ Here(b)
  /\ hd' = [hd EXCEPT ![h] = [op |-> "desired", b |-> b, row |-> bind[b],
                              val |-> d]]
  /\ raced' = IF Midway(b, "report") THEN raced \cup {b} ELSE raced
  /\ UNCHANGED <<drives, bind, sess, barriers, device, asked, lost>>

\* SetDesired: UpdateBinding writes every column of the row that was read.
EndSetDesired(h) ==
  LET r == hd[h]
  IN  /\ r.op = "desired"
      /\ bind' = [bind EXCEPT ![r.b] = [r.row EXCEPT !.desired = r.val]]
      /\ asked' = [asked EXCEPT ![r.b] = Append(@, r.val)]
      /\ hd' = [hd EXCEPT ![h] = Free]
      /\ UNCHANGED <<drives, sess, barriers, device, budget, raced, failed,
                     lost>>

\* ReportActual: GetBinding, for the call hubd makes.
BeginReport(h) ==
  LET b == hub.b
  IN  /\ hub.pc = "report"
      /\ hd[h] = Free
      /\ hd' = [hd EXCEPT ![h] = [op |-> "report", b |-> b, row |-> bind[b],
                                  val |-> hub.val, wait |-> TRUE]]
      /\ hub' = [hub EXCEPT !.pc = "await"]
      /\ raced' = IF Midway(b, "desired") THEN raced \cup {b} ELSE raced
      /\ UNCHANGED <<drives, bind, sess, barriers, active, rclone, dirty,
                     budget, asked, failed, lost>>

\* Mutant: a report that says what is so makes it what is wanted too.
ReportedAsDesired(r) ==
  [r.row EXCEPT !.actual = r.val,
                !.desired = IF r.val = "unmounted" THEN "unmounted" ELSE @]

\* Mutant: an error sticks until a user looks at it.
ReportedUnlessError(r) ==
  [r.row EXCEPT !.actual = IF @ = "error" THEN @ ELSE r.val]

\* ReportActual: UpdateBinding writes every column of the row that was read.
Reported(r) == [r.row EXCEPT !.actual = r.val]

EndReport(h) ==
  LET r == hd[h]
  IN  /\ r.op = "report"
      /\ bind' = [bind EXCEPT ![r.b] = Reported(r)]
      /\ hd' = [hd EXCEPT ![h] = Free]
      /\ hub' = IF r.wait THEN [hub EXCEPT !.pc = hub.next] ELSE hub
      /\ UNCHANGED <<drives, sess, barriers, active, rclone, dirty, budget,
                     past>>

\* DeleteDrive leaves the bindings and the sessions of the drive alone.
DeleteDrive(d) ==
  /\ Ask
  /\ d \in drives
  /\ drives' = drives \ {d}
  /\ UNCHANGED <<bind, sess, barriers, hd, device, asked, raced, lost>>

-----------------------------------------------------------------------------
(* The control plane: sessions and barriers.                               *)

\* Ages of a session: fresh, under five minutes left, in the grace after its
\* end, beyond it.
Fresh == 0
Soon  == 1
Over  == 3

\* Issue: a new session; the tokens of earlier ones are held by nobody.  A
\* token is the rotation that handed it out.
Issue(b) == [sess EXCEPT ![b] = [rot |-> @.rot + 1, age |-> Fresh,
                                 live |-> TRUE]]

\* Refresh: the token is known and the session not beyond its grace; a new
\* token replaces it.
Refreshable(b, rot) == sess[b].live /\ sess[b].rot = rot /\ sess[b].age < Over
Refresh(b) == [sess EXCEPT ![b].rot = @ + 1, ![b].age = Fresh]

\* RefreshSession with another drive of the user: the session is rotated
\* before the drives are compared, and the new token goes nowhere.
RefreshMismatched(b, d) ==
  /\ Fault("mismatch")
  /\ DriveOf[b] # d /\ d \in drives
  /\ Refreshable(b, sess[b].rot)
  /\ sess' = Refresh(b)
  /\ UNCHANGED <<drives, bind, barriers, hd, device, asked, raced, lost>>

\* Time passes for a session, at the API and in what hubd knows of it.
SessionAges(b) ==
  /\ Pass
  /\ Kept(b) /\ active[b].age < Over
  /\ sess' = [sess EXCEPT ![b].age = IF @ < Over THEN @ + 1 ELSE @]
  /\ active' = [active EXCEPT ![b].age = @ + 1]
  /\ UNCHANGED <<drives, bind, barriers, hd, hub, rclone, dirty, past>>

\* Mutant: every barrier is kept.
CompleteBarrierKeepsAll(b) ==
  Append(barriers, [drive |-> DriveOf[b], clean |-> Work(b, TRUE) \notin dirty])

\* CompleteBarrier: beyond the cap only the newest is kept.  clean is whether
\* nothing was left to push of the work done while hubd kept the workspace.
CompleteBarrier(b) ==
  LET new == [drive |-> DriveOf[b], clean |-> Work(b, TRUE) \notin dirty]
  IN  IF Len(barriers) + 1 > BarrierCap THEN <<new>> ELSE Append(barriers, new)

\* The API process restarts: its sessions, barriers and handlers are gone,
\* and hubd sees the call it waits for fail.
ApiRestarts ==
  /\ Fault("api")
  /\ sess' = [b \in Bindings |-> [sess[b] EXCEPT !.live = FALSE]]
  /\ barriers' = <<>>
  /\ hd' = [h \in Handlers |-> Free]
  /\ hub' = IF hub.pc = "await" THEN [hub EXCEPT !.pc = "refused"] ELSE hub
  /\ UNCHANGED <<drives, bind, active, rclone, dirty, asked, raced, lost>>

-----------------------------------------------------------------------------
(* hubd: the loop of main, remount and reconcile.                          *)

Synced(b) == ModeOf[b] = "sync_workspace"

\* Mutant: a process that lives is taken for a mount that answers.
SickIfDead(b) == ~Synced(b) /\ active[b].proc = "dead"

\* mountDead, mountPointUnreachable: not looked at for a synced workspace.
Sick(b) == ~Synced(b) /\ (active[b].proc = "dead" \/ active[b].hung)

\* hub with its next statement, and with a report to make before it.
To(pc) == [hub EXCEPT !.pc = pc]
Report(val, tries, next) ==
  [hub EXCEPT !.pc = "report", !.val = val, !.tries = tries, !.next = next]
Settled == [hub EXCEPT !.pc = "mount", !.todo = @ \ {hub.b}]

\* reconcile: listBindings.  A failed call ends the round; a failed query is
\* answered with an empty list (ListBindings of drive.Service).
Listed(want) == [hub EXCEPT !.pc = "unmount", !.want = want, !.todo = want]
Desired == {b \in Bindings : bind[b].desired = "mounted"}

List ==
  /\ hub.pc = "idle"
  /\ hub' = Listed(Desired)
  /\ UNCHANGED <<plane, active, rclone, dirty, budget, past>>

\* Mutant: a failed call is taken for an empty list.
ListFailsEmpty ==
  /\ hub.pc = "idle"
  /\ Fault("http")
  /\ hub' = Listed({})
  /\ UNCHANGED <<plane, active, rclone, dirty, asked, raced, lost>>

ListFails ==
  /\ hub.pc = "idle"
  /\ Fault("http")
  /\ UNCHANGED <<plane, device, asked, raced, lost>>

ListStoreFails ==
  /\ hub.pc = "idle"
  /\ Fault("store")
  /\ hub' = Listed({})
  /\ UNCHANGED <<plane, active, rclone, dirty, asked, raced, lost>>

\* Mutant: the process is left to itself.
StopLeaves(b) == active' = [active EXCEPT ![b] = NoMount] /\ UNCHANGED rclone

\* Mutant: only the directory is released.
PushNothing(b) == UNCHANGED <<dirty, budget, failed>>

\* stop: a synced workspace is pushed, with any error ignored; an rclone
\* process is ended and waited for.
Stop(b) ==
  /\ active' = [active EXCEPT ![b] = NoMount]
  /\ rclone' = IF ~Synced(b) /\ active[b].proc = "up"
                 THEN [rclone EXCEPT ![b] = @ - 1] ELSE rclone
Push(b) ==
  \/ dirty' = dirty \ WorkIn(b) /\ UNCHANGED <<budget, failed>>
  \/ WorkIn(b) # {} /\ Fault("push") /\ UNCHANGED dirty

\* reconcile: a mount that is not wanted any more is stopped ...
Unmount(b) ==
  /\ hub.pc = "unmount"
  /\ Kept(b) /\ b \notin hub.want
  /\ Stop(b) /\ Push(b)
  /\ hub' = [hub EXCEPT !.pc = "flush", !.b = b, !.next = "unmount"]
  /\ UNCHANGED <<plane, asked, raced, lost>>

\* ... its barrier is posted and "unmounted" reported, both best effort.
Flush ==
  /\ hub.pc = "flush"
  /\ IF DriveOf[hub.b] \in drives THEN barriers' = CompleteBarrier(hub.b)
                                  ELSE UNCHANGED barriers
  /\ hub' = Report("unmounted", 1, hub.next)
  /\ UNCHANGED <<drives, bind, sess, hd, active, rclone, dirty, budget, past>>

FlushFails ==
  /\ hub.pc = "flush"
  /\ Fault("http")
  /\ hub' = Report("unmounted", 1, hub.next)
  /\ UNCHANGED <<plane, active, rclone, dirty, asked, raced, lost>>

Unmounted ==
  /\ hub.pc = "unmount"
  /\ \A b \in Bindings : Kept(b) => b \in hub.want
  /\ hub' = To("mount")
  /\ UNCHANGED <<plane, active, rclone, dirty, budget, past>>

\* reconcile: what a wanted binding needs.
Look(b) ==
  /\ hub.pc = "mount"
  /\ b \in hub.todo
  /\ hub' = LET h == [hub EXCEPT !.b = b]
            IN  CASE ~Kept(b)           -> [h EXCEPT !.pc = "issue"]
                  [] Kept(b) /\ Sick(b) -> [h EXCEPT !.pc = "report",
                                              !.val = "error", !.tries = 1,
                                              !.next = "replace"]
                  [] OTHER ->
                       IF active[b].age = Fresh
                         THEN [h EXCEPT !.todo = @ \ {b}]
                         ELSE [h EXCEPT !.pc = IF ForceRemount THEN "replace"
                                                               ELSE "refresh"]
  /\ UNCHANGED <<plane, active, rclone, dirty, budget, past>>

RoundEnds ==
  /\ hub.pc = "mount"
  /\ hub.todo = {}
  /\ hub' = [To("idle") EXCEPT !.want = {}]
  /\ UNCHANGED <<plane, active, rclone, dirty, budget, past>>

\* reconcile: the soft refresh.  A refusal leads to a remount.
SoftRefresh ==
  LET b == hub.b
      ok == DriveOf[b] \in drives /\ Refreshable(b, active[b].rot)
  IN  /\ hub.pc = "refresh"
      /\ sess' = IF ok THEN Refresh(b) ELSE sess
      /\ active' = IF ok THEN [active EXCEPT ![b].rot = sess[b].rot + 1,
                                             ![b].age = Fresh]
                         ELSE active
      /\ hub' = To(IF ok THEN "probe" ELSE "replace")
      /\ UNCHANGED <<drives, bind, barriers, hd, rclone, dirty, budget, past>>

\* The call fails before the API has rotated the token, or after it, or the
\* rclone configuration cannot be rewritten.
SoftRefreshFails ==
  LET b == hub.b
  IN  /\ hub.pc = "refresh"
      /\ Fault("http")
      /\ \/ UNCHANGED sess
         \/ /\ DriveOf[b] \in drives /\ Refreshable(b, active[b].rot)
            /\ sess' = Refresh(b)
      /\ hub' = To("replace")
      /\ UNCHANGED <<drives, bind, barriers, hd, active, rclone, dirty,
                     asked, raced, lost>>

\* reconcile: the mount may have died under the refresh.  The path is tried
\* in either mode; the directory of a synced workspace always answers here.
Probe ==
  /\ hub.pc = "probe"
  /\ hub' = IF Sick(hub.b) THEN To("replace") ELSE Settled
  /\ UNCHANGED <<plane, active, rclone, dirty, budget, past>>

\* remount: the old mount is stopped.
Replace ==
  /\ hub.pc = "replace"
  /\ Stop(hub.b) /\ Push(hub.b)
  /\ hub' = To("issue")
  /\ UNCHANGED <<plane, asked, raced, lost>>

\* remount: issueSession.
IssueSession ==
  LET b == hub.b
      ok == DriveOf[b] \in drives
  IN  /\ hub.pc = "issue"
      /\ sess' = IF ok THEN Issue(b) ELSE sess
      /\ hub' = IF ok THEN To("start")
                ELSE [Report("error", 1, "mount") EXCEPT !.todo = @ \ {b}]
      /\ UNCHANGED <<drives, bind, barriers, hd, active, rclone, dirty, budget,
                     past>>

IssueSessionFails ==
  /\ hub.pc = "issue"
  /\ Fault("http")
  /\ hub' = [Report("error", 1, "mount") EXCEPT !.todo = @ \ {hub.b}]
  /\ UNCHANGED <<plane, active, rclone, dirty, asked, raced, lost>>

\* rclone sync from the drive: what was not pushed is overwritten.
Overwritten(b) == dirty' = dirty \ WorkIn(b) /\ lost' = lost \cup WorkIn(b)

\* startMount: a synced workspace is pulled, over what is there; a mount gets
\* an rclone process.  The probe of the mount point is passed by the directory
\* itself, which MkdirAll has made.  remount then reports "mounted".
StartMount ==
  LET b == hub.b
  IN  /\ hub.pc = "start"
      /\ IF Synced(b) THEN Overwritten(b) ELSE UNCHANGED <<dirty, lost>>
      /\ rclone' = IF Synced(b) THEN rclone
                                ELSE [rclone EXCEPT ![b] = @ + 1]
      /\ active' = [active EXCEPT ![b] =
                      [rot |-> sess[b].rot, age |-> sess[b].age,
                       proc |-> IF Synced(b) THEN "none" ELSE "up",
                       hung |-> FALSE]]
      /\ hub' = [Report("mounted", MountedTries, "mount")
                   EXCEPT !.todo = @ \ {b}]
      /\ UNCHANGED <<plane, budget, asked, raced, failed>>

\* startMount: the pull fails, at once or half way, rclone exits, or the path
\* never answers and the process is stopped again.
StartMountFails ==
  /\ hub.pc = "start"
  /\ Fault("rclone")
  /\ hub' = [Report("error", 1, "mount") EXCEPT !.todo = @ \ {hub.b}]
  /\ UNCHANGED <<dirty, lost>> \/ (Synced(hub.b) /\ Overwritten(hub.b))
  /\ UNCHANGED <<plane, active, rclone, asked, raced>>

\* reportActual: the call is lost, or times out while its handler goes on.
ReportLost ==
  /\ hub.pc = "report"
  /\ Fault("http")
  /\ hub' = To("refused")
  /\ UNCHANGED <<plane, active, rclone, dirty, asked, raced, lost>>

ReportTimesOut(h) ==
  /\ hub.pc = "await"
  /\ hd[h].op = "report" /\ hd[h].wait
  /\ Fault("http")
  /\ hd' = [hd EXCEPT ![h].wait = FALSE]
  /\ hub' = To("refused")
  /\ UNCHANGED <<drives, bind, sess, barriers, active, rclone, dirty,
                 asked, raced, lost>>

\* reportActualRetry, and the report of an error when "mounted" cannot be.
Refused ==
  /\ hub.pc = "refused"
  /\ hub' = CASE hub.tries > 1       -> [To("report") EXCEPT !.tries = @ - 1]
              [] hub.tries <= 1 /\ hub.val = "mounted"
                                     -> Report("error", ErrorTries, hub.next)
              [] OTHER               -> To(hub.next)
  /\ UNCHANGED <<plane, active, rclone, dirty, budget, past>>

\* A signal between two rounds: every mount is stopped, then hubd is gone.
Signal ==
  /\ Ask
  /\ hub.pc = "idle"
  /\ hub' = To("shutdown")
  /\ UNCHANGED <<plane, active, rclone, dirty, asked, raced, lost>>

Shutdown ==
  /\ hub.pc = "shutdown"
  /\ \/ \E b \in Bindings :
          /\ Kept(b)
          /\ Stop(b) /\ Push(b)
          /\ hub' = [hub EXCEPT !.pc = "flush", !.b = b, !.next = "shutdown"]
     \/ /\ \A b \in Bindings : ~Kept(b)
        /\ hub' = To("down")
        /\ UNCHANGED <<active, rclone, dirty, budget, failed>>
  /\ UNCHANGED <<plane, asked, raced, lost>>

\* hubd dies: what it knew is gone, its rclone processes and the handlers of
\* its calls are not.
HubCrashes ==
  /\ Fault("crash")
  /\ hub.pc # "down"
  /\ hub' = [To("down") EXCEPT !.want = {}, !.todo = {}]
  /\ active' = [b \in Bindings |-> NoMount]
  /\ hd' = [h \in Handlers |->
              IF hd[h].op = "report" THEN [hd[h] EXCEPT !.wait = FALSE]
                                     ELSE hd[h]]
  /\ UNCHANGED <<drives, bind, sess, barriers, rclone, dirty, asked, raced,
                 lost>>

HubStarts ==
  /\ hub.pc = "down"
  /\ hub' = To("idle")
  /\ UNCHANGED <<plane, active, rclone, dirty, budget, past>>

-----------------------------------------------------------------------------
(* The device.                                                             *)

\* rclone exits under hubd.
RcloneDies(b) ==
  /\ Fault("rclone")
  /\ Kept(b) /\ active[b].proc = "up"
  /\ active' = [active EXCEPT ![b].proc = "dead"]
  /\ rclone' = [rclone EXCEPT ![b] = @ - 1]
  /\ UNCHANGED <<plane, hub, dirty, asked, raced, lost>>

\* The mount point stops answering.
MountHangs(b) ==
  /\ Fault("rclone")
  /\ Kept(b) /\ active[b].proc = "up" /\ ~active[b].hung
  /\ active' = [active EXCEPT ![b].hung = TRUE]
  /\ UNCHANGED <<plane, hub, rclone, dirty, asked, raced, lost>>

\* Someone works in a synced workspace: an ordinary directory, that can be
\* written at any time, between a push and the next pull too.
WorkspaceChanges(b) ==
  /\ Pass
  /\ Synced(b) /\ Work(b, Kept(b)) \notin dirty
  /\ dirty' = dirty \cup {Work(b, Kept(b))}
  /\ UNCHANGED <<plane, hub, active, rclone, past>>

-----------------------------------------------------------------------------
NoHub == [pc |-> "down", want |-> {}, todo |-> {},
          b |-> CHOOSE b \in Bindings : TRUE, val |-> "none", tries |-> 0,
          next |-> "none"]

Init ==
  /\ drives = Drives
  /\ \E start \in Starts :
       /\ bind = [b \in Bindings |->
                    IF b \in start THEN [desired |-> "mounted",
                                         actual |-> "unknown"]
                                   ELSE NoBinding]
       /\ asked = [b \in Bindings |->
                     IF b \in start THEN <<"mounted">> ELSE <<>>]
  /\ sess = [b \in Bindings |-> [rot |-> 0, age |-> Over, live |-> FALSE]]
  /\ barriers = <<>>
  /\ hd = [h \in Handlers |-> Free]
  /\ hub = NoHub
  /\ active = [b \in Bindings |-> NoMount]
  /\ rclone = [b \in Bindings |-> 0]
  /\ dirty = {}
  /\ \E q \in Budgets : asks = q[1] /\ faults = q[2] /\ times = q[3]
  /\ raced = {} /\ failed = {} /\ lost = {}

HubStep ==
  \/ List \/ Flush \/ Unmounted \/ RoundEnds \/ SoftRefresh \/ Probe
  \/ Replace \/ IssueSession \/ StartMount \/ Refused \/ Shutdown
  \/ \E b \in Bindings : Unmount(b) \/ Look(b)
  \/ \E h \in Handlers : BeginReport(h)

HubFails ==
  \/ ListFails \/ ListStoreFails \/ FlushFails \/ SoftRefreshFails
  \/ IssueSessionFails \/ StartMountFails \/ ReportLost \/ HubCrashes
  \/ \E h \in Handlers : ReportTimesOut(h)

HandlerEnds(h) == EndCreateBinding(h) \/ EndSetDesired(h) \/ EndReport(h)

Next ==
  \/ HubStep \/ HubFails \/ HubStarts \/ Signal \/ ApiRestarts
  \/ \E h \in Handlers :
       \/ HandlerEnds(h)
       \/ \E b \in Bindings, d \in {"mounted", "unmounted"} :
            BeginCreateBinding(h, b, d) \/ BeginSetDesired(h, b, d)
  \/ \E d \in Drives : DeleteDrive(d)
  \/ \E b \in Bindings :
       \/ \E d \in Drives : RefreshMismatched(b, d)
       \/ SessionAges(b) \/ RcloneDies(b) \/ MountHangs(b)
       \/ WorkspaceChanges(b)

\* hubd's loop goes on, and so does a handler once it has begun: goroutines
\* that are runnable run.  Nothing is assumed of users, failures or restarts.
Fairness == /\ WF_vars(HubStep)
            /\ \A h \in Handlers : WF_vars(HandlerEnds(h))

Spec == Init /\ [][Next]_vars /\ Fairness

-----------------------------------------------------------------------------
(* Properties.                                                             *)

\* The tables of the control plane and the state of hubd keep their types
\* through lost calls, late handlers and restarts.
TypeOK ==
  /\ \A b \in Bindings :
       /\ bind[b].desired \in {"none", "mounted", "unmounted"}
       /\ bind[b].actual \in {"none", "unknown", "mounted", "unmounted",
                              "error"}
       /\ sess[b].rot \in Nat /\ sess[b].age \in Fresh..Over
       /\ rclone[b] \in Nat
       /\ Kept(b) => active[b].rot \in 1..sess[b].rot
  /\ hub.todo \subseteq hub.want /\ hub.want \subseteq Bindings
  /\ Len(barriers) <= BarrierCap

\* What the last confirmed SetDesired asked for is what the binding says,
\* whatever hubd reports, late and repeated reports included; unless a report
\* and a SetDesired overlapped.
DesiredHonoured ==
  \A b \in Bindings :
    Here(b) /\ b \notin raced => bind[b].desired = asked[b][Len(asked[b])]

\* A mount that hubd keeps, that lives and that answers.
Running(b) == Kept(b) /\ active[b].proc # "dead" /\ ~active[b].hung

\* A mount that is well and whose session is fresh is stopped only if a user
\* asked for it once, or hubd is told to stop; unless the store failed.  A
\* call that fails, or an API that restarts, unmounts nothing.
KeptWhileWanted ==
  [][\A b \in Bindings :
       /\ Running(b) /\ active[b].age = Fresh
       /\ "unmounted" \notin {asked[b][i] : i \in 1..Len(asked[b])}
       /\ "store" \notin failed
       => Kept(b)' \/ hub'.pc = "down" \/ hub.pc = "shutdown"]_vars

\* A running rclone process is one hubd keeps, one per binding; unless hubd
\* crashed and left its processes behind.
NoneLeft ==
  "crash" \notin failed =>
    \A b \in Bindings :
      rclone[b] = IF Kept(b) /\ active[b].proc = "up" THEN 1 ELSE 0

\* The work done in a synced workspace while hubd keeps it, from a pull to the
\* push of the next stop, is not overwritten before it was pushed, however
\* mounts are stopped, replaced and refreshed; unless a push failed or hubd
\* crashed.  Work done outside that time is no part of this: between the push
\* of stop and the pull of startMount, after a session or a pull that failed,
\* or before the first pull of a hubd, the next pull overwrites it.
WorkKept ==
  failed \cap {"push", "crash"} = {} => \A w \in lost : ~w.kept

\* The write barrier announces completion after the cache was flushed: a
\* barrier is posted for a workspace with nothing left to push of the work
\* done while hubd kept it.
BarrierAfterFlush == \A i \in 1..Len(barriers) : barriers[i].clean

\* A binding that is wanted and has its drive.
Wanted(b) == bind[b].desired = "mounted" /\ DriveOf[b] \in drives

\* If a binding stays wanted and hubd stays up, it is mounted in the end and
\* stays so; if it stays unwanted, it is unmounted in the end.
Converges ==
  \A b \in Bindings :
    /\ <>[](Wanted(b) /\ hub.pc # "down") => <>[]Running(b)
    /\ <>[](bind[b].desired = "unmounted" /\ hub.pc # "down") => <>[]~Kept(b)

\* A binding that stays wanted while hubd stays up is reported mounted in the
\* end; unless a call or the API failed, a crash of hubd left a report to be
\* written late, or a SetDesired overlapped a report.
ActualFollows ==
  \A b \in Bindings :
    <>[](Wanted(b) /\ hub.pc # "down") =>
      <>[](\/ bind[b].actual = "mounted"
           \/ failed \cap {"http", "api", "crash"} # {}
           \/ b \in raced)
=============================================================================
