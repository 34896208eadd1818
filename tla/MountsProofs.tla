---------------------------- MODULE MountsProofs ----------------------------
(***************************************************************************)
(* Bindings, sessions and hubd, for any number of bindings, drives and     *)
(* requests: no rclone process and no unpushed work is left behind, what a *)
(* user asked for last is what a binding says, and a mount that is well is *)
(* stopped for a reason only.                                              *)
(***************************************************************************)
EXTENDS Mounts, TLAPS

Wishes  == {"mounted", "unmounted"}
Reports == {"mounted", "unmounted", "error"}
Row     == [desired : {"none"} \cup Wishes, actual : {"none", "unknown"} \cup Reports]
Session == [rot : Nat, age : Fresh..Over, live : BOOLEAN]
Mount   == [rot : Nat \ {0}, age : Fresh..Over, proc : {"none", "up", "dead"},
            hung : BOOLEAN]
Barrier == [drive : Drives, clean : BOOLEAN]
Create  == [op : {"create"}, b : Bindings, val : Wishes]
Set     == [op : {"desired"}, b : Bindings, row : Row, val : Wishes]
Call    == [op : {"report"}, b : Bindings, row : Row, val : Reports, wait : BOOLEAN]

(* Where hubd is with no binding at hand, with one, and reporting on one.  *)
Apart   == {"down", "idle", "unmount", "mount", "shutdown"}
Telling == {"report", "await", "refused"}
At      == {"flush", "refresh", "probe", "replace", "issue", "start"} \cup Telling
Hub     == [pc : Apart \cup At, want : SUBSET Bindings, todo : SUBSET Bindings,
            b : Bindings \cup {CHOOSE b \in Bindings : TRUE},
            val : {"none"} \cup Reports, tries : Nat,
            next : {"none", "unmount", "mount", "replace", "shutdown"}]

Types ==
  /\ bind \in [Bindings -> Row] /\ sess \in [Bindings -> Session]
  /\ active \in [Bindings -> Mount \cup {NoMount}]
  /\ rclone \in [Bindings -> Nat]
  /\ barriers \in Seq(Barrier) /\ Len(barriers) <= BarrierCap
  /\ hd \in [Handlers -> Create \cup Set \cup Call \cup {Free}]
  /\ hub \in Hub /\ hub.todo \subseteq hub.want

(* A mount has a process unless it is a synced workspace, and its token is *)
(* one the API has handed out.                                             *)
Mounted ==
  \A b \in Bindings : Kept(b) =>
    /\ active[b].rot <= sess[b].rot
    /\ active[b].proc = "none" <=> Synced(b)
    /\ active[b].proc = "up" => rclone[b] > 0

(* What hubd knows of the binding it is at.                                *)
Placed ==
  /\ hub.pc \in At => hub.b \in Bindings
  /\ hub.pc \in Telling => hub.val # "none"
  /\ hub.pc \in Telling \cup {"flush"} => hub.next # "none"
  /\ hub.pc \in {"issue", "start"} => ~Kept(hub.b)
  /\ hub.pc = "start" => sess[hub.b].rot > 0
  /\ hub.pc \in {"refresh", "probe"} => Kept(hub.b)
  /\ hub.pc = "refresh" => active[hub.b].age # Fresh
  /\ hub.pc = "replace" \/ (hub.pc \in Telling /\ hub.next = "replace") =>
       Kept(hub.b) /\ (Sick(hub.b) \/ active[hub.b].age # Fresh)
  /\ hub.pc = "flush" => hub.next # "replace"

(* The call hubd waits for is one.                                         *)
Waits(h) == hd[h].op = "report" /\ hd[h].wait
OneCall ==
  /\ \A h \in Handlers : Waits(h) => hub.pc = "await"
  /\ \A h, x \in Handlers : Waits(h) /\ Waits(x) => h = x

(* Work that was done while hubd kept a workspace and was not pushed is in *)
(* one that hubd still keeps, and was never overwritten.                   *)
KeptSafe == /\ \A w \in lost : ~w.kept
            /\ \A w \in dirty : w.kept => Kept(w.ws)
WorkHeld ==
  /\ dirty \subseteq [ws : Bindings, kept : BOOLEAN]
  /\ failed \cap {"push", "crash"} = {} => KeptSafe

(* hubd works on bindings that are there, handlers do so too, and one that *)
(* is being created is not there yet.                                      *)
Present ==
  /\ \A b \in hub.want : Here(b)
  /\ \A b \in Bindings : Kept(b) => Here(b)
  /\ hub.pc \in At => Here(hub.b)
  /\ \A h \in Handlers : hd[h].op \in {"desired", "report"} => Here(hd[h].b)
  /\ \A h \in Handlers : hd[h].op = "create" => ~Here(hd[h].b)
  /\ \A h, x \in Handlers :
       hd[h].op = "create" /\ hd[x].op = "create" /\ hd[h].b = hd[x].b => h = x

(* A report that no SetDesired overlapped writes back what is wanted.      *)
Asked ==
  /\ asked \in [Bindings -> Seq(Wishes)]
  /\ \A b \in Bindings : Here(b) => asked[b] # <<>>
  /\ \A h \in Handlers :
       hd[h].op = "report" /\ hd[h].b \notin raced =>
         /\ hd[h].row.desired = bind[hd[h].b].desired
         /\ ~Midway(hd[h].b, "desired")

(* Once a user asked for b to be unmounted.                                *)
Once(b) == \E i \in 1..Len(asked[b]) : asked[b][i] = "unmounted"

(* hubd is among the mounts that are not wanted.                           *)
Unmounting ==
  hub.pc = "unmount" \/ (hub.pc \in Telling \cup {"flush"} /\ hub.next = "unmount")

Unwanted ==
  /\ \A b \in Bindings : Here(b) /\ bind[b].desired # "mounted" => Once(b)
  /\ \A h \in Handlers : hd[h].op = "report" /\ hd[h].row.desired # "mounted"
                           => Once(hd[h].b)
  /\ "store" \notin failed /\ Unmounting =>
       \A b \in Bindings : Kept(b) /\ b \notin hub.want => Once(b)

-----------------------------------------------------------------------------
(* Types.                                                                  *)

LEMMA HandlerKinds ==
  ASSUME Types, NEW h \in Handlers
  PROVE  /\ hd[h].op = "create" => hd[h] \in Create
         /\ hd[h].op = "desired" => hd[h] \in Set
         /\ hd[h].op = "report" => hd[h] \in Call
  BY DEF Types, Create, Set, Call, Free

LEMMA KeptIsMount ==
  ASSUME Types, NEW b \in Bindings
  PROVE  Kept(b) <=> active[b] \in Mount
  BY DEF Types, Kept, Mount, NoMount

(* Which steps change what.                                                *)

LEMMA BindChanges == [Next]_vars => UNCHANGED bind \/ \E h \in Handlers : HandlerEnds(h)
  BY DEF Next, HubStep, HubFails, HubStarts, Signal, ApiRestarts, List,
    Flush, Unmounted, RoundEnds, SoftRefresh, Probe, Replace,
    IssueSession, StartMount, Refused, Shutdown, Unmount, Look,
    BeginReport, ListFails, ListStoreFails, FlushFails, SoftRefreshFails,
    IssueSessionFails, StartMountFails, ReportLost, HubCrashes,
    ReportTimesOut, BeginCreateBinding, BeginSetDesired, DeleteDrive,
    RefreshMismatched, SessionAges, RcloneDies, MountHangs,
    WorkspaceChanges, plane, device, budget, past, vars

LEMMA SessChanges ==
  [Next]_vars => \/ UNCHANGED sess \/ ApiRestarts
                 \/ SoftRefresh \/ SoftRefreshFails \/ IssueSession
                 \/ \E b \in Bindings : SessionAges(b)
                 \/ \E b \in Bindings, d \in Drives : RefreshMismatched(b, d)
  BY DEF Next, HubStep, HubFails, HandlerEnds, HubStarts, Signal, List,
    Flush, Unmounted, RoundEnds, Probe, Replace, StartMount, Refused,
    Shutdown, Unmount, Look, BeginReport, ListFails, ListStoreFails,
    FlushFails, IssueSessionFails, StartMountFails, ReportLost,
    HubCrashes, ReportTimesOut, EndCreateBinding, EndSetDesired,
    EndReport, BeginCreateBinding, BeginSetDesired, DeleteDrive,
    RcloneDies, MountHangs, WorkspaceChanges, plane, device, budget, past,
    vars

LEMMA BarrierChanges == [Next]_vars => UNCHANGED barriers \/ ApiRestarts \/ Flush
  BY DEF Next, HubStep, HubFails, HandlerEnds, HubStarts, Signal, List,
    Unmounted, RoundEnds, SoftRefresh, Probe, Replace, IssueSession,
    StartMount, Refused, Shutdown, Unmount, Look, BeginReport, ListFails,
    ListStoreFails, FlushFails, SoftRefreshFails, IssueSessionFails,
    StartMountFails, ReportLost, HubCrashes, ReportTimesOut,
    EndCreateBinding, EndSetDesired, EndReport, BeginCreateBinding,
    BeginSetDesired, DeleteDrive, RefreshMismatched, SessionAges,
    RcloneDies, MountHangs, WorkspaceChanges, plane, device, budget, past,
    vars

LEMMA ActiveChanges ==
  [Next]_vars => \/ UNCHANGED <<active, rclone>> \/ StartMount \/ HubCrashes
                 \/ SoftRefresh \/ Replace \/ Shutdown
                 \/ \E b \in Bindings : \/ Unmount(b) \/ SessionAges(b)
                                         \/ RcloneDies(b) \/ MountHangs(b)
  BY DEF Next, HubStep, HubFails, HandlerEnds, HubStarts, Signal,
    ApiRestarts, List, Flush, Unmounted, RoundEnds, Probe, IssueSession,
    Refused, Look, BeginReport, ListFails, ListStoreFails, FlushFails,
    SoftRefreshFails, IssueSessionFails, StartMountFails, ReportLost,
    ReportTimesOut, EndCreateBinding, EndSetDesired, EndReport,
    BeginCreateBinding, BeginSetDesired, DeleteDrive, RefreshMismatched,
    WorkspaceChanges, plane, device, budget, past, vars

LEMMA HandlerChanges ==
  [Next]_vars => \/ UNCHANGED hd \/ ApiRestarts \/ HubCrashes
                 \/ \E h \in Handlers :
                      \/ HandlerEnds(h) \/ BeginReport(h) \/ ReportTimesOut(h)
                      \/ \E b \in Bindings, d \in Wishes :
                           BeginCreateBinding(h, b, d) \/ BeginSetDesired(h, b, d)
  BY DEF Next, HubStep, HubFails, HubStarts, Signal, List, Flush,
    Unmounted, RoundEnds, SoftRefresh, Probe, Replace, IssueSession,
    StartMount, Refused, Shutdown, Unmount, Look, ListFails,
    ListStoreFails, FlushFails, SoftRefreshFails, IssueSessionFails,
    StartMountFails, ReportLost, DeleteDrive, RefreshMismatched,
    SessionAges, RcloneDies, MountHangs, WorkspaceChanges, plane, device,
    budget, past, vars, Wishes

LEMMA BindTypes == Types /\ [Next]_vars => bind' \in [Bindings -> Row]
<1>. SUFFICES ASSUME Types, [Next]_vars PROVE bind' \in [Bindings -> Row]
  OBVIOUS
<1>1. ASSUME NEW h \in Handlers, HandlerEnds(h) PROVE bind' \in [Bindings -> Row]
  <2>1. CASE EndCreateBinding(h)
    <3>1. hd[h] \in Create
      BY <2>1, HandlerKinds DEF EndCreateBinding
    <3>. QED
      BY <2>1, <3>1 DEF EndCreateBinding, Create, Row, Wishes, Types
  <2>2. CASE EndSetDesired(h)
    <3>1. hd[h] \in Set
      BY <2>2, HandlerKinds DEF EndSetDesired
    <3>2. [hd[h].row EXCEPT !.desired = hd[h].val] \in Row
      BY <3>1 DEF Set, Row
    <3>. QED
      BY <2>2, <3>1, <3>2 DEF EndSetDesired, Types
  <2>3. CASE EndReport(h)
    <3>1. hd[h] \in Call
      BY <2>3, HandlerKinds DEF EndReport
    <3>2. [hd[h].row EXCEPT !.actual = hd[h].val] \in Row
      BY <3>1 DEF Call, Row
    <3>. QED
      BY <2>3, <3>1, <3>2 DEF EndReport, Reported, Types
  <2>. QED
    BY <1>1, <2>1, <2>2, <2>3 DEF HandlerEnds
<1>. QED
  BY <1>1, BindChanges DEF Types

LEMMA SessTypes == 
  ASSUME Types, Placed, [Next]_vars 
  PROVE  /\ sess' \in [Bindings -> Session]
         /\ \A b \in Bindings : sess[b].rot <= sess'[b].rot
<1>. DEFINE Grown == /\ sess' \in [Bindings -> Session]
                     /\ \A b \in Bindings : sess[b].rot <= sess'[b].rot
<1>. SUFFICES Grown
  OBVIOUS
<1>1. ASSUME NEW b \in Bindings, sess' = Refresh(b) PROVE Grown
  <2>. DEFINE n == sess[b].rot + 1
              new == [sess[b] EXCEPT !.rot = n, !.age = Fresh]
  <2>0. /\ sess[b] \in Session /\ n \in Nat /\ sess[b].rot <= n
        /\ Fresh \in Fresh..Over
    BY DEF Session, Types, Fresh, Over
  <2>2. sess' = [sess EXCEPT ![b] = new]
    BY <1>1 DEF Refresh
  <2>. HIDE DEF n
  <2>1. new \in Session /\ sess[b].rot <= new.rot
    BY <2>0 DEF Session
  <2>. HIDE DEF new
  <2>. QED
    BY <2>1, <2>2 DEF Types, Session
<1>2. ASSUME NEW b \in Bindings, sess' = Issue(b) PROVE Grown
  <2>. DEFINE new == [rot |-> sess[b].rot + 1, age |-> Fresh, live |-> TRUE]
  <2>1. new \in Session /\ sess[b].rot <= new.rot
    BY DEF Session, Types, Fresh, Over
  <2>2. sess' = [sess EXCEPT ![b] = new]
    BY <1>2 DEF Issue
  <2>. HIDE DEF new
  <2>. QED
    BY <2>1, <2>2 DEF Types, Session
<1>3. ASSUME NEW b \in Bindings, SessionAges(b) PROVE Grown
  <2>. DEFINE age == IF sess[b].age < Over THEN sess[b].age + 1 ELSE sess[b].age
              new == [sess[b] EXCEPT !.age = age]
  <2>1. age \in Fresh..Over
    BY DEF Session, Types, Fresh, Over
  <2>. HIDE DEF age
  <2>2. new \in Session /\ sess[b].rot = new.rot
    BY <2>1 DEF Session, Types
  <2>3. sess' = [sess EXCEPT ![b] = new]
    BY <1>3 DEF SessionAges, age
  <2>. HIDE DEF new
  <2>. QED
    BY <2>2, <2>3 DEF Types, Session
<1>4. CASE ApiRestarts
  <2>1. \A b \in Bindings : /\ [sess[b] EXCEPT !.live = FALSE] \in Session
                             /\ [sess[b] EXCEPT !.live = FALSE].rot = sess[b].rot
    BY DEF Types, Session
  <2>2. sess' = [b \in Bindings |-> [sess[b] EXCEPT !.live = FALSE]]
    BY <1>4 DEF ApiRestarts
  <2>3. sess' \in [Bindings -> Session]
    BY <2>1, <2>2
  <2>4. \A b \in Bindings : sess[b].rot \in Nat /\ sess'[b].rot = sess[b].rot
    BY <2>1, <2>2 DEF Types, Session
  <2>. QED
    BY <2>3, <2>4
<1>5. CASE UNCHANGED sess
  BY <1>5 DEF Types, Session
<1>6. CASE SoftRefresh \/ SoftRefreshFails \/ IssueSession
  <2>1. hub.b \in Bindings
    BY <1>6 DEF Placed, At, Telling, SoftRefresh, SoftRefreshFails, IssueSession
  <2>. QED
    BY <1>1, <1>2, <1>5, <1>6, <2>1 DEF SoftRefresh, SoftRefreshFails, IssueSession
<1>7. ASSUME NEW b \in Bindings, NEW d \in Drives, RefreshMismatched(b, d) PROVE Grown
  BY <1>1, <1>7 DEF RefreshMismatched
<1>. QED
  BY <1>3, <1>4, <1>5, <1>6, <1>7, SessChanges

LEMMA BarrierTypes ==
  ASSUME Types, Placed, [Next]_vars
  PROVE  barriers' \in Seq(Barrier) /\ Len(barriers') <= BarrierCap
<1>1. CASE Flush
  <2>1. hub.b \in Bindings
    BY <1>1 DEF Placed, At, Flush
  <2>. DEFINE new == [drive |-> DriveOf[hub.b], clean |-> Work(hub.b, TRUE) \notin dirty]
  <2>2. new \in Barrier
    BY <2>1, MountsAssumption DEF Barrier
  <2>3. /\ barriers \in Seq(Barrier) /\ BarrierCap \in Nat /\ BarrierCap >= 1
        /\ Len(barriers) \in Nat
    BY MountsAssumption DEF Types
  <2>4. CASE UNCHANGED barriers
    BY <2>4 DEF Types
  <2>5. CASE Len(barriers) + 1 > BarrierCap /\ barriers' = <<new>>
    BY <2>2, <2>3, <2>5
  <2>6. CASE ~(Len(barriers) + 1 > BarrierCap) /\ barriers' = Append(barriers, new)
    <3>1. barriers' \in Seq(Barrier) /\ Len(barriers') = Len(barriers) + 1
      BY <2>2, <2>3, <2>6
    <3>. QED
      BY <2>3, <2>6, <3>1
  <2>. QED
    BY <1>1, <2>4, <2>5, <2>6 DEF Flush, CompleteBarrier
<1>2. CASE ApiRestarts
  <2>1. barriers' = <<>> /\ BarrierCap \in Nat
    BY <1>2, MountsAssumption DEF ApiRestarts
  <2>. QED
    BY <2>1
<1>3. CASE UNCHANGED barriers
  BY <1>3 DEF Types
<1>. QED
  BY <1>1, <1>2, <1>3, BarrierChanges

(* What a step may do to one mount: nothing, end it, find it dead, keep it *)
(* with its process, begin it, or forget it in a crash.                    *)
Stays(b) == active'[b] = active[b] /\ rclone'[b] = rclone[b]
Ends(b) ==
  /\ Unmount(b) \/ (Replace /\ hub.b = b) \/ Shutdown
  /\ Kept(b) /\ ~Kept(b)'
  /\ rclone'[b] = IF active[b].proc = "up" THEN rclone[b] - 1 ELSE rclone[b]
Dies(b) ==
  /\ Kept(b) /\ active[b].proc = "up" /\ active'[b] = [active[b] EXCEPT !.proc = "dead"]
  /\ rclone'[b] = rclone[b] - 1
Lasts(b) ==
  /\ Kept(b) /\ Kept(b)' /\ rclone'[b] = rclone[b]
  /\ active'[b].proc = active[b].proc
  /\ active'[b].rot = active[b].rot \/ active'[b].rot = sess'[b].rot
  /\ active[b].hung => active'[b].hung
  /\ (SoftRefresh /\ hub.b = b) \/ (active[b].age # Fresh => active'[b].age # Fresh)
Begins(b) ==
  /\ StartMount /\ hub.b = b /\ ~Kept(b) /\ Kept(b)'
  /\ active'[b].rot = sess[b].rot
  /\ active'[b].proc = IF Synced(b) THEN "none" ELSE "up"
  /\ rclone'[b] = IF Synced(b) THEN rclone[b] ELSE rclone[b] + 1

LEMMA DeadIsKept ==
  ASSUME Types, NEW b \in Bindings, Dies(b)
  PROVE  /\ active'[b] \in Mount /\ Kept(b)' /\ active'[b].proc = "dead"
         /\ active'[b].rot = active[b].rot /\ active'[b].age = active[b].age
<1>1. /\ active'[b] \in Mount /\ active'[b].proc = "dead"
      /\ active'[b].rot = active[b].rot /\ active'[b].age = active[b].age
  BY KeptIsMount DEF Dies, Mount
<1>. QED
  BY <1>1 DEF Kept, Mount, NoMount

LEMMA StopEnds ==
  ASSUME Types, Mounted, NEW b \in Bindings, Kept(b), Stop(b),
         Unmount(b) \/ (Replace /\ hub.b = b) \/ Shutdown
  PROVE  /\ active' \in [Bindings -> Mount \cup {NoMount}]
         /\ rclone' \in [Bindings -> Int]
         /\ Ends(b) /\ \A x \in Bindings \ {b} : Stays(x)
<1>1. active'[b] = NoMount
  BY DEF Stop, Types
<1>2. \A x \in Bindings \ {b} : Stays(x)
  BY DEF Stop, Types, Stays
<1>3. rclone'[b] = IF active[b].proc = "up" THEN rclone[b] - 1 ELSE rclone[b]
  BY DEF Stop, Types, Mounted
<1>. QED
  BY <1>1, <1>2, <1>3 DEF Stop, Ends, Kept, Types

LEMMA MountSteps ==
  ASSUME Types, Mounted, Placed, [Next]_vars
  PROVE  /\ active' \in [Bindings -> Mount \cup {NoMount}]
         /\ rclone' \in [Bindings -> Int]
         /\ \A b \in Bindings :
              \/ Stays(b) \/ Ends(b) \/ Dies(b) \/ Lasts(b) \/ Begins(b)
              \/ HubCrashes /\ active'[b] = NoMount /\ rclone'[b] = rclone[b]
<1>. DEFINE Goal ==
       /\ active' \in [Bindings -> Mount \cup {NoMount}]
       /\ rclone' \in [Bindings -> Int]
       /\ \A b \in Bindings :
            \/ Stays(b) \/ Ends(b) \/ Dies(b) \/ Lasts(b) \/ Begins(b)
            \/ HubCrashes /\ active'[b] = NoMount /\ rclone'[b] = rclone[b]
<1>. SUFFICES Goal
  OBVIOUS
<1>1. CASE UNCHANGED <<active, rclone>>
  BY <1>1 DEF Types, Stays
<1>2. ASSUME NEW b \in Bindings, Kept(b), Stop(b),
             Unmount(b) \/ (Replace /\ hub.b = b) \/ Shutdown
      PROVE  Goal
  BY <1>2, StopEnds
<1>3. ASSUME NEW b \in Bindings, Unmount(b) PROVE Goal
  BY <1>2, <1>3 DEF Unmount
<1>4. CASE Replace
  <2>1. PICK b \in Bindings : b = hub.b
    BY <1>4 DEF Replace, Placed, At
  <2>. QED
    BY <1>2, <1>4, <2>1 DEF Replace, Placed
<1>5. CASE Shutdown
  BY <1>1, <1>2, <1>5 DEF Shutdown
<1>6. CASE HubCrashes
  BY <1>6 DEF HubCrashes, Types
(* A change of the mount b alone.                                          *)
<1>7. ASSUME NEW b \in Bindings, NEW m \in Mount, active' = [active EXCEPT ![b] = m],
             \A x \in Bindings \ {b} : rclone'[x] = rclone[x],
             rclone' \in [Bindings -> Int], Dies(b) \/ Lasts(b) \/ Begins(b)
      PROVE  Goal
  <2>1. \A x \in Bindings \ {b} : Stays(x)
    BY <1>7 DEF Types, Stays
  <2>. QED
    BY <1>7, <2>1 DEF Types
<1>8. CASE StartMount
  <2>0. PICK b \in Bindings : b = hub.b
    BY <1>8 DEF StartMount, Placed, At
  <2>. DEFINE proc == IF Synced(b) THEN "none" ELSE "up"
              m == [rot |-> sess[b].rot, age |-> sess[b].age,
                    proc |-> proc, hung |-> FALSE]
  <2>1. sess[b].rot > 0 /\ ~Kept(b) /\ sess[b] \in Session
    BY <1>8, <2>0 DEF StartMount, Placed, Types
  <2>2. m \in Mount
    <3>1. proc \in {"none", "up", "dead"} /\ FALSE \in BOOLEAN
      OBVIOUS
    <3>2. sess[b].rot \in Nat \ {0} /\ sess[b].age \in Fresh..Over
      BY <2>1 DEF Session
    <3>. HIDE DEF proc
    <3>. QED
      BY <3>1, <3>2 DEF Mount
  <2>3. active' = [active EXCEPT ![b] = m]
    BY <1>8, <2>0 DEF StartMount
  <2>4. /\ rclone' \in [Bindings -> Int]
        /\ \A x \in Bindings \ {b} : rclone'[x] = rclone[x]
        /\ rclone'[b] = IF Synced(b) THEN rclone[b] ELSE rclone[b] + 1
    BY <1>8, <2>0 DEF StartMount, Types
  <2>5. m.rot = sess[b].rot /\ m.proc = IF Synced(b) THEN "none" ELSE "up"
    OBVIOUS
  <2>. HIDE DEF m
  <2>6. active'[b] = m /\ m # NoMount
    BY <2>1, <2>2, <2>3 DEF Types, Mount, NoMount
  <2>7. Begins(b)
    BY <1>8, <2>0, <2>1, <2>4, <2>5, <2>6 DEF Begins, Kept
  <2>. QED
    BY <1>7, <2>1, <2>2, <2>3, <2>4, <2>7
<1>9. CASE SoftRefresh
  <2>0. PICK b \in Bindings : b = hub.b
    BY <1>9 DEF SoftRefresh, Placed, At
  <2>. DEFINE n == sess[b].rot + 1
              m == [active[b] EXCEPT !.rot = n, !.age = Fresh]
  <2>1. Kept(b) /\ active[b] \in Mount /\ sess[b] \in Session
    BY <1>9, <2>0, KeptIsMount DEF SoftRefresh, Placed, Types
  <2>2. n \in Nat \ {0} /\ Fresh \in Fresh..Over
    BY <2>1 DEF Session, Fresh, Over
  <2>3. UNCHANGED rclone /\ rclone \in [Bindings -> Int]
    BY <1>9 DEF SoftRefresh, Types
  <2>4. \/ UNCHANGED active
        \/ active' = [active EXCEPT ![b] = m] /\ sess' = Refresh(b)
    BY <1>9, <2>0 DEF SoftRefresh
  <2>5. sess' = Refresh(b) => sess'[b].rot = n
    BY <2>1 DEF Refresh, Types, Session
  <2>. HIDE DEF n
  <2>6. /\ m \in Mount /\ m.rot = n /\ m.proc = active[b].proc
        /\ m.hung = active[b].hung
    BY <2>1, <2>2 DEF Mount
  <2>. HIDE DEF m
  <2>7. m # NoMount
    BY <2>6 DEF Mount, NoMount
  <2>8. CASE active' = [active EXCEPT ![b] = m] /\ sess' = Refresh(b)
    <3>1. active'[b] = m
      BY <2>1, <2>8 DEF Types
    <3>2. Lasts(b)
      BY <1>9, <2>0, <2>1, <2>3, <2>5, <2>6, <2>7, <2>8, <3>1 DEF Lasts, Kept
    <3>. QED
      BY <1>7, <2>1, <2>3, <2>6, <2>8, <3>2
  <2>. QED
    BY <1>1, <2>3, <2>4, <2>8
<1>10. ASSUME NEW b \in Bindings, SessionAges(b) PROVE Goal
  <2>. DEFINE n == active[b].age + 1
              m == [active[b] EXCEPT !.age = n]
  <2>1. Kept(b) /\ active[b] \in Mount /\ n \in Fresh..Over /\ n # Fresh
    BY <1>10, KeptIsMount DEF SessionAges, Mount, Fresh, Over
  <2>2. /\ active' = [active EXCEPT ![b] = m]
        /\ UNCHANGED rclone /\ rclone \in [Bindings -> Int]
    BY <1>10 DEF SessionAges, Types
  <2>. HIDE DEF n
  <2>3. /\ m \in Mount /\ m.rot = active[b].rot /\ m.proc = active[b].proc
        /\ m.hung = active[b].hung /\ m.age = n
    BY <2>1 DEF Mount
  <2>. HIDE DEF m
  <2>4. active'[b] = m /\ m # NoMount
    BY <2>2, <2>3 DEF Types, Mount, NoMount
  <2>5. Lasts(b)
    BY <2>1, <2>2, <2>3, <2>4 DEF Lasts, Kept
  <2>. QED
    BY <1>7, <2>2, <2>3, <2>5
<1>11. ASSUME NEW b \in Bindings, MountHangs(b) PROVE Goal
  <2>. DEFINE m == [active[b] EXCEPT !.hung = TRUE]
  <2>1. Kept(b) /\ active[b] \in Mount
    BY <1>11, KeptIsMount DEF MountHangs
  <2>2. /\ active' = [active EXCEPT ![b] = m]
        /\ UNCHANGED rclone /\ rclone \in [Bindings -> Int]
    BY <1>11 DEF MountHangs, Types
  <2>3. /\ m \in Mount /\ m.rot = active[b].rot /\ m.proc = active[b].proc
        /\ m.hung = TRUE /\ m.age = active[b].age
    BY <2>1 DEF Mount
  <2>. HIDE DEF m
  <2>4. active'[b] = m /\ m # NoMount
    BY <2>2, <2>3 DEF Types, Mount, NoMount
  <2>5. Lasts(b)
    BY <2>1, <2>2, <2>3, <2>4 DEF Lasts, Kept
  <2>. QED
    BY <1>7, <2>2, <2>3, <2>5
<1>12. ASSUME NEW b \in Bindings, RcloneDies(b) PROVE Goal
  <2>. DEFINE m == [active[b] EXCEPT !.proc = "dead"]
  <2>1. Kept(b) /\ active[b] \in Mount /\ active[b].proc = "up"
    BY <1>12, KeptIsMount DEF RcloneDies
  <2>2. active' = [active EXCEPT ![b] = m] /\ rclone' = [rclone EXCEPT ![b] = @ - 1]
    BY <1>12 DEF RcloneDies
  <2>3. m \in Mount
    BY <2>1 DEF Mount
  <2>4. /\ rclone' \in [Bindings -> Int] /\ rclone'[b] = rclone[b] - 1
        /\ \A x \in Bindings \ {b} : rclone'[x] = rclone[x]
    BY <2>2 DEF Types
  <2>5. active'[b] = m
    BY <2>2 DEF Types
  <2>6. Dies(b)
    BY <2>1, <2>4, <2>5 DEF Dies
  <2>. HIDE DEF m
  <2>. QED
    BY <1>7, <2>2, <2>3, <2>4, <2>6
<1>. QED
  BY <1>1, <1>3, <1>4, <1>5, <1>6, <1>8, <1>9, <1>10, <1>11, <1>12, ActiveChanges

(* A mount keeps its process and its token in order, and the count of the  *)
(* processes stays a number.                                               *)
LEMMA MountTypes ==
  ASSUME Types, Mounted, Placed, [Next]_vars
  PROVE  rclone' \in [Bindings -> Nat] /\ Mounted'
<1>. SUFFICES ASSUME NEW b \in Bindings
              PROVE  /\ rclone'[b] \in Nat
                     /\ Kept(b)' => /\ active'[b].rot <= sess'[b].rot
                                    /\ active'[b].proc = "none" <=> Synced(b)
                                    /\ active'[b].proc = "up" => rclone'[b] > 0
  <2>1. \A b \in Bindings : rclone'[b] \in Nat
    OBVIOUS
  <2>2. rclone' \in [Bindings -> Nat]
    BY <2>1, MountSteps
  <2>. QED
    BY <2>2 DEF Mounted, Synced
<1>1. /\ rclone[b] \in Nat /\ sess[b].rot \in Nat /\ sess'[b].rot \in Nat
      /\ sess[b].rot <= sess'[b].rot
  BY SessTypes DEF Types, Session
<1>2. Kept(b) => /\ active[b].rot \in Nat /\ active[b].rot <= sess[b].rot
                 /\ active[b].proc = "none" <=> Synced(b)
                 /\ active[b].proc = "up" => rclone[b] > 0
  BY KeptIsMount DEF Mounted, Mount
<1>3. CASE Stays(b)
  BY <1>1, <1>2, <1>3 DEF Stays, Kept
<1>4. CASE Ends(b)
  BY <1>1, <1>2, <1>4 DEF Ends
<1>5. CASE Dies(b)
  BY <1>1, <1>2, <1>5, DeadIsKept DEF Dies
<1>6. CASE Lasts(b)
  BY <1>1, <1>2, <1>6 DEF Lasts
<1>7. CASE Begins(b)
  BY <1>1, <1>2, <1>7 DEF Begins
<1>8. CASE active'[b] = NoMount /\ rclone'[b] = rclone[b]
  BY <1>1, <1>8 DEF Kept
<1>. QED
  BY <1>3, <1>4, <1>5, <1>6, <1>7, <1>8, MountSteps

LEMMA HandlerTypes ==
  ASSUME Types, Placed, [Next]_vars
  PROVE  hd' \in [Handlers -> Create \cup Set \cup Call \cup {Free}]
<1>. DEFINE Kinds == Create \cup Set \cup Call \cup {Free}
<1>. SUFFICES hd' \in [Handlers -> Kinds]
  OBVIOUS
<1>1. ASSUME NEW h \in Handlers, NEW r \in Kinds, hd' = [hd EXCEPT ![h] = r]
      PROVE  hd' \in [Handlers -> Kinds]
  BY <1>1 DEF Types
<1>2. ASSUME NEW h \in Handlers, HandlerEnds(h) PROVE hd' \in [Handlers -> Kinds]
  <2>1. hd' = [hd EXCEPT ![h] = Free]
    BY <1>2 DEF HandlerEnds, EndCreateBinding, EndSetDesired, EndReport
  <2>. QED
    BY <1>1, <2>1
<1>3. ASSUME NEW h \in Handlers, NEW b \in Bindings, NEW d \in Wishes,
             BeginCreateBinding(h, b, d) \/ BeginSetDesired(h, b, d)
      PROVE  hd' \in [Handlers -> Kinds]
  <2>1. [op |-> "create", b |-> b, val |-> d] \in Create
    BY DEF Create
  <2>2. [op |-> "desired", b |-> b, row |-> bind[b], val |-> d] \in Set
    BY DEF Set, Types
  <2>. QED
    BY <1>1, <1>3, <2>1, <2>2 DEF BeginCreateBinding, BeginSetDesired
<1>4. ASSUME NEW h \in Handlers, BeginReport(h) PROVE hd' \in [Handlers -> Kinds]
  <2>1. hub.b \in Bindings /\ hub.val \in Reports
    BY <1>4 DEF BeginReport, Placed, At, Telling, Types, Hub
  <2>2. [op |-> "report", b |-> hub.b, row |-> bind[hub.b], val |-> hub.val,
         wait |-> TRUE] \in Call
    BY <2>1 DEF Call, Types
  <2>. QED
    BY <1>1, <1>4, <2>2 DEF BeginReport
<1>5. \A h \in Handlers : hd[h].op = "report" => [hd[h] EXCEPT !.wait = FALSE] \in Call
  <2>. SUFFICES ASSUME NEW h \in Handlers, hd[h].op = "report"
                PROVE  [hd[h] EXCEPT !.wait = FALSE] \in Call
    OBVIOUS
  <2>1. hd[h] \in Call /\ FALSE \in BOOLEAN
    BY HandlerKinds
  <2>. QED
    BY <2>1 DEF Call
<1>6. ASSUME NEW h \in Handlers, ReportTimesOut(h) PROVE hd' \in [Handlers -> Kinds]
  <2>1. hd' = [hd EXCEPT ![h] = [hd[h] EXCEPT !.wait = FALSE]]
    BY <1>6 DEF ReportTimesOut
  <2>2. [hd[h] EXCEPT !.wait = FALSE] \in Kinds
    BY <1>5, <1>6 DEF ReportTimesOut
  <2>. QED
    BY <1>1, <2>1, <2>2
<1>7. CASE HubCrashes
  <2>1. hd' = [h \in Handlers |-> IF hd[h].op = "report" THEN [hd[h] EXCEPT !.wait = FALSE]
                                                        ELSE hd[h]]
    BY <1>7 DEF HubCrashes
  <2>. QED
    BY <1>5, <2>1 DEF Types
<1>8. CASE ApiRestarts
  BY <1>8 DEF ApiRestarts
<1>9. CASE UNCHANGED hd
  BY <1>9 DEF Types
<1>. QED
  BY <1>2, <1>3, <1>4, <1>6, <1>7, <1>8, <1>9, HandlerChanges

-----------------------------------------------------------------------------
(* Where hubd is.                                                          *)

(* The fields of hub after a step that goes to pc and keeps the rest.      *)
LEMMA HubTo ==
  ASSUME Types, NEW pc \in Apart \cup At
  PROVE  /\ To(pc) \in Hub /\ To(pc).todo \subseteq To(pc).want
         /\ To(pc).pc = pc /\ To(pc).b = hub.b /\ To(pc).next = hub.next
         /\ To(pc).val = hub.val /\ To(pc).want = hub.want
  BY DEF To, Types, Hub

LEMMA HubReport ==
  ASSUME Types, NEW val \in Reports, NEW tries \in Nat,
         NEW next \in {"none", "unmount", "mount", "replace", "shutdown"},
         \/ hub' = Report(val, tries, next)
         \/ hub' = [Report(val, tries, next) EXCEPT !.todo = @ \ {hub.b}]
  PROVE  /\ hub' \in Hub /\ hub'.todo \subseteq hub'.want
         /\ hub'.pc = "report" /\ hub'.b = hub.b /\ hub'.next = next
         /\ hub'.val = val /\ hub'.want = hub.want
<1>1. Report(val, tries, next) \in Hub /\ Report(val, tries, next).todo = hub.todo
  BY DEF Report, Types, Hub, At, Telling
<1>2. /\ Report(val, tries, next).pc = "report" /\ Report(val, tries, next).b = hub.b
      /\ Report(val, tries, next).next = next /\ Report(val, tries, next).val = val
      /\ Report(val, tries, next).want = hub.want
  BY DEF Report, Types, Hub
<1>. QED
  BY <1>1, <1>2 DEF Types, Hub

(* Away from any binding there is nothing to know; a report that a remount *)
(* does not follow needs its contents only.                                *)
LEMMA PlacedApart ==
  ASSUME hub'.pc \in Apart PROVE Placed'
  BY DEF Placed, Apart, At, Telling

LEMMA PlacedReport ==
  ASSUME hub'.pc \in Telling \cup {"flush"}, hub'.b \in Bindings,
         hub'.pc \in Telling => hub'.val # "none",
         hub'.next \notin {"none", "replace"}
  PROVE  Placed'
  BY DEF Placed, At, Telling

(* The steps of a report that is under way.                                *)
LEMMA PlacedTelling ==
  ASSUME Types, Placed, hub.pc \in Telling, UNCHANGED active, hub'.b = hub.b,
         hub'.next = hub.next,
         \/ hub'.pc \in Telling /\ hub'.val # "none"
         \/ hub'.pc = hub.next
  PROVE  Placed'
<1>1. hub.b \in Bindings /\ hub.next # "none"
  BY DEF Placed, At
<1>2. hub.next = "replace" => Kept(hub.b) /\ (Sick(hub.b) \/ active[hub.b].age # Fresh)
  BY DEF Placed
<1>3. hub.next = "replace" => Kept(hub.b)' /\ (Sick(hub.b)' \/ active'[hub'.b].age # Fresh)
  BY <1>2 DEF Kept, Sick, Synced
<1>4. hub.next \in {"unmount", "mount", "replace", "shutdown"}
  BY <1>1 DEF Types, Hub
<1>. QED
  BY <1>1, <1>3, <1>4 DEF Placed, At, Telling

(* hubd does not move: the mount it is at stays, and does not get well.    *)
LEMMA PlacedStill ==
  ASSUME Types, Mounted, Placed, [Next]_vars, UNCHANGED hub
  PROVE  Placed'
<1>. SUFFICES ASSUME hub.pc \in At PROVE Placed'
  BY PlacedApart DEF Types, Hub
<1>1. PICK b \in Bindings : b = hub.b
  BY DEF Placed
<1>2. Stays(b) \/ Dies(b) \/ (Lasts(b) /\ ~SoftRefresh)
  <2>1. hub'.pc = hub.pc
    OBVIOUS
  <2>2. ~StartMount
    <3>. SUFFICES ASSUME StartMount PROVE FALSE
      OBVIOUS
    <3>1. hub' = [Report("mounted", MountedTries, "mount") EXCEPT !.todo = @ \ {hub.b}]
      BY DEF StartMount
    <3>2. MountedTries \in Nat /\ "mounted" \in Reports
      BY MountsAssumption DEF Reports
    <3>3. hub'.pc = "report" /\ hub.pc = "start"
      BY <3>1, <3>2, HubReport DEF StartMount
    <3>. QED
      BY <2>1, <3>3
  <2>3. ~Unmount(b) /\ ~Replace /\ ~Shutdown /\ ~HubCrashes /\ ~SoftRefresh
    BY <2>1 DEF Unmount, Replace, Shutdown, HubCrashes, SoftRefresh, To, Types, Hub
  <2>. QED
    BY <2>2, <2>3, MountSteps DEF Ends, Begins, Lasts
<1>3. ~Kept(b) => ~Kept(b)'
  BY <1>2 DEF Stays, Dies, Lasts, Kept
<1>4. Kept(b) => /\ Kept(b)' /\ (Sick(b) => Sick(b)')
                 /\ (active[b].age # Fresh => active'[b].age # Fresh)
  <2>1. CASE Stays(b)
    BY <2>1 DEF Stays, Kept, Sick, Synced
  <2>2. CASE Dies(b)
    BY <2>2, DeadIsKept DEF Sick, Synced
  <2>3. CASE Lasts(b) /\ ~SoftRefresh
    BY <2>3 DEF Lasts, Sick, Synced
  <2>. QED
    BY <1>2, <2>1, <2>2, <2>3
<1>5. sess[b].rot > 0 => sess'[b].rot > 0
  BY SessTypes DEF Types, Session
<1>. QED
  BY <1>1, <1>3, <1>4, <1>5 DEF Placed, Kept, Sick, Synced

LEMMA HubMoves ==
  ASSUME Types, Mounted, Placed, OneCall, [Next]_vars
  PROVE  hub' \in Hub /\ hub'.todo \subseteq hub'.want /\ Placed'
<1>. DEFINE Goal == hub' \in Hub /\ hub'.todo \subseteq hub'.want /\ Placed'
<1>. SUFFICES Goal
  OBVIOUS
<1>1. CASE UNCHANGED hub
  BY <1>1, PlacedStill DEF Types
<1>2. hub \in Hub /\ hub.todo \subseteq hub.want
  BY DEF Types
<1>3. ASSUME NEW pc \in Apart, hub' = To(pc) PROVE Goal
  BY <1>3, HubTo, PlacedApart
(* Rounds begin and end.                                                   *)
<1>4. CASE List \/ ListStoreFails
  <2>1. PICK want \in SUBSET Bindings : hub' = Listed(want)
    BY <1>4 DEF List, ListStoreFails, Desired
  <2>2. Listed(want) \in Hub /\ Listed(want).todo = want /\ Listed(want).want = want
        /\ Listed(want).pc = "unmount"
    BY <1>2 DEF Listed, Hub, Apart
  <2>. QED
    BY <2>1, <2>2, PlacedApart DEF Apart
<1>5. CASE Unmounted \/ Signal \/ HubStarts
  BY <1>3, <1>5 DEF Unmounted, Signal, HubStarts, Apart
<1>6. CASE RoundEnds
  <2>1. hub' = [To("idle") EXCEPT !.want = {}] /\ hub.todo = {}
    BY <1>6 DEF RoundEnds
  <2>2. hub' \in Hub /\ hub'.todo = {} /\ hub'.pc = "idle"
    BY <1>2, <2>1 DEF To, Hub, Apart
  <2>. QED
    BY <2>2, PlacedApart DEF Apart
<1>7. CASE HubCrashes
  <2>1. hub' = [To("down") EXCEPT !.want = {}, !.todo = {}]
    BY <1>7 DEF HubCrashes
  <2>2. hub' \in Hub /\ hub'.todo = {} /\ hub'.pc = "down"
    BY <1>2, <2>1 DEF To, Hub, Apart
  <2>. QED
    BY <2>2, PlacedApart DEF Apart
(* A mount is stopped.                                                     *)
<1>8. ASSUME NEW b \in Bindings, NEW next \in {"unmount", "shutdown"},
             hub' = [hub EXCEPT !.pc = "flush", !.b = b, !.next = next]
      PROVE  Goal
  <2>1. /\ hub' \in Hub /\ hub'.pc = "flush" /\ hub'.b = b /\ hub'.next = next
        /\ hub'.todo = hub.todo /\ hub'.want = hub.want
    BY <1>2, <1>8 DEF Hub, At
  <2>. QED
    BY <1>2, <2>1, PlacedReport DEF Telling
<1>9. ASSUME NEW b \in Bindings, Unmount(b) PROVE Goal
  BY <1>8, <1>9 DEF Unmount
<1>10. CASE Shutdown
  BY <1>3, <1>8, <1>10 DEF Shutdown, Apart
(* A report begins.                                                        *)
<1>11. ASSUME hub.b \in Bindings, NEW val \in Reports, NEW tries \in Nat,
              NEW next \in {"unmount", "mount", "shutdown"},
              \/ hub' = Report(val, tries, next)
              \/ hub' = [Report(val, tries, next) EXCEPT !.todo = @ \ {hub.b}]
       PROVE  Goal
  <2>0. next \in {"none", "unmount", "mount", "replace", "shutdown"}
    OBVIOUS
  <2>1. /\ hub' \in Hub /\ hub'.todo \subseteq hub'.want /\ hub'.pc = "report"
        /\ hub'.b = hub.b /\ hub'.next = next /\ hub'.val = val
    BY <1>11, <2>0, HubReport
  <2>. QED
    BY <1>11, <2>1, PlacedReport DEF Telling, Reports
<1>12. CASE Flush \/ FlushFails
  <2>1. hub.b \in Bindings /\ hub.next \in {"unmount", "mount", "shutdown"}
    BY <1>2, <1>12 DEF Placed, At, Flush, FlushFails, Hub
  <2>. QED
    BY <1>11, <1>12, <2>1 DEF Flush, FlushFails, Reports
<1>13. CASE StartMount \/ StartMountFails \/ IssueSessionFails
  <2>1. hub.b \in Bindings /\ MountedTries \in Nat
    BY <1>13, MountsAssumption DEF Placed, At, StartMount, StartMountFails, IssueSessionFails
  <2>. QED
    BY <1>11, <1>13, <2>1 DEF StartMount, StartMountFails, IssueSessionFails, Reports
<1>14. CASE IssueSession
  <2>1. hub.b \in Bindings /\ ~Kept(hub.b) /\ UNCHANGED active
    BY <1>14 DEF Placed, At, IssueSession
  <2>2. CASE DriveOf[hub.b] \in drives
    <3>1. /\ hub' = To("start") /\ sess' = Issue(hub.b)
      BY <1>14, <2>2 DEF IssueSession
    <3>2. /\ hub' \in Hub /\ hub'.todo \subseteq hub'.want /\ hub'.pc = "start"
          /\ hub'.b = hub.b
      BY <3>1, HubTo DEF At
    <3>3. sess'[hub.b].rot > 0
      BY <2>1, <3>1 DEF Issue, Types, Session
    <3>. QED
      BY <2>1, <3>2, <3>3 DEF Placed, Kept, At, Telling
  <2>3. CASE DriveOf[hub.b] \notin drives
    BY <1>11, <1>14, <2>1, <2>3 DEF IssueSession, Reports
  <2>. QED
    BY <2>2, <2>3
(* A report goes on and ends.                                              *)
<1>15. ASSUME hub.pc \in Telling, NEW pc \in Telling \cup {hub.next}, UNCHANGED active,
              hub' = To(pc)
       PROVE  Goal
  <2>1. pc \in Apart \cup At
    BY <1>2, <1>15 DEF Placed, Hub, Apart, At
  <2>2. /\ hub' \in Hub /\ hub'.todo \subseteq hub'.want /\ hub'.pc = pc
        /\ hub'.b = hub.b /\ hub'.next = hub.next /\ hub'.val = hub.val
    BY <1>15, <2>1, HubTo
  <2>3. hub'.val # "none"
    BY <1>15, <2>2 DEF Placed
  <2>. QED
    BY <1>15, <2>2, <2>3, PlacedTelling
<1>16. CASE ReportLost \/ \E h \in Handlers : ReportTimesOut(h) \/ BeginReport(h)
  BY <1>15, <1>16 DEF ReportLost, ReportTimesOut, BeginReport, To, Telling
<1>17. ASSUME NEW h \in Handlers, EndReport(h), hub.pc = "await" PROVE Goal
  BY <1>1, <1>15, <1>17 DEF EndReport, To, Telling
<1>18. CASE ApiRestarts
  BY <1>1, <1>15, <1>18 DEF ApiRestarts, To, Telling
<1>19. CASE Refused
  <2>1. CASE hub.tries > 1
    <3>. DEFINE n == hub.tries - 1
    <3>0. hub.tries \in Nat /\ n \in Nat
      BY <1>2, <2>1 DEF Hub
    <3>1. hub' = [hub EXCEPT !.pc = "report", !.tries = n] /\ UNCHANGED active
      BY <1>2, <1>19, <2>1, <3>0 DEF Refused, To, Hub
    <3>. HIDE DEF n
    <3>2. /\ hub' \in Hub /\ hub'.todo \subseteq hub'.want /\ hub'.pc = "report"
          /\ hub'.b = hub.b /\ hub'.next = hub.next /\ hub'.val = hub.val
      BY <1>2, <3>0, <3>1 DEF Hub, At, Telling
    <3>3. hub'.val # "none"
      BY <1>19, <3>2 DEF Placed, Refused, Telling
    <3>. QED
      BY <1>19, <3>1, <3>2, <3>3, PlacedTelling DEF Refused, Telling
  <2>2. CASE ~(hub.tries > 1) /\ hub.val = "mounted"
    <3>1. hub' = Report("error", ErrorTries, hub.next) /\ UNCHANGED active
      BY <1>2, <1>19, <2>2 DEF Refused, Hub
    <3>2. /\ hub' \in Hub /\ hub'.todo \subseteq hub'.want /\ hub'.pc = "report"
          /\ hub'.b = hub.b /\ hub'.next = hub.next /\ hub'.val = "error"
      <4>1. /\ ErrorTries \in Nat /\ "error" \in Reports
            /\ hub.next \in {"none", "unmount", "mount", "replace", "shutdown"}
        BY <1>2, MountsAssumption DEF Hub, Reports
      <4>. QED
        BY <3>1, <4>1, HubReport
    <3>. QED
      BY <1>19, <3>1, <3>2, PlacedTelling DEF Refused, Telling
  <2>3. CASE ~(hub.tries > 1) /\ hub.val # "mounted"
    <3>1. hub' = To(hub.next) /\ UNCHANGED active
      BY <1>2, <1>19, <2>3 DEF Refused, Hub
    <3>. QED
      BY <1>15, <1>19, <3>1 DEF Refused, Telling
  <2>. QED
    BY <2>1, <2>2, <2>3
(* A wanted binding is looked at, refreshed or remounted.                  *)
<1>20. ASSUME NEW b \in Bindings, Look(b) PROVE Goal
  <2>. DEFINE h == [hub EXCEPT !.b = b]
  <2>0. UNCHANGED active
    BY <1>20 DEF Look
  <2>1. CASE ~Kept(b)
    <3>1. hub' = [h EXCEPT !.pc = "issue"]
      BY <1>20, <2>1 DEF Look
    <3>2. /\ hub' \in Hub /\ hub'.todo \subseteq hub'.want /\ hub'.pc = "issue"
          /\ hub'.b = b
      BY <1>2, <3>1 DEF Hub, At
    <3>. QED
      BY <2>0, <2>1, <3>2 DEF Placed, Kept, At, Telling
  <2>2. CASE Kept(b) /\ Sick(b)
    <3>1. hub' = [h EXCEPT !.pc = "report", !.val = "error", !.tries = 1,
                           !.next = "replace"]
      BY <1>20, <2>2 DEF Look
    <3>2. /\ hub' \in Hub /\ hub'.todo \subseteq hub'.want /\ hub'.pc = "report"
          /\ hub'.b = b /\ hub'.val = "error" /\ hub'.next = "replace"
      BY <1>2, <3>1 DEF Hub, At, Telling, Reports
    <3>. QED
      BY <2>0, <2>2, <3>2 DEF Placed, Kept, Sick, Synced, At, Telling
  <2>3. CASE Kept(b) /\ ~Sick(b) /\ active[b].age = Fresh
    <3>1. hub' = [h EXCEPT !.todo = @ \ {b}] /\ hub.pc = "mount"
      BY <1>20, <2>3 DEF Look
    <3>2. /\ hub' \in Hub /\ hub'.todo \subseteq hub'.want /\ hub'.pc = "mount"
      BY <1>2, <3>1 DEF Hub
    <3>. QED
      BY <3>2, PlacedApart DEF Apart
  <2>4. CASE Kept(b) /\ ~Sick(b) /\ active[b].age # Fresh
    <3>. DEFINE pc == IF ForceRemount THEN "replace" ELSE "refresh"
    <3>1. hub' = [h EXCEPT !.pc = pc]
      BY <1>20, <2>4 DEF Look
    <3>2. pc \in {"replace", "refresh"}
      OBVIOUS
    <3>. HIDE DEF pc
    <3>3. /\ hub' \in Hub /\ hub'.todo \subseteq hub'.want /\ hub'.pc = pc
          /\ hub'.b = b
      BY <1>2, <3>1, <3>2 DEF Hub, At
    <3>. QED
      BY <2>0, <2>4, <3>2, <3>3 DEF Placed, Kept, Sick, Synced, At, Telling
  <2>. QED
    BY <2>1, <2>2, <2>3, <2>4
<1>21. ASSUME NEW pc \in {"replace", "probe", "issue"}, hub' = To(pc), hub.b \in Bindings,
              pc = "replace" => Kept(hub.b)' /\ (Sick(hub.b)' \/ active'[hub'.b].age # Fresh),
              pc = "probe" => Kept(hub.b)', pc = "issue" => ~Kept(hub.b)'
       PROVE  Goal
  <2>1. pc \in At
    BY DEF At
  <2>2. /\ hub' \in Hub /\ hub'.todo \subseteq hub'.want /\ hub'.pc = pc
        /\ hub'.b = hub.b
    BY <1>21, <2>1, HubTo
  <2>. QED
    BY <1>21, <2>2 DEF Placed, At, Telling
<1>22. CASE SoftRefresh
  <2>1. PICK b \in Bindings : b = hub.b
    BY <1>22 DEF SoftRefresh, Placed, At
  <2>2. Kept(b) /\ active[b].age # Fresh
    BY <1>22, <2>1 DEF SoftRefresh, Placed
  <2>3. CASE hub' = To("replace") /\ UNCHANGED active
    <3>1. hub'.b = b
      BY <2>1, <2>3 DEF To, Types, Hub
    <3>. QED
      BY <1>21, <2>1, <2>2, <2>3, <3>1 DEF Kept
  <2>4. CASE hub' = To("probe") /\ active' = [active EXCEPT ![b].rot = sess[b].rot + 1,
                                                            ![b].age = Fresh]
    <3>1. hub'.b = b
      BY <2>1, <2>4 DEF To, Types, Hub
    <3>2. Kept(b)'
      <4>1. ~Unmount(b) /\ ~Replace /\ ~Shutdown /\ ~HubCrashes
        BY <1>22 DEF SoftRefresh, Unmount, Replace, Shutdown, HubCrashes, To, Types, Hub
      <4>. QED
        BY <2>2, <4>1, MountSteps, DeadIsKept DEF Stays, Ends, Lasts, Begins, Kept
    <3>. QED
      BY <1>21, <2>1, <2>4, <3>1, <3>2 DEF Kept
  <2>. QED
    BY <1>22, <2>1, <2>3, <2>4 DEF SoftRefresh
<1>23. CASE SoftRefreshFails
  <2>1. /\ hub.b \in Bindings /\ Kept(hub.b) /\ active[hub.b].age # Fresh
        /\ hub' = To("replace") /\ UNCHANGED active
    BY <1>23 DEF SoftRefreshFails, Placed, At
  <2>2. hub'.b = hub.b
    BY <2>1 DEF To, Types, Hub
  <2>. QED
    BY <1>21, <2>1, <2>2 DEF Kept
<1>24. CASE Probe
  <2>1. hub.b \in Bindings /\ Kept(hub.b) /\ UNCHANGED active
    BY <1>24 DEF Probe, Placed, At
  <2>2. CASE Sick(hub.b)
    <3>1. hub' = To("replace")
      BY <1>24, <2>2 DEF Probe
    <3>2. hub'.b = hub.b
      BY <3>1 DEF To, Types, Hub
    <3>. QED
      BY <1>21, <2>1, <2>2, <3>1, <3>2 DEF Kept, Sick, Synced
  <2>3. CASE ~Sick(hub.b)
    <3>1. hub' = [hub EXCEPT !.pc = "mount", !.todo = @ \ {hub.b}]
      BY <1>24, <2>3 DEF Probe, Settled
    <3>2. /\ hub' \in Hub /\ hub'.todo \subseteq hub'.want /\ hub'.pc = "mount"
      BY <1>2, <3>1 DEF Hub, Apart
    <3>. QED
      BY <3>2, PlacedApart DEF Apart
  <2>. QED
    BY <2>2, <2>3
<1>25. CASE Replace
  <2>1. PICK b \in Bindings : b = hub.b
    BY <1>25 DEF Replace, Placed, At
  <2>2. hub' = To("issue") /\ active' = [active EXCEPT ![b] = NoMount]
    BY <1>25, <2>1 DEF Replace, Stop
  <2>3. hub'.b = b /\ active'[b] = NoMount
    BY <2>1, <2>2 DEF To, Types, Hub
  <2>. QED
    BY <1>21, <2>1, <2>2, <2>3 DEF Kept
<1>26. ASSUME NEW h \in Handlers, EndReport(h), hub.pc # "await" PROVE Goal
  BY <1>1, <1>26 DEF EndReport, OneCall, Waits
<1>. QED
  BY <1>1, <1>4, <1>5, <1>6, <1>7, <1>9, <1>10, <1>12, <1>13, <1>14, <1>16,
    <1>17, <1>18, <1>19, <1>20, <1>22, <1>23, <1>24, <1>25, <1>26 DEF Next,
    HubStep, HubFails, HandlerEnds, ListFails, EndCreateBinding,
    EndSetDesired, BeginCreateBinding, BeginSetDesired, DeleteDrive,
    RefreshMismatched, SessionAges, RcloneDies, MountHangs,
    WorkspaceChanges, plane, device, budget, past, vars

LEMMA AwaitEnds ==
  ASSUME [Next]_vars, hub.pc = "await"
  PROVE  \/ UNCHANGED hub \/ ApiRestarts \/ HubCrashes
         \/ \E h \in Handlers : EndReport(h) \/ ReportTimesOut(h)
  BY DEF Next, HubStep, HubFails, HandlerEnds, HubStarts, Signal, List,
    Flush, Unmounted, RoundEnds, SoftRefresh, Probe, Replace, IssueSession,
    StartMount, Refused, Shutdown, Unmount, Look, BeginReport, ListFails,
    ListStoreFails, FlushFails, SoftRefreshFails, IssueSessionFails,
    StartMountFails, ReportLost, EndCreateBinding, EndSetDesired,
    BeginCreateBinding, BeginSetDesired, DeleteDrive, RefreshMismatched,
    SessionAges, RcloneDies, MountHangs, WorkspaceChanges, plane, device,
    budget, past, vars

LEMMA OneCallStep ==
  ASSUME Types, OneCall, [Next]_vars
  PROVE  OneCall'
<1>. DEFINE Quiet == \A h \in Handlers : Waits(h)' => Waits(h)
<1>1. ASSUME \A h \in Handlers : ~Waits(h)' PROVE OneCall'
  BY <1>1 DEF OneCall
<1>2. ASSUME Quiet, hub.pc = "await" => hub'.pc = "await" PROVE OneCall'
  BY <1>2 DEF OneCall
<1>3. ASSUME NEW h \in Handlers, NEW r, hd' = [hd EXCEPT ![h] = r],
             ~(r.op = "report" /\ r.wait)
      PROVE  Quiet /\ ~Waits(h)'
  BY <1>3 DEF Types, Waits
<1>4. Free.op # "report"
  BY DEF Free
<1>5. CASE ApiRestarts
  BY <1>1, <1>4, <1>5 DEF ApiRestarts, Waits
<1>6. CASE HubCrashes
  <2>1. hd' = [h \in Handlers |-> IF hd[h].op = "report" THEN [hd[h] EXCEPT !.wait = FALSE]
                                                        ELSE hd[h]]
    BY <1>6 DEF HubCrashes
  <2>2. \A h \in Handlers : hd[h].op = "report" => [hd[h] EXCEPT !.wait = FALSE].wait = FALSE
    BY HandlerKinds DEF Call
  <2>. QED
    BY <1>1, <2>1, <2>2 DEF Waits
<1>7. ASSUME NEW h \in Handlers, EndReport(h) PROVE OneCall'
  <2>1. hd' = [hd EXCEPT ![h] = Free]
    BY <1>7 DEF EndReport
  <2>2. Quiet /\ ~Waits(h)'
    BY <1>3, <1>4, <2>1
  <2>3. CASE Waits(h)
    BY <1>1, <2>2, <2>3 DEF OneCall
  <2>4. CASE ~Waits(h)
    BY <1>2, <1>7, <2>2, <2>4 DEF EndReport, Waits
  <2>. QED
    BY <2>3, <2>4
<1>8. ASSUME NEW h \in Handlers, ReportTimesOut(h) PROVE OneCall'
  <2>1. hd' = [hd EXCEPT ![h] = [hd[h] EXCEPT !.wait = FALSE]] /\ Waits(h)
    BY <1>8 DEF ReportTimesOut, Waits
  <2>2. [hd[h] EXCEPT !.wait = FALSE].wait = FALSE
    BY <2>1, HandlerKinds DEF Call, Waits
  <2>3. Quiet /\ ~Waits(h)'
    BY <1>3, <2>1, <2>2
  <2>. QED
    BY <1>1, <2>1, <2>3 DEF OneCall
<1>9. ASSUME NEW h \in Handlers, BeginReport(h) PROVE OneCall'
  <2>1. hub.pc = "report" /\ hub'.pc = "await"
    BY <1>9 DEF BeginReport, Types, Hub
  <2>2. \A x \in Handlers : ~Waits(x)
    BY <2>1 DEF OneCall
  <2>3. \A x \in Handlers \ {h} : hd'[x] = hd[x]
    BY <1>9 DEF BeginReport, Types
  <2>. QED
    BY <2>1, <2>2, <2>3 DEF OneCall, Waits
<1>10. CASE Quiet /\ ~ApiRestarts /\ ~HubCrashes
            /\ ~\E h \in Handlers : EndReport(h) \/ ReportTimesOut(h)
  BY <1>2, <1>10, AwaitEnds
<1>11. CASE UNCHANGED hd
  BY <1>5, <1>6, <1>7, <1>8, <1>10, <1>11 DEF Waits
<1>12. ASSUME NEW h \in Handlers, NEW b \in Bindings, NEW d \in Wishes,
              BeginCreateBinding(h, b, d) \/ BeginSetDesired(h, b, d)
       PROVE  OneCall'
  <2>1. Quiet
    BY <1>3, <1>12 DEF BeginCreateBinding, BeginSetDesired
  <2>. QED
    BY <1>5, <1>6, <1>7, <1>8, <1>10, <2>1
<1>13. ASSUME NEW h \in Handlers, EndCreateBinding(h) \/ EndSetDesired(h) PROVE OneCall'
  <2>1. Quiet
    BY <1>3, <1>4, <1>13 DEF EndCreateBinding, EndSetDesired
  <2>. QED
    BY <1>5, <1>6, <1>7, <1>8, <1>10, <2>1
<1>. QED
  BY <1>5, <1>6, <1>7, <1>8, <1>9, <1>11, <1>12, <1>13, HandlerChanges DEF HandlerEnds

(* The part of the invariant that the others rest on.                      *)
Base == Types /\ Mounted /\ Placed /\ OneCall

LEMMA InitBase == Init => Base
<1>. SUFFICES ASSUME Init PROVE Base
  OBVIOUS
<1>1. /\ bind \in [Bindings -> Row] /\ sess \in [Bindings -> Session]
      /\ active \in [Bindings -> Mount \cup {NoMount}]
      /\ rclone \in [Bindings -> Nat]
      /\ hd \in [Handlers -> Create \cup Set \cup Call \cup {Free}]
  <2>1. [rot |-> 0, age |-> Over, live |-> FALSE] \in Session
    BY DEF Session, Fresh, Over
  <2>2. /\ [desired |-> "mounted", actual |-> "unknown"] \in Row
        /\ NoBinding \in Row
    BY DEF Row, NoBinding, Wishes
  <2>. QED
    BY <2>1, <2>2 DEF Init
<1>2. barriers \in Seq(Barrier) /\ Len(barriers) <= BarrierCap
  BY MountsAssumption DEF Init
<1>3. /\ hub \in Hub /\ hub.todo \subseteq hub.want /\ hub.pc = "down"
  BY DEF Init, NoHub, Hub, Apart
<1>4. \A b \in Bindings : ~Kept(b)
  BY DEF Init, Kept
<1>5. \A h \in Handlers : ~Waits(h)
  BY DEF Init, Waits, Free
<1>. QED
  BY <1>1, <1>2, <1>3, <1>4, <1>5
     DEF Base, Types, Mounted, Placed, OneCall, At, Telling

LEMMA BaseStep == Base /\ [Next]_vars => Base'
<1>. SUFFICES ASSUME Base, [Next]_vars PROVE Base'
  OBVIOUS
<1>1. Types /\ Mounted /\ Placed /\ OneCall
  BY DEF Base
<1>2. Types'
  BY <1>1, BindTypes, SessTypes, BarrierTypes, MountSteps, MountTypes, HandlerTypes,
     HubMoves DEF Types
<1>. QED
  BY <1>1, <1>2, MountTypes, HubMoves, OneCallStep DEF Base

LEMMA BaseAlways == Spec => []Base
  BY InitBase, BaseStep, PTL DEF Spec

(* The tables of the control plane and the state of hubd keep their types: *)
(* rclone processes and rotations count from zero, hubd holds no token the *)
(* API has not handed out, and the barriers stay within their cap.         *)
THEOREM TypesKept == Spec => []TypeOK
<1>1. Base => TypeOK
  <2>. SUFFICES ASSUME Base PROVE TypeOK
    OBVIOUS
  <2>1. ASSUME NEW b \in Bindings
        PROVE  /\ bind[b].desired \in {"none", "mounted", "unmounted"}
               /\ bind[b].actual \in {"none", "unknown", "mounted", "unmounted", "error"}
               /\ sess[b].rot \in Nat /\ sess[b].age \in Fresh..Over
               /\ rclone[b] \in Nat
    BY DEF Base, Types, Row, Session, Wishes, Reports
  <2>2. ASSUME NEW b \in Bindings, Kept(b) PROVE active[b].rot \in 1..sess[b].rot
    <3>1. active[b].rot \in Nat \ {0} /\ active[b].rot <= sess[b].rot /\ sess[b].rot \in Nat
      BY <2>1, <2>2, KeptIsMount DEF Base, Mounted, Mount
    <3>. QED
      BY <3>1
  <2>3. hub.todo \subseteq hub.want /\ hub.want \subseteq Bindings
    BY DEF Base, Types, Hub
  <2>. QED
    BY <2>1, <2>2, <2>3 DEF TypeOK, Base, Types
<1>. QED
  BY <1>1, BaseAlways, PTL

-----------------------------------------------------------------------------
(* Processes and unpushed work.                                            *)

LEMMA FailedGrows == [Next]_vars => failed \subseteq failed'
  BY DEF Next, HubStep, HubFails, HandlerEnds, HubStarts, Signal,
    ApiRestarts, List, Flush, Unmounted, RoundEnds, SoftRefresh, Probe,
    Replace, IssueSession, StartMount, Refused, Shutdown, Unmount, Look,
    BeginReport, ListFails, ListStoreFails, FlushFails, SoftRefreshFails,
    IssueSessionFails, StartMountFails, ReportLost, HubCrashes,
    ReportTimesOut, EndCreateBinding, EndSetDesired, EndReport,
    BeginCreateBinding, BeginSetDesired, DeleteDrive, RefreshMismatched,
    SessionAges, RcloneDies, MountHangs, WorkspaceChanges, plane, device,
    budget, past, vars,
    Ask, Fault, Pass, Push

LEMMA NoneLeftStep == Base /\ NoneLeft /\ [Next]_vars => NoneLeft'
<1>. SUFFICES ASSUME Base, NoneLeft, [Next]_vars, "crash" \notin failed',
                     NEW b \in Bindings
              PROVE  rclone'[b] = IF Kept(b)' /\ active'[b].proc = "up" THEN 1 ELSE 0
  BY DEF NoneLeft
<1>1. rclone[b] = IF Kept(b) /\ active[b].proc = "up" THEN 1 ELSE 0
  BY FailedGrows DEF NoneLeft
<1>2. ~HubCrashes
  BY DEF HubCrashes, Fault
<1>3. CASE Stays(b)
  BY <1>1, <1>3 DEF Stays, Kept
<1>4. CASE Ends(b)
  BY <1>1, <1>4 DEF Ends
<1>5. CASE Dies(b)
  BY <1>1, <1>5, DeadIsKept DEF Dies, Base
<1>6. CASE Lasts(b)
  BY <1>1, <1>6 DEF Lasts
<1>7. CASE Begins(b)
  BY <1>1, <1>7 DEF Begins
<1>. QED
  BY <1>2, <1>3, <1>4, <1>5, <1>6, <1>7, MountSteps DEF Base

(* A running rclone process is one hubd keeps, one per binding, unless     *)
(* hubd crashed: however mounts are stopped, replaced, lost and refreshed. *)
THEOREM NoProcessLeft == Spec => []NoneLeft
<1>1. Init => NoneLeft
  BY DEF Init, NoneLeft, Kept
<1>. QED
  BY <1>1, NoneLeftStep, BaseAlways, PTL DEF Spec

LEMMA WorkChanges ==
  [Next]_vars => \/ UNCHANGED <<dirty, lost>>
                 \/ StartMount \/ StartMountFails \/ Replace \/ Shutdown
                 \/ \E b \in Bindings : Unmount(b) \/ WorkspaceChanges(b)
  BY DEF Next, HubStep, HubFails, HandlerEnds, HubStarts, Signal,
    ApiRestarts, List, Flush, Unmounted, RoundEnds, SoftRefresh, Probe,
    IssueSession, Refused, Look, BeginReport, ListFails, ListStoreFails,
    FlushFails, SoftRefreshFails, IssueSessionFails,
    ReportLost, HubCrashes, ReportTimesOut, EndCreateBinding, EndSetDesired,
    EndReport, BeginCreateBinding, BeginSetDesired, DeleteDrive,
    RefreshMismatched, SessionAges, RcloneDies, MountHangs, plane, device,
    budget, past, vars

LEMMA WorkHeldStep == Base /\ WorkHeld /\ [Next]_vars => WorkHeld'
<1>. SUFFICES ASSUME Base, WorkHeld, [Next]_vars PROVE WorkHeld'
  OBVIOUS
<1>1. dirty' \subseteq [ws : Bindings, kept : BOOLEAN]
  <2>1. ASSUME NEW b \in Bindings PROVE Work(b, Kept(b)) \in [ws : Bindings, kept : BOOLEAN]
    BY DEF Work, Kept
  <2>2. \/ dirty' \subseteq dirty
        \/ \E b \in Bindings : dirty' = dirty \cup {Work(b, Kept(b))}
    BY WorkChanges DEF StartMount, StartMountFails, Replace, Shutdown, Unmount,
       Push, Overwritten, WorkspaceChanges
  <2>. QED
    BY <2>1, <2>2 DEF WorkHeld
<1>. SUFFICES ASSUME failed' \cap {"push", "crash"} = {} PROVE KeptSafe'
  BY <1>1 DEF WorkHeld
<1>2. (\A w \in lost : ~w.kept) /\ (\A w \in dirty : w.kept => Kept(w.ws))
  BY FailedGrows DEF WorkHeld, KeptSafe
<1>3. ~HubCrashes
  BY DEF HubCrashes, Fault
(* A mount ends with the push of its workspace.                            *)
<1>4. ASSUME NEW b \in Bindings, Stop(b), Push(b), UNCHANGED lost
      PROVE  KeptSafe'
  <2>1. dirty' \subseteq dirty /\ \A w \in dirty' : w.ws # b
    BY <1>4 DEF Push, Fault, WorkIn
  <2>2. \A x \in Bindings \ {b} : Kept(x) => Kept(x)'
    BY <1>4 DEF Stop, Kept, Base, Types
  <2>3. \A w \in dirty : w.ws \in Bindings
    BY DEF WorkHeld
  <2>. QED
    BY <1>2, <1>4, <2>1, <2>2, <2>3 DEF KeptSafe
<1>5. ASSUME NEW b \in Bindings, Unmount(b) PROVE KeptSafe'
  BY <1>4, <1>5 DEF Unmount
<1>6. CASE Replace
  BY <1>4, <1>6 DEF Replace, Base, Placed, At
(* No step but these ends a mount.                                         *)
<1>7. ASSUME ~Replace, ~\E b \in Bindings : Unmount(b) \/ (Shutdown /\ Stop(b)),
             NEW x \in Bindings, Kept(x)
      PROVE  Kept(x)'
  <2>1. Shutdown => Stays(x)
    BY <1>7 DEF Shutdown, Stays
  <2>2. CASE ~Shutdown
    BY <1>3, <1>7, <2>2, MountSteps, DeadIsKept DEF Base, Stays, Ends, Lasts, Begins, Kept
  <2>. QED
    BY <1>7, <2>1, <2>2 DEF Stays, Kept
<1>8. CASE Shutdown
  <2>1. CASE \E b \in Bindings : Stop(b) /\ Push(b)
    BY <1>4, <1>8, <2>1 DEF Shutdown
  <2>2. CASE UNCHANGED <<active, dirty>>
    BY <1>2, <1>8, <2>2 DEF Shutdown, Kept, KeptSafe
  <2>. QED
    BY <1>8, <2>1, <2>2 DEF Shutdown
(* A pull finds nothing left to push of what was done before the stop.     *)
<1>9. CASE StartMount \/ StartMountFails
  <2>1. PICK b \in Bindings : b = hub.b
    BY <1>9 DEF StartMount, StartMountFails, Base, Placed, At
  <2>2. ~Kept(b) /\ hub.pc = "start"
    BY <1>9, <2>1 DEF StartMount, StartMountFails, Base, Placed
  <2>3. \A w \in WorkIn(b) : ~w.kept
    BY <1>2, <2>2 DEF WorkIn
  <2>4. dirty' \subseteq dirty /\ \A w \in lost' : ~w.kept
    BY <1>2, <1>9, <2>1, <2>3 DEF StartMount, StartMountFails, Overwritten
  <2>5. \A x \in Bindings : Kept(x) => Kept(x)'
    BY <1>7, <2>2 DEF Replace, Unmount, Shutdown
  <2>6. \A w \in dirty : w.ws \in Bindings
    BY DEF WorkHeld
  <2>. QED
    BY <1>2, <2>4, <2>5, <2>6 DEF KeptSafe
<1>10. CASE /\ ~Replace /\ ~Shutdown /\ ~\E b \in Bindings : Unmount(b)
            /\ UNCHANGED <<dirty, lost>>
  <2>1. \A w \in dirty : w.ws \in Bindings
    BY DEF WorkHeld
  <2>. QED
    BY <1>2, <1>7, <1>10, <2>1 DEF KeptSafe
<1>11. ASSUME NEW b \in Bindings, WorkspaceChanges(b) PROVE KeptSafe'
  <2>1. /\ UNCHANGED <<active, lost>>
        /\ dirty' = dirty \cup {Work(b, Kept(b))}
    BY <1>11 DEF WorkspaceChanges, past
  <2>2. Work(b, Kept(b)).kept => Kept(Work(b, Kept(b)).ws)
    BY DEF Work
  <2>. QED
    BY <1>2, <2>1, <2>2 DEF KeptSafe, Kept
<1>. QED
  BY <1>5, <1>6, <1>8, <1>9, <1>10, <1>11, WorkChanges

(* The work done in a synced workspace while hubd keeps it, from a pull to *)
(* the push of the next stop, is not overwritten before it was pushed,     *)
(* unless a push failed or hubd crashed; what is done there outside that   *)
(* time may be.                                                            *)
THEOREM NoWorkLost == Spec => []WorkKept
<1>1. Init => WorkHeld
  BY DEF Init, WorkHeld, KeptSafe
<1>2. WorkHeld => WorkKept
  BY DEF WorkHeld, KeptSafe, WorkKept
<1>. QED
  BY <1>1, <1>2, WorkHeldStep, BaseAlways, PTL DEF Spec

-----------------------------------------------------------------------------
(* What users asked for.                                                   *)

(* A handler goes on as it was, but for whether hubd still waits for it.   *)
Same(h) ==
  /\ hd'[h].op = hd[h].op
  /\ hd[h].op # "free" => hd'[h].b = hd[h].b /\ hd'[h].val = hd[h].val
  /\ hd[h].op \in {"desired", "report"} => hd'[h].row = hd[h].row

(* What a step may do to one handler.                                      *)
HandlerStep(h) ==
  \/ Same(h)
  \/ hd'[h].op = "free"
  \/ \E b \in Bindings, d \in Wishes :
       /\ BeginCreateBinding(h, b, d)
       /\ hd'[h].op = "create" /\ hd'[h].b = b /\ hd'[h].val = d
  \/ \E b \in Bindings, d \in Wishes :
       /\ BeginSetDesired(h, b, d)
       /\ hd'[h].op = "desired" /\ hd'[h].b = b
  \/ /\ BeginReport(h)
     /\ hd'[h].op = "report" /\ hd'[h].b = hub.b /\ hd'[h].row = bind[hub.b]

LEMMA HandlerSteps ==
  ASSUME Types, [Next]_vars, NEW h \in Handlers
  PROVE  HandlerStep(h)
<1>1. CASE UNCHANGED hd \/ ApiRestarts
  BY <1>1 DEF HandlerStep, Same, ApiRestarts, Free
<1>2. hd[h].op = "report" =>
        /\ [hd[h] EXCEPT !.wait = FALSE].op = "report"
        /\ [hd[h] EXCEPT !.wait = FALSE].b = hd[h].b
        /\ [hd[h] EXCEPT !.wait = FALSE].val = hd[h].val
        /\ [hd[h] EXCEPT !.wait = FALSE].row = hd[h].row
  BY HandlerKinds DEF Call
<1>3. CASE HubCrashes
  <2>1. hd'[h] = IF hd[h].op = "report" THEN [hd[h] EXCEPT !.wait = FALSE] ELSE hd[h]
    BY <1>3 DEF HubCrashes
  <2>2. Same(h)
    BY <1>2, <2>1 DEF Same
  <2>. QED
    BY <2>2 DEF HandlerStep
<1>4. ASSUME NEW x \in Handlers, x # h,
             \/ HandlerEnds(x) \/ BeginReport(x) \/ ReportTimesOut(x)
             \/ \E b \in Bindings, d \in Wishes :
                  BeginCreateBinding(x, b, d) \/ BeginSetDesired(x, b, d)
      PROVE  HandlerStep(h)
  <2>1. hd'[h] = hd[h]
    BY <1>4 DEF HandlerEnds, EndCreateBinding, EndSetDesired, EndReport, BeginReport,
       ReportTimesOut, BeginCreateBinding, BeginSetDesired, Types
  <2>. QED
    BY <2>1 DEF HandlerStep, Same
<1>5. CASE HandlerEnds(h)
  <2>1. hd'[h] = Free
    BY <1>5 DEF HandlerEnds, EndCreateBinding, EndSetDesired, EndReport, Types
  <2>. QED
    BY <2>1 DEF HandlerStep, Free
<1>6. CASE ReportTimesOut(h)
  <2>1. hd'[h] = [hd[h] EXCEPT !.wait = FALSE] /\ hd[h].op = "report"
    BY <1>6 DEF ReportTimesOut, Types
  <2>2. Same(h)
    BY <1>2, <2>1 DEF Same
  <2>. QED
    BY <2>2 DEF HandlerStep
<1>7. CASE BeginReport(h)
  <2>1. hd'[h] = [op |-> "report", b |-> hub.b, row |-> bind[hub.b],
                  val |-> hub.val, wait |-> TRUE]
    BY <1>7 DEF BeginReport, Types
  <2>. QED
    BY <1>7, <2>1 DEF HandlerStep
<1>8. ASSUME NEW b \in Bindings, NEW d \in Wishes,
             BeginCreateBinding(h, b, d) \/ BeginSetDesired(h, b, d)
      PROVE  HandlerStep(h)
  <2>1. BeginCreateBinding(h, b, d) => hd'[h] = [op |-> "create", b |-> b, val |-> d]
    BY DEF BeginCreateBinding, Types
  <2>2. BeginSetDesired(h, b, d) =>
          hd'[h] = [op |-> "desired", b |-> b, row |-> bind[b], val |-> d]
    BY DEF BeginSetDesired, Types
  <2>. QED
    BY <1>8, <2>1, <2>2 DEF HandlerStep
<1>. QED
  BY <1>1, <1>3, <1>4, <1>5, <1>6, <1>7, <1>8, HandlerChanges

(* What a step may do to one binding, and to what was asked of it.         *)
BindingStep(b) ==
  \/ bind'[b] = bind[b] /\ asked'[b] = asked[b]
  \/ \E h \in Handlers :
       /\ hd[h] \in Create \cup Set \cup Call /\ hd[h].b = b /\ HandlerEnds(h)
       /\ Here(b)' /\ hd'[h].op = "free"
       /\ \/ /\ hd[h].op = "create" /\ bind'[b].desired = hd[h].val
             /\ asked'[b] = <<hd[h].val>>
          \/ /\ hd[h].op = "desired" /\ bind'[b].desired = hd[h].val
             /\ asked'[b] = Append(asked[b], hd[h].val)
          \/ /\ hd[h].op = "report" /\ bind'[b].desired = hd[h].row.desired
             /\ asked'[b] = asked[b]

LEMMA AskedChanges == [Next]_vars => UNCHANGED asked \/ \E h \in Handlers : HandlerEnds(h)
  BY DEF Next, HubStep, HubFails, HubStarts, Signal, ApiRestarts, List,
    Flush, Unmounted, RoundEnds, SoftRefresh, Probe, Replace, IssueSession,
    StartMount, Refused, Shutdown, Unmount, Look, BeginReport, ListFails,
    ListStoreFails, FlushFails, SoftRefreshFails, IssueSessionFails,
    StartMountFails, ReportLost, HubCrashes, ReportTimesOut,
    BeginCreateBinding, BeginSetDesired, DeleteDrive, RefreshMismatched,
    SessionAges, RcloneDies, MountHangs, WorkspaceChanges, plane, device,
    budget, past, vars

LEMMA BindingSteps ==
  ASSUME Types, Asked, [Next]_vars
  PROVE  asked' \in [Bindings -> Seq(Wishes)] /\ \A b \in Bindings : BindingStep(b)
<1>1. CASE UNCHANGED <<bind, asked>>
  BY <1>1 DEF Asked, BindingStep
<1>2. ASSUME NEW h \in Handlers, HandlerEnds(h)
      PROVE  asked' \in [Bindings -> Seq(Wishes)] /\ \A b \in Bindings : BindingStep(b)
  <2>0. hd' = [hd EXCEPT ![h] = Free]
    BY <1>2 DEF HandlerEnds, EndCreateBinding, EndSetDesired, EndReport
  <2>1. hd'[h].op = "free"
    BY <2>0 DEF Types, Free
  <2>2. CASE EndCreateBinding(h)
    <3>1. hd[h] \in Create /\ hd[h].op = "create"
      BY <2>2, HandlerKinds DEF EndCreateBinding
    <3>2. hd[h].b \in Bindings /\ hd[h].val \in Wishes
      BY <3>1 DEF Create
    <3>3. /\ bind' = [bind EXCEPT ![hd[h].b] = [desired |-> hd[h].val, actual |-> "unknown"]]
          /\ asked' = [asked EXCEPT ![hd[h].b] = <<hd[h].val>>]
      BY <2>2 DEF EndCreateBinding
    <3>4. <<hd[h].val>> \in Seq(Wishes)
      BY <3>2
    <3>5. asked' \in [Bindings -> Seq(Wishes)]
      BY <3>3, <3>4 DEF Asked
    <3>6. ASSUME NEW b \in Bindings, b = hd[h].b PROVE BindingStep(b)
      <4>1. bind'[b] = [desired |-> hd[h].val, actual |-> "unknown"] /\ asked'[b] = <<hd[h].val>>
        BY <3>3, <3>6 DEF Types, Asked
      <4>2. bind'[b].desired = hd[h].val /\ Here(b)'
        BY <4>1 DEF Here, NoBinding
      <4>. QED
        BY <1>2, <2>1, <3>1, <3>6, <4>1, <4>2 DEF BindingStep
    <3>7. ASSUME NEW b \in Bindings, b # hd[h].b PROVE BindingStep(b)
      BY <3>3, <3>7 DEF Types, Asked, BindingStep
    <3>. QED
      BY <3>5, <3>6, <3>7
  <2>3. CASE EndSetDesired(h)
    <3>1. hd[h] \in Set /\ hd[h].op = "desired"
      BY <2>3, HandlerKinds DEF EndSetDesired
    <3>2. hd[h].b \in Bindings /\ hd[h].val \in Wishes /\ hd[h].row \in Row
      BY <3>1 DEF Set
    <3>3. /\ bind' = [bind EXCEPT ![hd[h].b] = [hd[h].row EXCEPT !.desired = hd[h].val]]
          /\ asked' = [asked EXCEPT ![hd[h].b] = Append(asked[hd[h].b], hd[h].val)]
      BY <2>3 DEF EndSetDesired
    <3>4. Append(asked[hd[h].b], hd[h].val) \in Seq(Wishes)
      BY <3>2 DEF Asked
    <3>5. asked' \in [Bindings -> Seq(Wishes)]
      BY <3>3, <3>4 DEF Asked
    <3>6. ASSUME NEW b \in Bindings, b = hd[h].b PROVE BindingStep(b)
      <4>1. /\ bind'[b] = [hd[h].row EXCEPT !.desired = hd[h].val]
            /\ asked'[b] = Append(asked[b], hd[h].val)
        BY <3>3, <3>6 DEF Types, Asked
      <4>2. bind'[b].desired = hd[h].val
        BY <3>2, <4>1 DEF Row
      <4>3. Here(b)'
        BY <3>2, <4>2 DEF Here, NoBinding, Wishes
      <4>. QED
        BY <1>2, <2>1, <3>1, <3>6, <4>1, <4>2, <4>3 DEF BindingStep
    <3>7. ASSUME NEW b \in Bindings, b # hd[h].b PROVE BindingStep(b)
      BY <3>3, <3>7 DEF Types, Asked, BindingStep
    <3>. QED
      BY <3>5, <3>6, <3>7
  <2>4. CASE EndReport(h)
    <3>1. hd[h] \in Call /\ hd[h].op = "report"
      BY <2>4, HandlerKinds DEF EndReport
    <3>2. hd[h].b \in Bindings /\ hd[h].val \in Reports /\ hd[h].row \in Row
      BY <3>1 DEF Call
    <3>3. /\ bind' = [bind EXCEPT ![hd[h].b] = [hd[h].row EXCEPT !.actual = hd[h].val]]
          /\ UNCHANGED asked
      BY <2>4 DEF EndReport, Reported, past
    <3>6. ASSUME NEW b \in Bindings, b = hd[h].b PROVE BindingStep(b)
      <4>1. bind'[b] = [hd[h].row EXCEPT !.actual = hd[h].val]
        BY <3>3, <3>6 DEF Types
      <4>2. bind'[b].desired = hd[h].row.desired /\ bind'[b].actual = hd[h].val
        BY <3>2, <4>1 DEF Row
      <4>3. Here(b)'
        BY <3>2, <4>2 DEF Here, NoBinding, Reports
      <4>. QED
        BY <1>2, <2>1, <3>1, <3>3, <3>6, <4>2, <4>3 DEF BindingStep
    <3>7. ASSUME NEW b \in Bindings, b # hd[h].b PROVE BindingStep(b)
      BY <3>3, <3>7 DEF Types, BindingStep
    <3>. QED
      BY <3>3, <3>6, <3>7 DEF Asked
  <2>. QED
    BY <1>2, <2>2, <2>3, <2>4 DEF HandlerEnds
<1>. QED
  BY <1>1, <1>2, BindChanges, AskedChanges

(* What a step may do to the place hubd is at: the list it works from is a *)
(* fresh one, none, or the one it had; it takes up a binding that it keeps *)
(* or wants; and it comes to the mounts that are not wanted with a list.   *)
HubStepOK ==
  /\ hub'.want = hub.want \/ hub'.want = {} \/ hub' = Listed(Desired)
  /\ hub'.pc \in At =>
       \/ hub.pc \in At /\ hub'.b = hub.b
       \/ \E b \in Bindings : hub'.b = b /\ (Kept(b) \/ b \in hub.want)
  /\ Unmounting' =>
       \/ Unmounting /\ hub'.want = hub.want
       \/ hub' = Listed(Desired)
       \/ "store" \in failed'

LEMMA HubSteps == Base /\ [Next]_vars => HubStepOK
<1>. SUFFICES ASSUME Base, [Next]_vars PROVE HubStepOK
  OBVIOUS
<1>1. Types /\ Placed /\ OneCall /\ hub \in Hub /\ hub.todo \subseteq hub.want
  BY DEF Base, Types
<1>2. CASE UNCHANGED hub
  BY <1>2 DEF HubStepOK, Unmounting
<1>3. CASE List \/ ListStoreFails
  <2>1. CASE List
    <3>1. hub' = Listed(Desired) /\ hub'.pc = "unmount"
      BY <1>1, <2>1 DEF List, Listed, Hub
    <3>. QED
      BY <3>1 DEF HubStepOK, At, Telling
  <2>2. CASE ListStoreFails
    <3>1. hub'.want = {} /\ hub'.pc = "unmount" /\ "store" \in failed'
      BY <1>1, <2>2 DEF ListStoreFails, Listed, Hub, Fault
    <3>. QED
      BY <3>1 DEF HubStepOK, At, Telling
  <2>. QED
    BY <1>3, <2>1, <2>2
<1>4. ASSUME NEW pc \in {"mount", "shutdown", "idle", "down"}, hub' = To(pc)
      PROVE  HubStepOK
  <2>1. hub'.pc = pc /\ hub'.want = hub.want
    BY <1>1, <1>4 DEF To, Hub
  <2>. QED
    BY <2>1 DEF HubStepOK, Unmounting, At, Telling
<1>5. CASE Unmounted \/ Signal \/ HubStarts
  BY <1>4, <1>5 DEF Unmounted, Signal, HubStarts
<1>6. CASE RoundEnds \/ HubCrashes
  <2>1. hub'.want = {} /\ hub'.pc \in {"idle", "down"}
    BY <1>1, <1>6 DEF RoundEnds, HubCrashes, To, Hub
  <2>. QED
    BY <2>1 DEF HubStepOK, Unmounting, At, Telling
<1>7. ASSUME NEW b \in Bindings, Kept(b), NEW next \in {"unmount", "shutdown"}, hub.pc = next,
             hub' = [hub EXCEPT !.pc = "flush", !.b = b, !.next = next]
      PROVE  HubStepOK
  <2>1. hub'.pc = "flush" /\ hub'.b = b /\ hub'.next = next /\ hub'.want = hub.want
    BY <1>1, <1>7 DEF Hub
  <2>. QED
    BY <1>7, <2>1 DEF HubStepOK, Unmounting, At, Telling
<1>8. ASSUME NEW b \in Bindings, Unmount(b) PROVE HubStepOK
  BY <1>7, <1>8 DEF Unmount
<1>9. CASE Shutdown
  BY <1>4, <1>7, <1>9 DEF Shutdown
<1>10. ASSUME hub.pc \in At, NEW val \in Reports, NEW tries \in Nat,
              NEW next \in {"none", "unmount", "mount", "replace", "shutdown"},
              next = "unmount" => Unmounting,
              \/ hub' = Report(val, tries, next)
              \/ hub' = [Report(val, tries, next) EXCEPT !.todo = @ \ {hub.b}]
       PROVE  HubStepOK
  <2>1. /\ hub'.pc = "report" /\ hub'.b = hub.b /\ hub'.next = next
        /\ hub'.want = hub.want
    BY <1>1, <1>10, HubReport
  <2>. QED
    BY <1>10, <2>1 DEF HubStepOK, Unmounting, Telling
<1>11. CASE Flush \/ FlushFails
  <2>1. hub.pc = "flush" /\ hub.next \in {"none", "unmount", "mount", "replace", "shutdown"}
    BY <1>1, <1>11 DEF Flush, FlushFails, Hub
  <2>2. "unmounted" \in Reports /\ 1 \in Nat /\ hub' = Report("unmounted", 1, hub.next)
    BY <1>11 DEF Flush, FlushFails, Reports
  <2>. QED
    BY <1>10, <2>1, <2>2 DEF At, Unmounting
<1>12. CASE StartMount \/ StartMountFails \/ IssueSessionFails
  <2>1. hub.pc \in {"start", "issue"} /\ MountedTries \in Nat
    BY <1>12, MountsAssumption DEF StartMount, StartMountFails, IssueSessionFails
  <2>. QED
    BY <1>10, <1>12, <2>1 DEF StartMount, StartMountFails, IssueSessionFails, Reports, At
<1>13. ASSUME hub.pc \in At, NEW pc \in At \cup Apart, hub' = To(pc),
              pc = "unmount" => Unmounting,
              pc \in Telling \cup {"flush"} => hub.pc \in Telling
       PROVE  HubStepOK
  <2>1. hub'.pc = pc /\ hub'.b = hub.b /\ hub'.next = hub.next /\ hub'.want = hub.want
    BY <1>1, <1>13 DEF To, Hub
  <2>. QED
    BY <1>13, <2>1 DEF HubStepOK, Unmounting, At, Telling
<1>14. CASE IssueSession
  BY <1>10, <1>13, <1>14 DEF IssueSession, Reports, At, Telling
<1>15. CASE \/ SoftRefresh \/ SoftRefreshFails \/ Replace \/ ReportLost
            \/ \E h \in Handlers : ReportTimesOut(h) \/ BeginReport(h)
  BY <1>13, <1>15 DEF SoftRefresh, SoftRefreshFails, Replace, ReportLost,
     ReportTimesOut, BeginReport, To, At, Telling
<1>16. CASE Probe
  <2>1. CASE hub' = To("replace")
    BY <1>13, <1>16, <2>1 DEF Probe, At, Telling
  <2>2. CASE hub' = Settled
    <3>1. hub'.pc = "mount" /\ hub'.want = hub.want
      BY <1>1, <2>2 DEF Settled, Hub
    <3>. QED
      BY <3>1 DEF HubStepOK, Unmounting, At, Telling
  <2>. QED
    BY <1>16, <2>1, <2>2 DEF Probe
<1>17. CASE ApiRestarts
  <2>1. UNCHANGED hub \/ (hub.pc = "await" /\ hub' = To("refused"))
    BY <1>17 DEF ApiRestarts, To
  <2>. QED
    BY <1>2, <1>13, <2>1 DEF At, Telling
<1>18. hub.pc \in Telling => hub.next \in {"unmount", "mount", "replace", "shutdown"}
  BY <1>1 DEF Placed, Hub
<1>19. ASSUME NEW h \in Handlers, EndReport(h) PROVE HubStepOK
  <2>1. CASE UNCHANGED hub
    BY <1>2, <2>1
  <2>2. CASE hub' = To(hub.next) /\ hub.pc = "await"
    BY <1>13, <1>18, <2>2 DEF Unmounting, At, Telling, Apart
  <2>. QED
    BY <1>1, <1>19, <2>1, <2>2 DEF EndReport, OneCall, Waits, To
<1>20. CASE Refused
  <2>1. CASE hub.tries > 1
    <3>. DEFINE n == hub.tries - 1
    <3>0. hub.tries \in Nat /\ n \in Nat
      BY <1>1, <2>1 DEF Hub
    <3>1. hub' = [hub EXCEPT !.pc = "report", !.tries = n]
      BY <1>1, <1>20, <2>1, <3>0 DEF Refused, To, Hub
    <3>. HIDE DEF n
    <3>2. /\ hub'.pc = "report" /\ hub'.b = hub.b /\ hub'.next = hub.next
          /\ hub'.want = hub.want
      BY <1>1, <3>1 DEF Hub
    <3>. QED
      BY <1>20, <3>2 DEF HubStepOK, Refused, Unmounting, At, Telling
  <2>2. CASE ~(hub.tries > 1) /\ hub.val = "mounted"
    <3>1. hub' = Report("error", ErrorTries, hub.next)
      BY <1>1, <1>20, <2>2 DEF Refused, Hub
    <3>2. ErrorTries \in Nat /\ "error" \in Reports
      BY MountsAssumption DEF Reports
    <3>. QED
      BY <1>10, <1>18, <1>20, <3>1, <3>2 DEF Refused, Unmounting, At, Telling
  <2>3. CASE ~(hub.tries > 1) /\ hub.val # "mounted"
    <3>1. hub' = To(hub.next)
      BY <1>1, <1>20, <2>3 DEF Refused, Hub
    <3>. QED
      BY <1>13, <1>18, <1>20, <3>1 DEF Refused, Unmounting, At, Telling, Apart
  <2>. QED
    BY <2>1, <2>2, <2>3
<1>21. ASSUME NEW b \in Bindings, Look(b) PROVE HubStepOK
  <2>1. /\ hub'.b = b /\ hub'.want = hub.want /\ b \in hub.want
        /\ hub'.pc \in {"mount", "issue", "report", "replace", "refresh"}
        /\ hub'.pc = "report" => hub'.next = "replace"
    BY <1>1, <1>21 DEF Look, Hub
  <2>. QED
    BY <2>1 DEF HubStepOK, Unmounting, At, Telling
<1>. QED
  BY <1>2, <1>3, <1>5, <1>6, <1>8, <1>9, <1>11, <1>12, <1>14, <1>15, <1>16,
    <1>17, <1>19, <1>20, <1>21 DEF Next, HubStep, HubFails, HandlerEnds,
    ListFails, EndCreateBinding, EndSetDesired, BeginCreateBinding,
    BeginSetDesired, DeleteDrive, RefreshMismatched, SessionAges,
    RcloneDies, MountHangs, WorkspaceChanges, plane, device, budget, past,
    vars

LEMMA HereStays ==
  ASSUME Types, Asked, [Next]_vars, NEW b \in Bindings, Here(b)
  PROVE  Here(b)'
  BY BindingSteps DEF BindingStep, Here

LEMMA PresentStep == Base /\ Asked /\ Present /\ [Next]_vars => Present'
<1>. SUFFICES ASSUME Base, Asked, Present, [Next]_vars PROVE Present'
  OBVIOUS
<1>1. Types /\ Mounted /\ Placed /\ OneCall /\ HubStepOK
  BY HubSteps DEF Base
<1>2. \A b \in Bindings : Here(b) => Here(b)'
  BY <1>1, HereStays
<1>3. hub.want \subseteq Bindings
  BY <1>1 DEF Types, Hub
<1>4. ASSUME NEW b \in hub'.want PROVE Here(b)'
  <2>1. Listed(Desired).want = Desired
    BY <1>1 DEF Listed, Types, Hub
  <2>2. \A x \in Desired : x \in Bindings /\ Here(x)
    BY DEF Desired, Here, NoBinding
  <2>. QED
    BY <1>1, <1>2, <1>3, <1>4, <2>1, <2>2 DEF HubStepOK, Present
<1>5. ASSUME NEW b \in Bindings, Kept(b)' PROVE Here(b)'
  <2>1. CASE Kept(b)
    BY <1>2, <2>1 DEF Present
  <2>2. CASE ~Kept(b)
    <3>1. Begins(b)
      BY <1>1, <1>5, <2>2, MountSteps DEF Stays, Ends, Dies, Lasts, Kept
    <3>2. Here(b)
      BY <3>1 DEF Begins, StartMount, Present, At
    <3>. QED
      BY <1>2, <3>2
  <2>. QED
    BY <2>1, <2>2
<1>6. hub'.pc \in At => Here(hub.b)'
  <2>. SUFFICES ASSUME hub'.pc \in At PROVE Here(hub.b)'
    OBVIOUS
  <2>1. PICK b \in Bindings : b = hub'.b
    BY <1>1, HubMoves DEF Placed
  <2>2. Here(b)
    BY <1>1, <2>1 DEF HubStepOK, Present, Placed
  <2>. QED
    BY <1>2, <2>1, <2>2 DEF Here
(* Handlers.                                                               *)
<1>7. \A h \in Handlers : HandlerStep(h)
  BY <1>1, HandlerSteps
<1>8. \A h \in Handlers : /\ hd[h].op \in {"create", "desired", "report"} => hd[h].b \in Bindings
  BY <1>1, HandlerKinds DEF Create, Set, Call
<1>9. ASSUME NEW h \in Handlers, hd'[h].op \in {"desired", "report"} PROVE Here(hd[h].b)'
  <2>1. CASE Same(h)
    <3>1. hd[h].op \in {"desired", "report"} /\ hd'[h].b = hd[h].b
      BY <1>9, <2>1 DEF Same
    <3>2. PICK b \in Bindings : b = hd[h].b
      BY <1>8, <3>1
    <3>. QED
      BY <1>2, <3>1, <3>2 DEF Present, Here
  <2>2. ASSUME NEW b \in Bindings, NEW d \in Wishes, BeginSetDesired(h, b, d), hd'[h].b = b
        PROVE  Here(hd[h].b)'
    <3>1. Here(b)
      BY <2>2 DEF BeginSetDesired
    <3>. QED
      BY <1>2, <2>2, <3>1 DEF Here
  <2>3. CASE BeginReport(h) /\ hd'[h].b = hub.b
    <3>1. PICK b \in Bindings : b = hub.b
      BY <1>1, <2>3 DEF BeginReport, Placed, At, Telling
    <3>2. Here(b)
      BY <2>3, <3>1 DEF BeginReport, Present, At, Telling
    <3>. QED
      BY <1>2, <2>3, <3>1, <3>2 DEF Here
  <2>. QED
    BY <1>7, <1>9, <2>1, <2>2, <2>3 DEF HandlerStep
(* A binding that is being created gets there by that handler only.        *)
<1>10. ASSUME NEW h \in Handlers, hd'[h].op = "create"
       PROVE  \/ Same(h) /\ hd[h].op = "create"
              \/ \E b \in Bindings, d \in Wishes :
                   BeginCreateBinding(h, b, d) /\ hd'[h].b = b
  BY <1>7, <1>10 DEF HandlerStep, Same
<1>11. ASSUME NEW h \in Handlers, hd'[h].op = "create" PROVE ~Here(hd[h].b)'
  <2>1. ASSUME NEW b \in Bindings, NEW d \in Wishes, BeginCreateBinding(h, b, d), hd'[h].b = b
        PROVE  ~Here(hd[h].b)'
    BY <2>1 DEF BeginCreateBinding, Here
  <2>2. CASE Same(h) /\ hd[h].op = "create"
    <3>1. PICK b \in Bindings : b = hd[h].b
      BY <1>8, <2>2
    <3>2. hd'[h].b = b /\ ~Here(b)
      BY <2>2, <3>1 DEF Same, Present
    <3>3. ASSUME Here(b)' PROVE FALSE
      <4>1. PICK x \in Handlers : hd[x].b = b /\ hd'[x].op = "free"
                                   /\ hd[x].op \in {"create", "desired", "report"}
        BY <1>1, <3>2, <3>3, BindingSteps DEF BindingStep, Here
      <4>2. hd[x].op = "create"
        BY <3>2, <4>1 DEF Present
      <4>3. x = h
        BY <2>2, <3>1, <4>1, <4>2 DEF Present
      <4>. QED
        BY <1>11, <4>1, <4>3
    <3>. QED
      BY <3>2, <3>3 DEF Here
  <2>. QED
    BY <1>10, <1>11, <2>1, <2>2
<1>12. ASSUME NEW h \in Handlers, NEW x \in Handlers, h # x,
              hd'[h].op = "create", hd'[x].op = "create", hd'[h].b = hd'[x].b
       PROVE  FALSE
  <2>1. ASSUME NEW g \in Handlers, NEW y \in Handlers, g # y,
               NEW b \in Bindings, NEW d \in Wishes, BeginCreateBinding(g, b, d),
               hd'[g].b = b, hd'[y].b = b, hd'[y].op = "create"
        PROVE  FALSE
    <3>1. hd'[y] = hd[y] /\ ~Midway(b, "create")
      BY <2>1, <1>1 DEF BeginCreateBinding, Types
    <3>. QED
      BY <2>1, <3>1 DEF Midway
  <2>2. CASE Same(h) /\ hd[h].op = "create" /\ Same(x) /\ hd[x].op = "create"
    BY <1>12, <2>2 DEF Same, Present
  <2>. QED
    BY <1>10, <1>12, <2>1, <2>2
<1>. QED
  BY <1>4, <1>5, <1>6, <1>9, <1>11, <1>12 DEF Present

LEMMA RacedGrows == [Next]_vars => raced \subseteq raced'
  BY DEF Next, HubStep, HubFails, HandlerEnds, HubStarts, Signal,
    ApiRestarts, List, Flush, Unmounted, RoundEnds, SoftRefresh, Probe,
    Replace, IssueSession, StartMount, Refused, Shutdown, Unmount, Look,
    BeginReport, ListFails, ListStoreFails, FlushFails, SoftRefreshFails,
    IssueSessionFails, StartMountFails, ReportLost, HubCrashes,
    ReportTimesOut, EndCreateBinding, EndSetDesired, EndReport,
    BeginCreateBinding, BeginSetDesired, DeleteDrive, RefreshMismatched,
    SessionAges, RcloneDies, MountHangs, WorkspaceChanges, plane, device,
    budget, past, vars

LEMMA AskedStep == Base /\ Asked /\ Present /\ [Next]_vars => Asked'
<1>. SUFFICES ASSUME Base, Asked, Present, [Next]_vars PROVE Asked'
  OBVIOUS
<1>1. Types /\ Placed
  BY DEF Base
<1>2. asked' \in [Bindings -> Seq(Wishes)] /\ \A b \in Bindings : BindingStep(b)
  BY <1>1, BindingSteps
<1>3. ASSUME NEW b \in Bindings, Here(b)' PROVE asked'[b] # <<>>
  <2>1. CASE bind'[b] = bind[b] /\ asked'[b] = asked[b]
    BY <1>3, <2>1 DEF Asked, Here
  <2>2. ASSUME NEW v, asked'[b] = <<v>> PROVE asked'[b] # <<>>
    BY <2>2
  <2>3. ASSUME NEW v \in Wishes, asked'[b] = Append(asked[b], v) PROVE asked'[b] # <<>>
    BY <2>3, SMTT(20) DEF Asked
  <2>4. ASSUME NEW h \in Handlers, hd[h].op = "report", hd[h].b = b, asked'[b] = asked[b]
        PROVE  asked'[b] # <<>>
    BY <2>4 DEF Present, Asked
  <2>5. \A h \in Handlers : hd[h].op = "desired" => hd[h].val \in Wishes
    BY <1>1, HandlerKinds DEF Set
  <2>. QED
    BY <1>2, <2>1, <2>2, <2>3, <2>4, <2>5 DEF BindingStep
<1>4. ASSUME NEW h \in Handlers, hd'[h].op = "report", hd'[h].b \notin raced'
      PROVE  hd'[h].row.desired = bind'[hd'[h].b].desired /\ ~Midway(hd[h].b, "desired")'
  <2>1. \A x \in Handlers : HandlerStep(x)
    BY <1>1, HandlerSteps
  <2>2. CASE Same(h)
    <3>1. hd[h].op = "report" /\ hd'[h].b = hd[h].b /\ hd'[h].row = hd[h].row
      BY <1>4, <2>2 DEF Same
    <3>2. PICK b \in Bindings : b = hd[h].b
      BY <1>1, <3>1, HandlerKinds DEF Call
    <3>3. b \notin raced /\ b \notin raced'
      BY <1>4, <3>1, <3>2, RacedGrows
    <3>4. hd[h].row.desired = bind[b].desired /\ ~Midway(b, "desired") /\ Here(b)
      BY <3>1, <3>2, <3>3 DEF Asked, Present
    <3>5. bind'[b].desired = bind[b].desired
      <4>1. ASSUME NEW x \in Handlers, hd[x].b = b
            PROVE  /\ hd[x].op \notin {"create", "desired"}
                   /\ hd[x].op = "report" => hd[x].row.desired = bind[b].desired
        BY <3>3, <3>4, <4>1 DEF Present, Asked, Midway
      <4>. QED
        BY <1>2, <4>1 DEF BindingStep
    <3>6. ASSUME NEW x \in Handlers, hd'[x].op = "desired", hd'[x].b = b PROVE FALSE
      <4>1. ~Same(x)
        BY <3>4, <3>6 DEF Same, Midway
      <4>2. ASSUME NEW c \in Bindings, NEW d \in Wishes, BeginSetDesired(x, c, d),
                   hd'[x].b = c
            PROVE  FALSE
        BY <3>1, <3>2, <3>3, <3>6, <4>2 DEF BeginSetDesired, Midway
      <4>. QED
        BY <2>1, <3>6, <4>1, <4>2 DEF HandlerStep
    <3>. QED
      BY <3>1, <3>2, <3>4, <3>5, <3>6 DEF Midway
  <2>3. CASE BeginReport(h) /\ hd'[h].b = hub.b /\ hd'[h].row = bind[hub.b]
    <3>1. PICK b \in Bindings : b = hub.b
      BY <1>1, <2>3 DEF BeginReport, Placed, At, Telling
    <3>2. UNCHANGED bind /\ ~Midway(b, "desired")
      BY <1>4, <2>3, <3>1 DEF BeginReport
    <3>3. \A x \in Handlers \ {h} : hd'[x] = hd[x]
      BY <1>1, <2>3 DEF BeginReport, Types
    <3>. QED
      BY <1>4, <2>3, <3>1, <3>2, <3>3 DEF Midway
  <2>. QED
    BY <1>4, <2>1, <2>2, <2>3 DEF HandlerStep
<1>. QED
  BY <1>2, <1>3, <1>4 DEF Asked

LEMMA HonouredStep ==
  Base /\ Asked /\ Present /\ DesiredHonoured /\ [Next]_vars => DesiredHonoured'
<1>. SUFFICES ASSUME Base, Asked, Present, DesiredHonoured, [Next]_vars,
                     NEW b \in Bindings, Here(b)', b \notin raced'
              PROVE  bind'[b].desired = asked'[b][Len(asked'[b])]
  BY DEF DesiredHonoured
<1>1. b \notin raced /\ BindingStep(b) /\ Types
  BY RacedGrows, BindingSteps DEF Base
<1>2. Here(b) => bind[b].desired = asked[b][Len(asked[b])]
  BY <1>1 DEF DesiredHonoured
<1>3. CASE bind'[b] = bind[b] /\ asked'[b] = asked[b]
  BY <1>2, <1>3 DEF Here
<1>4. ASSUME NEW h \in Handlers, hd[h].op = "create", hd[h] \in Create \cup Set \cup Call,
             bind'[b].desired = hd[h].val, asked'[b] = <<hd[h].val>>
      PROVE  bind'[b].desired = asked'[b][Len(asked'[b])]
  BY <1>4
<1>5. ASSUME NEW h \in Handlers, hd[h].op = "desired",
             bind'[b].desired = hd[h].val, asked'[b] = Append(asked[b], hd[h].val)
      PROVE  bind'[b].desired = asked'[b][Len(asked'[b])]
  <2>1. asked[b] \in Seq(Wishes) /\ hd[h].val \in Wishes
    BY <1>1, <1>5, HandlerKinds DEF Asked, Set
  <2>. QED
    BY <1>5, <2>1
<1>6. ASSUME NEW h \in Handlers, hd[h].op = "report", hd[h].b = b,
             bind'[b].desired = hd[h].row.desired, asked'[b] = asked[b]
      PROVE  bind'[b].desired = asked'[b][Len(asked'[b])]
  <2>1. Here(b) /\ hd[h].row.desired = bind[b].desired
    BY <1>1, <1>6 DEF Present, Asked
  <2>. QED
    BY <1>2, <1>6, <2>1
<1>. QED
  BY <1>1, <1>3, <1>4, <1>5, <1>6 DEF BindingStep

LEMMA InitAsked == Init => Asked /\ Present /\ DesiredHonoured /\ Unwanted
<1>. SUFFICES ASSUME Init PROVE Asked /\ Present /\ DesiredHonoured /\ Unwanted
  OBVIOUS
<1>1. \A h \in Handlers : hd[h].op = "free"
  BY DEF Init, Free
<1>2. /\ hub.pc = "down" /\ hub.want = {}
  BY DEF Init, NoHub
<1>3. \A b \in Bindings : ~Kept(b)
  BY DEF Init, Kept
<1>4. PICK start \in Starts :
        /\ bind = [b \in Bindings |->
                     IF b \in start THEN [desired |-> "mounted", actual |-> "unknown"]
                                    ELSE NoBinding]
        /\ asked = [b \in Bindings |-> IF b \in start THEN <<"mounted">> ELSE <<>>]
  BY DEF Init
<1>5. asked \in [Bindings -> Seq(Wishes)]
  <2>1. <<"mounted">> \in Seq(Wishes) /\ <<>> \in Seq(Wishes)
    BY DEF Wishes
  <2>. QED
    BY <1>4, <2>1
<1>6. \A b \in Bindings : Here(b) => asked[b] = <<"mounted">> /\ bind[b].desired = "mounted"
  BY <1>4 DEF Here
<1>7. \A b \in Bindings :
        Here(b) => asked[b] # <<>> /\ bind[b].desired = asked[b][Len(asked[b])]
  BY <1>6, SMTT(20)
<1>. QED
  BY <1>1, <1>2, <1>3, <1>5, <1>6, <1>7
     DEF Asked, Present, DesiredHonoured, Unwanted, Unmounting, At, Telling

(* What the last confirmed SetDesired asked for is what the binding says:  *)
(* reports of hubd write back the row they read, however late, repeated or *)
(* abandoned they are, unless one overlapped a SetDesired.                 *)
THEOREM LastWishStands == Spec => []DesiredHonoured
<1>1. Base /\ Asked /\ Present /\ DesiredHonoured /\ [Next]_vars
        => (Asked /\ Present /\ DesiredHonoured)'
  BY AskedStep, PresentStep, HonouredStep
<1>. QED
  BY <1>1, InitAsked, BaseAlways, PTL DEF Spec

-----------------------------------------------------------------------------
(* Mounts that are well stay.                                              *)

(* An answered wish is remembered, unless the binding is created anew.     *)
LEMMA OnceGrows ==
  ASSUME Base, Asked, Present, [Next]_vars, NEW b \in Bindings, Here(b), Once(b)
  PROVE  Once(b)'
<1>1. BindingStep(b) /\ Types
  BY BindingSteps DEF Base
<1>2. ASSUME NEW h \in Handlers, hd[h].op = "desired",
             asked'[b] = Append(asked[b], hd[h].val)
      PROVE  Once(b)'
  <2>1. asked[b] \in Seq(Wishes) /\ hd[h].val \in Wishes
    BY <1>1, <1>2, HandlerKinds DEF Asked, Set
  <2>2. /\ Len(asked'[b]) = Len(asked[b]) + 1 /\ Len(asked[b]) \in Nat
        /\ \A i \in 1..Len(asked[b]) : asked'[b][i] = asked[b][i]
    BY <1>2, <2>1
  <2>. QED
    BY <2>2 DEF Once
<1>. QED
  BY <1>1, <1>2 DEF BindingStep, Once, Present

LEMMA UnwantedStep == Base /\ Asked /\ Present /\ Unwanted /\ [Next]_vars => Unwanted'
<1>. SUFFICES ASSUME Base, Asked, Present, Unwanted, [Next]_vars PROVE Unwanted'
  OBVIOUS
<1>1. Types /\ Mounted /\ Placed /\ HubStepOK
  BY HubSteps DEF Base
<1>2. \A b \in Bindings : Here(b) /\ Once(b) => Once(b)'
  BY OnceGrows
<1>3. ASSUME NEW b \in Bindings, Here(b)', bind'[b].desired # "mounted" PROVE Once(b)'
  <2>1. BindingStep(b)
    BY <1>1, BindingSteps
  <2>2. CASE bind'[b] = bind[b] /\ asked'[b] = asked[b]
    BY <1>3, <2>2 DEF Unwanted, Here, Once
  <2>3. ASSUME NEW h \in Handlers, hd[h].op = "create",
               bind'[b].desired = hd[h].val, asked'[b] = <<hd[h].val>>
        PROVE  Once(b)'
    <3>1. hd[h].val = "unmounted"
      BY <1>1, <1>3, <2>3, HandlerKinds DEF Create, Wishes
    <3>. QED
      BY <2>3, <3>1 DEF Once
  <2>4. ASSUME NEW h \in Handlers, hd[h].op = "desired",
               bind'[b].desired = hd[h].val, asked'[b] = Append(asked[b], hd[h].val)
        PROVE  Once(b)'
    <3>1. hd[h].val = "unmounted" /\ hd[h].val \in Wishes /\ asked[b] \in Seq(Wishes)
      BY <1>1, <1>3, <2>4, HandlerKinds DEF Set, Wishes, Asked
    <3>2. /\ Len(asked'[b]) = Len(asked[b]) + 1 /\ Len(asked[b]) \in Nat
          /\ asked'[b][Len(asked[b]) + 1] = "unmounted"
      BY <2>4, <3>1
    <3>. QED
      BY <3>2 DEF Once
  <2>5. ASSUME NEW h \in Handlers, hd[h].op = "report", hd[h].b = b,
               bind'[b].desired = hd[h].row.desired
        PROVE  Once(b)'
    BY <1>2, <1>3, <2>5 DEF Unwanted, Present
  <2>. QED
    BY <2>1, <2>2, <2>3, <2>4, <2>5 DEF BindingStep
<1>4. ASSUME NEW h \in Handlers, hd'[h].op = "report", hd'[h].row.desired # "mounted"
      PROVE  Once(hd[h].b)'
  <2>1. HandlerStep(h)
    BY <1>1, HandlerSteps
  <2>2. CASE Same(h)
    <3>1. hd[h].op = "report" /\ hd'[h].b = hd[h].b /\ hd'[h].row = hd[h].row
      BY <1>4, <2>2 DEF Same
    <3>2. PICK b \in Bindings : b = hd[h].b
      BY <1>1, <3>1, HandlerKinds DEF Call
    <3>3. Once(b)'
      BY <1>2, <1>4, <3>1, <3>2 DEF Unwanted, Present
    <3>. QED
      BY <3>1, <3>2, <3>3 DEF Once
  <2>3. CASE BeginReport(h) /\ hd'[h].b = hub.b /\ hd'[h].row = bind[hub.b]
    <3>1. PICK b \in Bindings : b = hub.b
      BY <1>1, <2>3 DEF BeginReport, Placed, At, Telling
    <3>2. Here(b) /\ UNCHANGED asked
      BY <2>3, <3>1 DEF BeginReport, Present, At, Telling
    <3>. QED
      BY <1>4, <2>3, <3>1, <3>2 DEF Unwanted, Once
  <2>. QED
    BY <1>4, <2>1, <2>2, <2>3 DEF HandlerStep
<1>5. ASSUME "store" \notin failed', Unmounting', NEW b \in Bindings, Kept(b)', b \notin hub'.want
      PROVE  Once(b)'
  <2>1. Kept(b)
    <3>1. ~StartMount
      <4>1. ASSUME StartMount PROVE hub'.pc = "report" /\ hub'.next = "mount"
        <5>1. "mounted" \in Reports /\ MountedTries \in Nat
          BY MountsAssumption DEF Reports
        <5>2. hub' = [Report("mounted", MountedTries, "mount") EXCEPT !.todo = @ \ {hub.b}]
          BY <4>1 DEF StartMount
        <5>. QED
          BY <1>1, <5>1, <5>2, HubReport
      <4>. QED
        BY <1>5, <4>1 DEF Unmounting
    <3>. QED
      BY <1>1, <1>5, <3>1, MountSteps DEF Stays, Ends, Dies, Lasts, Begins, Kept
  <2>2. Here(b) /\ "store" \notin failed
    BY <1>5, <2>1, FailedGrows DEF Present
  <2>3. CASE Unmounting /\ hub'.want = hub.want
    BY <1>2, <1>5, <2>1, <2>2, <2>3 DEF Unwanted
  <2>4. CASE hub' = Listed(Desired)
    <3>1. hub'.want = Desired
      BY <1>1, <2>4 DEF Listed, Types, Hub
    <3>. QED
      BY <1>2, <1>5, <2>2, <3>1 DEF Unwanted, Desired
  <2>. QED
    BY <1>1, <1>5, <2>3, <2>4 DEF HubStepOK
<1>. QED
  BY <1>3, <1>4, <1>5 DEF Unwanted

(* A mount that is well and whose session is fresh is stopped only if a    *)
(* user asked for it once, or hubd is told to stop; unless the store       *)
(* failed: a failed call of hubd and a restart of the API unmount nothing. *)
THEOREM WellMountsStay == Spec => KeptWhileWanted
<1>1. Base /\ Asked /\ Present /\ Unwanted /\ [Next]_vars => (Asked /\ Present /\ Unwanted)'
  BY AskedStep, PresentStep, UnwantedStep
<1>. DEFINE Well(b) == /\ Running(b) /\ active[b].age = Fresh
                       /\ "unmounted" \notin {asked[b][i] : i \in 1..Len(asked[b])}
                       /\ "store" \notin failed
<1>2. Base /\ Unwanted /\ [Next]_vars =>
        \A b \in Bindings : Well(b) => Kept(b)' \/ hub'.pc = "down" \/ hub.pc = "shutdown"
  <2>. SUFFICES ASSUME Base, Unwanted, [Next]_vars, NEW b \in Bindings, Well(b),
                       ~Kept(b)', hub.pc # "shutdown"
                PROVE  hub'.pc = "down"
    OBVIOUS
  <2>1. Types /\ Mounted /\ Placed
    BY DEF Base
  <2>2. Kept(b) /\ ~Once(b) /\ ~Sick(b) /\ active[b].age = Fresh
    BY DEF Running, Once, Sick
  <2>3. CASE HubCrashes
    BY <2>1, <2>3 DEF HubCrashes, To, Types, Hub
  <2>4. ~Unmount(b)
    BY <2>2 DEF Unmount, Unwanted, Unmounting
  <2>5. ~(Replace /\ hub.b = b)
    BY <2>1, <2>2 DEF Replace, Placed
  <2>6. ~Shutdown
    BY DEF Shutdown
  <2>7. ~Stays(b) /\ ~Lasts(b) /\ ~Begins(b) /\ ~Dies(b) /\ ~Ends(b)
    BY <2>1, <2>2, <2>4, <2>5, <2>6, DeadIsKept DEF Stays, Lasts, Begins, Ends, Kept
  <2>. QED
    BY <2>1, <2>3, <2>7, MountSteps
<1>3. Base /\ Unwanted /\ [Next]_vars =>
        [\A b \in Bindings : Well(b) => Kept(b)' \/ hub'.pc = "down" \/ hub.pc = "shutdown"]_vars
  BY <1>2
<1>. QED
  BY <1>1, <1>3, InitAsked, BaseAlways, PTL DEF Spec, KeptWhileWanted
=============================================================================
