--------------------------- MODULE JobOutboxProofs ---------------------------
(***************************************************************************)
(* The job queue and the webhook outbox: what is proved of the terminal    *)
(* events, for any number of jobs and goroutines.                          *)
(***************************************************************************)
EXTENDS JobQueueProofs

(* A purge has deleted the ids it has worked off, all of them by the time  *)
(* it cascades.                                                            *)
PurgeShape(th) ==
  /\ th.pc = "delete"  => \A j \in th.ids \ th.cand : rows[j].status = "gone"
  /\ th.pc = "cascade" => \A j \in th.ids : rows[j].status = "gone"

PurgeInvariant == \A t \in Threads : PurgeShape(thread[t])

LEMMA IdsAreJobs ==
  ASSUME Inv, NEW t \in Threads
  PROVE  thread[t].ids \subseteq Jobs /\ thread[t].cand \subseteq Jobs
  BY DEF Inv, Thread

(* The shape survives steps of others.                                     *)
LEMMA ShapeStays ==
  ASSUME Inv, [Next]_vars, NEW t \in Threads, PurgeShape(thread[t]),
         \/ thread'[t].pc \notin {"delete", "cascade"}
         \/ /\ thread'[t].pc = thread[t].pc
            /\ thread'[t].ids = thread[t].ids /\ thread'[t].cand = thread[t].cand
  PROVE  PurgeShape(thread[t])'
<1>1. \A j \in Jobs : rows[j].status = "gone" => rows'[j].status = "gone"
  BY GoneStays
<1>. QED
  BY <1>1, IdsAreJobs DEF PurgeShape

(* The steps that do not touch a purge leave or keep out of it.            *)
LEMMA BeginLeavesPurge ==
  ASSUME Inv, NEW t \in Threads, Begin(t) \/ Maintain(t)
  PROVE  thread'[t].pc # "cascade" /\
         (thread'[t].pc = "delete" => thread'[t].ids = thread'[t].cand)
<1>. DEFINE Q == thread'[t].pc # "cascade" /\
                 (thread'[t].pc = "delete" => thread'[t].ids = thread'[t].cand)
<1>1. ASSUME NEW j \in Jobs, NEW r, Become(t, ToWrite(Idle, j, r, "idle")) PROVE Q
  BY <1>1 DEF Become, ToWrite, Idle, Inv
<1>2. ASSUME NEW op, NEW k, NEW one, ListRunning(t, op, k, one) PROVE Q
  BY <1>2 DEF ListRunning, Become, Idle, Inv
<1>3. ASSUME NEW op, NEW st, ListToCancel(t, op, st) PROVE Q
  BY <1>3 DEF ListToCancel, Become, Idle, Inv
<1>4. ASSUME NEW older, AdminPurge(t, older) PROVE Q
  BY <1>4 DEF AdminPurge, SelectOld, Become, Idle, Inv
<1>. QED
  BY <1>1, <1>2, <1>3, <1>4 DEF Begin, Maintain, Heartbeat, Complete, Cancel, Release,
     Claim, ClaimNext, AdminReclaim, AdminCancelAll

(* A goroutine that is not purging does not start to in the middle of      *)
(* another operation.                                                      *)
LEMMA ContinueLeavesPurge ==
  ASSUME Inv, NEW t \in Threads, Continue(t),
         ~PurgeSelect(t), ~PurgeDelete(t), ~DeleteWebhookOutboxByJobIDs(t)
  PROVE  thread'[t].pc \notin {"delete", "cascade"}
<1>. DEFINE th == thread[t]
            Q == thread'[t].pc \notin {"delete", "cascade"}
<1>1. th \in Thread /\ thread \in [Threads -> Thread] /\ Idle.pc = "idle"
  BY DEF Inv, Idle
<1>2. Resume(th).pc \in {"idle", "scan", "claim", "cancel"}
  BY <1>1 DEF Resume, Thread
<1>3. CASE UpdateJob(t)
  <2>1. [th EXCEPT !.pc = "notify", !.event = th.buf.status, !.buf = NoRow].pc = "notify"
    BY <1>1 DEF Thread
  <2>. QED
    BY <1>1, <1>2, <1>3, <2>1 DEF UpdateJob, AfterUpdate, Become
<1>4. CASE NotifyJobTerminal(t)
  BY <1>1, <1>2, <1>4 DEF NotifyJobTerminal, Become
<1>5. CASE ReclaimOne(t)
  <2>1. PICK j \in Stale(th) :
          LET rest == [th EXCEPT !.todo[j] = "keep"]
          IN Become(t, CASE th.todo[j] = "release" /\ Releasable(j)
                               -> ToWrite(rest, j, ReleaseRow(rows[j]), "scan")
                         [] th.todo[j] # "release" /\ rows[j].status = "running"
                               -> ToWrite(rest, j, FailRow(rows[j]), "scan")
                         [] OTHER -> rest)
    BY <1>5 DEF ReclaimOne
  <2>. DEFINE rest == [th EXCEPT !.todo[j] = "keep"]
  <2>2. rest.pc = "scan" /\ \A r : ToWrite(rest, j, r, "scan").pc = "write"
    BY <1>1, <1>5 DEF Thread, ReclaimOne, ToWrite
  <2>3. thread'[t].pc \in {"scan", "write"}
    BY <1>1, <2>1, <2>2 DEF Become
  <2>. QED
    BY <2>3
<1>6. CASE EndScan(t)
  <2>1. \A pc : [th EXCEPT !.pc = pc].pc = pc
    BY <1>1 DEF Thread
  <2>. QED
    BY <1>1, <1>6, <2>1 DEF EndScan, Become
<1>7. CASE ListPending(t) \/ SkipCandidate(t) \/ ClaimPendingJob(t)
  <2>1. CASE ListPending(t)
    BY <1>1, <2>1 DEF ListPending, Become, Thread
  <2>2. CASE SkipCandidate(t)
    BY <1>1, <2>2 DEF SkipCandidate, Become, Thread
  <2>3. CASE ClaimPendingJob(t)
    <3>1. PICK j : \/ Become(t, [th EXCEPT !.pc = "recheck", !.job = j, !.cand = @ \ {j}])
                   \/ Become(t, [th EXCEPT !.cand = @ \ {j}])
      BY <2>3 DEF ClaimPendingJob
    <3>. DEFINE a == [th EXCEPT !.pc = "recheck", !.job = j, !.cand = @ \ {j}]
                b == [th EXCEPT !.cand = @ \ {j}]
    <3>2. a.pc = "recheck" /\ b.pc = "claim"
      BY <1>1, <2>3 DEF Thread, ClaimPendingJob
    <3>3. thread'[t] = a \/ thread'[t] = b
      BY <1>1, <3>1 DEF Become
    <3>. QED
      BY <3>2, <3>3
  <2>. QED
    BY <1>7, <2>1, <2>2, <2>3
<1>8. CASE NothingToClaim(t) \/ HandOver(t) \/ DenyAfterClaim(t)
  <2>1. \A r, ret : ToWrite(th, th.job, r, ret).pc = "write"
    BY <1>1 DEF ToWrite, Thread
  <2>. QED
    BY <1>1, <1>8, <2>1 DEF NothingToClaim, HandOver, DenyAfterClaim, Become
<1>9. CASE CancelListed(t)
  <2>1. PICK j : LET rest == [th EXCEPT !.snap[j] = NoRow]
                 IN \/ Become(t, [rest EXCEPT !.pc = "notify", !.job = j,
                                     !.event = "cancelled", !.ret = "cancel"])
                    \/ Become(t, rest)
    BY <1>9 DEF CancelListed
  <2>. DEFINE rest == [th EXCEPT !.snap[j] = NoRow]
              new == [rest EXCEPT !.pc = "notify", !.job = j,
                                  !.event = "cancelled", !.ret = "cancel"]
  <2>2. rest.pc = "cancel" /\ new.pc = "notify"
    BY <1>1, <1>9 DEF Thread, CancelListed
  <2>3. thread'[t] = rest \/ thread'[t] = new
    BY <1>1, <2>1 DEF Become
  <2>. QED
    BY <2>2, <2>3
<1>10. CASE EndCancelList(t)
  BY <1>1, <1>10 DEF EndCancelList, ListToCancel, Become, Idle
<1>. QED
  BY <1>3, <1>4, <1>5, <1>6, <1>7, <1>8, <1>9, <1>10 DEF Continue

LEMMA PurgeStepShape ==
  ASSUME Inv, [Next]_vars, NEW t \in Threads, PurgeShape(thread[t]),
         PurgeSelect(t) \/ PurgeDelete(t) \/ DeleteWebhookOutboxByJobIDs(t)
  PROVE  PurgeShape(thread[t])'
<1>. DEFINE th == thread[t]
<1>1. /\ th \in Thread /\ thread \in [Threads -> Thread] /\ Idle.pc = "idle"
      /\ th.ids \subseteq Jobs /\ th.cand \subseteq Jobs
      /\ \A j \in Jobs : rows[j].status = "gone" => rows'[j].status = "gone"
  BY IdsAreJobs, GoneStays DEF Inv, Idle
<1>2. CASE PurgeSelect(t)
  <2>. DEFINE old == {j \in Jobs : rows[j].status \in Terminal /\ rows[j].updated > Retain}
              new == [th EXCEPT !.pc = "delete", !.cand = old, !.ids = old]
  <2>1. thread'[t] = IF old = {} THEN Idle ELSE new
    BY <1>1, <1>2 DEF PurgeSelect, SelectOld, Become
  <2>. HIDE DEF old
  <2>2. new.pc = "delete" /\ new.ids \ new.cand = {}
    BY <1>1 DEF Thread
  <2>. QED
    BY <1>1, <2>1, <2>2 DEF PurgeShape
<1>3. CASE PurgeDelete(t)
  <2>1. PICK j \in th.cand :
          /\ rows' = [rows EXCEPT ![j] = [NoRow EXCEPT !.status = "gone"]]
          /\ Become(t, [th EXCEPT !.cand = @ \ {j},
                                  !.pc = IF th.cand = {j} THEN "cascade" ELSE @])
    BY <1>3 DEF PurgeDelete
  <2>. DEFINE pc2 == IF th.cand = {j} THEN "cascade" ELSE "delete"
              new == [th EXCEPT !.cand = @ \ {j}, !.pc = pc2]
  <2>2. thread'[t] = new /\ th.pc = "delete"
    BY <1>1, <1>3, <2>1 DEF PurgeDelete, Become
  <2>3. rows'[j].status = "gone"
    BY <1>1, <2>1 DEF Inv, NoRow
  <2>. HIDE DEF pc2
  <2>4. new.pc = pc2 /\ new.cand = th.cand \ {j} /\ new.ids = th.ids
    BY <1>1 DEF Thread
  <2>5. \A i \in th.ids \ (th.cand \ {j}) : rows'[i].status = "gone"
    BY <1>1, <2>2, <2>3 DEF PurgeShape
  <2>6. pc2 = "cascade" => th.cand = {j}
    BY DEF pc2
  <2>7. pc2 = "cascade" => \A i \in th.ids : rows'[i].status = "gone"
    BY <2>5, <2>6
  <2>. QED
    BY <2>2, <2>4, <2>5, <2>7 DEF PurgeShape
<1>4. CASE DeleteWebhookOutboxByJobIDs(t)
  <2>1. PICK j \in th.ids :
          Become(t, IF th.ids = {j} THEN Idle ELSE [th EXCEPT !.ids = @ \ {j}])
    BY <1>4 DEF DeleteWebhookOutboxByJobIDs
  <2>. DEFINE new == [th EXCEPT !.ids = @ \ {j}]
  <2>2. thread'[t] = Idle \/ thread'[t] = new
    BY <1>1, <2>1 DEF Become
  <2>3. new.pc = "cascade" /\ new.ids \subseteq th.ids /\ th.pc = "cascade"
    BY <1>1, <1>4 DEF Thread, DeleteWebhookOutboxByJobIDs
  <2>. QED
    BY <1>1, <2>2, <2>3 DEF PurgeShape
<1>. QED
  BY <1>2, <1>3, <1>4

(* A step of goroutine t leaves the others alone.                          *)
LEMMA OthersStay ==
  ASSUME Inv, NEW t \in Threads, Begin(t) \/ Maintain(t) \/ Continue(t)
  PROVE  \A u \in Threads : u # t => thread'[u] = thread[u]
<1>1. \E th : Become(t, th)
  BY DEF Begin, Maintain, Heartbeat, Complete, Cancel, Release, Claim, ClaimNext,
     AdminReclaim, AdminPurge, AdminCancelAll, ListRunning, SelectOld, ListToCancel,
     Continue, UpdateJob, NotifyJobTerminal, ReclaimOne, EndScan, ListPending,
     SkipCandidate, ClaimPendingJob, NothingToClaim, HandOver, DenyAfterClaim,
     PurgeSelect, PurgeDelete, DeleteWebhookOutboxByJobIDs, CancelListed, EndCancelList
<1>. QED
  BY <1>1 DEF Become, Inv

LEMMA NextPurge == Inv /\ PurgeInvariant /\ [Next]_vars => PurgeInvariant'
<1>. SUFFICES ASSUME Inv, PurgeInvariant, [Next]_vars, NEW u \in Threads
              PROVE  PurgeShape(thread[u])'
  BY DEF PurgeInvariant
<1>0. PurgeShape(thread[u]) /\ thread \in [Threads -> Thread]
  BY DEF PurgeInvariant, Inv
<1>1. CASE UNCHANGED thread
  BY <1>0, <1>1, ShapeStays
<1>2. ASSUME NEW t \in Threads, Begin(t) \/ Maintain(t) PROVE PurgeShape(thread[u])'
  <2>1. CASE u # t
    BY <1>0, <1>2, <2>1, OthersStay, ShapeStays
  <2>2. CASE u = t
    BY <1>2, <2>2, BeginLeavesPurge DEF PurgeShape
  <2>. QED
    BY <2>1, <2>2
<1>3. ASSUME NEW t \in Threads, Continue(t) PROVE PurgeShape(thread[u])'
  <2>1. CASE u # t
    BY <1>0, <1>3, <2>1, OthersStay, ShapeStays
  <2>2. CASE u = t /\ (PurgeSelect(t) \/ PurgeDelete(t) \/ DeleteWebhookOutboxByJobIDs(t))
    BY <1>0, <2>2, PurgeStepShape
  <2>3. CASE u = t /\ ~(PurgeSelect(t) \/ PurgeDelete(t) \/ DeleteWebhookOutboxByJobIDs(t))
    BY <1>0, <1>3, <2>3, ContinueLeavesPurge, ShapeStays
  <2>. QED
    BY <2>1, <2>2, <2>3
<1>4. CASE Tick
  <2>1. /\ thread'[u].pc = thread[u].pc /\ thread'[u].ids = thread[u].ids
        /\ thread'[u].cand = thread[u].cand
    BY <1>0, <1>4 DEF Tick, Thread
  <2>. QED
    BY <1>0, <2>1, ShapeStays
<1>5. CASE Crash
  BY <1>5 DEF Crash, Idle, PurgeShape
<1>. QED
  BY <1>1, <1>2, <1>3, <1>4, <1>5 DEF Next, Create, vars

LEMMA SpecPurge == Spec => []PurgeInvariant
<1>1. Init => PurgeInvariant
  BY DEF Init, PurgeInvariant, PurgeShape, Idle
<1>. QED
  BY <1>1, NextPurge, SpecInv, PTL DEF Spec

-----------------------------------------------------------------------------
(* An event stays in the outbox until its job is gone.                     *)
LEMMA OutboxStays ==
  ASSUME Inv, PurgeInvariant, [Next]_vars, NEW j \in Jobs, rows[j].status # "gone"
  PROVE  outbox[j] \subseteq outbox'[j]
<1>1. ASSUME NEW t \in Threads, Begin(t) \/ Maintain(t) PROVE outbox' = outbox
  BY <1>1 DEF Begin, Maintain, Heartbeat, Complete, Cancel, Release, Claim, ClaimNext,
     AdminReclaim, AdminPurge, AdminCancelAll, ListRunning, SelectOld, ListToCancel
<1>2. ASSUME NEW t \in Threads, Continue(t) PROVE outbox[j] \subseteq outbox'[j]
  <2>1. CASE NotifyJobTerminal(t)
    BY <2>1 DEF NotifyJobTerminal, Inv
  <2>2. CASE DeleteWebhookOutboxByJobIDs(t)
    <3>1. PICK i \in thread[t].ids : outbox' = [outbox EXCEPT ![i] = {}]
      BY <2>2 DEF DeleteWebhookOutboxByJobIDs
    <3>2. i # j
      BY <2>2 DEF DeleteWebhookOutboxByJobIDs, PurgeInvariant, PurgeShape
    <3>. QED
      BY <3>1, <3>2 DEF Inv
  <2>3. CASE ~(NotifyJobTerminal(t) \/ DeleteWebhookOutboxByJobIDs(t))
    BY <1>2, <2>3 DEF Continue, UpdateJob, ReclaimOne, EndScan, ListPending,
       SkipCandidate, ClaimPendingJob, NothingToClaim, HandOver, DenyAfterClaim,
       PurgeSelect, SelectOld, PurgeDelete, CancelListed, EndCancelList, ListToCancel
  <2>. QED
    BY <2>1, <2>2, <2>3
<1>. QED
  BY <1>1, <1>2 DEF Next, Create, Tick, Crash, vars

(* Only the cascade of a purge forgets events, and only of jobs whose rows *)
(* are already deleted - for every overlap of purges with anything else.   *)
THEOREM PurgeAloneForgets == Spec => OnlyPurgeForgets
<1>1. Inv /\ PurgeInvariant /\ [Next]_vars
        => [\A j \in Jobs : outbox[j] \subseteq outbox'[j] \/ rows[j].status = "gone"]_vars
  BY OutboxStays
<1>. QED
  BY <1>1, SpecInv, SpecPurge, PTL DEF Spec, OnlyPurgeForgets

-----------------------------------------------------------------------------
(* Every terminal verdict is announced, as long as no process dies.        *)

(* A goroutine about to enqueue an event stays so until it does.           *)
LEMMA NotifierStays ==
  ASSUME Inv, NEW t \in Threads, Begin(t) \/ Maintain(t) \/ Continue(t),
         NEW u \in Threads, thread[u].pc = "notify"
  PROVE  thread'[u] = thread[u] \/ NotifyJobTerminal(u)
<1>1. CASE u # t
  BY <1>1, OthersStay
<1>2. CASE u = t
  <2>1. ~Begin(t) /\ ~Maintain(t)
    BY <1>2 DEF Begin, Maintain, Heartbeat, Complete, Cancel, Release, Claim, ClaimNext,
       AdminReclaim, AdminPurge, AdminCancelAll, Request
  <2>. QED
    BY <1>2, <2>1 DEF Continue, UpdateJob, ReclaimOne, EndScan, ListPending, SkipCandidate,
       ClaimPendingJob, NothingToClaim, HandOver, DenyAfterClaim, PurgeSelect,
       PurgeDelete, DeleteWebhookOutboxByJobIDs, CancelListed, EndCancelList
<1>. QED
  BY <1>1, <1>2

(* Who writes a terminal status goes on to announce it.                    *)
LEMMA WriterNotifies ==
  ASSUME Inv, NEW t \in Threads, Continue(t), NEW j \in Jobs,
         rows'[j].status \in Terminal, rows'[j] # rows[j]
  PROVE  Notifying(j, rows[j].status)'
<1>. DEFINE th == thread[t]
<1>1. th \in Thread /\ ThreadOK(th) /\ thread \in [Threads -> Thread]
  BY DEF Inv
<1>2. CASE UpdateJob(t)
  <2>. DEFINE new == [th EXCEPT !.pc = "notify", !.event = th.buf.status, !.buf = NoRow]
  <2>1. th.job = j /\ rows'[j] = th.buf
    BY <1>1, <1>2 DEF UpdateJob, Inv
  <2>2. thread'[t] = new
    BY <1>1, <1>2, <2>1 DEF UpdateJob, AfterUpdate, Become
  <2>3. new.pc = "notify" /\ new.job = th.job /\ new.event = th.buf.status
    BY <1>1 DEF Thread
  <2>. QED
    BY <2>1, <2>2, <2>3 DEF Notifying
<1>3. CASE CancelListed(t)
  <2>1. PICK i \in Listed(th) :
          LET rest == [th EXCEPT !.snap[i] = NoRow]
          IN \/ /\ rows' = [rows EXCEPT ![i] = CancelRow(th.snap[i])]
                /\ Become(t, [rest EXCEPT !.pc = "notify", !.job = i,
                                          !.event = "cancelled", !.ret = "cancel"])
             \/ UNCHANGED rows
    BY <1>3 DEF CancelListed
  <2>. DEFINE new == [[th EXCEPT !.snap[i] = NoRow] EXCEPT !.pc = "notify", !.job = i,
                                            !.event = "cancelled", !.ret = "cancel"]
  <2>2. i = j /\ rows'[j] = CancelRow(th.snap[j]) /\ thread'[t] = new
    BY <1>1, <2>1 DEF Inv, Become
  <2>3. new.pc = "notify" /\ new.job = i /\ new.event = "cancelled"
    BY <1>1 DEF Thread
  <2>4. CancelRow(th.snap[j]).status = "cancelled"
    BY <1>1 DEF CancelRow, Thread, Row
  <2>. QED
    BY <2>2, <2>3, <2>4 DEF Notifying
<1>4. CASE ClaimPendingJob(t)
  <2>1. PICK i \in Jobs : rows' = [rows EXCEPT ![i] = ClaimRow(@, th.who)] \/ rows' = rows
    BY <1>4 DEF ClaimPendingJob
  <2>2. ClaimRow(rows[i], th.who).status = "running"
    BY DEF ClaimRow, Inv, Row
  <2>. QED
    BY <2>1, <2>2 DEF Inv, Terminal
<1>5. CASE PurgeDelete(t)
  BY <1>5 DEF PurgeDelete, NoRow, Inv, Terminal
<1>6. CASE ~(UpdateJob(t) \/ CancelListed(t) \/ ClaimPendingJob(t) \/ PurgeDelete(t))
  BY <1>6 DEF Continue, NotifyJobTerminal, ReclaimOne, EndScan, ListPending, SkipCandidate,
     NothingToClaim, HandOver, DenyAfterClaim, PurgeSelect, SelectOld,
     DeleteWebhookOutboxByJobIDs, EndCancelList, ListToCancel
<1>. QED
  BY <1>2, <1>3, <1>4, <1>5, <1>6

LEMMA NextNotified ==
  ASSUME Crashes = FALSE
  PROVE  Inv /\ PurgeInvariant /\ NotifiedOrNotifying /\ [Next]_vars
           => NotifiedOrNotifying'
<1>. DEFINE Told(j) == rows[j].status \in outbox[j] \/ Notifying(j, rows[j].status)
<1>. SUFFICES ASSUME Inv, PurgeInvariant, NotifiedOrNotifying, [Next]_vars,
                     NEW j \in Jobs, rows'[j].status \in Terminal
              PROVE  Told(j)'
  BY DEF NotifiedOrNotifying
<1>1. ASSUME rows[j].status = rows'[j].status, rows[j].status \in outbox[j]
      PROVE  Told(j)'
  BY <1>1, OutboxStays DEF Terminal
<1>2. ASSUME NEW t \in Threads, Begin(t) \/ Maintain(t) \/ Continue(t),
             rows[j].status = rows'[j].status
      PROVE  Told(j)'
  <2>1. CASE rows[j].status \in outbox[j]
    BY <1>1, <1>2, <2>1
  <2>2. CASE rows[j].status \notin outbox[j]
    <3>1. PICK u \in Threads : /\ thread[u].pc = "notify" /\ thread[u].job = j
                               /\ thread[u].event = rows[j].status
      BY <1>2, <2>2 DEF NotifiedOrNotifying, Notifying
    <3>2. CASE thread'[u] = thread[u]
      BY <1>2, <3>1, <3>2 DEF Notifying
    <3>3. CASE NotifyJobTerminal(u)
      BY <1>2, <3>1, <3>3 DEF NotifyJobTerminal, Inv
    <3>. QED
      BY <1>2, <3>1, <3>2, <3>3, NotifierStays
  <2>. QED
    BY <2>1, <2>2
<1>3. ASSUME NEW t \in Threads, Begin(t) \/ Maintain(t) PROVE rows' = rows
  BY <1>3 DEF Begin, Maintain, Heartbeat, Complete, Cancel, Release, Claim, ClaimNext,
     AdminReclaim, AdminPurge, AdminCancelAll, ListRunning, SelectOld, ListToCancel
<1>4. ASSUME NEW t \in Threads, Begin(t) \/ Maintain(t) \/ Continue(t) PROVE Told(j)'
  <2>1. CASE rows'[j] = rows[j]
    BY <1>2, <1>4, <2>1
  <2>2. CASE rows'[j] # rows[j]
    BY <1>3, <1>4, <2>2, WriterNotifies
  <2>. QED
    BY <2>1, <2>2
<1>5. ASSUME NEW i \in Jobs, Create(i) PROVE Told(j)'
  <2>1. CreateRow.status = "pending"
    BY DEF CreateRow, NoRow
  <2>2. rows'[j] = rows[j]
    BY <1>5, <2>1 DEF Create, Inv, Terminal
  <2>. QED
    BY <1>5, <2>2 DEF Create, NotifiedOrNotifying, Notifying
<1>6. CASE Tick
  <2>1. rows'[j].status = rows[j].status
    BY <1>6, OlderRowOK DEF Tick, Inv
  <2>2. \A u \in Threads : /\ thread'[u].pc = thread[u].pc /\ thread'[u].job = thread[u].job
                           /\ thread'[u].event = thread[u].event
    BY <1>6 DEF Tick, Inv, Thread
  <2>3. rows[j].status \in outbox[j] \/ Notifying(j, rows[j].status)
    BY <2>1 DEF NotifiedOrNotifying
  <2>4. outbox' = outbox
    BY <1>6 DEF Tick
  <2>. QED
    BY <2>1, <2>2, <2>3, <2>4 DEF Notifying
<1>7. CASE UNCHANGED vars
  BY <1>7 DEF vars, NotifiedOrNotifying, Notifying
<1>. QED
  BY <1>4, <1>5, <1>6, <1>7 DEF Next, Crash

(* While no process dies, the status a terminal job shows is always in the *)
(* outbox or on its way there: no order of competing completions,          *)
(* cancellations, reclaims and purges loses the event of the verdict that  *)
(* prevailed.                                                              *)
THEOREM VerdictsAnnounced ==
  ASSUME Crashes = FALSE
  PROVE  Spec => []NotifiedOrNotifying
<1>1. Init => NotifiedOrNotifying
  BY DEF Init, NotifiedOrNotifying, NoRow, Terminal
<1>. QED
  BY <1>1, NextNotified, SpecInv, SpecPurge, PTL DEF Spec
=============================================================================
