--------------------------- MODULE JobSerialProofs ---------------------------
(***************************************************************************)
(* The job queue when its operations do not overlap (JobSerial), for any   *)
(* jobs, runners and settings: what the goroutine carries is still true of *)
(* the table, so counts are exact, reclaims are justified when they are    *)
(* written, and every step is one of the documented lifecycle.             *)
(***************************************************************************)
EXTENDS JobSerial, JobOutboxProofs

(* Expired, and the verdicts of a scan, said of a row.                     *)
Overdue(r, j) == \/ Lease > 0 /\ r.hb > Lease
                 \/ EffectiveTimeout(j) > 0 /\ r.claimed > EffectiveTimeout(j)

Due(r, j, v) == /\ r.status = "running" /\ Overdue(r, j)
                /\ v = "release" => ~Exhausted(r, j)

Open == {"pending", "running"}

(* The operations that carry verdicts and listed rows from step to step.   *)
Scanning(th) == th.pc = "scan" \/ (th.pc \in {"write", "notify"} /\ th.ret = "scan")

Cancelling(th) == th.pc = "cancel" \/ (th.pc = "notify" /\ th.ret = "cancel")

(* The row about to be written follows from the row that is stored.        *)
WriteHolds(th, tab) ==
  th.pc = "write" =>
    LET r == tab[th.job] IN
    /\ r.status \in Open /\ th.buf.attempts = r.attempts
    /\ th.buf.status \in Terminal \/ (th.buf.status \in Open /\ r.status = "running")
    /\ th.ret = "scan" => /\ Overdue(r, th.job)
                          /\ th.buf.status = "pending" => ~Exhausted(r, th.job)

(* The verdicts not yet carried out would be taken again.                  *)
ScanHolds(th, tab) ==
  \A j \in Jobs : th.todo[j] # "keep" =>
    /\ Scanning(th) /\ Due(tab[j], j, th.todo[j])
    /\ th.pc = "write" => j # th.job

(* The rows not yet cancelled are as they were listed.                     *)
CancelHolds(th, tab) ==
  \A j \in Jobs : th.snap[j].status # "none" =>
    Cancelling(th) /\ tab[j].status \in Open /\ th.snap[j].attempts = tab[j].attempts

(* What a purge is about to delete is terminal.                            *)
PurgeHolds(th, tab) ==
  th.pc = "delete" => \A j \in th.cand : tab[j].status \in Terminal

(* The event about to be announced is the row's status, and the first one. *)
NotifyHolds(th, tab, box) ==
  th.pc = "notify" => tab[th.job].status = th.event /\ box[th.job] = {}

Holds(th, tab, box) ==
  /\ WriteHolds(th, tab) /\ ScanHolds(th, tab) /\ CancelHolds(th, tab)
  /\ PurgeHolds(th, tab) /\ NotifyHolds(th, tab, box)

(* A row with its history: nothing stores "dispatched", the count is that  *)
(* of the claims, and an unfinished job has been announced nowhere.        *)
Sound(r, n, told) ==
  /\ r.status # "dispatched"
  /\ r.status = "none" => n = 0 /\ r.attempts = 0
  /\ r.status \notin {"none", "gone"} => r.attempts = n
  /\ r.status \in {"none"} \cup Open => told = {}

(* The inductive invariant of the queue without overlap.                   *)
Serial == /\ \A j \in Jobs : Sound(rows[j], claims[j], outbox[j])
          /\ \A t \in Threads : Holds(thread[t], rows, outbox)

-----------------------------------------------------------------------------
(* Rows.                                                                   *)

LEMMA OneGoroutine == \A t, u \in Threads : t = u
  BY OneThread DEF Threads

(* A verdict to take a job back is justified by the row it is taken on.    *)
LEMMA VerdictDue ==
  ASSUME NEW r \in Row, StampsMatch(r), NEW j \in Jobs, NEW g \in BOOLEAN,
         Verdict(r, j, g) # "keep"
  PROVE  Due(r, j, Verdict(r, j, g))
<1>1. r.status = "running" /\ r.hb # Never /\ r.claimed # Never
  BY DEF Verdict, StampsMatch
<1>2. StartAge(r) = r.claimed /\ LeaseAge(r, g) = r.hb
  BY <1>1 DEF StartAge, LeaseAge, FirstSet
<1>3. r.hb \in Int /\ Lease \in Nat
  BY SettingsAssumption, BoundsAssumption DEF Row, Ages, Never
<1>4. CASE EffectiveTimeout(j) > 0 /\ r.claimed > EffectiveTimeout(j)
  BY <1>1, <1>2, <1>4 DEF Verdict, Due, Overdue
<1>5. CASE ~(EffectiveTimeout(j) > 0 /\ r.claimed > EffectiveTimeout(j))
  BY <1>1, <1>2, <1>3, <1>5 DEF Verdict, Due, Overdue
<1>. QED
  BY <1>4, <1>5

LEMMA TimeoutInt == \A j \in Jobs : EffectiveTimeout(j) \in Nat
  BY JobFieldsAssumption, SettingsAssumption DEF EffectiveTimeout

(* What is due stays due as time passes.                                   *)
LEMMA OlderDue ==
  ASSUME NEW r \in Row, NEW j \in Jobs
  PROVE  /\ Overdue(r, j) => Overdue(OlderRow(r), j)
         /\ Exhausted(OlderRow(r), j) <=> Exhausted(r, j)
         /\ \A v : Due(r, j, v) => Due(OlderRow(r), j, v)
<1>1. \A a \in Ages : a \in Int /\ Older(a) \in Int /\ Older(a) >= a
  BY BoundsAssumption DEF Ages, Never, Older
<1>2. r.hb \in Ages /\ r.claimed \in Ages
  BY DEF Row
<1>3. OlderRow(r).hb = Older(r.hb) /\ OlderRow(r).claimed = Older(r.claimed)
  BY DEF OlderRow, Row
<1>4. Overdue(r, j) => Overdue(OlderRow(r), j)
  BY <1>1, <1>2, <1>3, TimeoutInt, SettingsAssumption DEF Overdue
<1>5. OlderRow(r).status = r.status /\ OlderRow(r).attempts = r.attempts
  BY OlderRowOK
<1>. QED
  BY <1>4, <1>5 DEF Due, Exhausted

(* Status and count of the rows that the operations make.                  *)
LEMMA RowFields ==
  ASSUME NEW r \in Row
  PROVE  /\ HeartbeatRow(r).status = r.status /\ HeartbeatRow(r).attempts = r.attempts
         /\ \A ok \in BOOLEAN : /\ CompleteRow(r, ok).status \in Terminal
                                /\ CompleteRow(r, ok).attempts = r.attempts
         /\ CancelRow(r).status = "cancelled" /\ CancelRow(r).attempts = r.attempts
         /\ ReleaseRow(r).status = "pending" /\ ReleaseRow(r).attempts = r.attempts
         /\ FailRow(r).status = "failed" /\ FailRow(r).attempts = r.attempts
         /\ \A k : /\ ClaimRow(r, k).status = "running"
                   /\ ClaimRow(r, k).attempts = r.attempts + 1
<1>1. \A ok \in BOOLEAN : /\ CompleteRow(r, ok).status \in Terminal
                          /\ CompleteRow(r, ok).attempts = r.attempts
  BY DEF CompleteRow, Row, Terminal
<1>2. \A k : ClaimRow(r, k).status = "running" /\ ClaimRow(r, k).attempts = r.attempts + 1
  BY DEF ClaimRow, Row
<1>. QED
  BY <1>1, <1>2 DEF HeartbeatRow, CancelRow, ReleaseRow, FailRow, Row

-----------------------------------------------------------------------------
(* Goroutines.                                                             *)

(* A goroutine that carries nothing and is not about to write.             *)
LEMMA QuietHolds ==
  ASSUME NEW th, NEW tab, NEW box,
         \A j \in Jobs : th.todo[j] = "keep",
         \A j \in Jobs : th.snap[j].status = "none",
         th.pc \notin {"write", "notify"},
         th.pc = "delete" => \A j \in th.cand : tab[j].status \in Terminal
  PROVE  Holds(th, tab, box)
  BY DEF Holds, WriteHolds, ScanHolds, CancelHolds, PurgeHolds, NotifyHolds

LEMMA IdleHolds == \A tab, box : Holds(Idle, tab, box)
<1>1. /\ \A j \in Jobs : Idle.todo[j] = "keep" /\ Idle.snap[j].status = "none"
      /\ Idle.pc = "idle"
  BY DEF Idle, NoRow
<1>. QED
  BY <1>1, QuietHolds

(* Outside scans and cancel-all lists nothing is carried.                  *)
LEMMA CarriesNothing ==
  ASSUME NEW th, NEW tab, NEW box, Holds(th, tab, box)
  PROVE  /\ ~Scanning(th) => \A j \in Jobs : th.todo[j] = "keep"
         /\ ~Cancelling(th) => \A j \in Jobs : th.snap[j].status = "none"
  BY DEF Holds, ScanHolds, CancelHolds

(* A goroutine that turns to a write with a row made of the stored one.    *)
LEMMA ToWriteHolds ==
  ASSUME NEW th \in Thread, NEW tab \in [Jobs -> Row], NEW box, NEW j \in Jobs,
         NEW r \in Row, NEW ret \in {"idle", "scan", "claim", "cancel"},
         \A i \in Jobs : th.todo[i] # "keep" =>
            ret = "scan" /\ Due(tab[i], i, th.todo[i]) /\ i # j,
         \A i \in Jobs : th.snap[i].status = "none",
         tab[j].status \in Open, r.attempts = tab[j].attempts,
         r.status \in Terminal \/ (r.status \in Open /\ tab[j].status = "running"),
         ret = "scan" => /\ Overdue(tab[j], j)
                         /\ r.status = "pending" => ~Exhausted(tab[j], j)
  PROVE  Holds(ToWrite(th, j, r, ret), tab, box)
<1>. DEFINE w == ToWrite(th, j, r, ret)
<1>1. /\ w.pc = "write" /\ w.job = j /\ w.buf = r /\ w.ret = ret
      /\ w.todo = th.todo /\ w.snap = th.snap
  BY DEF ToWrite, Thread
<1>. HIDE DEF w
<1>2. WriteHolds(w, tab)
  BY <1>1 DEF WriteHolds
<1>3. ScanHolds(w, tab)
  BY <1>1 DEF ScanHolds, Scanning
<1>4. CancelHolds(w, tab) /\ PurgeHolds(w, tab) /\ NotifyHolds(w, tab, box)
  BY <1>1 DEF CancelHolds, PurgeHolds, NotifyHolds
<1>. QED
  BY <1>2, <1>3, <1>4 DEF Holds, w

(* A step of the goroutine that leaves the rest to the tables.             *)
LEMMA BecomeSerial ==
  ASSUME Inv, NEW t \in Threads, NEW th \in Thread, Become(t, th),
         Holds(th, rows', outbox'),
         \A j \in Jobs : Sound(rows'[j], claims'[j], outbox'[j])
  PROVE  Serial'
<1>1. \A u \in Threads : thread'[u] = th
  BY BecomeOK, OneGoroutine DEF Inv
<1>. QED
  BY <1>1 DEF Serial

LEMMA SameTables ==
  ASSUME Inv, Serial, NEW t \in Threads, NEW th \in Thread, Become(t, th),
         Holds(th, rows, outbox), UNCHANGED <<rows, outbox, claims>>
  PROVE  Serial'
  BY BecomeSerial DEF Serial


-----------------------------------------------------------------------------
(* Requests: what is read is carried.                                      *)

LEMMA ListRunningSerial ==
  ASSUME Inv, Serial, NEW t \in Threads, NEW op \in Ops,
         NEW k \in Runners \cup {NoRunner}, NEW one \in SUBSET Jobs,
         ListRunning(t, op, k, one)
  PROVE  Serial'
<1>. DEFINE g == op \in {"reclaimAll", "maintain"}
            td == [j \in Jobs |-> Verdict(rows[j], j, g)]
            th == [Idle EXCEPT !.pc = "scan", !.op = op, !.who = k, !.cand = one,
                               !.todo = td]
<1>1. td \in [Jobs -> Verdicts]
  BY VerdictOK
<1>2. \A j \in Jobs : td[j] # "keep" => Due(rows[j], j, td[j])
  <2>. SUFFICES ASSUME NEW j \in Jobs, Verdict(rows[j], j, g) # "keep"
                PROVE  Due(rows[j], j, Verdict(rows[j], j, g))
    OBVIOUS
  <2>1. rows[j] \in Row /\ StampsMatch(rows[j]) /\ g \in BOOLEAN
    BY DEF Inv
  <2>. QED
    BY <2>1, VerdictDue
<1>3. Become(t, th) /\ UNCHANGED <<rows, outbox, claims>>
  BY DEF ListRunning
<1>. HIDE DEF td
<1>4. th \in Thread /\ th.pc = "scan" /\ th.todo = td /\ th.snap = Idle.snap
  BY <1>1, IdleOK DEF ThreadOK, Thread, Pcs
<1>5. \A j \in Jobs : th.snap[j].status = "none"
  BY <1>4 DEF Idle, NoRow
<1>. HIDE DEF th
<1>6. Holds(th, rows, outbox)
  BY <1>2, <1>4, <1>5
     DEF Holds, WriteHolds, ScanHolds, CancelHolds, PurgeHolds, NotifyHolds, Scanning
<1>. QED
  BY <1>3, <1>4, <1>6, SameTables

LEMMA SelectOldSerial ==
  ASSUME Inv, Serial, NEW t \in Threads, NEW th \in Thread, NEW age,
         SelectOld(t, th, age),
         \A j \in Jobs : th.todo[j] = "keep" /\ th.snap[j].status = "none"
  PROVE  Serial'
<1>. DEFINE old == {j \in Jobs : rows[j].status \in Terminal /\ rows[j].updated > age}
            new == [th EXCEPT !.pc = "delete", !.cand = old, !.ids = old]
<1>1. /\ Become(t, IF old = {} THEN Idle ELSE new) /\ UNCHANGED <<rows, outbox, claims>>
      /\ old \in SUBSET Jobs /\ \A j \in old : rows[j].status \in Terminal
  BY DEF SelectOld
<1>. HIDE DEF old
<1>2. /\ new \in Thread /\ new.pc = "delete" /\ new.cand = old
      /\ new.todo = th.todo /\ new.snap = th.snap
  BY <1>1 DEF Thread, Pcs
<1>. HIDE DEF new
<1>3. Holds(new, rows, outbox)
  BY <1>1, <1>2, QuietHolds
<1>. QED
  BY <1>1, <1>2, <1>3, IdleHolds, IdleOK, SameTables DEF ThreadOK

LEMMA ListToCancelSerial ==
  ASSUME Inv, Serial, NEW t \in Threads, NEW op \in Ops, NEW st \in Open,
         ListToCancel(t, op, st)
  PROVE  Serial'
<1>. DEFINE sn == [j \in Jobs |-> IF rows[j].status = st THEN rows[j] ELSE NoRow]
            th == [Idle EXCEPT !.pc = "cancel", !.op = op, !.snap = sn]
<1>1. /\ sn \in [Jobs -> Row]
      /\ \A j \in Jobs : sn[j].status # "none" => sn[j] = rows[j] /\ rows[j].status \in Open
  BY NoRowOK DEF Inv, NoRow
<1>2. Become(t, th) /\ UNCHANGED <<rows, outbox, claims>>
  BY DEF ListToCancel
<1>. HIDE DEF sn
<1>3. th \in Thread /\ th.pc = "cancel" /\ th.todo = Idle.todo /\ th.snap = sn
  BY <1>1, IdleOK DEF ThreadOK, Thread, Pcs
<1>4. \A j \in Jobs : th.todo[j] = "keep"
  BY <1>3 DEF Idle
<1>. HIDE DEF th
<1>5. Holds(th, rows, outbox)
  BY <1>1, <1>3, <1>4
     DEF Holds, WriteHolds, ScanHolds, CancelHolds, PurgeHolds, NotifyHolds, Cancelling
<1>. QED
  BY <1>2, <1>3, <1>5, SameTables

LEMMA IdleToWrite ==
  ASSUME Inv, Serial, NEW t \in Threads, NEW j \in Jobs, NEW r \in Row, StampsMatch(r),
         Become(t, ToWrite(Idle, j, r, "idle")), UNCHANGED <<rows, outbox, claims>>,
         rows[j].status \in Open, r.attempts = rows[j].attempts,
         r.status \in Terminal \/ (r.status \in Open /\ rows[j].status = "running")
  PROVE  Serial'
<1>1. /\ \A i \in Jobs : Idle.todo[i] = "keep" /\ Idle.snap[i].status = "none"
      /\ Idle \in Thread /\ rows \in [Jobs -> Row]
  BY IdleOK DEF Idle, NoRow, ThreadOK, Inv
<1>2. Holds(ToWrite(Idle, j, r, "idle"), rows, outbox)
  BY <1>1, ToWriteHolds
<1>3. ToWrite(Idle, j, r, "idle") \in Thread
  BY IdleOK, ToWriteOK DEF ThreadOK
<1>. QED
  BY <1>2, <1>3, SameTables

(* An unfinished row is pending or running.                                *)
LEMMA UnfinishedOpen ==
  ASSUME Inv, Serial, NEW j \in Jobs
  PROVE  /\ Unfinished(j) => rows[j].status \in Open
         /\ Releasable(j) => rows[j].status = "running"
         /\ rows[j].status \in Claimable => rows[j].status = "pending"
  BY DEF Inv, Row, Statuses, Serial, Sound, Unfinished, Present, Releasable, Claimable,
     Terminal, Open

LEMMA BeginSerial ==
  ASSUME Inv, Serial, NEW t \in Threads, Begin(t) \/ Maintain(t)
  PROVE  Serial'
<1>0. \A j \in Jobs : rows[j] \in Row /\ StampsMatch(rows[j])
  BY DEF Inv
<1>1. ASSUME NEW j \in Jobs, Heartbeat(t, j) PROVE Serial'
  BY <1>0, <1>1, IdleToWrite, RowFields, HeartbeatRowOK DEF Heartbeat, Open
<1>2. ASSUME NEW j \in Jobs, NEW ok \in BOOLEAN, Complete(t, j, ok) PROVE Serial'
  BY <1>0, <1>2, IdleToWrite, RowFields, CompleteRowOK, UnfinishedOpen DEF Complete
<1>3. ASSUME NEW j \in Jobs, Cancel(t, j) PROVE Serial'
  <2>1. /\ CancelRow(rows[j]) \in Row /\ StampsMatch(CancelRow(rows[j]))
        /\ CancelRow(rows[j]).status \in Terminal
        /\ CancelRow(rows[j]).attempts = rows[j].attempts
    BY <1>0, RowFields, EndRowOK DEF Terminal
  <2>. QED
    BY <1>3, <2>1, IdleToWrite, UnfinishedOpen DEF Cancel
<1>4. ASSUME NEW j \in Jobs, Release(t, j) PROVE Serial'
  <2>1. /\ ReleaseRow(rows[j]) \in Row /\ StampsMatch(ReleaseRow(rows[j]))
        /\ ReleaseRow(rows[j]).status \in Open
        /\ ReleaseRow(rows[j]).attempts = rows[j].attempts
    BY <1>0, RowFields, EndRowOK DEF Open
  <2>2. rows[j].status = "running" /\ rows[j].status \in Open
    BY <1>4, UnfinishedOpen DEF Release, Open
  <2>. QED
    BY <1>4, <2>1, <2>2, IdleToWrite DEF Release
<1>5. ASSUME NEW j \in Jobs, NEW k \in Runners, Claim(t, j, k) PROVE Serial'
  BY <1>5, ListRunningSerial DEF Claim, Ops
<1>6. ASSUME NEW k \in Runners, ClaimNext(t, k) PROVE Serial'
  BY <1>6, ListRunningSerial DEF ClaimNext, Ops
<1>7. ASSUME NEW op \in {"reclaim", "reclaimAll"}, AdminReclaim(t, op) PROVE Serial'
  BY <1>7, ListRunningSerial DEF AdminReclaim, Ops
<1>8. ASSUME Maintain(t) PROVE Serial'
  BY <1>8, ListRunningSerial DEF Maintain, Ops
<1>9. ASSUME NEW older \in 1..(MaxAge - 1), AdminPurge(t, older) PROVE Serial'
  <2>. DEFINE th == [Idle EXCEPT !.op = "purge"]
  <2>1. /\ th \in Thread /\ th.todo = Idle.todo /\ th.snap = Idle.snap
        /\ \A j \in Jobs : Idle.todo[j] = "keep" /\ Idle.snap[j].status = "none"
    BY IdleOK DEF ThreadOK, Thread, Ops, Idle, NoRow
  <2>2. SelectOld(t, th, older)
    BY <1>9 DEF AdminPurge
  <2>. HIDE DEF th
  <2>. QED
    BY <2>1, <2>2, SelectOldSerial
<1>10. ASSUME NEW op \in {"cancelAll", "cancelPending", "cancelRunning"}, AdminCancelAll(t, op)
       PROVE  Serial'
  <2>1. op \in Ops /\ \E st \in Open : ListToCancel(t, op, st)
    BY <1>10 DEF AdminCancelAll, Ops, Open
  <2>. QED
    BY <2>1, ListToCancelSerial
<1>. QED
  BY <1>1, <1>2, <1>3, <1>4, <1>5, <1>6, <1>7, <1>8, <1>9, <1>10 DEF Begin


-----------------------------------------------------------------------------
(* Writes.                                                                 *)

(* Going on after a write or an announcement: what the goroutine carries   *)
(* is about other rows.                                                    *)
LEMMA ResumeHolds ==
  ASSUME NEW th \in Thread, NEW tab, NEW box, NEW newtab, NEW newbox,
         Holds(th, tab, box), th.pc \in {"write", "notify"},
         \A i \in Jobs : i # th.job => newtab[i] = tab[i],
         th.pc = "notify" => newtab = tab
  PROVE  Holds(Resume(th), newtab, newbox)
<1>1. CASE th.ret = "idle"
  BY <1>1, IdleHolds DEF Resume
<1>2. CASE th.ret # "idle"
  <2>. DEFINE rs == [th EXCEPT !.pc = th.ret, !.job = NoJob, !.buf = NoRow,
                               !.event = "none", !.ret = "idle"]
  <2>1. /\ rs.pc = th.ret /\ rs.todo = th.todo /\ rs.snap = th.snap
        /\ th.ret \in {"scan", "claim", "cancel"}
    BY <1>2 DEF Thread
  <2>2. Resume(th) = rs
    BY <1>2 DEF Resume
  <2>. HIDE DEF rs
  <2>3. ScanHolds(rs, newtab)
    BY <2>1 DEF Holds, ScanHolds, Scanning
  <2>4. CancelHolds(rs, newtab)
    BY <2>1 DEF Holds, CancelHolds, Cancelling
  <2>5. WriteHolds(rs, newtab) /\ PurgeHolds(rs, newtab) /\ NotifyHolds(rs, newtab, newbox)
    BY <2>1 DEF WriteHolds, PurgeHolds, NotifyHolds
  <2>. QED
    BY <2>2, <2>3, <2>4, <2>5 DEF Holds
<1>. QED
  BY <1>1, <1>2

(* What UpdateJob finds and leaves: the row is there still.                *)
LEMMA UpdateJobFinds ==
  ASSUME Inv, Serial, NEW t \in Threads, UpdateJob(t)
  PROVE  LET th == thread[t]  j == th.job IN
         /\ th \in Thread /\ ThreadOK(th) /\ Holds(th, rows, outbox)
         /\ th.pc = "write" /\ j \in Jobs /\ rows[j].status \in Open
         /\ th.buf \in Row /\ th.buf.attempts = rows[j].attempts
         /\ \/ th.buf.status \in Terminal
            \/ th.buf.status \in Open /\ rows[j].status = "running"
         /\ rows' = [rows EXCEPT ![j] = th.buf] /\ Become(t, AfterUpdate(th))
         /\ UNCHANGED <<outbox, claims>>
<1>. DEFINE th == thread[t]  j == th.job
<1>1. /\ th \in Thread /\ ThreadOK(th) /\ Holds(th, rows, outbox) /\ th.pc = "write"
      /\ j \in Jobs /\ th.buf \in Row
  BY DEF Inv, Serial, ThreadOK, Thread, UpdateJob
<1>2. /\ rows[j].status \in Open /\ th.buf.attempts = rows[j].attempts
      /\ th.buf.status \in Terminal \/ (th.buf.status \in Open /\ rows[j].status = "running")
  BY <1>1 DEF Holds, WriteHolds
<1>3. Present(j)
  BY <1>2 DEF Present, Open
<1>. QED
  BY <1>1, <1>2, <1>3 DEF UpdateJob

LEMMA UpdateJobSerial ==
  ASSUME Inv, Serial, NEW t \in Threads, UpdateJob(t)
  PROVE  Serial'
<1>. DEFINE th == thread[t]  j == th.job
<1>1. /\ th \in Thread /\ ThreadOK(th) /\ Holds(th, rows, outbox)
      /\ th.pc = "write" /\ j \in Jobs /\ rows[j].status \in Open
      /\ th.buf \in Row /\ th.buf.attempts = rows[j].attempts
      /\ \/ th.buf.status \in Terminal
         \/ th.buf.status \in Open /\ rows[j].status = "running"
      /\ rows' = [rows EXCEPT ![j] = th.buf] /\ Become(t, AfterUpdate(th))
      /\ UNCHANGED <<outbox, claims>>
  BY UpdateJobFinds
<1>2. /\ rows'[j] = th.buf
      /\ \A i \in Jobs : i # j => rows'[i] = rows[i]
  BY <1>1 DEF Inv
<1>3. Sound(rows[j], claims[j], outbox[j]) /\ \A i \in Jobs : Sound(rows[i], claims[i], outbox[i])
  BY <1>1 DEF Serial
<1>4. rows[j].attempts = claims[j] /\ outbox[j] = {}
  BY <1>1, <1>3 DEF Sound, Open
<1>5. Sound(th.buf, claims[j], outbox[j])
  BY <1>1, <1>4 DEF Sound, Open, Terminal
<1>6. \A i \in Jobs : Sound(rows'[i], claims'[i], outbox'[i])
  BY <1>1, <1>2, <1>3, <1>5
<1>7. AfterUpdate(th) \in Thread /\ Holds(AfterUpdate(th), rows', outbox')
  <2>1. CASE th.buf.status \in Terminal
    <3>. DEFINE nt == [th EXCEPT !.pc = "notify", !.event = th.buf.status, !.buf = NoRow]
    <3>1. /\ nt \in Thread /\ nt.pc = "notify" /\ nt.event = th.buf.status
          /\ nt.job = j /\ nt.ret = th.ret /\ nt.todo = th.todo /\ nt.snap = th.snap
      BY <1>1, <2>1, NoRowOK DEF Thread, Pcs
    <3>2. AfterUpdate(th) = nt
      BY <2>1 DEF AfterUpdate
    <3>. HIDE DEF nt
    <3>3. ScanHolds(nt, rows')
      BY <1>1, <1>2, <3>1 DEF Holds, ScanHolds, Scanning
    <3>4. CancelHolds(nt, rows')
      BY <1>1, <3>1 DEF Holds, CancelHolds, Cancelling
    <3>5. NotifyHolds(nt, rows', outbox')
      BY <1>1, <1>2, <1>4, <3>1 DEF NotifyHolds
    <3>6. WriteHolds(nt, rows') /\ PurgeHolds(nt, rows')
      BY <3>1 DEF WriteHolds, PurgeHolds
    <3>. QED
      BY <3>1, <3>2, <3>3, <3>4, <3>5, <3>6 DEF Holds
  <2>2. CASE th.buf.status \notin Terminal
    <3>1. AfterUpdate(th) = Resume(th) /\ Resume(th) \in Thread
      BY <1>1, <2>2, ResumeOK DEF AfterUpdate, ThreadOK
    <3>2. Holds(Resume(th), rows', outbox')
      BY <1>1, <1>2, ResumeHolds
    <3>. QED
      BY <3>1, <3>2
  <2>. QED
    BY <2>1, <2>2
<1>. QED
  BY <1>1, <1>6, <1>7, BecomeSerial

LEMMA NotifySerial ==
  ASSUME Inv, Serial, NEW t \in Threads, NotifyJobTerminal(t)
  PROVE  Serial'
<1>. DEFINE th == thread[t]  j == th.job
<1>1. /\ th \in Thread /\ ThreadOK(th) /\ Holds(th, rows, outbox) /\ th.pc = "notify"
      /\ j \in Jobs /\ th.event \in Terminal /\ Become(t, Resume(th))
      /\ outbox' = [outbox EXCEPT ![j] = @ \cup {th.event}] /\ UNCHANGED <<rows, claims>>
  BY DEF Inv, Serial, ThreadOK, NotifyJobTerminal
<1>2. rows[j].status \in Terminal
  BY <1>1 DEF Holds, NotifyHolds
<1>3. \A i \in Jobs : i # j => outbox'[i] = outbox[i]
  BY <1>1 DEF Inv
<1>4. \A i \in Jobs : Sound(rows'[i], claims'[i], outbox'[i])
  BY <1>1, <1>2, <1>3 DEF Serial, Sound, Terminal, Open
<1>5. Resume(th) \in Thread /\ Holds(Resume(th), rows', outbox')
  BY <1>1, ResumeOK, ResumeHolds DEF ThreadOK
<1>. QED
  BY <1>1, <1>4, <1>5, BecomeSerial


-----------------------------------------------------------------------------
(* Scans and claims.                                                       *)

LEMMA ReclaimOneSerial ==
  ASSUME Inv, Serial, NEW t \in Threads, ReclaimOne(t)
  PROVE  Serial'
<1>. DEFINE th == thread[t]
<1>1. th \in Thread /\ ThreadOK(th) /\ Holds(th, rows, outbox) /\ th.pc = "scan"
      /\ rows \in [Jobs -> Row] /\ UNCHANGED <<rows, outbox, claims>>
  BY DEF Inv, Serial, ReclaimOne
<1>2. PICK j \in Stale(th) :
        LET rest == [th EXCEPT !.todo[j] = "keep"]
        IN Become(t, CASE th.todo[j] = "release" /\ Releasable(j)
                               -> ToWrite(rest, j, ReleaseRow(rows[j]), "scan")
                       [] th.todo[j] # "release" /\ rows[j].status = "running"
                               -> ToWrite(rest, j, FailRow(rows[j]), "scan")
                       [] OTHER -> rest)
  BY DEF ReclaimOne
<1>. DEFINE td == [th.todo EXCEPT ![j] = "keep"]
            rest == [th EXCEPT !.todo = td]
<1>3. j \in Jobs /\ Due(rows[j], j, th.todo[j]) /\ rows[j] \in Row
  BY <1>1 DEF Stale, Holds, ScanHolds
<1>4. /\ td \in [Jobs -> Verdicts] /\ td[j] = "keep"
      /\ \A i \in Jobs : i # j => td[i] = th.todo[i]
  BY <1>1, <1>3 DEF Thread, Verdicts
<1>5. Become(t, CASE th.todo[j] = "release" /\ Releasable(j)
                               -> ToWrite(rest, j, ReleaseRow(rows[j]), "scan")
                  [] th.todo[j] # "release" /\ rows[j].status = "running"
                               -> ToWrite(rest, j, FailRow(rows[j]), "scan")
                  [] OTHER -> rest)
  BY <1>2
<1>. HIDE DEF td
<1>6. /\ rest \in Thread /\ rest.pc = "scan" /\ rest.todo = td /\ rest.snap = th.snap
      /\ rest.buf = th.buf
  BY <1>1, <1>4 DEF Thread
<1>. HIDE DEF rest
<1>7. ThreadOK(rest)
  BY <1>1, <1>6 DEF ThreadOK
<1>8. \A i \in Jobs : td[i] # "keep" => i # j /\ Due(rows[i], i, td[i])
  BY <1>1, <1>4 DEF Holds, ScanHolds
<1>9. \A i \in Jobs : th.snap[i].status = "none"
  BY <1>1, CarriesNothing DEF Cancelling
<1>10. rows[j].status = "running" /\ Overdue(rows[j], j)
  BY <1>3 DEF Due
<1>11. /\ ReleaseRow(rows[j]) \in Row /\ StampsMatch(ReleaseRow(rows[j]))
       /\ ReleaseRow(rows[j]).attempts = rows[j].attempts
       /\ ReleaseRow(rows[j]).status = "pending"
       /\ FailRow(rows[j]) \in Row /\ StampsMatch(FailRow(rows[j]))
       /\ FailRow(rows[j]).attempts = rows[j].attempts
       /\ FailRow(rows[j]).status = "failed"
  <2>1. ASSUME NEW r \in Row
        PROVE  /\ ReleaseRow(r) \in Row /\ StampsMatch(ReleaseRow(r))
               /\ FailRow(r) \in Row /\ StampsMatch(FailRow(r))
    BY EndRowOK
  <2>2. ASSUME NEW r \in Row
        PROVE  /\ ReleaseRow(r).status = "pending" /\ ReleaseRow(r).attempts = r.attempts
               /\ FailRow(r).status = "failed" /\ FailRow(r).attempts = r.attempts
    BY RowFields
  <2>. QED
    BY <1>3, <2>1, <2>2
<1>12. CASE th.todo[j] = "release"
  <2>. DEFINE new == ToWrite(rest, j, ReleaseRow(rows[j]), "scan")
  <2>1. Become(t, new)
    BY <1>5, <1>10, <1>12 DEF Releasable
  <2>2. ~Exhausted(rows[j], j)
    BY <1>3, <1>12 DEF Due
  <2>3. new \in Thread
    BY <1>3, <1>7, <1>11, ToWriteOK DEF ThreadOK
  <2>4. Holds(new, rows, outbox)
    BY <1>1, <1>3, <1>6, <1>8, <1>9, <1>10, <1>11, <2>2, ToWriteHolds DEF Open
  <2>. QED
    BY <1>1, <2>1, <2>3, <2>4, SameTables
<1>13. CASE th.todo[j] # "release"
  <2>. DEFINE new == ToWrite(rest, j, FailRow(rows[j]), "scan")
  <2>1. Become(t, new)
    BY <1>5, <1>10, <1>13
  <2>2. new \in Thread
    BY <1>3, <1>7, <1>11, ToWriteOK DEF ThreadOK
  <2>3. "failed" \in Terminal /\ "failed" # "pending" /\ "running" \in Open
    BY DEF Terminal, Open
  <2>4. Holds(new, rows, outbox)
    BY <1>1, <1>3, <1>6, <1>8, <1>9, <1>10, <1>11, <2>3, ToWriteHolds
  <2>. QED
    BY <1>1, <2>1, <2>2, <2>4, SameTables
<1>. QED
  BY <1>12, <1>13

(* Steps of a goroutine that carries nothing, to one that does neither.    *)
LEMMA QuietSerial ==
  ASSUME Inv, Serial, NEW t \in Threads, NEW new \in Thread, Become(t, new),
         \A j \in Jobs : new.todo[j] = "keep" /\ new.snap[j].status = "none",
         new.pc \notin {"write", "notify", "delete"},
         UNCHANGED <<rows, outbox, claims>>
  PROVE  Serial'
  BY QuietHolds, SameTables

LEMMA EndScanSerial ==
  ASSUME Inv, Serial, NEW t \in Threads, EndScan(t)
  PROVE  Serial'
<1>. DEFINE th == thread[t]
<1>1. /\ th \in Thread /\ Holds(th, rows, outbox) /\ th.pc = "scan"
      /\ UNCHANGED <<rows, outbox, claims>>
      /\ \A j \in Jobs : th.todo[j] = "keep"
  BY DEF Inv, Serial, EndScan, Stale
<1>2. \A j \in Jobs : th.snap[j].status = "none"
  BY <1>1, CarriesNothing DEF Cancelling
<1>3. ASSUME NEW pc \in {"list", "claim", "select"}, Become(t, [th EXCEPT !.pc = pc])
      PROVE  Serial'
  <2>. DEFINE new == [th EXCEPT !.pc = pc]
  <2>1. new \in Thread /\ new.pc = pc /\ new.todo = th.todo /\ new.snap = th.snap
    BY <1>1, <1>3 DEF Thread, Pcs
  <2>2. Become(t, new)
    BY <1>3
  <2>. HIDE DEF new
  <2>. QED
    BY <1>1, <1>2, <1>3, <2>1, <2>2, QuietSerial
<1>4. ASSUME Become(t, Idle) PROVE Serial'
  BY <1>4, IdleHolds, IdleOK, SameTables DEF ThreadOK, EndScan
<1>. QED
  BY <1>3, <1>4 DEF EndScan

LEMMA ClaimSerial ==
  ASSUME Inv, Serial, NEW t \in Threads,
         \/ ListPending(t) \/ SkipCandidate(t) \/ NothingToClaim(t)
         \/ HandOver(t) \/ DenyAfterClaim(t)
  PROVE  Serial'
<1>. DEFINE th == thread[t]
<1>1. /\ th \in Thread /\ ThreadOK(th) /\ Holds(th, rows, outbox) /\ rows \in [Jobs -> Row]
      /\ th.pc \in {"list", "claim", "recheck"} /\ UNCHANGED <<rows, outbox, claims>>
  BY DEF Inv, Serial, ListPending, SkipCandidate, NothingToClaim, HandOver, DenyAfterClaim
<1>2. \A j \in Jobs : th.todo[j] = "keep" /\ th.snap[j].status = "none"
  BY <1>1, CarriesNothing DEF Cancelling, Scanning
<1>3. ASSUME NEW S \in SUBSET Jobs, Become(t, [th EXCEPT !.pc = "claim", !.cand = S])
      PROVE  Serial'
  <2>. DEFINE new == [th EXCEPT !.pc = "claim", !.cand = S]
  <2>1. new \in Thread /\ new.pc = "claim" /\ new.todo = th.todo /\ new.snap = th.snap
    BY <1>1 DEF Thread, Pcs
  <2>2. Become(t, new)
    BY <1>3
  <2>. HIDE DEF new
  <2>. QED
    BY <1>1, <1>2, <2>1, <2>2, QuietSerial
<1>4. CASE ListPending(t)
  <2>. DEFINE S == {j \in Jobs : rows[j].status \in Claimable}
  <2>1. S \in SUBSET Jobs /\ Become(t, [th EXCEPT !.pc = "claim", !.cand = S])
    BY <1>4 DEF ListPending
  <2>. HIDE DEF S
  <2>. QED
    BY <1>3, <2>1
<1>5. CASE SkipCandidate(t)
  <2>1. PICK j \in Jobs : Become(t, [th EXCEPT !.cand = @ \ {j}])
    BY <1>5 DEF SkipCandidate
  <2>. DEFINE new == [th EXCEPT !.cand = @ \ {j}]
  <2>2. new \in Thread /\ new.pc = "claim" /\ new.todo = th.todo /\ new.snap = th.snap
    BY <1>1, <1>5 DEF Thread, SkipCandidate
  <2>3. Become(t, new)
    BY <2>1
  <2>. HIDE DEF new
  <2>. QED
    BY <1>1, <1>2, <2>2, <2>3, QuietSerial
<1>6. ASSUME Become(t, Idle) PROVE Serial'
  BY <1>1, <1>6, IdleHolds, IdleOK, SameTables DEF ThreadOK
<1>7. CASE DenyAfterClaim(t) /\ Releasable(th.job)
  <2>. DEFINE j == th.job
              ret == IF th.op = "claimNext" THEN "claim" ELSE "idle"
              new == ToWrite(th, j, ReleaseRow(rows[j]), ret)
  <2>1. j \in Jobs /\ rows[j] \in Row /\ ret \in {"claim", "idle"} /\ Become(t, new)
    BY <1>1, <1>7 DEF DenyAfterClaim, ThreadOK
  <2>2. rows[j].status = "running" /\ rows[j].status \in Open
    BY <1>7, <2>1, UnfinishedOpen DEF Open
  <2>3. /\ ReleaseRow(rows[j]) \in Row /\ StampsMatch(ReleaseRow(rows[j]))
        /\ ReleaseRow(rows[j]).status \in Open
        /\ ReleaseRow(rows[j]).attempts = rows[j].attempts
    BY <2>1, RowFields, EndRowOK DEF Open
  <2>. HIDE DEF ret
  <2>4. new \in Thread
    BY <1>1, <2>1, <2>3, ToWriteOK DEF ThreadOK
  <2>5. ret # "scan" /\ ret \in {"idle", "scan", "claim", "cancel"}
    BY <2>1
  <2>6. Holds(new, rows, outbox)
    BY <1>1, <1>2, <2>1, <2>2, <2>3, <2>5, ToWriteHolds
  <2>. QED
    BY <1>1, <2>1, <2>4, <2>6, SameTables
<1>. QED
  BY <1>4, <1>5, <1>6, <1>7 DEF NothingToClaim, HandOver, DenyAfterClaim

LEMMA ClaimPendingSerial ==
  ASSUME Inv, Serial, NEW t \in Threads, ClaimPendingJob(t)
  PROVE  Serial'
<1>. DEFINE th == thread[t]
<1>1. /\ th \in Thread /\ Holds(th, rows, outbox) /\ th.pc = "claim" /\ outbox' = outbox
  BY DEF Inv, Serial, ClaimPendingJob
<1>2. \A i \in Jobs : th.todo[i] = "keep" /\ th.snap[i].status = "none"
  BY <1>1, CarriesNothing DEF Cancelling, Scanning
<1>3. PICK j \in Jobs :
        \/ /\ rows[j].status \in Claimable
           /\ rows' = [rows EXCEPT ![j] = ClaimRow(@, th.who)]
           /\ claims' = [claims EXCEPT ![j] = @ + 1]
           /\ Become(t, [th EXCEPT !.pc = "recheck", !.job = j, !.cand = @ \ {j}])
        \/ /\ Become(t, [th EXCEPT !.cand = @ \ {j}])
           /\ UNCHANGED <<rows, claims>>
  BY DEF ClaimPendingJob
<1>4. CASE /\ rows[j].status \in Claimable
           /\ rows' = [rows EXCEPT ![j] = ClaimRow(@, th.who)]
           /\ claims' = [claims EXCEPT ![j] = @ + 1]
           /\ Become(t, [th EXCEPT !.pc = "recheck", !.job = j, !.cand = @ \ {j}])
  <2>. DEFINE new == [th EXCEPT !.pc = "recheck", !.job = j, !.cand = @ \ {j}]
  <2>1. new \in Thread /\ new.pc = "recheck" /\ new.todo = th.todo /\ new.snap = th.snap
    BY <1>1 DEF Thread, Pcs
  <2>2. Become(t, new)
    BY <1>4
  <2>. HIDE DEF new
  <2>3. /\ rows[j] \in Row /\ rows'[j] = ClaimRow(rows[j], th.who)
        /\ claims'[j] = claims[j] + 1
        /\ \A i \in Jobs : i # j => rows'[i] = rows[i] /\ claims'[i] = claims[i]
    BY <1>4 DEF Inv
  <2>4. rows'[j].status = "running" /\ rows'[j].attempts = rows[j].attempts + 1
    BY <2>3, RowFields
  <2>5. rows[j].status = "pending" /\ Sound(rows[j], claims[j], outbox[j])
    BY <1>4, UnfinishedOpen DEF Serial
  <2>6. rows[j].attempts = claims[j] /\ outbox[j] = {}
    BY <2>5 DEF Sound, Open
  <2>7. Sound(rows'[j], claims'[j], outbox'[j])
    BY <1>1, <2>3, <2>4, <2>6 DEF Sound
  <2>8. \A i \in Jobs : Sound(rows'[i], claims'[i], outbox'[i])
    BY <1>1, <2>3, <2>7 DEF Serial
  <2>9. Holds(new, rows', outbox')
    BY <1>2, <2>1, QuietHolds
  <2>. QED
    BY <2>1, <2>2, <2>8, <2>9, BecomeSerial
<1>5. CASE Become(t, [th EXCEPT !.cand = @ \ {j}]) /\ UNCHANGED <<rows, claims>>
  <2>. DEFINE new == [th EXCEPT !.cand = @ \ {j}]
  <2>1. new \in Thread /\ new.pc = "claim" /\ new.todo = th.todo /\ new.snap = th.snap
    BY <1>1 DEF Thread
  <2>2. Become(t, new)
    BY <1>5
  <2>. HIDE DEF new
  <2>. QED
    BY <1>1, <1>2, <1>5, <2>1, <2>2, QuietSerial
<1>. QED
  BY <1>3, <1>4, <1>5


-----------------------------------------------------------------------------
(* Purges, cancel-all lists, and the environment.                          *)

LEMMA PurgeDeleteSerial ==
  ASSUME Inv, Serial, NEW t \in Threads, PurgeDelete(t)
  PROVE  Serial'
<1>. DEFINE th == thread[t]
<1>1. /\ th \in Thread /\ Holds(th, rows, outbox) /\ th.pc = "delete"
      /\ th.cand \subseteq Jobs /\ UNCHANGED <<outbox, claims>>
  BY DEF Inv, Serial, PurgeDelete, Thread
<1>2. \A i \in Jobs : th.todo[i] = "keep" /\ th.snap[i].status = "none"
  BY <1>1, CarriesNothing DEF Cancelling, Scanning
<1>3. PICK j \in th.cand :
        /\ rows' = [rows EXCEPT ![j] = [NoRow EXCEPT !.status = "gone"]]
        /\ Become(t, [th EXCEPT !.cand = @ \ {j},
                                !.pc = IF th.cand = {j} THEN "cascade" ELSE @])
  BY DEF PurgeDelete
<1>. DEFINE pc2 == IF th.cand = {j} THEN "cascade" ELSE th.pc
            new == [th EXCEPT !.cand = @ \ {j}, !.pc = pc2]
<1>4. pc2 \in {"delete", "cascade"} /\ Become(t, new)
  BY <1>1, <1>3
<1>. HIDE DEF pc2
<1>5. /\ new \in Thread /\ new.pc = pc2 /\ new.cand = th.cand \ {j}
      /\ new.todo = th.todo /\ new.snap = th.snap
  BY <1>1, <1>4 DEF Thread, Pcs
<1>. HIDE DEF new
<1>6. /\ j \in Jobs /\ rows'[j].status = "gone"
      /\ \A i \in Jobs : i # j => rows'[i] = rows[i]
  BY <1>1, <1>3 DEF Inv, NoRow
<1>7. \A i \in new.cand : rows'[i].status \in Terminal
  BY <1>1, <1>5, <1>6 DEF Holds, PurgeHolds
<1>8. Holds(new, rows', outbox')
  BY <1>2, <1>4, <1>5, <1>7, QuietHolds
<1>9. \A i \in Jobs : Sound(rows'[i], claims'[i], outbox'[i])
  BY <1>1, <1>6 DEF Serial, Sound, Open
<1>. QED
  BY <1>4, <1>5, <1>8, <1>9, BecomeSerial

LEMMA CascadeSerial ==
  ASSUME Inv, Serial, NEW t \in Threads, DeleteWebhookOutboxByJobIDs(t)
  PROVE  Serial'
<1>. DEFINE th == thread[t]
<1>1. /\ th \in Thread /\ Holds(th, rows, outbox) /\ th.pc = "cascade"
      /\ th.ids \subseteq Jobs /\ UNCHANGED <<rows, claims>>
  BY DEF Inv, Serial, DeleteWebhookOutboxByJobIDs, Thread
<1>2. \A i \in Jobs : th.todo[i] = "keep" /\ th.snap[i].status = "none"
  BY <1>1, CarriesNothing DEF Cancelling, Scanning
<1>3. PICK j \in th.ids :
        /\ outbox' = [outbox EXCEPT ![j] = {}]
        /\ Become(t, IF th.ids = {j} THEN Idle ELSE [th EXCEPT !.ids = @ \ {j}])
  BY DEF DeleteWebhookOutboxByJobIDs
<1>. DEFINE new == [th EXCEPT !.ids = @ \ {j}]
<1>4. new \in Thread /\ new.pc = "cascade" /\ new.todo = th.todo /\ new.snap = th.snap
  BY <1>1 DEF Thread
<1>5. Become(t, Idle) \/ Become(t, new)
  BY <1>3
<1>. HIDE DEF new
<1>6. Holds(new, rows', outbox') /\ Holds(Idle, rows', outbox') /\ Idle \in Thread
  BY <1>2, <1>4, QuietHolds, IdleHolds, IdleOK DEF ThreadOK
<1>7. \A i \in Jobs : outbox'[i] \in {outbox[i], {}}
  BY <1>1, <1>3 DEF Inv
<1>8. \A i \in Jobs : Sound(rows'[i], claims'[i], outbox'[i])
  BY <1>1, <1>7 DEF Serial, Sound
<1>. QED
  BY <1>4, <1>5, <1>6, <1>8, BecomeSerial

LEMMA PurgeSelectSerial ==
  ASSUME Inv, Serial, NEW t \in Threads, PurgeSelect(t)
  PROVE  Serial'
<1>1. /\ thread[t] \in Thread /\ Holds(thread[t], rows, outbox) /\ thread[t].pc = "select"
  BY DEF Inv, Serial, PurgeSelect
<1>2. \A i \in Jobs : thread[t].todo[i] = "keep" /\ thread[t].snap[i].status = "none"
  BY <1>1, CarriesNothing DEF Cancelling, Scanning
<1>. QED
  BY <1>1, <1>2, SelectOldSerial DEF PurgeSelect

(* What a cancel-all list finds and leaves: the row is as it was listed.   *)
LEMMA CancelListedFinds ==
  ASSUME Inv, Serial, NEW t \in Threads, CancelListed(t)
  PROVE  \E j \in Jobs :
           LET th == thread[t] IN
           /\ th \in Thread /\ Holds(th, rows, outbox) /\ th.pc = "cancel"
           /\ rows[j].status \in Open /\ th.snap[j] \in Row
           /\ th.snap[j].attempts = rows[j].attempts
           /\ rows' = [rows EXCEPT ![j] = CancelRow(th.snap[j])]
           /\ Become(t, [th EXCEPT !.snap = [th.snap EXCEPT ![j] = NoRow], !.pc = "notify",
                                   !.job = j, !.event = "cancelled", !.ret = "cancel"])
           /\ UNCHANGED <<outbox, claims>>
<1>. DEFINE th == thread[t]
<1>1. /\ th \in Thread /\ Holds(th, rows, outbox) /\ th.pc = "cancel"
      /\ UNCHANGED <<outbox, claims>>
  BY DEF Inv, Serial, CancelListed
<1>2. PICK j \in Listed(th) :
        \/ /\ Present(j)
           /\ rows' = [rows EXCEPT ![j] = CancelRow(th.snap[j])]
           /\ Become(t, [[th EXCEPT !.snap[j] = NoRow] EXCEPT !.pc = "notify",
                            !.job = j, !.event = "cancelled", !.ret = "cancel"])
        \/ ~Present(j)
  BY DEF CancelListed
<1>3. j \in Jobs /\ th.snap[j] \in Row /\ th.snap[j].status # "none"
  BY <1>1 DEF Listed, Thread
<1>4. rows[j].status \in Open /\ th.snap[j].attempts = rows[j].attempts
  BY <1>1, <1>3 DEF Holds, CancelHolds
<1>5. Present(j)
  BY <1>4 DEF Present, Open
<1>6. Become(t, [th EXCEPT !.snap = [th.snap EXCEPT ![j] = NoRow], !.pc = "notify",
                           !.job = j, !.event = "cancelled", !.ret = "cancel"])
  BY <1>2, <1>5
<1>. QED
  BY <1>1, <1>2, <1>3, <1>4, <1>5, <1>6

LEMMA CancelListedSerial ==
  ASSUME Inv, Serial, NEW t \in Threads, CancelListed(t)
  PROVE  Serial'
<1>. DEFINE th == thread[t]
<1>1. PICK j \in Jobs :
        /\ th \in Thread /\ Holds(th, rows, outbox) /\ th.pc = "cancel"
        /\ rows[j].status \in Open /\ th.snap[j] \in Row
        /\ th.snap[j].attempts = rows[j].attempts
        /\ rows' = [rows EXCEPT ![j] = CancelRow(th.snap[j])]
        /\ Become(t, [th EXCEPT !.snap = [th.snap EXCEPT ![j] = NoRow], !.pc = "notify",
                                !.job = j, !.event = "cancelled", !.ret = "cancel"])
        /\ UNCHANGED <<outbox, claims>>
  BY CancelListedFinds
<1>. DEFINE sn == [th.snap EXCEPT ![j] = NoRow]
            new == [th EXCEPT !.snap = sn, !.pc = "notify", !.job = j,
                              !.event = "cancelled", !.ret = "cancel"]
<1>2. /\ sn \in [Jobs -> Row] /\ sn[j].status = "none"
      /\ \A i \in Jobs : i # j => sn[i] = th.snap[i]
  BY <1>1, NoRowOK DEF Thread, NoRow
<1>3. Become(t, new)
  BY <1>1
<1>. HIDE DEF sn
<1>4. /\ new \in Thread /\ new.pc = "notify" /\ new.job = j /\ new.event = "cancelled"
      /\ new.ret = "cancel" /\ new.snap = sn /\ new.todo = th.todo
  BY <1>1, <1>2 DEF Thread, Pcs, Terminal
<1>. HIDE DEF new
<1>5. /\ rows'[j].status = "cancelled" /\ rows'[j].attempts = rows[j].attempts
      /\ \A i \in Jobs : i # j => rows'[i] = rows[i]
  BY <1>1, RowFields DEF Inv
<1>6. \A i \in Jobs : Sound(rows[i], claims[i], outbox[i])
  BY DEF Serial
<1>7. rows[j].attempts = claims[j] /\ outbox[j] = {}
  BY <1>1, <1>6 DEF Sound, Open
<1>8. \A i \in Jobs : Sound(rows'[i], claims'[i], outbox'[i])
  BY <1>1, <1>5, <1>6, <1>7 DEF Sound
<1>9. \A i \in Jobs : new.todo[i] = "keep"
  BY <1>1, <1>4, CarriesNothing DEF Scanning
<1>10. ScanHolds(new, rows') /\ WriteHolds(new, rows') /\ PurgeHolds(new, rows')
  BY <1>4, <1>9 DEF ScanHolds, WriteHolds, PurgeHolds
<1>11. CancelHolds(new, rows')
  BY <1>1, <1>2, <1>4, <1>5 DEF Holds, CancelHolds, Cancelling
<1>12. NotifyHolds(new, rows', outbox')
  BY <1>1, <1>4, <1>5, <1>7 DEF NotifyHolds
<1>. QED
  BY <1>3, <1>4, <1>8, <1>10, <1>11, <1>12, BecomeSerial DEF Holds

LEMMA EndCancelSerial ==
  ASSUME Inv, Serial, NEW t \in Threads, EndCancelList(t)
  PROVE  Serial'
<1>1. ASSUME ListToCancel(t, "cancelRunning", "running") PROVE Serial'
  BY <1>1, ListToCancelSerial DEF Ops, Open
<1>2. ASSUME Become(t, Idle), UNCHANGED <<rows, outbox, claims>> PROVE Serial'
  BY <1>2, IdleHolds, IdleOK, SameTables DEF ThreadOK
<1>. QED
  BY <1>1, <1>2 DEF EndCancelList

(* Nothing the goroutine carries is about a job that does not exist yet.   *)
LEMMA CreateSerial ==
  ASSUME Inv, Serial, NEW j \in Jobs, Create(j)
  PROVE  Serial'
<1>1. /\ rows[j].status = "none" /\ rows'[j] = CreateRow
      /\ \A i \in Jobs : i # j => rows'[i] = rows[i]
      /\ UNCHANGED <<outbox, claims, thread>>
  BY DEF Create, Inv
<1>2. CreateRow.status = "pending" /\ CreateRow.attempts = 0
  BY DEF CreateRow, NoRow
<1>3. \A i \in Jobs : Sound(rows'[i], claims'[i], outbox'[i])
  BY <1>1, <1>2 DEF Serial, Sound, Open
<1>4. ASSUME NEW t \in Threads PROVE Holds(thread[t], rows', outbox)
  <2>. DEFINE th == thread[t]
  <2>1. /\ Holds(th, rows, outbox) /\ ThreadOK(th) /\ th \in Thread
    BY DEF Serial, Inv
  <2>2. WriteHolds(th, rows')
    BY <1>1, <2>1 DEF Holds, WriteHolds, ThreadOK, Open
  <2>3. ScanHolds(th, rows')
    BY <1>1, <2>1 DEF Holds, ScanHolds, Due
  <2>4. CancelHolds(th, rows')
    BY <1>1, <2>1 DEF Holds, CancelHolds, Open
  <2>5. PurgeHolds(th, rows')
    BY <1>1, <2>1 DEF Holds, PurgeHolds, Terminal, Thread
  <2>6. NotifyHolds(th, rows', outbox)
    BY <1>1, <2>1 DEF Holds, NotifyHolds, ThreadOK, Terminal
  <2>. QED
    BY <2>2, <2>3, <2>4, <2>5, <2>6 DEF Holds
<1>. QED
  BY <1>1, <1>3, <1>4 DEF Serial

LEMMA TickSerial ==
  ASSUME Inv, Serial, Tick
  PROVE  Serial'
<1>1. \A j \in Jobs : /\ rows[j] \in Row /\ rows'[j] = OlderRow(rows[j])
                      /\ rows'[j].status = rows[j].status
                      /\ rows'[j].attempts = rows[j].attempts
  BY OlderRowOK DEF Inv, Tick
<1>2. UNCHANGED <<outbox, claims>>
  BY DEF Tick
<1>3. \A j \in Jobs : Sound(rows'[j], claims'[j], outbox'[j])
  BY <1>1, <1>2 DEF Serial, Sound
<1>4. ASSUME NEW t \in Threads PROVE Holds(thread'[t], rows', outbox)
  <2>. DEFINE th == thread[t]
              sn == [j \in Jobs |-> OlderRow(th.snap[j])]
              b  == OlderRow(th.buf)
              new == [th EXCEPT !.buf = b, !.snap = sn]
  <2>1. th \in Thread /\ ThreadOK(th) /\ Holds(th, rows, outbox)
    BY DEF Inv, Serial
  <2>2. \A j \in Jobs : sn[j].status = th.snap[j].status /\ sn[j].attempts = th.snap[j].attempts
    BY <2>1, OlderRowOK DEF Thread
  <2>3. b.status = th.buf.status /\ b.attempts = th.buf.attempts
    BY <2>1, OlderRowOK DEF Thread
  <2>4. thread'[t] = new
    BY DEF Tick
  <2>. HIDE DEF sn, b
  <2>5. /\ new.pc = th.pc /\ new.buf = b /\ new.snap = sn /\ new.job = th.job
        /\ new.ret = th.ret /\ new.todo = th.todo /\ new.cand = th.cand
        /\ new.event = th.event
    BY <2>1 DEF Thread
  <2>. HIDE DEF new
  <2>6. WriteHolds(new, rows')
    <3>. SUFFICES ASSUME th.pc = "write" PROVE WriteHolds(new, rows')
      BY <2>5 DEF WriteHolds
    <3>1. th.job \in Jobs
      BY <2>1 DEF ThreadOK
    <3>2. /\ Overdue(rows[th.job], th.job) => Overdue(rows'[th.job], th.job)
          /\ Exhausted(rows'[th.job], th.job) <=> Exhausted(rows[th.job], th.job)
      BY <1>1, <3>1, OlderDue
    <3>. QED
      BY <1>1, <2>1, <2>3, <2>5, <3>1, <3>2 DEF Holds, WriteHolds
  <2>7. ScanHolds(new, rows')
    <3>1. \A j \in Jobs : \A v : Due(rows[j], j, v) => Due(rows'[j], j, v)
      BY <1>1, OlderDue
    <3>. QED
      BY <2>1, <2>5, <3>1 DEF Holds, ScanHolds, Scanning
  <2>8. CancelHolds(new, rows')
    BY <1>1, <2>1, <2>2, <2>5 DEF Holds, CancelHolds, Cancelling
  <2>9. PurgeHolds(new, rows')
    BY <1>1, <2>1, <2>5 DEF Holds, PurgeHolds, Thread
  <2>10. NotifyHolds(new, rows', outbox)
    BY <1>1, <2>1, <2>5 DEF Holds, NotifyHolds, ThreadOK
  <2>. QED
    BY <2>4, <2>6, <2>7, <2>8, <2>9, <2>10 DEF Holds
<1>. QED
  BY <1>2, <1>3, <1>4 DEF Serial

LEMMA NextSerial == Inv /\ Serial /\ [Next]_vars => Serial'
<1>. SUFFICES ASSUME Inv, Serial, [Next]_vars PROVE Serial'
  OBVIOUS
<1>1. ASSUME NEW t \in Threads, Begin(t) \/ Maintain(t) PROVE Serial'
  BY <1>1, BeginSerial
<1>2. ASSUME NEW t \in Threads, Continue(t) PROVE Serial'
  BY <1>2, UpdateJobSerial, NotifySerial, ReclaimOneSerial, EndScanSerial, ClaimSerial,
     ClaimPendingSerial, PurgeSelectSerial, PurgeDeleteSerial, CascadeSerial,
     CancelListedSerial, EndCancelSerial DEF Continue
<1>3. CASE Crash
  BY <1>3, IdleHolds DEF Crash, Serial
<1>4. CASE UNCHANGED vars
  BY <1>4 DEF vars, Serial
<1>. QED
  BY <1>1, <1>2, <1>3, <1>4, CreateSerial, TickSerial DEF Next

LEMMA SpecSerial == Spec => []Serial
<1>1. Init => Serial
  BY IdleHolds DEF Init, Serial, Sound, NoRow
<1>. QED
  BY <1>1, NextSerial, SpecInv, PTL DEF Spec


-----------------------------------------------------------------------------
(* What follows for the queue without overlap, crashes included.           *)

(* attempt_count is the number of successful claims: every claim counts,   *)
(* and no heartbeat, release or reclaim writes an older count back.        *)
THEOREM ClaimsCounted == Spec => []AttemptsExact
<1>1. Serial => AttemptsExact
  BY DEF Serial, Sound, AttemptsExact, Present
<1>. QED
  BY <1>1, SpecSerial, PTL

(* When a reclaim scan writes, the lease or the timeout has run out at     *)
(* that moment, however long ago the scan listed the job.                  *)
THEOREM ReclaimJustified == Spec => ReclaimOnlyExpired
<1>1. ASSUME Inv, Serial, NEW t \in Threads, UpdateJob(t), thread[t].ret = "scan"
      PROVE  Expired(thread[t].job)
  <2>1. Holds(thread[t], rows, outbox) /\ thread[t].pc = "write"
    BY <1>1 DEF Serial, UpdateJob
  <2>2. Overdue(rows[thread[t].job], thread[t].job)
    BY <1>1, <2>1 DEF Holds, WriteHolds
  <2>. QED
    BY <2>2 DEF Overdue, Expired
<1>2. Inv /\ Serial /\ [Next]_vars
        => [\A t \in Threads : (UpdateJob(t) /\ thread[t].ret = "scan")
                                 => Expired(thread[t].job)]_vars
  BY <1>1
<1>. QED
  BY <1>2, SpecInv, SpecSerial, PTL DEF Spec, ReclaimOnlyExpired

(* A scan sends a job back to the queue only while claims are left of its  *)
(* budget: after the last one it fails the job.                            *)
THEOREM RequeueWithinBudget == Spec => RequeuedWithinBudget
<1>1. ASSUME Inv, Serial, NEW t \in Threads, UpdateJob(t), thread[t].ret = "scan",
             thread[t].buf.status = "pending"
      PROVE  LET j == thread[t].job IN MaxAttempts[j] = 0 \/ claims[j] < MaxAttempts[j]
  <2>. DEFINE j == thread[t].job
  <2>1. /\ Holds(thread[t], rows, outbox) /\ thread[t].pc = "write" /\ j \in Jobs
        /\ rows[j].status \in Open
    BY <1>1, UpdateJobFinds
  <2>2. ~Exhausted(rows[j], j)
    BY <1>1, <2>1 DEF Holds, WriteHolds
  <2>3. rows[j].attempts = claims[j]
    BY <1>1, <2>1 DEF Serial, Sound, Open
  <2>4. claims[j] \in Nat /\ MaxAttempts[j] \in Nat
    BY <1>1, <2>1, JobFieldsAssumption DEF Inv
  <2>. QED
    BY <2>2, <2>3, <2>4 DEF Exhausted
<1>2. Inv /\ Serial /\ [Next]_vars
        => [\A t \in Threads :
              LET j == thread[t].job
              IN (UpdateJob(t) /\ thread[t].ret = "scan" /\ thread[t].buf.status = "pending")
                   => MaxAttempts[j] = 0 \/ claims[j] < MaxAttempts[j]]_vars
  BY <1>1
<1>. QED
  BY <1>2, SpecInv, SpecSerial, PTL DEF Spec, RequeuedWithinBudget


(* Who writes a terminal row's successor has read an unfinished row, so a  *)
(* verdict is the last one until the purge: overlap alone, and not a crash *)
(* or a stale list, makes the code depart from docs/JOBS.md.               *)
THEOREM VerdictsFinal == Spec => TerminalIsFinal
<1>. DEFINE Final(j) == rows[j].status \in Terminal =>
                          rows'[j].status \in {rows[j].status, "gone"}
<1>1. ASSUME Inv, Serial, NEW t \in Threads, Continue(t), NEW j \in Jobs PROVE Final(j)
  <2>1. CASE UpdateJob(t)
    <3>1. \E i \in Jobs : rows[i].status \in Open /\ rows' = [rows EXCEPT ![i] = thread[t].buf]
      BY <1>1, <2>1, UpdateJobFinds
    <3>. QED
      BY <1>1, <3>1 DEF Inv, Open, Terminal
  <2>2. CASE CancelListed(t)
    <3>1. PICK i \in Jobs : /\ rows[i].status \in Open
                            /\ rows' = [rows EXCEPT ![i] = CancelRow(thread[t].snap[i])]
      BY <1>1, <2>2, CancelListedFinds
    <3>. QED
      BY <1>1, <3>1 DEF Inv, Open, Terminal
  <2>3. CASE ClaimPendingJob(t)
    <3>1. PICK i \in Jobs : \/ /\ rows[i].status \in Claimable
                               /\ rows' = [rows EXCEPT ![i] = ClaimRow(@, thread[t].who)]
                            \/ rows' = rows
      BY <2>3 DEF ClaimPendingJob
    <3>. QED
      BY <1>1, <3>1 DEF Inv, Claimable, Terminal
  <2>4. CASE PurgeDelete(t)
    BY <1>1, <2>4 DEF PurgeDelete, NoRow, Inv
  <2>5. CASE ~(UpdateJob(t) \/ CancelListed(t) \/ ClaimPendingJob(t) \/ PurgeDelete(t))
    BY <1>1, <2>5 DEF Continue, NotifyJobTerminal, ReclaimOne, EndScan, ListPending,
       SkipCandidate, NothingToClaim, HandOver, DenyAfterClaim, PurgeSelect, SelectOld,
       DeleteWebhookOutboxByJobIDs, EndCancelList, ListToCancel
  <2>. QED
    BY <2>1, <2>2, <2>3, <2>4, <2>5
<1>2. ASSUME NEW t \in Threads, Begin(t) \/ Maintain(t) PROVE rows' = rows
  BY <1>2 DEF Begin, Maintain, Heartbeat, Complete, Cancel, Release, Claim, ClaimNext,
     AdminReclaim, AdminPurge, AdminCancelAll, ListRunning, SelectOld, ListToCancel
<1>3. ASSUME Inv, NEW i \in Jobs, Create(i), NEW j \in Jobs PROVE Final(j)
  BY <1>3 DEF Create, Inv, Terminal
<1>4. ASSUME Inv, Tick, NEW j \in Jobs PROVE Final(j)
  BY <1>4, OlderRowOK DEF Tick, Inv
<1>5. Inv /\ Serial /\ [Next]_vars => [\A j \in Jobs : Final(j)]_vars
  <2>. SUFFICES ASSUME Inv, Serial, Next, NEW j \in Jobs PROVE Final(j)
    OBVIOUS
  <2>1. CASE rows' = rows
    BY <2>1
  <2>. HIDE DEF Final
  <2>. QED
    BY <1>1, <1>2, <1>3, <1>4, <2>1 DEF Next, Crash
<1>. QED
  BY <1>5, SpecInv, SpecSerial, PTL DEF Spec, TerminalIsFinal

-----------------------------------------------------------------------------
(* The refinement of JobLifecycle: what each step does to the statuses,    *)
(* counts and announcements is a step of the lifecycle or nothing.         *)

Step == [Lifecycle!LNext]_(Lifecycle!lvars)

(* The three mapped variables as functions of the tables.                  *)
LEMMA MappedStatus ==
  ASSUME NEW j \in Jobs, NEW s, rows'[j].status = s,
         \A i \in Jobs : i # j => rows'[i].status = rows[i].status
  PROVE  [i \in Jobs |-> rows'[i].status]
           = [[i \in Jobs |-> rows[i].status] EXCEPT ![j] = s]
  OBVIOUS

LEMMA MappedAttempts ==
  ASSUME NEW j \in Jobs, NEW n, rows'[j].attempts = n,
         \A i \in Jobs : i # j => rows'[i].attempts = rows[i].attempts
  PROVE  [i \in Jobs |-> rows'[i].attempts]
           = [[i \in Jobs |-> rows[i].attempts] EXCEPT ![j] = n]
  OBVIOUS

LEMMA SameStep ==
  ASSUME \A i \in Jobs : /\ rows'[i].status = rows[i].status
                         /\ rows'[i].attempts = rows[i].attempts,
         outbox' = outbox
  PROVE  Step
<1>1. /\ [i \in Jobs |-> rows'[i].status] = [i \in Jobs |-> rows[i].status]
      /\ [i \in Jobs |-> rows'[i].attempts] = [i \in Jobs |-> rows[i].attempts]
  OBVIOUS
<1>. QED
  BY <1>1 DEF Step, Lifecycle!lvars

(* A change of one row's status that keeps the counts.                     *)
LEMMA MoveStep ==
  ASSUME NEW j \in Jobs, NEW s, rows'[j].status = s,
         rows'[j].attempts = rows[j].attempts,
         \A i \in Jobs : i # j => rows'[i] = rows[i], outbox' = outbox
  PROVE  /\ rows[j].status = "none" /\ s = "pending" => Step
         /\ rows[j].status = "running" /\ s = "pending" => Step
         /\ rows[j].status \in Open /\ s \in Terminal => Step
<1>1. /\ [i \in Jobs |-> rows'[i].status]
           = [[i \in Jobs |-> rows[i].status] EXCEPT ![j] = s]
      /\ [i \in Jobs |-> rows'[i].attempts] = [i \in Jobs |-> rows[i].attempts]
  BY MappedStatus
<1>2. [i \in Jobs |-> rows[i].status][j] = rows[j].status
  OBVIOUS
<1>3. ASSUME rows[j].status = "none", s = "pending" PROVE Lifecycle!LCreate(j)
  BY <1>1, <1>2, <1>3 DEF Lifecycle!LCreate, Lifecycle!Move
<1>4. ASSUME rows[j].status = "running", s = "pending" PROVE Lifecycle!LRelease(j)
  BY <1>1, <1>2, <1>4 DEF Lifecycle!LRelease, Lifecycle!Move
<1>5. ASSUME rows[j].status \in Open, s \in Terminal
      PROVE  s \in Lifecycle!Final /\ Lifecycle!LFinish(j, s)
  BY <1>1, <1>2, <1>5 DEF Lifecycle!LFinish, Lifecycle!Move, Lifecycle!Final, Terminal, Open
<1>. QED
  BY <1>3, <1>4, <1>5 DEF Step, Lifecycle!LNext

LEMMA ClaimStep ==
  ASSUME Inv, Serial, NEW t \in Threads, ClaimPendingJob(t)
  PROVE  Step
<1>1. outbox' = outbox
  BY DEF ClaimPendingJob
<1>2. PICK j \in Jobs :
        \/ /\ rows[j].status \in Claimable
           /\ rows' = [rows EXCEPT ![j] = ClaimRow(@, thread[t].who)]
        \/ UNCHANGED rows
  BY DEF ClaimPendingJob
<1>3. CASE rows' = rows
  BY <1>1, <1>3, SameStep
<1>4. CASE /\ rows[j].status \in Claimable
           /\ rows' = [rows EXCEPT ![j] = ClaimRow(@, thread[t].who)]
  <2>1. /\ rows[j] \in Row /\ rows'[j] = ClaimRow(rows[j], thread[t].who)
        /\ \A i \in Jobs : i # j => rows'[i] = rows[i]
    BY <1>4 DEF Inv
  <2>2. rows'[j].status = "running" /\ rows'[j].attempts = rows[j].attempts + 1
    BY <2>1, RowFields
  <2>3. rows[j].status = "pending"
    BY <1>4, UnfinishedOpen
  <2>4. /\ [i \in Jobs |-> rows'[i].status]
             = [[i \in Jobs |-> rows[i].status] EXCEPT ![j] = "running"]
        /\ [i \in Jobs |-> rows'[i].attempts]
             = [[i \in Jobs |-> rows[i].attempts] EXCEPT ![j] = rows[j].attempts + 1]
    BY <2>1, <2>2, MappedStatus, MappedAttempts
  <2>5. /\ [i \in Jobs |-> rows[i].status][j] = rows[j].status
        /\ [i \in Jobs |-> rows[i].attempts][j] = rows[j].attempts
    OBVIOUS
  <2>6. Lifecycle!LClaim(j)
    BY <1>1, <2>3, <2>4, <2>5 DEF Lifecycle!LClaim, Lifecycle!Move
  <2>. QED
    BY <2>6 DEF Step, Lifecycle!LNext
<1>. QED
  BY <1>2, <1>3, <1>4

LEMMA NotifyStep ==
  ASSUME Inv, Serial, NEW t \in Threads, NotifyJobTerminal(t)
  PROVE  Step
<1>. DEFINE th == thread[t]  j == th.job
<1>1. /\ ThreadOK(th) /\ Holds(th, rows, outbox) /\ th.pc = "notify"
      /\ j \in Jobs /\ th.event \in Terminal
      /\ outbox' = [outbox EXCEPT ![j] = @ \cup {th.event}] /\ rows' = rows
  BY DEF Inv, Serial, ThreadOK, NotifyJobTerminal
<1>2. rows[j].status = th.event /\ outbox[j] = {}
  BY <1>1 DEF Holds, NotifyHolds
<1>3. outbox' = [outbox EXCEPT ![j] = {rows[j].status}]
  BY <1>1, <1>2 DEF Inv
<1>4. [i \in Jobs |-> rows[i].status][j] = rows[j].status
  BY <1>1
<1>5. Lifecycle!LAnnounce(j)
  BY <1>1, <1>2, <1>3, <1>4 DEF Lifecycle!LAnnounce, Lifecycle!Final, Terminal
<1>. QED
  BY <1>1, <1>5 DEF Step, Lifecycle!LNext

(* A terminal job that is not about to be announced has been.              *)
LEMMA PurgeDeleteStep ==
  ASSUME Inv, Serial, NotifiedOrNotifying, NEW t \in Threads, PurgeDelete(t)
  PROVE  Step
<1>. DEFINE th == thread[t]
<1>1. /\ th \in Thread /\ Holds(th, rows, outbox) /\ th.pc = "delete"
      /\ th.cand \subseteq Jobs /\ outbox' = outbox
  BY DEF Inv, Serial, PurgeDelete, Thread
<1>2. PICK j \in th.cand : rows' = [rows EXCEPT ![j] = [NoRow EXCEPT !.status = "gone"]]
  BY DEF PurgeDelete
<1>3. /\ j \in Jobs /\ rows'[j].status = "gone" /\ rows'[j].attempts = 0
      /\ \A i \in Jobs : i # j => rows'[i] = rows[i]
  BY <1>1, <1>2 DEF Inv, NoRow
<1>4. rows[j].status \in Terminal
  BY <1>1 DEF Holds, PurgeHolds
<1>5. outbox[j] # {}
  <2>1. \A u \in Threads : thread[u].pc # "notify"
    BY <1>1, OneGoroutine
  <2>. QED
    BY <1>3, <1>4, <2>1 DEF NotifiedOrNotifying, Notifying
<1>6. /\ [i \in Jobs |-> rows'[i].status]
           = [[i \in Jobs |-> rows[i].status] EXCEPT ![j] = "gone"]
      /\ [i \in Jobs |-> rows'[i].attempts]
           = [[i \in Jobs |-> rows[i].attempts] EXCEPT ![j] = 0]
  BY <1>3, MappedStatus, MappedAttempts
<1>7. [i \in Jobs |-> rows[i].status][j] = rows[j].status
  BY <1>3
<1>8. Lifecycle!LPurge(j)
  BY <1>1, <1>4, <1>5, <1>6, <1>7
     DEF Lifecycle!LPurge, Lifecycle!Move, Lifecycle!Final, Terminal
<1>. QED
  BY <1>3, <1>8 DEF Step, Lifecycle!LNext

LEMMA CascadeStep ==
  ASSUME Inv, Serial, PurgeInvariant, NEW t \in Threads, DeleteWebhookOutboxByJobIDs(t)
  PROVE  Step
<1>1. /\ rows' = rows /\ thread[t].pc = "cascade" /\ thread[t].ids \subseteq Jobs
  BY DEF DeleteWebhookOutboxByJobIDs, Inv, Thread
<1>2. PICK j \in thread[t].ids : outbox' = [outbox EXCEPT ![j] = {}]
  BY DEF DeleteWebhookOutboxByJobIDs
<1>3. j \in Jobs /\ rows[j].status = "gone"
  BY <1>1 DEF PurgeInvariant, PurgeShape
<1>4. CASE outbox[j] = {}
  <2>1. outbox' = outbox
    BY <1>2, <1>4 DEF Inv
  <2>. QED
    BY <1>1, <2>1, SameStep
<1>5. CASE outbox[j] # {}
  <2>1. [i \in Jobs |-> rows[i].status][j] = rows[j].status
    BY <1>3
  <2>2. Lifecycle!LForget(j)
    BY <1>1, <1>2, <1>3, <1>5, <2>1 DEF Lifecycle!LForget
  <2>. QED
    BY <1>3, <2>2 DEF Step, Lifecycle!LNext
<1>. QED
  BY <1>4, <1>5

LEMMA UpdateStep ==
  ASSUME Inv, Serial, NEW t \in Threads, UpdateJob(t)
  PROVE  Step
<1>. DEFINE th == thread[t]  j == th.job
<1>1. /\ j \in Jobs /\ rows[j].status \in Open /\ th.buf.attempts = rows[j].attempts
      /\ \/ th.buf.status \in Terminal
         \/ th.buf.status \in Open /\ rows[j].status = "running"
      /\ rows' = [rows EXCEPT ![j] = th.buf] /\ outbox' = outbox
  BY UpdateJobFinds
<1>2. rows'[j] = th.buf /\ \A i \in Jobs : i # j => rows'[i] = rows[i]
  BY <1>1 DEF Inv
<1>3. CASE th.buf.status \in Terminal
  BY <1>1, <1>2, <1>3, MoveStep
<1>4. CASE th.buf.status = "pending" /\ rows[j].status = "running"
  BY <1>1, <1>2, <1>4, MoveStep
<1>5. CASE th.buf.status = "running" /\ rows[j].status = "running"
  BY <1>1, <1>2, <1>5, SameStep
<1>. QED
  BY <1>1, <1>3, <1>4, <1>5 DEF Open

LEMMA CancelStep ==
  ASSUME Inv, Serial, NEW t \in Threads, CancelListed(t)
  PROVE  Step
<1>1. PICK j \in Jobs :
        /\ rows[j].status \in Open /\ thread[t].snap[j] \in Row
        /\ thread[t].snap[j].attempts = rows[j].attempts
        /\ rows' = [rows EXCEPT ![j] = CancelRow(thread[t].snap[j])]
        /\ outbox' = outbox
  BY CancelListedFinds
<1>2. /\ rows'[j].status = "cancelled" /\ rows'[j].attempts = rows[j].attempts
      /\ \A i \in Jobs : i # j => rows'[i] = rows[i]
  BY <1>1, RowFields DEF Inv
<1>. QED
  BY <1>1, <1>2, MoveStep DEF Terminal

LEMMA CreateStep ==
  ASSUME Inv, Serial, NEW j \in Jobs, Create(j)
  PROVE  Step
<1>1. CreateRow.status = "pending" /\ CreateRow.attempts = 0
  BY DEF CreateRow, NoRow
<1>2. rows[j].status = "none" /\ rows[j].attempts = 0
  BY DEF Create, Serial, Sound
<1>3. /\ rows'[j].status = "pending" /\ rows'[j].attempts = rows[j].attempts
      /\ \A i \in Jobs : i # j => rows'[i] = rows[i]
      /\ outbox' = outbox
  BY <1>1, <1>2 DEF Create, Inv
<1>. QED
  BY <1>2, <1>3, MoveStep

LEMMA NextStep ==
  Inv /\ Serial /\ PurgeInvariant /\ NotifiedOrNotifying /\ [Next]_vars => Step
<1>. SUFFICES ASSUME Inv, Serial, PurgeInvariant, NotifiedOrNotifying, [Next]_vars
              PROVE  Step
  OBVIOUS
<1>1. ASSUME UNCHANGED <<rows, outbox>> PROVE Step
  BY <1>1, SameStep
<1>2. ASSUME NEW t \in Threads, Begin(t) \/ Maintain(t) PROVE UNCHANGED <<rows, outbox>>
  BY <1>2 DEF Begin, Maintain, Heartbeat, Complete, Cancel, Release, Claim, ClaimNext,
     AdminReclaim, AdminPurge, AdminCancelAll, ListRunning, SelectOld, ListToCancel
<1>3. ASSUME NEW t \in Threads, Continue(t) PROVE Step
  <2>1. CASE \/ UpdateJob(t) \/ NotifyJobTerminal(t) \/ ClaimPendingJob(t)
             \/ PurgeDelete(t) \/ DeleteWebhookOutboxByJobIDs(t) \/ CancelListed(t)
    BY <2>1, UpdateStep, NotifyStep, ClaimStep, PurgeDeleteStep, CascadeStep, CancelStep
  <2>2. CASE ~(\/ UpdateJob(t) \/ NotifyJobTerminal(t) \/ ClaimPendingJob(t)
               \/ PurgeDelete(t) \/ DeleteWebhookOutboxByJobIDs(t) \/ CancelListed(t))
    <3>1. UNCHANGED <<rows, outbox>>
      BY <1>3, <2>2 DEF Continue, ReclaimOne, EndScan, ListPending, SkipCandidate,
         NothingToClaim, HandOver, DenyAfterClaim, PurgeSelect, SelectOld,
         EndCancelList, ListToCancel
    <3>. QED
      BY <1>1, <3>1
  <2>. QED
    BY <2>1, <2>2
<1>4. CASE Tick
  <2>1. /\ \A i \in Jobs : /\ rows'[i].status = rows[i].status
                           /\ rows'[i].attempts = rows[i].attempts
        /\ outbox' = outbox
    BY <1>4, OlderRowOK DEF Tick, Inv
  <2>. QED
    BY <2>1, SameStep
<1>. QED
  BY <1>1, <1>2, <1>3, <1>4, CreateStep DEF Next, Crash, vars

(* Without overlap the queue implements the safety part of the documented  *)
(* lifecycle, as long as no process dies: a verdict is the last one until  *)
(* the purge, every claim counts once, each job is announced once, and     *)
(* only an announced job is purged.                                        *)
THEOREM LifecycleKept ==
  ASSUME Crashes = FALSE
  PROVE  Spec => Lifecycle!LSafety
<1>1. Init => Lifecycle!LInit
  BY DEF Init, Lifecycle!LInit, NoRow
<1>2. Inv /\ Serial /\ PurgeInvariant /\ NotifiedOrNotifying /\ [Next]_vars
        => [Lifecycle!LNext]_(Lifecycle!lvars)
  BY NextStep DEF Step
<1>. QED
  BY <1>1, <1>2, SpecInv, SpecSerial, SpecPurge, VerdictsAnnounced, PTL
     DEF Spec, Lifecycle!LSafety

=============================================================================
