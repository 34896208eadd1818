--------------------------- MODULE JobQueueProofs ---------------------------
(***************************************************************************)
(* Invariants of JobQueue proved for any number of jobs, goroutines and    *)
(* runners and any setting of leases, timeouts and budgets.                *)
(***************************************************************************)
EXTENDS JobQueue, TLAPS

(* What holds of each goroutine by itself: its type, the stamps of the     *)
(* rows it carries, and that it knows its job where it will need it.       *)
ThreadOK(th) ==
  /\ th \in Thread
  /\ StampsMatch(th.buf)
  /\ \A j \in Jobs : StampsMatch(th.snap[j])
  /\ th.pc \in {"write", "notify", "recheck"} => th.job \in Jobs
  /\ th.pc = "notify" => th.event \in Terminal

(* The inductive invariant behind TypeOK and LeaseStamps.                  *)
Inv ==
  /\ rows \in [Jobs -> Row]
  /\ \A j \in Jobs : StampsMatch(rows[j])
  /\ outbox \in [Jobs -> SUBSET Terminal]
  /\ claims \in [Jobs -> Nat]
  /\ thread \in [Threads -> Thread]
  /\ \A t \in Threads : ThreadOK(thread[t])

-----------------------------------------------------------------------------
(* Rows.                                                                   *)

LEMMA AgesOK == 0 \in Ages /\ Never \in Ages /\ Never # 0
  BY BoundsAssumption DEF Ages, Never

LEMMA NoRowOK == NoRow \in Row /\ StampsMatch(NoRow)
  BY AgesOK DEF NoRow, Row, StampsMatch, Statuses, Claimable

LEMMA GoneOK ==
  LET g == [NoRow EXCEPT !.status = "gone"] IN g \in Row /\ StampsMatch(g)
  BY AgesOK DEF NoRow, Row, StampsMatch, Statuses, Claimable

LEMMA CreateRowOK == CreateRow \in Row /\ StampsMatch(CreateRow)
  BY AgesOK DEF CreateRow, NoRow, Row, StampsMatch, Statuses, Claimable

(* Each operation on a well-formed row returns a well-formed row; only a   *)
(* heartbeat needs to know that the row is running.                        *)
LEMMA HeartbeatRowOK ==
  ASSUME NEW r \in Row, StampsMatch(r), r.status = "running"
  PROVE  HeartbeatRow(r) \in Row /\ StampsMatch(HeartbeatRow(r))
  BY AgesOK DEF HeartbeatRow, Row, StampsMatch, Claimable

LEMMA ClaimRowOK ==
  ASSUME NEW r \in Row, NEW k \in Runners \cup {NoRunner}
  PROVE  ClaimRow(r, k) \in Row /\ StampsMatch(ClaimRow(r, k))
<1>. DEFINE n == r.attempts + 1
<1>1. n \in Nat
  BY DEF Row
<1>. HIDE DEF n
<1>2. [r EXCEPT !.status = "running", !.runner = k, !.attempts = n, !.hb = 0,
                !.claimed = 0, !.updated = 0] \in {q \in Row : StampsMatch(q)}
  BY <1>1, AgesOK DEF Row, StampsMatch, Statuses, Claimable
<1>. QED
  BY <1>2 DEF ClaimRow, n

LEMMA CompleteRowOK ==
  ASSUME NEW r \in Row, NEW ok \in BOOLEAN
  PROVE  CompleteRow(r, ok) \in Row /\ StampsMatch(CompleteRow(r, ok))
<1>. DEFINE s == IF ok THEN "succeeded" ELSE "failed"
<1>1. s \in Terminal
  BY DEF Terminal
<1>. HIDE DEF s
<1>2. [r EXCEPT !.status = s, !.hb = Never, !.claimed = Never, !.updated = 0]
        \in {q \in Row : StampsMatch(q)}
  BY <1>1, AgesOK DEF Row, StampsMatch, Statuses, Claimable, Terminal
<1>. QED
  BY <1>2 DEF CompleteRow, s

LEMMA EndRowOK ==
  ASSUME NEW r \in Row
  PROVE  /\ CancelRow(r) \in Row /\ StampsMatch(CancelRow(r))
         /\ ReleaseRow(r) \in Row /\ StampsMatch(ReleaseRow(r))
         /\ FailRow(r) \in Row /\ StampsMatch(FailRow(r))
<1>1. CancelRow(r) \in Row /\ StampsMatch(CancelRow(r))
  BY AgesOK DEF CancelRow, Row, StampsMatch, Statuses, Claimable, Terminal
<1>2. ReleaseRow(r) \in Row /\ StampsMatch(ReleaseRow(r))
  BY AgesOK DEF ReleaseRow, Row, StampsMatch, Statuses, Claimable
<1>3. FailRow(r) \in Row /\ StampsMatch(FailRow(r))
  BY AgesOK DEF FailRow, Row, StampsMatch, Statuses, Claimable, Terminal
<1>. QED
  BY <1>1, <1>2, <1>3

(* Getting older changes no status and sets or clears no stamp.            *)
LEMMA OlderOK ==
  ASSUME NEW a \in Ages
  PROVE  Older(a) \in Ages /\ (Older(a) = Never <=> a = Never)
  BY BoundsAssumption DEF Older, Ages, Never

LEMMA OlderRowOK ==
  ASSUME NEW r \in Row
  PROVE  /\ OlderRow(r) \in Row
         /\ OlderRow(r).status = r.status
         /\ OlderRow(r).attempts = r.attempts
         /\ StampsMatch(r) => StampsMatch(OlderRow(r))
<1>1. /\ Older(r.hb) \in Ages /\ (Older(r.hb) = Never <=> r.hb = Never)
      /\ Older(r.claimed) \in Ages /\ (Older(r.claimed) = Never <=> r.claimed = Never)
      /\ Older(r.updated) \in Ages
  BY OlderOK DEF Row
<1>. QED
  BY <1>1 DEF OlderRow, Row, StampsMatch

-----------------------------------------------------------------------------
(* Goroutines.                                                             *)

LEMMA IdleOK == ThreadOK(Idle)
  BY NoRowOK DEF ThreadOK, Idle, Thread, Pcs, Ops, Verdicts, Terminal, NoJob

LEMMA BecomeOK ==
  ASSUME thread \in [Threads -> Thread], NEW t \in Threads, NEW th \in Thread,
         Become(t, th)
  PROVE  /\ thread' \in [Threads -> Thread]
         /\ thread'[t] = th
         /\ \A u \in Threads : u # t => thread'[u] = thread[u]
  BY DEF Become

LEMMA ResumeOK ==
  ASSUME NEW th, ThreadOK(th)
  PROVE  ThreadOK(Resume(th))
<1>1. CASE th.ret = "idle"
  BY <1>1, IdleOK DEF Resume
<1>2. CASE th.ret # "idle"
  <2>. DEFINE rs == [th EXCEPT !.pc = th.ret, !.job = NoJob, !.buf = NoRow,
                               !.event = "none", !.ret = "idle"]
  <2>1. rs \in Thread
    BY <1>2, NoRowOK DEF ThreadOK, Thread, Pcs, NoJob
  <2>2. rs.pc = th.ret /\ rs.buf = NoRow /\ rs.snap = th.snap
    BY DEF ThreadOK, Thread
  <2>3. th.ret \in {"scan", "claim", "cancel"}
    BY <1>2 DEF ThreadOK, Thread
  <2>4. ThreadOK(rs)
    BY <2>1, <2>2, <2>3, NoRowOK DEF ThreadOK
  <2>. QED
    BY <1>2, <2>4 DEF Resume
<1>. QED
  BY <1>1, <1>2

LEMMA ToWriteOK ==
  ASSUME NEW th, ThreadOK(th), NEW j \in Jobs, NEW r \in Row, StampsMatch(r),
         NEW ret \in {"idle", "scan", "claim", "cancel"}
  PROVE  ThreadOK(ToWrite(th, j, r, ret))
<1>. DEFINE wr == ToWrite(th, j, r, ret)
<1>1. wr \in Thread
  BY DEF ToWrite, ThreadOK, Thread, Pcs
<1>2. wr.pc = "write" /\ wr.buf = r /\ wr.job = j /\ wr.snap = th.snap
  BY DEF ToWrite, ThreadOK, Thread
<1>. QED
  BY <1>1, <1>2 DEF ThreadOK

(* A step of goroutine t after which it is still well-formed.              *)
Moves(t) == \E th : ThreadOK(th) /\ Become(t, th)

LEMMA MovesOK ==
  ASSUME Inv, NEW t \in Threads, Moves(t)
  PROVE  /\ thread' \in [Threads -> Thread]
         /\ \A u \in Threads : ThreadOK(thread'[u])
<1>1. PICK th : ThreadOK(th) /\ Become(t, th)
  BY DEF Moves
<1>2. th \in Thread
  BY <1>1 DEF ThreadOK
<1>. QED
  BY <1>1, <1>2, BecomeOK DEF Inv

-----------------------------------------------------------------------------
(* Inv is inductive: what each action does to the goroutine that takes it, *)
(* and then to the tables.                                                 *)

LEMMA InitInv == Init => Inv
  BY NoRowOK, IdleOK DEF Init, Inv, ThreadOK

LEMMA VerdictOK ==
  ASSUME NEW r, NEW j, NEW g
  PROVE  Verdict(r, j, g) \in Verdicts
  BY DEF Verdict, Verdicts

(* What the listing statements leave the goroutine with.                   *)
LEMMA ListRunningThread ==
  ASSUME NEW t \in Threads, NEW op \in Ops, NEW k \in Runners \cup {NoRunner},
         NEW one \in SUBSET Jobs, ListRunning(t, op, k, one)
  PROVE  \E th \in Thread : /\ Become(t, th)
                             /\ th.pc = "scan"
                             /\ th.buf = Idle.buf
                             /\ th.snap = Idle.snap
<1>. DEFINE g == op \in {"reclaimAll", "maintain"}
            td == [j \in Jobs |-> Verdict(rows[j], j, g)]
            th == [Idle EXCEPT !.pc = "scan", !.op = op, !.who = k, !.cand = one,
                               !.todo = td]
<1>1. td \in [Jobs -> Verdicts]
  BY VerdictOK
<1>2. Become(t, th)
  BY DEF ListRunning
<1>. HIDE DEF td
<1>3. th \in Thread /\ th.pc = "scan" /\ th.buf = Idle.buf /\ th.snap = Idle.snap
  BY <1>1, IdleOK DEF ThreadOK, Thread, Pcs
<1>. QED
  BY <1>2, <1>3

LEMMA SelectOldThread ==
  ASSUME NEW t \in Threads, NEW th \in Thread, NEW age, SelectOld(t, th, age)
  PROVE  \/ Become(t, Idle)
         \/ \E new \in Thread : /\ Become(t, new)
                                /\ new.pc = "delete" /\ new.cand = new.ids
                                /\ new.buf = th.buf
                                /\ new.snap = th.snap
<1>. DEFINE old == {j \in Jobs : rows[j].status \in Terminal /\ rows[j].updated > age}
            new == [th EXCEPT !.pc = "delete", !.cand = old, !.ids = old]
<1>1. CASE old = {}
  BY <1>1 DEF SelectOld
<1>2. CASE old # {}
  <2>1. old \in SUBSET Jobs
    OBVIOUS
  <2>2. Become(t, new)
    BY <1>2 DEF SelectOld
  <2>. HIDE DEF old
  <2>3. new \in Thread /\ new.pc = "delete" /\ new.buf = th.buf /\ new.snap = th.snap
        /\ new.cand = new.ids
    BY <2>1 DEF Thread, Pcs
  <2>. QED
    BY <2>2, <2>3
<1>. QED
  BY <1>1, <1>2

LEMMA ListToCancelThread ==
  ASSUME Inv, NEW t \in Threads, NEW op \in Ops, NEW st, ListToCancel(t, op, st)
  PROVE  \E th \in Thread : /\ Become(t, th)
                             /\ th.pc = "cancel"
                             /\ th.buf = Idle.buf
                             /\ \A j \in Jobs : th.snap[j] \in {rows[j], NoRow}
<1>. DEFINE sn == [j \in Jobs |-> IF rows[j].status = st THEN rows[j] ELSE NoRow]
            th == [Idle EXCEPT !.pc = "cancel", !.op = op, !.snap = sn]
<1>1. sn \in [Jobs -> Row] /\ \A j \in Jobs : sn[j] \in {rows[j], NoRow}
  BY NoRowOK DEF Inv
<1>2. Become(t, th)
  BY DEF ListToCancel
<1>. HIDE DEF sn
<1>3. th \in Thread /\ th.pc = "cancel" /\ th.buf = Idle.buf /\ th.snap = sn
  BY <1>1, IdleOK DEF ThreadOK, Thread, Pcs
<1>. QED
  BY <1>1, <1>2, <1>3

LEMMA ListsMove ==
  ASSUME Inv, NEW t \in Threads
  PROVE  /\ \A op \in Ops, k \in Runners \cup {NoRunner}, one \in SUBSET Jobs :
              ListRunning(t, op, k, one) => Moves(t)
         /\ \A th \in Thread : \A age : ThreadOK(th) /\ SelectOld(t, th, age) => Moves(t)
         /\ \A op \in Ops : \A st : ListToCancel(t, op, st) => Moves(t)
<1>1. ASSUME NEW op \in Ops, NEW k \in Runners \cup {NoRunner}, NEW one \in SUBSET Jobs,
             ListRunning(t, op, k, one)
      PROVE  Moves(t)
  BY <1>1, ListRunningThread, IdleOK DEF Moves, ThreadOK
<1>2. ASSUME NEW th \in Thread, NEW age, ThreadOK(th), SelectOld(t, th, age)
      PROVE  Moves(t)
  BY <1>2, SelectOldThread, IdleOK DEF Moves, ThreadOK
<1>3. ASSUME NEW op \in Ops, NEW st, ListToCancel(t, op, st)
      PROVE  Moves(t)
  BY <1>3, ListToCancelThread, IdleOK, NoRowOK DEF Moves, ThreadOK, Inv
<1>. QED
  BY <1>1, <1>2, <1>3

LEMMA BeginInv ==
  ASSUME Inv, NEW t \in Threads, Begin(t) \/ Maintain(t)
  PROVE  Inv'
<1>. DEFINE Fine == Moves(t) /\ UNCHANGED <<rows, outbox, claims>>
<1>1. ASSUME NEW j \in Jobs, Heartbeat(t, j) PROVE Fine
  BY <1>1, IdleOK, HeartbeatRowOK, ToWriteOK DEF Heartbeat, Inv, Moves
<1>2. ASSUME NEW j \in Jobs, NEW ok \in BOOLEAN, Complete(t, j, ok) PROVE Fine
  BY <1>2, IdleOK, CompleteRowOK, ToWriteOK DEF Complete, Inv, Moves
<1>3. ASSUME NEW j \in Jobs, Cancel(t, j) PROVE Fine
  BY <1>3, IdleOK, EndRowOK, ToWriteOK DEF Cancel, Inv, Moves
<1>4. ASSUME NEW j \in Jobs, Release(t, j) PROVE Fine
  BY <1>4, IdleOK, EndRowOK, ToWriteOK DEF Release, Inv, Moves
<1>5. ASSUME NEW j \in Jobs, NEW k \in Runners, Claim(t, j, k) PROVE Fine
  <2>1. ListRunning(t, "claimOne", k, {j}) /\ "claimOne" \in Ops /\ {j} \in SUBSET Jobs
    BY <1>5 DEF Claim, Ops
  <2>2. Moves(t)
    BY <2>1, ListsMove
  <2>. QED
    BY <2>1, <2>2 DEF ListRunning
<1>6. ASSUME NEW k \in Runners, ClaimNext(t, k) PROVE Fine
  <2>1. ListRunning(t, "claimNext", k, {}) /\ "claimNext" \in Ops
    BY <1>6 DEF ClaimNext, Ops
  <2>2. Moves(t)
    BY <2>1, ListsMove
  <2>. QED
    BY <2>1, <2>2 DEF ListRunning
<1>7. ASSUME NEW op \in {"reclaim", "reclaimAll"}, AdminReclaim(t, op) PROVE Fine
  <2>1. ListRunning(t, op, NoRunner, {}) /\ op \in Ops
    BY <1>7 DEF AdminReclaim, Ops
  <2>2. Moves(t)
    BY <2>1, ListsMove
  <2>. QED
    BY <2>1, <2>2 DEF ListRunning
<1>8. ASSUME Maintain(t) PROVE Fine
  <2>1. ListRunning(t, "maintain", NoRunner, {}) /\ "maintain" \in Ops
    BY <1>8 DEF Maintain, Ops
  <2>2. Moves(t)
    BY <2>1, ListsMove
  <2>. QED
    BY <2>1, <2>2 DEF ListRunning
<1>9. ASSUME NEW older \in 1..(MaxAge - 1), AdminPurge(t, older) PROVE Fine
  <2>. DEFINE th == [Idle EXCEPT !.op = "purge"]
  <2>1. th \in Thread /\ th.pc = "idle" /\ th.buf = Idle.buf /\ th.snap = Idle.snap
    BY IdleOK DEF ThreadOK, Thread, Ops, Idle
  <2>2. ThreadOK(th)
    BY <2>1, IdleOK DEF ThreadOK
  <2>. HIDE DEF th
  <2>3. SelectOld(t, th, older)
    BY <1>9 DEF AdminPurge, th
  <2>. QED
    BY <2>2, <2>3, ListsMove DEF SelectOld, ThreadOK
<1>10. ASSUME NEW op \in {"cancelAll", "cancelPending", "cancelRunning"}, AdminCancelAll(t, op)
       PROVE  Fine
  <2>1. op \in Ops /\ \E st : ListToCancel(t, op, st)
    BY <1>10 DEF AdminCancelAll, Ops
  <2>2. Moves(t)
    BY <2>1, ListsMove
  <2>. QED
    BY <2>1, <2>2 DEF ListToCancel
<1>11. Fine
  BY <1>1, <1>2, <1>3, <1>4, <1>5, <1>6, <1>7, <1>8, <1>9, <1>10 DEF Begin
<1>. QED
  BY <1>11, MovesOK DEF Inv

LEMMA UpdateJobInv ==
  ASSUME Inv, NEW t \in Threads, UpdateJob(t)
  PROVE  Inv'
<1>. DEFINE th == thread[t]  j == th.job
            nt == [th EXCEPT !.pc = "notify", !.event = th.buf.status, !.buf = NoRow]
<1>1. ThreadOK(th) /\ j \in Jobs /\ th.buf \in Row
  BY DEF Inv, ThreadOK, Thread, UpdateJob
<1>2. CASE Present(j) /\ th.buf.status \in Terminal
  <2>1. nt \in Thread /\ nt.job = j /\ nt.event \in Terminal /\ nt.buf = NoRow
          /\ nt.snap = th.snap
    BY <1>1, <1>2, NoRowOK DEF ThreadOK, Thread, Pcs
  <2>2. ThreadOK(nt)
    BY <1>1, <2>1, NoRowOK DEF ThreadOK
  <2>3. Become(t, nt) /\ rows' = [rows EXCEPT ![j] = th.buf] /\ UNCHANGED <<outbox, claims>>
    BY <1>2 DEF UpdateJob, AfterUpdate
  <2>. QED
    BY <1>1, <2>2, <2>3, MovesOK DEF Moves, Inv, ThreadOK
<1>3. CASE Present(j) /\ th.buf.status \notin Terminal
  <2>1. Become(t, Resume(th)) /\ rows' = [rows EXCEPT ![j] = th.buf]
        /\ UNCHANGED <<outbox, claims>>
    BY <1>3 DEF UpdateJob, AfterUpdate
  <2>. QED
    BY <1>1, <2>1, ResumeOK, MovesOK DEF Moves, Inv, ThreadOK
<1>4. CASE ~Present(j)
  <2>1. Become(t, IF th.ret = "claim" THEN Idle ELSE Resume(th))
        /\ UNCHANGED <<rows, outbox, claims>>
    BY <1>4 DEF UpdateJob
  <2>. QED
    BY <1>1, <2>1, IdleOK, ResumeOK, MovesOK DEF Moves, Inv
<1>. QED
  BY <1>2, <1>3, <1>4

LEMMA NotifyInv ==
  ASSUME Inv, NEW t \in Threads, NotifyJobTerminal(t)
  PROVE  Inv'
<1>1. ThreadOK(thread[t]) /\ thread[t].job \in Jobs /\ thread[t].event \in Terminal
  BY DEF Inv, ThreadOK, NotifyJobTerminal
<1>2. Moves(t)
  BY <1>1, ResumeOK DEF NotifyJobTerminal, Moves
<1>3. outbox' \in [Jobs -> SUBSET Terminal]
  BY <1>1 DEF Inv, NotifyJobTerminal
<1>. QED
  BY <1>2, <1>3, MovesOK DEF Inv, NotifyJobTerminal

(* Changing only where a goroutine is, and its candidates.                 *)
LEMMA StepThreadOK ==
  ASSUME NEW th, ThreadOK(th), NEW pc \in {"list", "claim", "select", "scan", "cancel"},
         NEW cand \in SUBSET Jobs
  PROVE  ThreadOK([th EXCEPT !.pc = pc, !.cand = cand])
<1>. DEFINE new == [th EXCEPT !.pc = pc, !.cand = cand]
<1>1. new \in Thread /\ new.pc = pc /\ new.buf = th.buf /\ new.snap = th.snap
  BY DEF ThreadOK, Thread, Pcs
<1>. QED
  BY <1>1 DEF ThreadOK

LEMMA PcThreadOK ==
  ASSUME NEW th, ThreadOK(th), NEW pc \in {"list", "claim", "select"}
  PROVE  ThreadOK([th EXCEPT !.pc = pc])
<1>. DEFINE new == [th EXCEPT !.pc = pc]
<1>1. new \in Thread /\ new.pc = pc /\ new.buf = th.buf /\ new.snap = th.snap
  BY DEF ThreadOK, Thread, Pcs
<1>. QED
  BY <1>1 DEF ThreadOK

LEMMA CandThreadOK ==
  ASSUME NEW th, ThreadOK(th), NEW cand \in SUBSET Jobs
  PROVE  ThreadOK([th EXCEPT !.cand = cand])
<1>. DEFINE new == [th EXCEPT !.cand = cand]
<1>1. new \in Thread /\ new.pc = th.pc /\ new.buf = th.buf /\ new.snap = th.snap
      /\ new.job = th.job /\ new.event = th.event
  BY DEF ThreadOK, Thread
<1>. QED
  BY <1>1 DEF ThreadOK

LEMMA ScanInv ==
  ASSUME Inv, NEW t \in Threads, ReclaimOne(t) \/ EndScan(t)
  PROVE  Inv'
<1>. DEFINE th == thread[t]
<1>1. ThreadOK(th)
  BY DEF Inv
<1>2. ASSUME ReclaimOne(t) PROVE Moves(t)
  <2>1. PICK j \in Stale(th) :
          LET rest == [th EXCEPT !.todo[j] = "keep"]
          IN Become(t, CASE th.todo[j] = "release" /\ Releasable(j)
                               -> ToWrite(rest, j, ReleaseRow(rows[j]), "scan")
                         [] th.todo[j] # "release" /\ rows[j].status = "running"
                               -> ToWrite(rest, j, FailRow(rows[j]), "scan")
                         [] OTHER -> rest)
    BY <1>2 DEF ReclaimOne
  <2>. DEFINE rest == [th EXCEPT !.todo[j] = "keep"]
  <2>2. j \in Jobs /\ rows[j] \in Row
    BY DEF Stale, Inv
  <2>3. rest \in Thread /\ rest.pc = "scan" /\ rest.buf = th.buf /\ rest.snap = th.snap
    BY <1>1, <1>2, <2>2 DEF ThreadOK, Thread, Verdicts, ReclaimOne
  <2>4. ThreadOK(rest)
    BY <1>1, <2>3 DEF ThreadOK
  <2>. HIDE DEF rest
  <2>5. /\ ThreadOK(ToWrite(rest, j, ReleaseRow(rows[j]), "scan"))
        /\ ThreadOK(ToWrite(rest, j, FailRow(rows[j]), "scan"))
    BY <2>2, <2>4, EndRowOK, ToWriteOK
  <2>6. Become(t, CASE th.todo[j] = "release" /\ Releasable(j)
                               -> ToWrite(rest, j, ReleaseRow(rows[j]), "scan")
                    [] th.todo[j] # "release" /\ rows[j].status = "running"
                               -> ToWrite(rest, j, FailRow(rows[j]), "scan")
                    [] OTHER -> rest)
    BY <2>1 DEF rest
  <2>. QED
    BY <2>4, <2>5, <2>6 DEF Moves
<1>3. ASSUME EndScan(t) PROVE Moves(t)
  BY <1>1, <1>3, PcThreadOK, IdleOK DEF EndScan, Moves
<1>4. UNCHANGED <<rows, outbox, claims>>
  BY DEF ReclaimOne, EndScan
<1>. QED
  BY <1>2, <1>3, <1>4, MovesOK DEF Inv

LEMMA ClaimPendingInv ==
  ASSUME Inv, NEW t \in Threads, ClaimPendingJob(t)
  PROVE  Inv'
<1>. DEFINE th == thread[t]
<1>1. ThreadOK(th) /\ th.pc = "claim"
  BY DEF Inv, ClaimPendingJob
<1>2. PICK j \in Jobs :
        \/ /\ rows' = [rows EXCEPT ![j] = ClaimRow(@, th.who)]
           /\ claims' = [claims EXCEPT ![j] = @ + 1]
           /\ Become(t, [th EXCEPT !.pc = "recheck", !.job = j, !.cand = @ \ {j}])
        \/ /\ Become(t, [th EXCEPT !.cand = @ \ {j}])
           /\ UNCHANGED <<rows, claims>>
  BY DEF ClaimPendingJob
<1>3. th.cand \ {j} \in SUBSET Jobs /\ th.who \in Runners \cup {NoRunner}
  BY <1>1 DEF ThreadOK, Thread
<1>4. CASE /\ rows' = [rows EXCEPT ![j] = ClaimRow(@, th.who)]
           /\ claims' = [claims EXCEPT ![j] = @ + 1]
           /\ Become(t, [th EXCEPT !.pc = "recheck", !.job = j, !.cand = @ \ {j}])
  <2>. DEFINE new == [th EXCEPT !.pc = "recheck", !.job = j, !.cand = @ \ {j}]
  <2>1. new \in Thread /\ new.pc = "recheck" /\ new.job = j /\ new.buf = th.buf
        /\ new.snap = th.snap
    BY <1>1, <1>3 DEF ThreadOK, Thread, Pcs
  <2>2. ThreadOK(new)
    BY <1>1, <2>1 DEF ThreadOK
  <2>3. rows' \in [Jobs -> Row] /\ \A i \in Jobs : StampsMatch(rows'[i])
    BY <1>3, <1>4, ClaimRowOK DEF Inv
  <2>4. claims' \in [Jobs -> Nat]
    BY <1>4 DEF Inv
  <2>5. Moves(t)
    BY <1>4, <2>2 DEF Moves
  <2>. QED
    BY <2>3, <2>4, <2>5, MovesOK DEF Inv, ClaimPendingJob
<1>5. CASE Become(t, [th EXCEPT !.cand = @ \ {j}]) /\ UNCHANGED <<rows, claims>>
  BY <1>1, <1>3, <1>5, CandThreadOK, MovesOK DEF Moves, Inv, ClaimPendingJob
<1>. QED
  BY <1>2, <1>4, <1>5

LEMMA ClaimInv ==
  ASSUME Inv, NEW t \in Threads,
         \/ ListPending(t) \/ SkipCandidate(t) \/ NothingToClaim(t)
         \/ HandOver(t) \/ DenyAfterClaim(t)
  PROVE  Inv'
<1>. DEFINE th == thread[t]
<1>1. ThreadOK(th)
  BY DEF Inv
<1>2. ASSUME ListPending(t) PROVE Moves(t)
  <2>. DEFINE S == {j \in Jobs : rows[j].status \in Claimable}
  <2>1. S \in SUBSET Jobs /\ Become(t, [th EXCEPT !.pc = "claim", !.cand = S])
    BY <1>2 DEF ListPending
  <2>. HIDE DEF S
  <2>. QED
    BY <1>1, <2>1, StepThreadOK DEF Moves
<1>3. ASSUME SkipCandidate(t) PROVE Moves(t)
  <2>1. PICK j \in Jobs : Become(t, [th EXCEPT !.cand = @ \ {j}])
    BY <1>3 DEF SkipCandidate
  <2>2. th.cand \ {j} \in SUBSET Jobs
    BY <1>1 DEF ThreadOK, Thread
  <2>. QED
    BY <1>1, <2>1, <2>2, CandThreadOK DEF Moves
<1>4. ASSUME NothingToClaim(t) \/ HandOver(t) PROVE Moves(t)
  BY <1>4, IdleOK DEF NothingToClaim, HandOver, Moves
<1>5. ASSUME DenyAfterClaim(t) PROVE Moves(t)
  <2>1. th.job \in Jobs /\ rows[th.job] \in Row
    BY <1>1, <1>5 DEF DenyAfterClaim, ThreadOK, Inv
  <2>2. \A ret \in {"idle", "claim"} :
           ThreadOK(ToWrite(th, th.job, ReleaseRow(rows[th.job]), ret))
    BY <1>1, <2>1, EndRowOK, ToWriteOK
  <2>. QED
    BY <1>5, <2>2, IdleOK DEF DenyAfterClaim, Moves
<1>6. UNCHANGED <<rows, outbox, claims>>
  BY DEF ListPending, SkipCandidate, NothingToClaim, HandOver, DenyAfterClaim
<1>. QED
  BY <1>2, <1>3, <1>4, <1>5, <1>6, MovesOK DEF Inv

LEMMA PurgeInv ==
  ASSUME Inv, NEW t \in Threads,
         PurgeSelect(t) \/ PurgeDelete(t) \/ DeleteWebhookOutboxByJobIDs(t)
  PROVE  Inv'
<1>. DEFINE th == thread[t]
<1>1. ThreadOK(th)
  BY DEF Inv
<1>2. ASSUME PurgeSelect(t) PROVE Inv'
  <2>1. SelectOld(t, th, Retain)
    BY <1>2 DEF PurgeSelect
  <2>. QED
    BY <1>1, <2>1, ListsMove, MovesOK DEF SelectOld, Inv, ThreadOK
<1>3. ASSUME PurgeDelete(t) PROVE Inv'
  <2>1. PICK j \in th.cand :
          /\ rows' = [rows EXCEPT ![j] = [NoRow EXCEPT !.status = "gone"]]
          /\ Become(t, [th EXCEPT !.cand = @ \ {j},
                                  !.pc = IF th.cand = {j} THEN "cascade" ELSE @])
    BY <1>3 DEF PurgeDelete
  <2>. DEFINE pc2 == IF th.cand = {j} THEN "cascade" ELSE th.pc
              new == [th EXCEPT !.cand = @ \ {j}, !.pc = pc2]
  <2>2. pc2 \in {"delete", "cascade"}
    BY <1>3 DEF PurgeDelete
  <2>3. Become(t, new)
    BY <2>1
  <2>. HIDE DEF pc2
  <2>4. new \in Thread /\ new.pc = pc2 /\ new.buf = th.buf /\ new.snap = th.snap
    BY <1>1, <2>2 DEF ThreadOK, Thread, Pcs
  <2>5. ThreadOK(new)
    BY <1>1, <2>2, <2>4 DEF ThreadOK
  <2>6. Moves(t)
    BY <2>3, <2>5 DEF Moves
  <2>7. rows' \in [Jobs -> Row] /\ \A i \in Jobs : StampsMatch(rows'[i])
    BY <2>1, GoneOK DEF Inv
  <2>. QED
    BY <1>3, <2>6, <2>7, MovesOK DEF Inv, PurgeDelete
<1>4. ASSUME DeleteWebhookOutboxByJobIDs(t) PROVE Inv'
  <2>1. PICK j \in th.ids :
          /\ outbox' = [outbox EXCEPT ![j] = {}]
          /\ Become(t, IF th.ids = {j} THEN Idle ELSE [th EXCEPT !.ids = @ \ {j}])
    BY <1>4 DEF DeleteWebhookOutboxByJobIDs
  <2>. DEFINE new == [th EXCEPT !.ids = @ \ {j}]
  <2>2. new \in Thread /\ new.pc = "cascade" /\ new.buf = th.buf /\ new.snap = th.snap
    BY <1>1, <1>4 DEF ThreadOK, Thread, DeleteWebhookOutboxByJobIDs
  <2>3. ThreadOK(new)
    BY <1>1, <2>2 DEF ThreadOK
  <2>4. Moves(t)
    BY <2>1, <2>3, IdleOK DEF Moves
  <2>5. outbox' \in [Jobs -> SUBSET Terminal]
    BY <2>1 DEF Inv
  <2>. QED
    BY <1>4, <2>4, <2>5, MovesOK DEF Inv, DeleteWebhookOutboxByJobIDs
<1>. QED
  BY <1>2, <1>3, <1>4

LEMMA CancelListInv ==
  ASSUME Inv, NEW t \in Threads, CancelListed(t) \/ EndCancelList(t)
  PROVE  Inv'
<1>. DEFINE th == thread[t]
<1>1. ThreadOK(th)
  BY DEF Inv
<1>2. ASSUME CancelListed(t) PROVE Inv'
  <2>1. PICK j \in Listed(th) :
          LET rest == [th EXCEPT !.snap[j] = NoRow]
          IN \/ /\ rows' = [rows EXCEPT ![j] = CancelRow(th.snap[j])]
                /\ Become(t, [rest EXCEPT !.pc = "notify", !.job = j,
                                          !.event = "cancelled", !.ret = "cancel"])
             \/ Become(t, rest) /\ UNCHANGED rows
    BY <1>2 DEF CancelListed
  <2>. DEFINE sn == [th.snap EXCEPT ![j] = NoRow]
              rest == [th EXCEPT !.snap = sn]
              new == [rest EXCEPT !.pc = "notify", !.job = j,
                                  !.event = "cancelled", !.ret = "cancel"]
  <2>2. j \in Jobs /\ th.snap[j] \in Row
    BY <1>1 DEF Listed, ThreadOK, Thread
  <2>3. sn \in [Jobs -> Row] /\ \A i \in Jobs : StampsMatch(sn[i])
    BY <1>1, <2>2, NoRowOK DEF ThreadOK, Thread
  <2>4. \/ rows' = [rows EXCEPT ![j] = CancelRow(th.snap[j])] /\ Become(t, new)
        \/ Become(t, rest) /\ UNCHANGED rows
    BY <2>1
  <2>. HIDE DEF sn
  <2>5. rest \in Thread /\ rest.pc = "cancel" /\ rest.buf = th.buf /\ rest.snap = sn
    BY <1>1, <1>2, <2>3 DEF ThreadOK, Thread, CancelListed
  <2>6. new \in Thread /\ new.pc = "notify" /\ new.buf = th.buf /\ new.snap = sn
        /\ new.job = j /\ new.event = "cancelled"
    BY <1>1, <2>2, <2>3 DEF ThreadOK, Thread, Pcs, Terminal
  <2>7. ThreadOK(rest) /\ ThreadOK(new)
    BY <1>1, <2>2, <2>3, <2>5, <2>6 DEF ThreadOK, Terminal
  <2>8. Moves(t)
    BY <2>4, <2>7 DEF Moves
  <2>9. rows' \in [Jobs -> Row] /\ \A i \in Jobs : StampsMatch(rows'[i])
    BY <2>2, <2>4, EndRowOK DEF Inv
  <2>. QED
    BY <1>2, <2>8, <2>9, MovesOK DEF Inv, CancelListed
<1>3. ASSUME EndCancelList(t) PROVE Inv'
  <2>1. CASE ListToCancel(t, "cancelRunning", "running")
    <3>1. "cancelRunning" \in Ops
      BY DEF Ops
    <3>. QED
      BY <2>1, <3>1, ListsMove, MovesOK DEF ListToCancel, Inv
  <2>2. CASE Become(t, Idle) /\ UNCHANGED <<rows, outbox, claims>>
    BY <2>2, IdleOK, MovesOK DEF Moves, Inv
  <2>. QED
    BY <1>3, <2>1, <2>2 DEF EndCancelList
<1>. QED
  BY <1>2, <1>3

LEMMA TickInv ==
  ASSUME Inv, Tick
  PROVE  Inv'
<1>1. rows' \in [Jobs -> Row] /\ \A j \in Jobs : StampsMatch(rows'[j])
  BY OlderRowOK DEF Inv, Tick
<1>2. ASSUME NEW t \in Threads
      PROVE  ThreadOK(thread'[t])
  <2>. DEFINE th == thread[t]
              sn == [j \in Jobs |-> OlderRow(th.snap[j])]
              b  == OlderRow(th.buf)
              new == [th EXCEPT !.buf = b, !.snap = sn]
  <2>1. ThreadOK(th)
    BY DEF Inv
  <2>2. sn \in [Jobs -> Row] /\ \A j \in Jobs : StampsMatch(sn[j])
    BY <2>1, OlderRowOK DEF ThreadOK, Thread
  <2>3. b \in Row /\ StampsMatch(b)
    BY <2>1, OlderRowOK DEF ThreadOK, Thread
  <2>4. thread'[t] = new
    BY DEF Tick
  <2>. HIDE DEF sn, b
  <2>5. new \in Thread /\ new.pc = th.pc /\ new.buf = b /\ new.snap = sn
        /\ new.job = th.job /\ new.event = th.event
    BY <2>1, <2>2, <2>3 DEF ThreadOK, Thread
  <2>6. ThreadOK(new)
    BY <2>1, <2>2, <2>3, <2>5 DEF ThreadOK
  <2>. QED
    BY <2>4, <2>6
<1>3. thread' \in [Threads -> Thread]
  <2>1. thread' = [t \in Threads |-> thread'[t]]
    BY DEF Tick
  <2>. QED
    BY <1>2, <2>1 DEF ThreadOK
<1>. QED
  BY <1>1, <1>2, <1>3 DEF Inv, Tick

LEMMA NextInv == Inv /\ [Next]_vars => Inv'
<1>. SUFFICES ASSUME Inv, [Next]_vars PROVE Inv'
  OBVIOUS
<1>1. ASSUME NEW j \in Jobs, Create(j) PROVE Inv'
  BY <1>1, CreateRowOK DEF Create, Inv
<1>2. ASSUME NEW t \in Threads, Begin(t) \/ Maintain(t) PROVE Inv'
  BY <1>2, BeginInv
<1>3. ASSUME NEW t \in Threads, Continue(t) PROVE Inv'
  BY <1>3, UpdateJobInv, NotifyInv, ScanInv, ClaimPendingInv, ClaimInv, PurgeInv,
     CancelListInv DEF Continue
<1>4. CASE Tick
  BY <1>4, TickInv
<1>5. CASE Crash
  BY <1>5, IdleOK DEF Crash, Inv, ThreadOK
<1>6. CASE UNCHANGED vars
  BY <1>6 DEF vars, Inv
<1>. QED
  BY <1>1, <1>2, <1>3, <1>4, <1>5, <1>6 DEF Next

LEMMA SpecInv == Spec => []Inv
  BY InitInv, NextInv, PTL DEF Spec

(* The tables and the goroutines always have their types.                  *)
THEOREM TypeCorrect == Spec => []TypeOK
<1>1. Inv => TypeOK
  BY DEF Inv, TypeOK
<1>. QED
  BY <1>1, SpecInv, PTL

(* heartbeat_at and claimed_at are set exactly on running rows, and a      *)
(* claimable row names no runner, whatever operations overlap or crash.    *)
THEOREM StampsCorrect == Spec => []LeaseStamps
<1>1. Inv => LeaseStamps
  BY DEF Inv, ThreadOK, LeaseStamps
<1>. QED
  BY <1>1, SpecInv, PTL

-----------------------------------------------------------------------------
(* Purged rows.                                                            *)

LEMMA GoneStays ==
  ASSUME Inv, [Next]_vars, NEW j \in Jobs, rows[j].status = "gone"
  PROVE  rows'[j].status = "gone"
<1>1. ASSUME NEW i \in Jobs, Create(i) PROVE rows'[j].status = "gone"
  BY <1>1 DEF Create, Inv
<1>2. ASSUME NEW t \in Threads, Begin(t) \/ Maintain(t) PROVE rows'[j].status = "gone"
  BY <1>2 DEF Begin, Maintain, Heartbeat, Complete, Cancel, Release, Claim, ClaimNext,
     AdminReclaim, AdminPurge, AdminCancelAll, ListRunning, SelectOld, ListToCancel
<1>3. ASSUME NEW t \in Threads, Continue(t) PROVE rows'[j].status = "gone"
  <2>1. CASE UpdateJob(t)
    BY <2>1 DEF UpdateJob, Present, Inv
  <2>2. CASE ClaimPendingJob(t)
    BY <2>2 DEF ClaimPendingJob, Claimable, Inv
  <2>3. CASE PurgeDelete(t)
    BY <2>3 DEF PurgeDelete, NoRow, Inv
  <2>4. CASE CancelListed(t)
    BY <2>4 DEF CancelListed, Present, Inv
  <2>5. CASE ~(UpdateJob(t) \/ ClaimPendingJob(t) \/ PurgeDelete(t) \/ CancelListed(t))
    BY <1>3, <2>5 DEF Continue, NotifyJobTerminal, ReclaimOne, EndScan, ListPending,
       SkipCandidate, NothingToClaim, HandOver, DenyAfterClaim, PurgeSelect, SelectOld,
       DeleteWebhookOutboxByJobIDs, EndCancelList, ListToCancel
  <2>. QED
    BY <2>1, <2>2, <2>3, <2>4, <2>5
<1>4. CASE Tick
  BY <1>4, OlderRowOK DEF Tick, Inv
<1>5. CASE Crash \/ UNCHANGED vars
  BY <1>5 DEF Crash, vars
<1>. QED
  BY <1>1, <1>2, <1>3, <1>4, <1>5 DEF Next

(* A purged job is never brought back by a goroutine that read its row     *)
(* before the purge.                                                       *)
THEOREM PurgeFinal == Spec => PurgeIsFinal
<1>1. Inv /\ [Next]_vars
        => [\A j \in Jobs : rows[j].status = "gone" => rows'[j].status = "gone"]_vars
  BY GoneStays
<1>. QED
  BY <1>1, SpecInv, PTL DEF Spec, PurgeIsFinal

-----------------------------------------------------------------------------
(* Attempt counts.  Rows that goroutines carry count as stored ones: they  *)
(* may be written back at any time.                                        *)

Counted(th) ==
  /\ th.pc = "write" => th.buf.attempts <= claims[th.job]
  /\ \A j \in Jobs : th.snap[j].attempts <= claims[j]

AttemptsInv ==
  /\ AttemptsNeverOvercount
  /\ \A t \in Threads : Counted(thread[t])

LEMMA IdleCounted == Inv => Counted(Idle)
  BY DEF Inv, Counted, Idle, NoRow

(* No operation but a claim changes attempt_count.                         *)
LEMMA RowOpsCount ==
  ASSUME NEW r \in Row
  PROVE  /\ HeartbeatRow(r).attempts = r.attempts
         /\ \A ok : CompleteRow(r, ok).attempts = r.attempts
         /\ CancelRow(r).attempts = r.attempts
         /\ ReleaseRow(r).attempts = r.attempts
         /\ FailRow(r).attempts = r.attempts
         /\ \A k : ClaimRow(r, k).attempts = r.attempts + 1
  BY DEF HeartbeatRow, CompleteRow, CancelRow, ReleaseRow, FailRow, ClaimRow, Row

LEMMA ToWriteCounted ==
  ASSUME NEW th \in Thread, Counted(th), NEW j \in Jobs, NEW r \in Row,
         r.attempts <= claims[j], NEW ret
  PROVE  Counted(ToWrite(th, j, r, ret))
<1>1. LET w == ToWrite(th, j, r, ret)
      IN w.buf = r /\ w.job = j /\ w.snap = th.snap
  BY DEF ToWrite, Thread
<1>. QED
  BY <1>1 DEF Counted

LEMMA ResumeCounted ==
  ASSUME Inv, NEW th \in Thread, Counted(th)
  PROVE  Counted(Resume(th))
<1>1. CASE th.ret = "idle"
  BY <1>1, IdleCounted DEF Resume
<1>2. CASE th.ret # "idle"
  <2>1. Resume(th).pc = th.ret /\ Resume(th).snap = th.snap
    BY <1>2 DEF Resume, Thread
  <2>. QED
    BY <2>1 DEF Counted, Thread
<1>. QED
  BY <1>1, <1>2

(* A step of goroutine t that is not a claim.                              *)
Keeps(t) == /\ \E th \in Thread : Counted(th) /\ Become(t, th)
            /\ claims' = claims
            /\ \A j \in Jobs : rows'[j].attempts <= claims[j]

LEMMA KeepsAttempts ==
  ASSUME Inv, AttemptsInv, NEW t \in Threads, Keeps(t)
  PROVE  AttemptsInv'
<1>1. PICK th \in Thread : Counted(th) /\ Become(t, th)
  BY DEF Keeps
<1>2. \A u \in Threads : thread'[u] = th \/ thread'[u] = thread[u]
  BY <1>1, BecomeOK DEF Inv
<1>3. \A u \in Threads : Counted(thread[u])'
  BY <1>1, <1>2 DEF Keeps, AttemptsInv, Counted
<1>. QED
  BY <1>3 DEF Keeps, AttemptsInv, AttemptsNeverOvercount

LEMMA BeginAttempts ==
  ASSUME Inv, AttemptsInv, NEW t \in Threads, Begin(t) \/ Maintain(t)
  PROVE  AttemptsInv'
<1>. DEFINE C(th) == th \in Thread /\ Counted(th) /\ Become(t, th)
            F == \E th : C(th)
<1>0. Idle \in Thread /\ Counted(Idle)
  BY IdleOK, IdleCounted DEF ThreadOK
<1>1. ASSUME NEW j \in Jobs, NEW r \in Row, StampsMatch(r), r.attempts <= claims[j],
             Become(t, ToWrite(Idle, j, r, "idle"))
      PROVE  F
  <2>1. ThreadOK(ToWrite(Idle, j, r, "idle"))
    BY <1>1, IdleOK, ToWriteOK
  <2>2. Counted(ToWrite(Idle, j, r, "idle"))
    BY <1>0, <1>1, ToWriteCounted
  <2>. QED
    BY <1>1, <2>1, <2>2 DEF ThreadOK
<1>2. ASSUME NEW j \in Jobs,
             \/ Heartbeat(t, j)
             \/ \E ok \in BOOLEAN : Complete(t, j, ok)
             \/ Cancel(t, j)
             \/ Release(t, j)
      PROVE  F
  <2>1. rows[j] \in Row /\ StampsMatch(rows[j]) /\ rows[j].attempts <= claims[j]
    BY DEF Inv, AttemptsInv, AttemptsNeverOvercount
  <2>2. CASE Heartbeat(t, j)
    BY <1>1, <2>1, <2>2, HeartbeatRowOK, RowOpsCount DEF Heartbeat
  <2>3. CASE \E ok \in BOOLEAN : Complete(t, j, ok)
    BY <1>1, <2>1, <2>3, CompleteRowOK, RowOpsCount DEF Complete
  <2>4. CASE Cancel(t, j)
    BY <1>1, <2>1, <2>4, EndRowOK, RowOpsCount DEF Cancel
  <2>5. CASE Release(t, j)
    BY <1>1, <2>1, <2>5, EndRowOK, RowOpsCount DEF Release
  <2>. QED
    BY <1>2, <2>2, <2>3, <2>4, <2>5
<1>3. ASSUME NEW op \in Ops, NEW k \in Runners \cup {NoRunner}, NEW one \in SUBSET Jobs,
             ListRunning(t, op, k, one)
      PROVE  F
  BY <1>0, <1>3, ListRunningThread DEF Counted
<1>4. ASSUME \/ \E j \in Jobs, k \in Runners : Claim(t, j, k)
             \/ \E k \in Runners : ClaimNext(t, k)
             \/ \E op \in {"reclaim", "reclaimAll"} : AdminReclaim(t, op)
             \/ Maintain(t)
      PROVE  \E op \in Ops, k \in Runners \cup {NoRunner}, one \in SUBSET Jobs :
                ListRunning(t, op, k, one)
  <2>1. {"claimOne", "claimNext", "reclaim", "reclaimAll", "maintain"} \subseteq Ops
    BY DEF Ops
  <2>. QED
    BY <1>4, <2>1 DEF Claim, ClaimNext, AdminReclaim, Maintain
<1>5. ASSUME NEW older \in 1..(MaxAge - 1), AdminPurge(t, older) PROVE F
  <2>. DEFINE th == [Idle EXCEPT !.op = "purge"]
  <2>1. th \in Thread /\ th.pc = "idle" /\ th.snap = Idle.snap
    BY <1>0 DEF Thread, Ops, Idle
  <2>. HIDE DEF th
  <2>2. SelectOld(t, th, older)
    BY <1>5 DEF AdminPurge, th
  <2>. QED
    BY <1>0, <2>1, <2>2, SelectOldThread DEF Counted
<1>6. ASSUME NEW op \in {"cancelAll", "cancelPending", "cancelRunning"}, AdminCancelAll(t, op)
      PROVE  F
  <2>1. op \in Ops /\ \E st : ListToCancel(t, op, st)
    BY <1>6 DEF AdminCancelAll, Ops
  <2>2. \A j \in Jobs : NoRow.attempts <= claims[j] /\ rows[j].attempts <= claims[j]
    BY DEF NoRow, Inv, AttemptsInv, AttemptsNeverOvercount
  <2>. QED
    BY <2>1, <2>2, ListToCancelThread DEF Counted
<1>7. F
  BY <1>2, <1>3, <1>4, <1>5, <1>6 DEF Begin
<1>8. UNCHANGED <<rows, claims>>
  BY DEF Begin, Maintain, Heartbeat, Complete, Cancel, Release, Claim, ClaimNext,
     AdminReclaim, AdminPurge, AdminCancelAll, ListRunning, SelectOld, ListToCancel
<1>. QED
  BY <1>7, <1>8, KeepsAttempts DEF Keeps, AttemptsInv, AttemptsNeverOvercount

(* Steps that write no row, and leave the listed rows alone or drop them.  *)
LEMMA QuietCounted ==
  ASSUME NEW th \in Thread, Counted(th), NEW new \in Thread, new.pc # "write",
         \A j \in Jobs : new.snap[j] \in {th.snap[j], NoRow}, Inv
  PROVE  Counted(new)
  BY DEF Counted, NoRow, Inv

LEMMA WriteAttempts ==
  ASSUME Inv, AttemptsInv, NEW t \in Threads, UpdateJob(t) \/ NotifyJobTerminal(t)
  PROVE  AttemptsInv'
<1>. DEFINE th == thread[t]
            nt == [th EXCEPT !.pc = "notify", !.event = th.buf.status, !.buf = NoRow]
<1>1. /\ th \in Thread /\ ThreadOK(th) /\ Counted(th) /\ th.job \in Jobs
      /\ th.buf \in Row /\ Idle \in Thread /\ Counted(Idle)
  BY IdleOK, IdleCounted DEF Inv, AttemptsInv, ThreadOK, Thread, UpdateJob, NotifyJobTerminal
<1>2. Resume(th) \in Thread /\ Counted(Resume(th))
  BY <1>1, ResumeOK, ResumeCounted DEF ThreadOK
<1>3. CASE UpdateJob(t)
  <2>1. \A j \in Jobs : rows'[j].attempts <= claims[j]
    BY <1>1, <1>3 DEF UpdateJob, Inv, AttemptsInv, AttemptsNeverOvercount, Counted
  <2>2. ASSUME th.buf.status \in Terminal PROVE nt \in Thread /\ Counted(nt)
    <3>1. nt \in Thread /\ nt.pc = "notify" /\ nt.snap = th.snap
      BY <1>1, <2>2, NoRowOK DEF Thread, Pcs
    <3>. QED
      BY <1>1, <3>1, QuietCounted
  <2>3. \E new \in Thread : Counted(new) /\ Become(t, new)
    BY <1>1, <1>2, <1>3, <2>2 DEF UpdateJob, AfterUpdate
  <2>. QED
    BY <1>3, <2>1, <2>3, KeepsAttempts DEF Keeps, UpdateJob
<1>4. CASE NotifyJobTerminal(t)
  BY <1>2, <1>4, KeepsAttempts
     DEF Keeps, NotifyJobTerminal, AttemptsInv, AttemptsNeverOvercount
<1>. QED
  BY <1>3, <1>4

LEMMA ScanAttempts ==
  ASSUME Inv, AttemptsInv, NEW t \in Threads, ReclaimOne(t) \/ EndScan(t)
  PROVE  AttemptsInv'
<1>. DEFINE th == thread[t]
<1>1. th \in Thread /\ ThreadOK(th) /\ Counted(th) /\ Idle \in Thread /\ Counted(Idle)
  BY IdleOK, IdleCounted DEF Inv, AttemptsInv, ThreadOK
<1>2. ASSUME ReclaimOne(t) PROVE \E new \in Thread : Counted(new) /\ Become(t, new)
  <2>1. PICK j \in Stale(th) :
          LET rest == [th EXCEPT !.todo[j] = "keep"]
          IN Become(t, CASE th.todo[j] = "release" /\ Releasable(j)
                               -> ToWrite(rest, j, ReleaseRow(rows[j]), "scan")
                         [] th.todo[j] # "release" /\ rows[j].status = "running"
                               -> ToWrite(rest, j, FailRow(rows[j]), "scan")
                         [] OTHER -> rest)
    BY <1>2 DEF ReclaimOne
  <2>. DEFINE rest == [th EXCEPT !.todo[j] = "keep"]
  <2>2. j \in Jobs /\ rows[j] \in Row /\ rows[j].attempts <= claims[j]
    BY DEF Stale, Inv, AttemptsInv, AttemptsNeverOvercount
  <2>3. rest \in Thread /\ rest.pc = "scan" /\ rest.buf = th.buf /\ rest.snap = th.snap
    BY <1>1, <1>2, <2>2 DEF Thread, Verdicts, ReclaimOne
  <2>4. ThreadOK(rest) /\ Counted(rest)
    BY <1>1, <2>3, QuietCounted DEF ThreadOK
  <2>5. Become(t, CASE th.todo[j] = "release" /\ Releasable(j)
                               -> ToWrite(rest, j, ReleaseRow(rows[j]), "scan")
                    [] th.todo[j] # "release" /\ rows[j].status = "running"
                               -> ToWrite(rest, j, FailRow(rows[j]), "scan")
                    [] OTHER -> rest)
    BY <2>1
  <2>. HIDE DEF rest
  <2>6. \A r \in {ReleaseRow(rows[j]), FailRow(rows[j])} :
           r \in Row /\ StampsMatch(r) /\ r.attempts <= claims[j]
    BY <2>2, EndRowOK, RowOpsCount
  <2>7. \A r \in {ReleaseRow(rows[j]), FailRow(rows[j])} :
           ToWrite(rest, j, r, "scan") \in Thread /\ Counted(ToWrite(rest, j, r, "scan"))
    BY <2>2, <2>3, <2>4, <2>6, ToWriteOK, ToWriteCounted DEF ThreadOK
  <2>. QED
    BY <2>3, <2>4, <2>5, <2>7
<1>3. ASSUME EndScan(t) PROVE \E new \in Thread : Counted(new) /\ Become(t, new)
  <2>1. \A pc \in {"list", "claim", "select"} :
           [th EXCEPT !.pc = pc] \in Thread /\ Counted([th EXCEPT !.pc = pc])
    <3>1. ASSUME NEW pc \in {"list", "claim", "select"}
          PROVE  LET new == [th EXCEPT !.pc = pc]
                 IN new \in Thread /\ new.pc # "write" /\ new.snap = th.snap
      BY <1>1, <3>1 DEF Thread, Pcs
    <3>. QED
      BY <1>1, <3>1, QuietCounted
  <2>. QED
    BY <1>1, <1>3, <2>1 DEF EndScan
<1>. QED
  BY <1>2, <1>3, KeepsAttempts
     DEF Keeps, ReclaimOne, EndScan, AttemptsInv, AttemptsNeverOvercount

LEMMA ClaimAttempts ==
  ASSUME Inv, AttemptsInv, NEW t \in Threads,
         \/ ListPending(t) \/ SkipCandidate(t) \/ NothingToClaim(t)
         \/ HandOver(t) \/ DenyAfterClaim(t)
  PROVE  AttemptsInv'
<1>. DEFINE th == thread[t]
            F == \E new \in Thread : Counted(new) /\ Become(t, new)
<1>1. th \in Thread /\ ThreadOK(th) /\ Counted(th) /\ Idle \in Thread /\ Counted(Idle)
  BY IdleOK, IdleCounted DEF Inv, AttemptsInv, ThreadOK
<1>2. ASSUME ListPending(t) PROVE F
  <2>. DEFINE S == {j \in Jobs : rows[j].status \in Claimable}
              new == [th EXCEPT !.pc = "claim", !.cand = S]
  <2>1. S \in SUBSET Jobs /\ Become(t, new)
    BY <1>2 DEF ListPending
  <2>. HIDE DEF S
  <2>2. new \in Thread /\ new.pc = "claim" /\ new.snap = th.snap
    BY <1>1, <2>1 DEF Thread, Pcs
  <2>. QED
    BY <1>1, <2>1, <2>2, QuietCounted
<1>3. ASSUME SkipCandidate(t) PROVE F
  <2>1. PICK j \in Jobs : Become(t, [th EXCEPT !.cand = @ \ {j}])
    BY <1>3 DEF SkipCandidate
  <2>. DEFINE new == [th EXCEPT !.cand = @ \ {j}]
  <2>2. new \in Thread /\ new.pc = "claim" /\ new.snap = th.snap
    BY <1>1, <1>3 DEF Thread, SkipCandidate
  <2>. QED
    BY <1>1, <2>1, <2>2, QuietCounted
<1>4. ASSUME NothingToClaim(t) \/ HandOver(t) PROVE F
  BY <1>1, <1>4 DEF NothingToClaim, HandOver
<1>5. ASSUME DenyAfterClaim(t) PROVE F
  <2>1. th.job \in Jobs /\ rows[th.job] \in Row /\ rows[th.job].attempts <= claims[th.job]
    BY <1>1, <1>5 DEF DenyAfterClaim, ThreadOK, Inv, AttemptsInv, AttemptsNeverOvercount
  <2>. DEFINE r == ReleaseRow(rows[th.job])
  <2>2. r \in Row /\ StampsMatch(r) /\ r.attempts <= claims[th.job]
    BY <2>1, EndRowOK, RowOpsCount
  <2>3. Become(t, IF Releasable(th.job)
                  THEN ToWrite(th, th.job, r, IF th.op = "claimNext" THEN "claim" ELSE "idle")
                  ELSE Idle)
    BY <1>5 DEF DenyAfterClaim
  <2>. HIDE DEF r
  <2>4. \A ret \in {"idle", "claim"} :
           ToWrite(th, th.job, r, ret) \in Thread /\ Counted(ToWrite(th, th.job, r, ret))
    BY <1>1, <2>1, <2>2, ToWriteOK, ToWriteCounted DEF ThreadOK
  <2>. QED
    BY <1>1, <2>3, <2>4
<1>. QED
  BY <1>2, <1>3, <1>4, <1>5, KeepsAttempts
     DEF Keeps, ListPending, SkipCandidate, NothingToClaim, HandOver, DenyAfterClaim,
         AttemptsInv, AttemptsNeverOvercount

(* A claim adds one to the row and to the history alike; rows carried by   *)
(* other goroutines are only further below the history.                    *)
LEMMA ClaimPendingAttempts ==
  ASSUME Inv, AttemptsInv, NEW t \in Threads, ClaimPendingJob(t)
  PROVE  AttemptsInv'
<1>. DEFINE th == thread[t]
<1>1. th \in Thread /\ Counted(th) /\ th.pc = "claim"
  BY DEF Inv, AttemptsInv, ClaimPendingJob
<1>2. PICK j \in Jobs :
        \/ /\ rows' = [rows EXCEPT ![j] = ClaimRow(@, th.who)]
           /\ claims' = [claims EXCEPT ![j] = @ + 1]
           /\ Become(t, [th EXCEPT !.pc = "recheck", !.job = j, !.cand = @ \ {j}])
        \/ /\ Become(t, [th EXCEPT !.cand = @ \ {j}])
           /\ UNCHANGED <<rows, claims>>
  BY DEF ClaimPendingJob
<1>3. CASE /\ rows' = [rows EXCEPT ![j] = ClaimRow(@, th.who)]
           /\ claims' = [claims EXCEPT ![j] = @ + 1]
           /\ Become(t, [th EXCEPT !.pc = "recheck", !.job = j, !.cand = @ \ {j}])
  <2>. DEFINE new == [th EXCEPT !.pc = "recheck", !.job = j, !.cand = @ \ {j}]
  <2>1. new \in Thread /\ new.pc = "recheck" /\ new.snap = th.snap
    BY <1>1 DEF Thread, Pcs
  <2>2. \A i \in Jobs : claims[i] \in Nat /\ claims'[i] \in Nat /\ claims[i] <= claims'[i]
    BY <1>3 DEF Inv
  <2>3. \A i \in Jobs : rows'[i].attempts <= claims'[i]
    <3>1. rows[j] \in Row /\ rows[j].attempts \in Nat /\ rows[j].attempts <= claims[j]
          /\ claims[j] \in Nat
      BY DEF Inv, AttemptsInv, AttemptsNeverOvercount, Row
    <3>2. rows'[j].attempts = rows[j].attempts + 1
      BY <1>3, <3>1, RowOpsCount DEF Inv
    <3>3. claims'[j] = claims[j] + 1
      BY <1>3 DEF Inv
    <3>4. rows'[j].attempts <= claims'[j]
      BY <3>1, <3>2, <3>3
    <3>5. \A i \in Jobs \ {j} : rows'[i] = rows[i]
      BY <1>3 DEF Inv
    <3>6. \A i \in Jobs \ {j} : rows'[i].attempts <= claims'[i]
      BY <1>3, <3>5 DEF Inv, AttemptsInv, AttemptsNeverOvercount
    <3>. QED
      BY <3>4, <3>6
  <2>4. \A u \in Threads : thread'[u] = new \/ thread'[u] = thread[u]
    BY <1>3, <2>1, BecomeOK DEF Inv
  <2>5. ASSUME NEW n, n \in Thread, Counted(n), ThreadOK(n)
        PROVE  /\ n.pc = "write" => n.buf.attempts <= claims'[n.job]
               /\ \A i \in Jobs : n.snap[i].attempts <= claims'[i]
    <3>1. n.buf.attempts \in Nat /\ \A i \in Jobs : n.snap[i].attempts \in Nat
      BY <2>5 DEF Thread, Row
    <3>2. \A i \in Jobs : n.snap[i].attempts <= claims'[i]
      BY <2>2, <2>5, <3>1 DEF Counted
    <3>3. ASSUME n.pc = "write" PROVE n.buf.attempts <= claims'[n.job]
      BY <2>2, <2>5, <3>1, <3>3 DEF Counted, ThreadOK
    <3>. QED
      BY <3>2, <3>3
  <2>6. \A u \in Threads : /\ thread[u] \in Thread /\ ThreadOK(thread[u])
                           /\ Counted(thread[u])
    BY DEF Inv, AttemptsInv
  <2>7. \A i \in Jobs : th.snap[i].attempts <= claims'[i]
    BY <2>5, <2>6
  <2>8. \A u \in Threads : Counted(thread[u])'
    BY <2>1, <2>4, <2>5, <2>6, <2>7 DEF Counted
  <2>. QED
    BY <2>3, <2>8 DEF AttemptsInv, AttemptsNeverOvercount
<1>4. CASE Become(t, [th EXCEPT !.cand = @ \ {j}]) /\ UNCHANGED <<rows, claims>>
  <2>. DEFINE new == [th EXCEPT !.cand = @ \ {j}]
  <2>1. new \in Thread /\ new.pc = "claim" /\ new.snap = th.snap
    BY <1>1 DEF Thread
  <2>. QED
    BY <1>1, <1>4, <2>1, QuietCounted, KeepsAttempts
       DEF Keeps, AttemptsInv, AttemptsNeverOvercount
<1>. QED
  BY <1>2, <1>3, <1>4

LEMMA PurgeAttempts ==
  ASSUME Inv, AttemptsInv, NEW t \in Threads,
         PurgeSelect(t) \/ PurgeDelete(t) \/ DeleteWebhookOutboxByJobIDs(t)
  PROVE  AttemptsInv'
<1>. DEFINE th == thread[t]
<1>1. th \in Thread /\ Counted(th) /\ Idle \in Thread /\ Counted(Idle)
  BY IdleOK, IdleCounted DEF Inv, AttemptsInv, ThreadOK
<1>2. CASE PurgeSelect(t)
  <2>. DEFINE old == {j \in Jobs : rows[j].status \in Terminal /\ rows[j].updated > Retain}
              new == [th EXCEPT !.pc = "delete", !.cand = old, !.ids = old]
  <2>1. old \in SUBSET Jobs /\ Become(t, IF old = {} THEN Idle ELSE new)
        /\ UNCHANGED <<rows, claims>>
    BY <1>2 DEF PurgeSelect, SelectOld
  <2>. HIDE DEF old
  <2>2. new \in Thread /\ new.pc = "delete" /\ new.snap = th.snap
    BY <1>1, <2>1 DEF Thread, Pcs
  <2>3. Counted(new)
    BY <1>1, <2>2, QuietCounted
  <2>. QED
    BY <1>1, <2>1, <2>2, <2>3, KeepsAttempts DEF Keeps, AttemptsInv, AttemptsNeverOvercount
<1>3. CASE PurgeDelete(t)
  <2>1. PICK j \in th.cand :
          /\ rows' = [rows EXCEPT ![j] = [NoRow EXCEPT !.status = "gone"]]
          /\ Become(t, [th EXCEPT !.cand = @ \ {j},
                                  !.pc = IF th.cand = {j} THEN "cascade" ELSE @])
    BY <1>3 DEF PurgeDelete
  <2>. DEFINE pc2 == IF th.cand = {j} THEN "cascade" ELSE th.pc
              new == [th EXCEPT !.cand = @ \ {j}, !.pc = pc2]
  <2>2. pc2 \in {"delete", "cascade"} /\ Become(t, new)
    BY <1>3, <2>1 DEF PurgeDelete
  <2>. HIDE DEF pc2
  <2>3. new \in Thread /\ new.pc = pc2 /\ new.snap = th.snap
    BY <1>1, <2>2 DEF Thread, Pcs
  <2>4. Counted(new)
    BY <1>1, <2>2, <2>3, QuietCounted
  <2>5. [NoRow EXCEPT !.status = "gone"].attempts = 0
    BY DEF NoRow
  <2>6. \A i \in Jobs : rows'[i].attempts <= claims[i]
    BY <2>1, <2>5 DEF Inv, AttemptsInv, AttemptsNeverOvercount
  <2>. QED
    BY <1>3, <2>2, <2>3, <2>4, <2>6, KeepsAttempts DEF Keeps, PurgeDelete
<1>4. CASE DeleteWebhookOutboxByJobIDs(t)
  <2>1. PICK j \in th.ids :
          Become(t, IF th.ids = {j} THEN Idle ELSE [th EXCEPT !.ids = @ \ {j}])
    BY <1>4 DEF DeleteWebhookOutboxByJobIDs
  <2>. DEFINE new == [th EXCEPT !.ids = @ \ {j}]
  <2>2. new \in Thread /\ new.pc = "cascade" /\ new.snap = th.snap
    BY <1>1, <1>4 DEF Thread, DeleteWebhookOutboxByJobIDs
  <2>3. Counted(new)
    BY <1>1, <2>2, QuietCounted
  <2>. QED
    BY <1>1, <1>4, <2>1, <2>2, <2>3, KeepsAttempts
       DEF Keeps, DeleteWebhookOutboxByJobIDs, AttemptsInv, AttemptsNeverOvercount
<1>. QED
  BY <1>2, <1>3, <1>4

LEMMA CancelListAttempts ==
  ASSUME Inv, AttemptsInv, NEW t \in Threads, CancelListed(t) \/ EndCancelList(t)
  PROVE  AttemptsInv'
<1>. DEFINE th == thread[t]
<1>1. /\ th \in Thread /\ Counted(th) /\ Idle \in Thread /\ Counted(Idle)
  BY IdleOK, IdleCounted DEF Inv, AttemptsInv, ThreadOK
<1>2. CASE CancelListed(t)
  <2>1. PICK j \in Listed(th) :
          LET rest == [th EXCEPT !.snap[j] = NoRow]
          IN \/ /\ rows' = [rows EXCEPT ![j] = CancelRow(th.snap[j])]
                /\ Become(t, [rest EXCEPT !.pc = "notify", !.job = j,
                                          !.event = "cancelled", !.ret = "cancel"])
             \/ Become(t, rest) /\ UNCHANGED rows
    BY <1>2 DEF CancelListed
  <2>. DEFINE sn == [th.snap EXCEPT ![j] = NoRow]
              rest == [th EXCEPT !.snap = sn]
              new == [rest EXCEPT !.pc = "notify", !.job = j,
                                  !.event = "cancelled", !.ret = "cancel"]
  <2>2. j \in Jobs /\ th.snap[j] \in Row /\ th.snap[j].attempts <= claims[j]
    BY <1>1 DEF Listed, Thread, Counted
  <2>3. sn \in [Jobs -> Row] /\ \A i \in Jobs : sn[i] \in {th.snap[i], NoRow}
    BY <1>1, <2>2, NoRowOK DEF Thread
  <2>4. \/ rows' = [rows EXCEPT ![j] = CancelRow(th.snap[j])] /\ Become(t, new)
        \/ Become(t, rest) /\ UNCHANGED rows
    BY <2>1
  <2>. HIDE DEF sn
  <2>5. rest \in Thread /\ rest.pc = "cancel" /\ rest.snap = sn
    BY <1>1, <1>2, <2>3 DEF Thread, CancelListed
  <2>6. new \in Thread /\ new.pc = "notify" /\ new.snap = sn
    BY <1>1, <2>2, <2>3 DEF Thread, Pcs, Terminal
  <2>7. Counted(rest) /\ Counted(new)
    BY <1>1, <2>3, <2>5, <2>6, QuietCounted
  <2>8. \A i \in Jobs : rows'[i].attempts <= claims[i]
    BY <2>2, <2>4, RowOpsCount DEF Inv, AttemptsInv, AttemptsNeverOvercount
  <2>. QED
    BY <1>2, <2>4, <2>5, <2>6, <2>7, <2>8, KeepsAttempts DEF Keeps, CancelListed
<1>3. CASE EndCancelList(t)
  <2>1. \A j \in Jobs : NoRow.attempts <= claims[j] /\ rows[j].attempts <= claims[j]
    BY DEF NoRow, Inv, AttemptsInv, AttemptsNeverOvercount
  <2>2. ASSUME ListToCancel(t, "cancelRunning", "running")
        PROVE  \E new \in Thread : Counted(new) /\ Become(t, new)
    <3>1. "cancelRunning" \in Ops
      BY DEF Ops
    <3>. QED
      BY <2>1, <2>2, <3>1, ListToCancelThread DEF Counted
  <2>3. \E new \in Thread : Counted(new) /\ Become(t, new)
    BY <1>1, <1>3, <2>2 DEF EndCancelList
  <2>. QED
    BY <1>3, <2>3, KeepsAttempts
       DEF Keeps, EndCancelList, ListToCancel, AttemptsInv, AttemptsNeverOvercount
<1>. QED
  BY <1>2, <1>3

LEMMA TickAttempts ==
  ASSUME Inv, AttemptsInv, Tick
  PROVE  AttemptsInv'
<1>1. \A j \in Jobs : rows'[j].attempts = rows[j].attempts /\ claims'[j] = claims[j]
  BY OlderRowOK DEF Tick, Inv
<1>2. ASSUME NEW t \in Threads
      PROVE  Counted(thread[t])'
  <2>. DEFINE th == thread[t]
              sn == [j \in Jobs |-> OlderRow(th.snap[j])]
              b  == OlderRow(th.buf)
              new == [th EXCEPT !.buf = b, !.snap = sn]
  <2>1. th \in Thread /\ ThreadOK(th) /\ Counted(th)
    BY DEF Inv, AttemptsInv
  <2>2. \A j \in Jobs : sn[j].attempts = th.snap[j].attempts
    BY <2>1, OlderRowOK DEF Thread
  <2>3. b.attempts = th.buf.attempts
    BY <2>1, OlderRowOK DEF Thread
  <2>4. thread'[t] = new /\ claims' = claims
    BY DEF Tick
  <2>. HIDE DEF sn, b
  <2>5. new.pc = th.pc /\ new.buf = b /\ new.snap = sn /\ new.job = th.job
    BY <2>1 DEF Thread
  <2>. QED
    BY <2>1, <2>2, <2>3, <2>4, <2>5 DEF Counted
<1>. QED
  BY <1>1, <1>2 DEF AttemptsInv, AttemptsNeverOvercount

LEMMA NextAttempts == Inv /\ AttemptsInv /\ [Next]_vars => AttemptsInv'
<1>. SUFFICES ASSUME Inv, AttemptsInv, [Next]_vars PROVE AttemptsInv'
  OBVIOUS
<1>1. ASSUME NEW j \in Jobs, Create(j) PROVE AttemptsInv'
  <2>1. CreateRow.attempts = 0
    BY DEF CreateRow, NoRow
  <2>2. \A i \in Jobs : rows'[i].attempts <= claims[i]
    BY <1>1, <2>1 DEF Create, Inv, AttemptsInv, AttemptsNeverOvercount
  <2>. QED
    BY <1>1, <2>2 DEF Create, AttemptsInv, AttemptsNeverOvercount, Counted
<1>2. ASSUME NEW t \in Threads, Begin(t) \/ Maintain(t) PROVE AttemptsInv'
  BY <1>2, BeginAttempts
<1>3. ASSUME NEW t \in Threads, Continue(t) PROVE AttemptsInv'
  BY <1>3, WriteAttempts, ScanAttempts, ClaimAttempts, ClaimPendingAttempts,
     PurgeAttempts, CancelListAttempts DEF Continue
<1>4. CASE Tick
  BY <1>4, TickAttempts
<1>5. CASE Crash
  <2>1. Counted(Idle) /\ claims' = claims
    BY <1>5, IdleCounted DEF Crash
  <2>2. Counted(Idle)'
    BY <2>1 DEF Counted
  <2>. QED
    BY <1>5, <2>2 DEF Crash, AttemptsInv, AttemptsNeverOvercount, Counted
<1>6. CASE UNCHANGED vars
  BY <1>6 DEF vars, AttemptsInv, AttemptsNeverOvercount, Counted
<1>. QED
  BY <1>1, <1>2, <1>3, <1>4, <1>5, <1>6 DEF Next

(* attempt_count never exceeds the successful claims, so no race of        *)
(* whole-row writes lets a job run out of max_attempts early.              *)
THEOREM AttemptsNeverOvercounted == Spec => []AttemptsNeverOvercount
<1>1. Init => AttemptsInv
  BY DEF Init, AttemptsInv, AttemptsNeverOvercount, Counted, Idle, NoRow
<1>2. AttemptsInv => AttemptsNeverOvercount
  BY DEF AttemptsInv
<1>. QED
  BY <1>1, <1>2, NextAttempts, SpecInv, PTL DEF Spec
=============================================================================
