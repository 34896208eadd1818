---------------------------- MODULE WebhookProofs ----------------------------
(***************************************************************************)
(* The webhook outbox keeps its attempt budget and marks as delivered only *)
(* what was: proved for any number of events, replicas, goroutines and     *)
(* attempts, sequential or parallel posts, with crashes, retries, purges   *)
(* and cascades.                                                           *)
(***************************************************************************)
EXTENDS WebhookOutbox, TLAPS

(* A row as the table may hold it.                                         *)
RowOK(r) ==
  /\ r \in Row
  /\ r.status = "pending" => r.attempts < MaxAttempts
  /\ r.status = "dead"    => r.attempts = MaxAttempts

(* What a pass knows of an event: it carries a row only while that is being*)
(* posted, such a row is pending with an attempt left, and a success that  *)
(* is waiting to be recorded did happen.                                   *)
PostOK(p, e, acc) ==
  /\ RowOK(p.buf[e])
  /\ p.buf[e].status \in {"none", "pending"}
  /\ p.result[e] # "none" => p.buf[e].status = "pending"
  /\ p.result[e] = "ok" => e \in acc

Inv ==
  /\ TypeOK
  /\ \A e \in Events : RowOK(rows[e])
  /\ \A g \in Goroutines, e \in Events : PostOK(pass[g], e, accepted)
  /\ DeliveredWasAccepted

LEMMA FixedRowsOK == RowOK(NoRow) /\ RowOK(Queued) /\ RowOK(Gone)
  BY AttemptsAssumption, AgesAssumption
     DEF RowOK, NoRow, Queued, Gone, Row, Statuses, Settled

LEMMA OlderRowOK ==
  ASSUME NEW r, RowOK(r)
  PROVE  RowOK(OlderRow(r)) /\ OlderRow(r).status = r.status
<1>. DEFINE d == IF r.status = "pending" /\ r.due > 0 THEN r.due - 1 ELSE r.due
            a == IF r.status \in Settled /\ r.age < MaxAge THEN r.age + 1 ELSE r.age
<1>1. d \in Nat /\ a \in 0..MaxAge
  BY AgesAssumption DEF RowOK, Row
<1>2. OlderRow(r) = [r EXCEPT !.due = d, !.age = a]
  BY DEF OlderRow, RowOK, Row
<1>. HIDE DEF d, a
<1>. QED
  BY <1>1, <1>2 DEF RowOK, Row

(* An attempt on a pending row with budget left gives a row the table may  *)
(* hold, delivered only if the attempt succeeded.                          *)
LEMMA AfterAttemptOK ==
  ASSUME NEW r, RowOK(r), r.status = "pending", NEW ok \in BOOLEAN
  PROVE  /\ RowOK(AfterAttempt(r, ok))
         /\ AfterAttempt(r, ok).status = "delivered" => ok
<1>. DEFINE n == r.attempts + 1
<1>1. n \in 1..MaxAttempts /\ 0 \in 0..MaxAge
  BY AttemptsAssumption, AgesAssumption DEF RowOK, Row
<1>2. Backoff[n] \in Nat
  BY <1>1, AttemptsAssumption
<1>. DEFINE b == Backoff[n]
<1>3. AfterAttempt(r, ok) =
        IF ok THEN [r EXCEPT !.attempts = n, !.status = "delivered", !.age = 0]
        ELSE IF n >= MaxAttempts
             THEN [r EXCEPT !.attempts = n, !.status = "dead", !.age = 0]
             ELSE [r EXCEPT !.attempts = n, !.due = b, !.age = 0]
  BY DEF AfterAttempt
<1>4. b \in Nat /\ n \in Nat
  BY <1>1, <1>2
<1>. HIDE DEF b, n
<1>5. CASE ok
  BY <1>1, <1>3, <1>4, <1>5 DEF RowOK, Row, Statuses, Settled
<1>6. CASE ~ok /\ n >= MaxAttempts
  <2>. DEFINE new == [r EXCEPT !.attempts = n, !.status = "dead", !.age = 0]
  <2>1. n = MaxAttempts
    BY <1>1, <1>6, AttemptsAssumption
  <2>2. new \in Row /\ new.status = "dead" /\ new.attempts = n
    BY <1>1, <1>4 DEF RowOK, Row, Statuses, Settled
  <2>. QED
    BY <1>3, <1>6, <2>1, <2>2 DEF RowOK
<1>7. CASE ~ok /\ ~(n >= MaxAttempts)
  <2>. DEFINE new == [r EXCEPT !.attempts = n, !.due = b, !.age = 0]
  <2>1. n < MaxAttempts
    BY <1>1, <1>7, AttemptsAssumption
  <2>2. new \in Row /\ new.status = "pending" /\ new.attempts = n
    BY <1>1, <1>4 DEF RowOK, Row
  <2>. QED
    BY <1>3, <1>7, <2>1, <2>2 DEF RowOK
<1>. QED
  BY <1>5, <1>6, <1>7

LEMMA NoPassOK ==
  ASSUME NEW e \in Events
  PROVE  NoPass \in Pass /\ \A acc : PostOK(NoPass, e, acc)
  BY FixedRowsOK DEF NoPass, Pass, PostOK, RowOK, NoRow

LEMMA InitInv == Init => Inv
<1>. SUFFICES ASSUME Init PROVE Inv
  OBVIOUS
<1>1. NoPass \in Pass
  BY FixedRowsOK DEF NoPass, Pass, RowOK
<1>2. TypeOK
  BY <1>1, FixedRowsOK, AgesAssumption DEF Init, TypeOK, RowOK, Task, NoTask
<1>. QED
  BY <1>2, FixedRowsOK, NoPassOK DEF Init, Inv, DeliveredWasAccepted, NoRow

-----------------------------------------------------------------------------
(* Steps that touch the table only: some rows become fixed ones.           *)
LEMMA TableInv ==
  ASSUME Inv, rows' \in [Events -> Row], UNCHANGED <<pass, accepted, crashes>>,
         \A e \in Events : rows'[e] \in {rows[e], Queued, Gone},
         desk' \in [Clerks -> Task], answered' \in [Events -> 0..2]
  PROVE  Inv'
<1>1. \A e \in Events : RowOK(rows'[e])
  BY FixedRowsOK DEF Inv
<1>2. Queued.status = "pending" /\ Gone.status = "gone"
  BY DEF Queued, Gone, NoRow
<1>3. DeliveredWasAccepted'
  BY <1>2 DEF Inv, DeliveredWasAccepted
<1>4. TypeOK'
  BY DEF Inv, TypeOK
<1>. QED
  BY <1>1, <1>3, <1>4 DEF Inv, PostOK

(* Steps of a pass that do not write: its goroutine stays well-formed.     *)
LEMMA PassInv ==
  ASSUME Inv, NEW g \in Goroutines, NEW p \in Pass, pass' = [pass EXCEPT ![g] = p],
         \A e \in Events : PostOK(p, e, accepted'),
         accepted \subseteq accepted', accepted' \subseteq Events,
         answered' \in [Events -> 0..2],
         UNCHANGED <<rows, desk, crashes>>
  PROVE  Inv'
<1>1. TypeOK'
  BY DEF Inv, TypeOK
<1>2. \A h \in Goroutines : pass'[h] = p \/ pass'[h] = pass[h]
  BY DEF Inv, TypeOK
<1>3. \A h \in Goroutines, e \in Events : PostOK(pass'[h], e, accepted')
  BY <1>2 DEF Inv, PostOK
<1>4. DeliveredWasAccepted'
  BY DEF Inv, DeliveredWasAccepted
<1>. QED
  BY <1>1, <1>3, <1>4 DEF Inv

LEMMA ClerkInv ==
  ASSUME Inv, NEW c \in Clerks,
         \/ \E e \in Events : AdminRetryWebhook(c, e)
         \/ \E s : AdminRetryWebhooksBatch(c, s)
         \/ \E age : PurgeWebhookOutbox(c, age)
         \/ ClerkStep(c)
  PROVE  Inv'
<1>0. /\ rows \in [Events -> Row] /\ desk \in [Clerks -> Task]
      /\ answered \in [Events -> 0..2] /\ Queued \in Row /\ Gone \in Row
  BY FixedRowsOK DEF Inv, TypeOK, RowOK
<1>1. ASSUME NEW op \in {"retry", "purge"}, NEW ids \in SUBSET Events, AtDesk(c, op, ids),
             UNCHANGED <<rows, pass, accepted, answered, crashes>>
      PROVE  Inv'
  <2>1. desk' \in [Clerks -> Task]
    BY <1>0, <1>1 DEF AtDesk, Task
  <2>. QED
    BY <1>0, <1>1, <2>1, TableInv
<1>2. ASSUME NEW e \in Events, AdminRetryWebhook(c, e) PROVE Inv'
  BY <1>1, <1>2 DEF AdminRetryWebhook
<1>3. ASSUME NEW s, AdminRetryWebhooksBatch(c, s) PROVE Inv'
  <2>. DEFINE ids == {e \in Events : rows[e].status = s}
  <2>1. ids \in SUBSET Events /\ AtDesk(c, "retry", ids)
    BY <1>3 DEF AdminRetryWebhooksBatch
  <2>. QED
    BY <1>1, <1>3, <2>1 DEF AdminRetryWebhooksBatch
<1>4. ASSUME NEW age, PurgeWebhookOutbox(c, age) PROVE Inv'
  <2>. DEFINE ids == {e \in Events : rows[e].status \in Settled /\ rows[e].age > age}
  <2>1. ids \in SUBSET Events /\ AtDesk(c, "purge", ids)
    BY <1>4 DEF PurgeWebhookOutbox
  <2>. QED
    BY <1>1, <1>4, <2>1 DEF PurgeWebhookOutbox
<1>5. ASSUME NEW e \in Events, RequeueWebhookRow(c, e) \/ PurgeDelete(c, e) PROVE Inv'
  <2>1. desk' \in [Clerks -> Task]
    BY <1>0, <1>5 DEF RequeueWebhookRow, PurgeDelete, Task
  <2>2. rows' \in [Events -> Row] /\ \A i \in Events : rows'[i] \in {rows[i], Queued, Gone}
    BY <1>0, <1>5 DEF RequeueWebhookRow, PurgeDelete
  <2>3. /\ answered' \in [Events -> 0..2]
        /\ UNCHANGED <<pass, accepted, crashes>>
    BY <1>0, <1>5 DEF RequeueWebhookRow, PurgeDelete
  <2>. QED
    BY <2>1, <2>2, <2>3, TableInv
<1>6. ASSUME Leave(c) PROVE Inv'
  <2>1. desk' \in [Clerks -> Task]
    BY <1>0, <1>6 DEF Leave, Task, NoTask
  <2>. QED
    BY <1>0, <1>6, <2>1, TableInv DEF Leave
<1>. QED
  BY <1>2, <1>3, <1>4, <1>5, <1>6 DEF ClerkStep

LEMMA BeginPassInv ==
  ASSUME Inv, NEW g \in Goroutines, BeginPass(g) \/ EndPass(g)
  PROVE  Inv'
<1>0. pass[g] \in Pass /\ pass \in [Goroutines -> Pass] /\ accepted \subseteq Events
      /\ answered \in [Events -> 0..2]
      /\ \A e \in Events : PostOK(pass[g], e, accepted)
  BY DEF Inv, TypeOK
<1>1. CASE BeginPass(g)
  <2>. DEFINE S == {e \in Events : Due(e)}
              p == [pass[g] EXCEPT !.busy = TRUE, !.todo = S]
  <2>1. S \in SUBSET Events /\ pass' = [pass EXCEPT ![g] = p]
    BY <1>0, <1>1 DEF BeginPass, Pass
  <2>. HIDE DEF S
  <2>2. p \in Pass /\ p.buf = pass[g].buf /\ p.result = pass[g].result
    BY <1>0, <2>1 DEF Pass
  <2>3. \A e \in Events : PostOK(p, e, accepted')
    BY <1>0, <1>1, <2>2 DEF PostOK, BeginPass
  <2>. QED
    BY <1>0, <1>1, <2>1, <2>2, <2>3, PassInv DEF BeginPass
<1>2. CASE EndPass(g)
  <2>1. NoPass \in Pass
    BY FixedRowsOK DEF NoPass, Pass, RowOK
  <2>2. \A e \in Events : PostOK(NoPass, e, accepted')
    BY <1>2, NoPassOK DEF PostOK, EndPass
  <2>. QED
    BY <1>0, <1>2, <2>1, <2>2, PassInv DEF EndPass
<1>. QED
  BY <1>1, <1>2

LEMMA FetchInv ==
  ASSUME Inv, NEW g \in Goroutines, NEW e \in Events, Fetch(g, e)
  PROVE  Inv'
<1>. DEFINE q == pass[g]
            r == IF rows[e].status = "pending" THEN rows[e] ELSE q.buf[e]
            b == [q.buf EXCEPT ![e] = r]
            p == [q EXCEPT !.todo = @ \ {e}, !.buf = b]
<1>0. q \in Pass /\ pass \in [Goroutines -> Pass] /\ accepted \subseteq Events
      /\ answered \in [Events -> 0..2]
      /\ \A i \in Events : PostOK(q, i, accepted)
  BY DEF Inv, TypeOK
<1>1. pass' = [pass EXCEPT ![g] = p]
  BY <1>0 DEF Fetch, Pass
<1>2. RowOK(r) /\ r.status \in {"none", "pending"}
      /\ (q.buf[e].status = "pending" => r.status = "pending")
  BY <1>0 DEF Inv, PostOK
<1>. HIDE DEF r
<1>3. b \in [Events -> Row] /\ b[e] = r /\ \A i \in Events \ {e} : b[i] = q.buf[i]
  BY <1>0, <1>2 DEF Pass, RowOK
<1>. HIDE DEF b
<1>4. p \in Pass /\ p.buf = b /\ p.result = q.result
  BY <1>0, <1>3 DEF Pass
<1>5. accepted' = accepted
  BY DEF Fetch
<1>6. \A i \in Events : PostOK(p, i, accepted')
  BY <1>0, <1>2, <1>3, <1>4, <1>5 DEF PostOK
<1>. QED
  BY <1>0, <1>1, <1>4, <1>6, PassInv DEF Fetch

LEMMA PostInv ==
  ASSUME Inv, NEW g \in Goroutines, NEW e \in Events, NEW took \in BOOLEAN,
         NEW ok \in BOOLEAN, Post(g, e, took, ok)
  PROVE  Inv'
<1>. DEFINE q == pass[g]
            x == IF ok THEN "ok" ELSE "fail"
            rs == [q.result EXCEPT ![e] = x]
            p == [q EXCEPT !.result = rs]
<1>0. q \in Pass /\ pass \in [Goroutines -> Pass] /\ accepted \subseteq Events
      /\ answered \in [Events -> 0..2]
      /\ \A i \in Events : PostOK(q, i, accepted)
  BY DEF Inv, TypeOK
<1>1. pass' = [pass EXCEPT ![g] = p]
  BY <1>0 DEF Post, Pass
<1>2. x \in {"ok", "fail"} /\ (x = "ok" => ok)
  OBVIOUS
<1>. HIDE DEF x
<1>3. /\ rs \in [Events -> {"none", "ok", "fail"}] /\ rs[e] = x
      /\ \A i \in Events \ {e} : rs[i] = q.result[i]
  BY <1>0, <1>2 DEF Pass
<1>. HIDE DEF rs
<1>4. p \in Pass /\ p.buf = q.buf /\ p.result = rs
  BY <1>0, <1>3 DEF Pass
<1>5. accepted \subseteq accepted' /\ accepted' \subseteq Events /\ (ok => e \in accepted')
  BY <1>0 DEF Post
<1>6. q.buf[e].status = "pending"
  BY <1>0 DEF Post, InFlight, PostOK
<1>7. \A i \in Events : PostOK(p, i, accepted')
  BY <1>0, <1>2, <1>3, <1>4, <1>5, <1>6 DEF PostOK
<1>8. answered' \in [Events -> 0..2]
  <2>1. \A n \in 0..2 : (IF n < 2 THEN n + 1 ELSE n) \in 0..2
    OBVIOUS
  <2>. QED
    BY <1>0, <2>1 DEF Post
<1>. QED
  BY <1>0, <1>1, <1>4, <1>5, <1>7, <1>8, PassInv DEF Post

LEMMA FinishInv ==
  ASSUME Inv, NEW g \in Goroutines, NEW e \in Events, Finish(g, e)
  PROVE  Inv'
<1>. DEFINE q == pass[g]
            new == AfterAttempt(q.buf[e], q.result[e] = "ok")
            b == [q.buf EXCEPT ![e] = NoRow]
            rs == [q.result EXCEPT ![e] = "none"]
            p == [q EXCEPT !.buf = b, !.result = rs]
<1>0. q \in Pass /\ pass \in [Goroutines -> Pass] /\ rows \in [Events -> Row]
      /\ \A i \in Events : PostOK(q, i, accepted)
  BY DEF Inv, TypeOK
<1>1. pass' = [pass EXCEPT ![g] = p]
  BY <1>0 DEF Finish, Pass
<1>2. q.result[e] # "none"
  BY DEF Finish, Answered
<1>3. RowOK(new) /\ (new.status = "delivered" => e \in accepted)
  BY <1>0, <1>2, AfterAttemptOK DEF PostOK
<1>4. rows' = [rows EXCEPT ![e] = new] \/ rows' = rows
  BY DEF Finish
<1>. HIDE DEF new
<1>5. /\ b \in [Events -> Row] /\ rs \in [Events -> {"none", "ok", "fail"}]
      /\ b[e] = NoRow /\ rs[e] = "none"
      /\ \A i \in Events \ {e} : b[i] = q.buf[i] /\ rs[i] = q.result[i]
  BY <1>0, FixedRowsOK DEF Pass, RowOK
<1>. HIDE DEF b, rs
<1>6. p \in Pass /\ p.buf = b /\ p.result = rs
  BY <1>0, <1>5 DEF Pass
<1>7. accepted' = accepted /\ NoRow.status = "none"
  BY DEF Finish, NoRow
<1>8. \A i \in Events : PostOK(p, i, accepted')
  BY <1>0, <1>5, <1>6, <1>7, FixedRowsOK DEF PostOK
<1>9. \A h \in Goroutines : pass'[h] = p \/ pass'[h] = pass[h]
  BY <1>0, <1>1
<1>10. \A h \in Goroutines, i \in Events : PostOK(pass'[h], i, accepted')
  BY <1>7, <1>8, <1>9 DEF Inv
<1>11. \A i \in Events : RowOK(rows'[i])
  BY <1>0, <1>3, <1>4 DEF Inv
<1>12. DeliveredWasAccepted'
  BY <1>0, <1>3, <1>4, <1>7 DEF Inv, DeliveredWasAccepted
<1>13. TypeOK'
  BY <1>0, <1>1, <1>3, <1>4, <1>6 DEF Inv, TypeOK, Finish, RowOK
<1>. QED
  BY <1>10, <1>11, <1>12, <1>13 DEF Inv

LEMMA TickInv == Inv /\ Tick => Inv'
<1>. SUFFICES ASSUME Inv, Tick PROVE Inv'
  OBVIOUS
<1>1. \A e \in Events : RowOK(rows'[e]) /\ rows'[e].status = rows[e].status
  BY OlderRowOK DEF Tick, Inv
<1>2. ASSUME NEW g \in Goroutines
      PROVE  pass'[g] \in Pass /\ \A e \in Events : PostOK(pass'[g], e, accepted')
  <2>. DEFINE q == pass[g]
              b == [e \in Events |-> OlderRow(q.buf[e])]
              p == [q EXCEPT !.buf = b]
  <2>1. q \in Pass /\ \A e \in Events : PostOK(q, e, accepted)
    BY DEF Inv, TypeOK
  <2>2. \A e \in Events : RowOK(b[e]) /\ b[e].status = q.buf[e].status
    BY <2>1, OlderRowOK DEF PostOK
  <2>3. b \in [Events -> Row] /\ pass'[g] = p /\ accepted' = accepted
    BY <2>2 DEF Tick, RowOK
  <2>. HIDE DEF b
  <2>4. p \in Pass /\ p.buf = b /\ p.result = q.result
    BY <2>1, <2>3 DEF Pass
  <2>. QED
    BY <2>1, <2>2, <2>3, <2>4 DEF PostOK
<1>3. rows' \in [Events -> Row] /\ pass' \in [Goroutines -> Pass]
  <2>1. rows' = [e \in Events |-> rows'[e]] /\ pass' = [g \in Goroutines |-> pass'[g]]
    BY DEF Tick
  <2>. QED
    BY <1>1, <1>2, <2>1 DEF RowOK
<1>4. TypeOK'
  BY <1>3 DEF Inv, TypeOK, Tick
<1>5. DeliveredWasAccepted'
  BY <1>1 DEF Inv, DeliveredWasAccepted, Tick
<1>. QED
  BY <1>1, <1>2, <1>4, <1>5 DEF Inv

LEMMA NextInv == Inv /\ [Next]_vars => Inv'
<1>. SUFFICES ASSUME Inv, [Next]_vars PROVE Inv'
  OBVIOUS
<1>1. ASSUME NEW e \in Events, Enqueue(e) \/ Cascade(e) PROVE Inv'
  <2>1. rows' \in [Events -> Row] /\ \A i \in Events : rows'[i] \in {rows[i], Queued, Gone}
    BY <1>1, FixedRowsOK DEF Enqueue, Cascade, Inv, TypeOK, RowOK
  <2>. QED
    BY <1>1, <2>1, TableInv DEF Enqueue, Cascade, Inv, TypeOK
<1>2. ASSUME NEW g \in Goroutines, BeginPass(g) \/ PassStep(g) PROVE Inv'
  BY <1>2, BeginPassInv, FetchInv, PostInv, FinishInv DEF PassStep
<1>3. ASSUME NEW c \in Clerks,
             \/ \E e \in Events : AdminRetryWebhook(c, e)
             \/ \E s : AdminRetryWebhooksBatch(c, s)
             \/ \E age : PurgeWebhookOutbox(c, age)
             \/ ClerkStep(c)
      PROVE  Inv'
  BY <1>3, ClerkInv
<1>4. ASSUME NEW p \in Processes, Crash(p) PROVE Inv'
  <2>1. NoPass \in Pass /\ NoTask \in Task
    BY FixedRowsOK DEF NoPass, Pass, RowOK, NoTask, Task
  <2>2. crashes' \in 0..MaxCrashes
    BY <1>4, AgesAssumption DEF Crash, Inv, TypeOK
  <2>3. TypeOK'
    BY <1>4, <2>1, <2>2 DEF Crash, Inv, TypeOK
  <2>4. \A g \in Goroutines : pass'[g] = NoPass \/ pass'[g] = pass[g]
    BY <1>4 DEF Crash
  <2>5. rows' = rows /\ accepted' = accepted
    BY <1>4 DEF Crash
  <2>6. \A g \in Goroutines, e \in Events : PostOK(pass'[g], e, accepted')
    BY <2>4, <2>5, NoPassOK DEF Inv, PostOK
  <2>. QED
    BY <2>3, <2>5, <2>6 DEF Inv, DeliveredWasAccepted
<1>5. CASE Tick
  BY <1>5, TickInv
<1>6. CASE UNCHANGED vars
  BY <1>6 DEF vars, Inv, TypeOK, PostOK, DeliveredWasAccepted
<1>. QED
  BY <1>1, <1>2, <1>3, <1>4, <1>5, <1>6 DEF Next

LEMMA SpecInv == Spec => []Inv
  BY InitInv, NextInv, PTL DEF Spec

(* Rows, passes and tasks always have their types: no write leaves a row   *)
(* in a status that the due list, the purge and the retry overlook.        *)
THEOREM OutboxTyped == Spec => []TypeOK
<1>1. Inv => TypeOK
  BY DEF Inv
<1>. QED
  BY <1>1, SpecInv, PTL

(* A pending row has an attempt left and a dead row has used them all, for *)
(* every overlap of passes, replicas, retries, purges and crashes.         *)
THEOREM BudgetAlwaysKept == Spec => []BudgetKept
<1>1. Inv => BudgetKept
  BY DEF Inv, RowOK, BudgetKept
<1>. QED
  BY <1>1, SpecInv, PTL

(* A row is marked delivered only if the receiver took the event.          *)
THEOREM DeliveredMeansAccepted == Spec => []DeliveredWasAccepted
<1>1. Inv => DeliveredWasAccepted
  BY DEF Inv
<1>. QED
  BY <1>1, SpecInv, PTL
-----------------------------------------------------------------------------
(* One process.  Its mutex serializes the passes: at most one is under     *)
(* way, and what it has in flight it has taken off its list.               *)

SameProcess == \A g, h \in Goroutines : ProcessOf[g] = ProcessOf[h]

Serial ==
  /\ \A g \in Goroutines : ~pass[g].busy => pass[g].todo = {} /\ InFlight(g) = {}
  /\ \A g, h \in Goroutines : pass[g].busy /\ pass[h].busy => g = h
  /\ \A g \in Goroutines : pass[g].todo \cap InFlight(g) = {}

(* A listed row is due, if it is pending.                                  *)
Fresh ==
  \A g \in Goroutines : \A e \in pass[g].todo :
    rows[e].status = "pending" => rows[e].due = 0

(* A success counts while it waits to be recorded, and then the row shows  *)
(* it.                                                                     *)
OnceAnswered ==
  \A e \in Events :
    /\ answered[e] <= 1
    /\ \A g \in Goroutines : e \in InFlight(g) =>
         /\ rows[e].status # "none"
         /\ pass[g].result[e] # "ok" => answered[e] = 0
    /\ rows[e].status = "pending" /\ (\A g \in Goroutines : e \notin InFlight(g)) =>
         answered[e] = 0
    /\ rows[e].status = "none" => answered[e] = 0

(* What the steps of a pass do to it.                                      *)
LEMMA BeginFields ==
  ASSUME TypeOK, NEW g \in Goroutines, BeginPass(g)
  PROVE  /\ pass'[g].busy /\ \A e \in pass'[g].todo : e \in Events /\ Due(e)
         /\ pass'[g].buf = pass[g].buf /\ pass'[g].result = pass[g].result
         /\ \A h \in Goroutines \ {g} : pass'[h] = pass[h]
<1>. DEFINE S == {e \in Events : Due(e)}
            p == [pass[g] EXCEPT !.busy = TRUE, !.todo = S]
<1>1. pass[g] \in Pass
  BY DEF TypeOK
<1>2. pass' = [pass EXCEPT ![g] = p] /\ \A e \in S : e \in Events /\ Due(e)
  BY <1>1 DEF BeginPass, Pass
<1>. HIDE DEF S
<1>3. p.busy /\ p.todo = S /\ p.buf = pass[g].buf /\ p.result = pass[g].result
  BY <1>1 DEF Pass
<1>. HIDE DEF p
<1>. QED
  BY <1>2, <1>3 DEF TypeOK

LEMMA FetchFields ==
  ASSUME TypeOK, NEW g \in Goroutines, NEW e \in Events, Fetch(g, e)
  PROVE  /\ pass'[g].busy = pass[g].busy /\ pass'[g].todo = pass[g].todo \ {e}
         /\ pass'[g].result = pass[g].result
         /\ \A i \in Events : i # e => pass'[g].buf[i] = pass[g].buf[i]
         /\ rows[e].status # "pending" => pass'[g].buf[e] = pass[g].buf[e]
         /\ \A h \in Goroutines \ {g} : pass'[h] = pass[h]
<1>. DEFINE r == IF rows[e].status = "pending" THEN rows[e] ELSE pass[g].buf[e]
            b == [pass[g].buf EXCEPT ![e] = r]
            p == [pass[g] EXCEPT !.todo = @ \ {e}, !.buf = b]
<1>1. pass[g] \in Pass
  BY DEF TypeOK
<1>2. pass' = [pass EXCEPT ![g] = p] /\ (rows[e].status # "pending" => r = pass[g].buf[e])
  BY <1>1 DEF Fetch, Pass
<1>. HIDE DEF r
<1>3. b[e] = r /\ \A i \in Events : i # e => b[i] = pass[g].buf[i]
  BY <1>1 DEF Pass
<1>. HIDE DEF b
<1>4. /\ p.busy = pass[g].busy /\ p.todo = pass[g].todo \ {e} /\ p.buf = b
      /\ p.result = pass[g].result
  BY <1>1 DEF Pass
<1>. HIDE DEF p
<1>. QED
  BY <1>2, <1>3, <1>4 DEF TypeOK

LEMMA PostFields ==
  ASSUME TypeOK, NEW g \in Goroutines, NEW e \in Events, NEW took \in BOOLEAN,
         NEW ok \in BOOLEAN, Post(g, e, took, ok)
  PROVE  /\ pass'[g].busy = pass[g].busy /\ pass'[g].todo = pass[g].todo
         /\ pass'[g].buf = pass[g].buf
         /\ \A i \in Events : i # e => pass'[g].result[i] = pass[g].result[i]
         /\ pass'[g].result[e] = IF ok THEN "ok" ELSE "fail"
         /\ \A h \in Goroutines \ {g} : pass'[h] = pass[h]
<1>. DEFINE x == IF ok THEN "ok" ELSE "fail"
            rs == [pass[g].result EXCEPT ![e] = x]
            p == [pass[g] EXCEPT !.result = rs]
<1>1. pass[g] \in Pass
  BY DEF TypeOK
<1>2. pass' = [pass EXCEPT ![g] = p]
  BY <1>1 DEF Post, Pass
<1>3. rs[e] = x /\ \A i \in Events : i # e => rs[i] = pass[g].result[i]
  BY <1>1 DEF Pass
<1>. HIDE DEF rs
<1>4. /\ p.busy = pass[g].busy /\ p.todo = pass[g].todo /\ p.buf = pass[g].buf
      /\ p.result = rs
  BY <1>1 DEF Pass
<1>. HIDE DEF p
<1>. QED
  BY <1>2, <1>3, <1>4 DEF TypeOK

LEMMA FinishFields ==
  ASSUME TypeOK, NEW g \in Goroutines, NEW e \in Events, Finish(g, e)
  PROVE  /\ pass'[g].busy = pass[g].busy /\ pass'[g].todo = pass[g].todo
         /\ pass'[g].buf[e] = NoRow /\ pass'[g].result[e] = "none"
         /\ \A i \in Events : i # e => /\ pass'[g].buf[i] = pass[g].buf[i]
                                       /\ pass'[g].result[i] = pass[g].result[i]
         /\ \A h \in Goroutines \ {g} : pass'[h] = pass[h]
<1>. DEFINE b == [pass[g].buf EXCEPT ![e] = NoRow]
            rs == [pass[g].result EXCEPT ![e] = "none"]
            p == [pass[g] EXCEPT !.buf = b, !.result = rs]
<1>1. pass[g] \in Pass
  BY DEF TypeOK
<1>2. pass' = [pass EXCEPT ![g] = p]
  BY <1>1 DEF Finish, Pass
<1>3. /\ b[e] = NoRow /\ rs[e] = "none"
      /\ \A i \in Events : i # e => b[i] = pass[g].buf[i] /\ rs[i] = pass[g].result[i]
  BY <1>1 DEF Pass
<1>. HIDE DEF b, rs
<1>4. p.busy = pass[g].busy /\ p.todo = pass[g].todo /\ p.buf = b /\ p.result = rs
  BY <1>1 DEF Pass
<1>. HIDE DEF p
<1>. QED
  BY <1>2, <1>3, <1>4 DEF TypeOK

LEMMA NoPassFields ==
  /\ ~NoPass.busy /\ NoPass.todo = {}
  /\ \A e \in Events : NoPass.buf[e].status = "none"
  BY DEF NoPass, NoRow

LEMMA TickFields ==
  ASSUME Inv, Tick, NEW g \in Goroutines
  PROVE  /\ pass'[g].busy = pass[g].busy /\ pass'[g].todo = pass[g].todo
         /\ pass'[g].result = pass[g].result
         /\ \A e \in Events : pass'[g].buf[e].status = pass[g].buf[e].status
<1>. DEFINE b == [e \in Events |-> OlderRow(pass[g].buf[e])]
            p == [pass[g] EXCEPT !.buf = b]
<1>1. pass[g] \in Pass /\ \A e \in Events : RowOK(pass[g].buf[e])
  BY DEF Inv, TypeOK, PostOK
<1>2. pass'[g] = p
  BY DEF Tick
<1>3. \A e \in Events : b[e].status = pass[g].buf[e].status
  BY <1>1, OlderRowOK
<1>. HIDE DEF b
<1>4. /\ p.busy = pass[g].busy /\ p.todo = pass[g].todo /\ p.result = pass[g].result
      /\ p.buf = b
  BY <1>1 DEF Pass
<1>. QED
  BY <1>2, <1>3, <1>4

LEMMA AfterStatus ==
  ASSUME NEW r \in Row, r.status = "pending", NEW ok \in BOOLEAN
  PROVE  /\ AfterAttempt(r, ok).status # "none"
         /\ ok => AfterAttempt(r, ok).status = "delivered"
<1>. DEFINE n == r.attempts + 1
            b == Backoff[n]
<1>1. AfterAttempt(r, ok) =
        IF ok THEN [r EXCEPT !.attempts = n, !.status = "delivered", !.age = 0]
        ELSE IF n >= MaxAttempts
             THEN [r EXCEPT !.attempts = n, !.status = "dead", !.age = 0]
             ELSE [r EXCEPT !.attempts = n, !.due = b, !.age = 0]
  BY DEF AfterAttempt
<1>. HIDE DEF b, n
<1>. QED
  BY <1>1 DEF Row

(* The steps by what they touch: not the passes, one of them, or all.      *)
Aside ==
  /\ UNCHANGED pass
  /\ \A e \in Events : rows'[e] \in {rows[e], Queued, Gone}
  /\ \A e \in Events : \/ answered'[e] = answered[e]
                       \/ answered'[e] = 0 /\ rows'[e] = Queued
  /\ \A e \in Events : rows'[e] = rows[e] \/ rows[e].status = "none"
                       \/ rows'[e] = Gone \/ answered'[e] = 0

LEMMA StepKinds ==
  ASSUME Inv, [Next]_vars
  PROVE  \/ Aside
         \/ \E g \in Goroutines : BeginPass(g) \/ PassStep(g)
         \/ \E p \in Processes : Crash(p)
         \/ Tick
<1>1. rows \in [Events -> Row] /\ answered \in [Events -> 0..2]
  BY DEF Inv, TypeOK
<1>2. ASSUME NEW e \in Events, Enqueue(e) \/ Cascade(e) PROVE Aside
  BY <1>1, <1>2 DEF Enqueue, Cascade, Aside
<1>3. ASSUME UNCHANGED <<rows, pass, answered>> PROVE Aside
  BY <1>3 DEF Aside
<1>4. ASSUME NEW c \in Clerks, NEW e \in Events, RequeueWebhookRow(c, e) PROVE Aside
  BY <1>1, <1>4 DEF RequeueWebhookRow, Aside
<1>5. ASSUME NEW c \in Clerks, NEW e \in Events, PurgeDelete(c, e) PROVE Aside
  BY <1>1, <1>5 DEF PurgeDelete, Aside
<1>. QED
  BY <1>2, <1>3, <1>4, <1>5 DEF Next, ClerkStep, vars, Leave, AdminRetryWebhook,
     AdminRetryWebhooksBatch, PurgeWebhookOutbox

LEMMA SerialStep ==
  ASSUME SameProcess, Inv, Serial, [Next]_vars
  PROVE  Serial'
<1>1. ASSUME NEW g \in Goroutines, pass[g].busy, pass'[g].busy = pass[g].busy,
             \A h \in Goroutines \ {g} : pass'[h] = pass[h],
             pass'[g].todo \cap InFlight(g)' = {}
      PROVE  Serial'
  <2>1. \A h \in Goroutines \ {g} : InFlight(h)' = InFlight(h)
    BY <1>1 DEF InFlight
  <2>2. \A h \in Goroutines : pass'[h].busy = pass[h].busy
    BY <1>1
  <2>. QED
    BY <1>1, <2>1, <2>2 DEF Serial
<1>2. ASSUME NEW g \in Goroutines, pass[g].todo # {} \/ InFlight(g) # {} PROVE pass[g].busy
  BY <1>2 DEF Serial
<1>3. CASE Aside
  BY <1>3 DEF Aside, Serial, InFlight
<1>4. ASSUME NEW g \in Goroutines, BeginPass(g) PROVE Serial'
  <2>1. \A h \in Goroutines : ~pass[h].busy
    BY <1>4 DEF BeginPass, Unlocked, SameProcess
  <2>2. /\ \A h \in Goroutines \ {g} : pass'[h] = pass[h]
        /\ pass'[g].busy /\ pass'[g].buf = pass[g].buf
    BY <1>4, BeginFields DEF Inv
  <2>3. \A h \in Goroutines : InFlight(h)' = {}
    BY <2>1, <2>2 DEF Serial, InFlight
  <2>. QED
    BY <2>1, <2>2, <2>3 DEF Serial
<1>5. ASSUME NEW g \in Goroutines, NEW e \in Events, Fetch(g, e) PROVE Serial'
  <2>1. /\ pass'[g].busy = pass[g].busy /\ pass'[g].todo = pass[g].todo \ {e}
        /\ \A h \in Goroutines \ {g} : pass'[h] = pass[h]
        /\ \A i \in Events : i # e => pass'[g].buf[i] = pass[g].buf[i]
    BY <1>5, FetchFields DEF Inv
  <2>2. pass[g].busy
    BY <1>2, <1>5 DEF Fetch
  <2>3. InFlight(g)' \subseteq InFlight(g) \cup {e}
    BY <2>1 DEF InFlight
  <2>. QED
    BY <1>1, <2>1, <2>2, <2>3 DEF Serial
<1>6. ASSUME NEW g \in Goroutines, NEW e \in Events, NEW took \in BOOLEAN, NEW ok \in BOOLEAN,
             Post(g, e, took, ok)
      PROVE  Serial'
  <2>1. /\ pass'[g].busy = pass[g].busy /\ pass'[g].todo = pass[g].todo
        /\ pass'[g].buf = pass[g].buf
        /\ \A h \in Goroutines \ {g} : pass'[h] = pass[h]
    BY <1>6, PostFields DEF Inv
  <2>2. pass[g].busy
    BY <1>2, <1>6 DEF Post
  <2>3. InFlight(g)' = InFlight(g)
    BY <2>1 DEF InFlight
  <2>. QED
    BY <1>1, <2>1, <2>2, <2>3 DEF Serial
<1>7. ASSUME NEW g \in Goroutines, NEW e \in Events, Finish(g, e) PROVE Serial'
  <2>1. /\ pass'[g].busy = pass[g].busy /\ pass'[g].todo = pass[g].todo
        /\ pass'[g].buf[e] = NoRow
        /\ \A i \in Events : i # e => pass'[g].buf[i] = pass[g].buf[i]
        /\ \A h \in Goroutines \ {g} : pass'[h] = pass[h]
    BY <1>7, FinishFields DEF Inv
  <2>2. e \in InFlight(g)
    BY <1>7 DEF Finish, Answered, InFlight, Inv, PostOK
  <2>3. InFlight(g)' \subseteq InFlight(g)
    BY <2>1 DEF InFlight, NoRow
  <2>. QED
    BY <1>1, <1>2, <2>1, <2>2, <2>3 DEF Serial
<1>8. ASSUME \A h \in Goroutines : pass'[h] = pass[h] \/ pass'[h] = NoPass PROVE Serial'
  <2>1. \A h \in Goroutines : pass'[h] = NoPass =>
          ~pass'[h].busy /\ pass'[h].todo = {} /\ InFlight(h)' = {}
    BY NoPassFields DEF InFlight
  <2>2. \A h \in Goroutines : pass'[h] = pass[h] => InFlight(h)' = InFlight(h)
    BY DEF InFlight
  <2>. QED
    BY <1>8, <2>1, <2>2 DEF Serial
<1>9. ASSUME NEW g \in Goroutines, EndPass(g) PROVE Serial'
  BY <1>8, <1>9 DEF EndPass, Inv, TypeOK
<1>10. ASSUME NEW p \in Processes, Crash(p) PROVE Serial'
  BY <1>8, <1>10 DEF Crash
<1>11. CASE Tick
  <2>1. \A g \in Goroutines : /\ pass'[g].busy = pass[g].busy /\ pass'[g].todo = pass[g].todo
                              /\ InFlight(g)' = InFlight(g)
    BY <1>11, TickFields DEF InFlight
  <2>. QED
    BY <2>1 DEF Serial
<1>. QED
  BY <1>3, <1>4, <1>5, <1>6, <1>7, <1>9, <1>10, <1>11, StepKinds DEF PassStep

LEMMA FreshStep ==
  ASSUME Inv, Serial, Fresh, [Next]_vars
  PROVE  Fresh'
<1>1. \A g \in Goroutines : pass[g].todo \subseteq Events
  BY DEF Inv, TypeOK, Pass
<1>2. ASSUME rows' = rows, \A h \in Goroutines : pass'[h].todo \subseteq pass[h].todo
      PROVE  Fresh'
  BY <1>2 DEF Fresh
<1>3. CASE Aside
  <2>1. Queued.due = 0 /\ Gone.status = "gone"
    BY DEF Queued, Gone, NoRow
  <2>2. \A e \in Events : rows'[e] \in {rows[e], Queued, Gone}
    BY <1>3 DEF Aside
  <2>3. pass' = pass
    BY <1>3 DEF Aside
  <2>. QED
    BY <1>1, <2>1, <2>2, <2>3 DEF Fresh
<1>4. ASSUME NEW g \in Goroutines, BeginPass(g) PROVE Fresh'
  <2>1. /\ rows' = rows /\ \A h \in Goroutines \ {g} : pass'[h] = pass[h]
        /\ \A e \in pass'[g].todo : e \in Events /\ Due(e)
    BY <1>4, BeginFields DEF Inv, BeginPass
  <2>. QED
    BY <2>1 DEF Fresh, Due
<1>5. ASSUME NEW g \in Goroutines, NEW e \in Events, Fetch(g, e) PROVE Fresh'
  <2>1. /\ rows' = rows /\ pass'[g].todo = pass[g].todo \ {e}
        /\ \A h \in Goroutines \ {g} : pass'[h] = pass[h]
    BY <1>5, FetchFields DEF Inv, Fetch
  <2>. QED
    BY <1>2, <2>1
<1>6. ASSUME NEW g \in Goroutines, NEW e \in Events, NEW took \in BOOLEAN, NEW ok \in BOOLEAN,
             Post(g, e, took, ok)
      PROVE  Fresh'
  <2>1. /\ rows' = rows /\ pass'[g].todo = pass[g].todo
        /\ \A h \in Goroutines \ {g} : pass'[h] = pass[h]
    BY <1>6, PostFields DEF Inv, Post
  <2>. QED
    BY <1>2, <2>1
<1>7. ASSUME NEW g \in Goroutines, NEW e \in Events, Finish(g, e) PROVE Fresh'
  <2>1. /\ pass'[g].todo = pass[g].todo
        /\ \A h \in Goroutines \ {g} : pass'[h] = pass[h]
    BY <1>7, FinishFields DEF Inv
  <2>2. e \in InFlight(g)
    BY <1>7 DEF Finish, Answered, InFlight, Inv, PostOK
  <2>3. \A h \in Goroutines : e \notin pass[h].todo
    BY <2>2 DEF Serial
  <2>4. \A i \in Events : i # e => rows'[i] = rows[i]
    BY <1>7 DEF Finish, Inv, TypeOK
  <2>. QED
    BY <1>1, <2>1, <2>3, <2>4 DEF Fresh
<1>8. ASSUME rows' = rows, \A h \in Goroutines : pass'[h] = pass[h] \/ pass'[h] = NoPass
      PROVE Fresh'
  BY <1>2, <1>8, NoPassFields
<1>9. ASSUME NEW g \in Goroutines, EndPass(g) PROVE Fresh'
  BY <1>8, <1>9 DEF EndPass, Inv, TypeOK
<1>10. ASSUME NEW p \in Processes, Crash(p) PROVE Fresh'
  BY <1>8, <1>10 DEF Crash
<1>11. CASE Tick
  <2>1. \A g \in Goroutines : pass'[g].todo = pass[g].todo
    BY <1>11, TickFields
  <2>2. ASSUME NEW e \in Events, rows'[e].status = "pending", rows[e].status = "pending" => rows[e].due = 0
        PROVE  rows'[e].due = 0
    <3>1. rows'[e] = OlderRow(rows[e]) /\ RowOK(rows[e])
      BY <1>11 DEF Tick, Inv
    <3>2. rows[e].status = "pending" /\ rows[e].due = 0
      BY <2>2, <3>1, OlderRowOK
    <3>. QED
      BY <3>1, <3>2 DEF OlderRow, RowOK, Row
  <2>. QED
    BY <1>1, <2>1, <2>2 DEF Fresh
<1>. QED
  BY <1>3, <1>4, <1>5, <1>6, <1>7, <1>9, <1>10, <1>11, StepKinds DEF PassStep

LEMMA OnceStep ==
  ASSUME SameProcess, MaxCrashes = 0, Inv, Serial, OnceAnswered, [Next]_vars
  PROVE  OnceAnswered'
<1>1. \A e \in Events : answered[e] \in {0, 1}
  BY DEF OnceAnswered, Inv, TypeOK
<1>2. ASSUME NEW g \in Goroutines, NEW h \in Goroutines, NEW e \in Events,
             e \in InFlight(g), e \in InFlight(h) \/ e \in pass[h].todo
      PROVE  g = h /\ e \notin pass[h].todo
  BY <1>2 DEF Serial
<1>3. CASE Aside
  <2>. SUFFICES ASSUME NEW e \in Events
                PROVE  /\ answered'[e] <= 1
                       /\ \A g \in Goroutines : e \in InFlight(g) =>
                            /\ rows'[e].status # "none"
                            /\ pass[g].result[e] # "ok" => answered'[e] = 0
                       /\ rows'[e].status = "pending" /\ (\A g \in Goroutines : e \notin InFlight(g))
                            => answered'[e] = 0
                       /\ rows'[e].status = "none" => answered'[e] = 0
    BY <1>3 DEF OnceAnswered, Aside, InFlight
  <2>1. /\ rows'[e] \in {rows[e], Queued, Gone}
        /\ answered'[e] = answered[e] \/ (answered'[e] = 0 /\ rows'[e] = Queued)
        /\ rows'[e] = rows[e] \/ rows[e].status = "none" \/ rows'[e] = Gone \/ answered'[e] = 0
    BY <1>3 DEF Aside
  <2>2. Queued.status = "pending" /\ Gone.status = "gone"
    BY DEF Queued, Gone, NoRow
  <2>. QED
    BY <1>1, <2>1, <2>2 DEF OnceAnswered
<1>4. ASSUME rows' = rows, answered' = answered,
             \A g \in Goroutines : InFlight(g)' = InFlight(g) /\ pass'[g].result = pass[g].result
      PROVE  OnceAnswered'
  BY <1>4 DEF OnceAnswered
<1>5. ASSUME NEW g \in Goroutines, BeginPass(g) PROVE OnceAnswered'
  <2>1. /\ rows' = rows /\ answered' = answered
        /\ \A h \in Goroutines : pass'[h].buf = pass[h].buf /\ pass'[h].result = pass[h].result
    BY <1>5, BeginFields DEF Inv, BeginPass
  <2>. QED
    BY <1>4, <2>1 DEF InFlight
<1>6. ASSUME NEW g \in Goroutines, NEW e \in Events, Fetch(g, e) PROVE OnceAnswered'
  <2>1. /\ rows' = rows /\ answered' = answered /\ e \in pass[g].todo
        /\ pass'[g].result = pass[g].result
        /\ \A i \in Events : i # e => pass'[g].buf[i] = pass[g].buf[i]
        /\ rows[e].status # "pending" => pass'[g].buf[e] = pass[g].buf[e]
        /\ \A h \in Goroutines \ {g} : pass'[h] = pass[h]
    BY <1>6, FetchFields DEF Inv, Fetch
  <2>2. \A h \in Goroutines : e \notin InFlight(h)
    BY <1>2, <2>1
  <2>3. \A h \in Goroutines, i \in Events :
          i \in InFlight(h)' /\ i \notin InFlight(h) => i = e /\ rows[e].status = "pending"
    BY <2>1 DEF InFlight
  <2>4. \A h \in Goroutines, i \in Events : i \in InFlight(h) => i \in InFlight(h)'
    BY <2>1, <2>2 DEF InFlight
  <2>5. rows[e].status = "pending" => answered[e] = 0
    BY <2>2 DEF OnceAnswered
  <2>6. \A h \in Goroutines : pass'[h].result = pass[h].result
    BY <2>1
  <2>. QED
    BY <2>1, <2>3, <2>4, <2>5, <2>6 DEF OnceAnswered
<1>7. ASSUME NEW g \in Goroutines, NEW e \in Events, NEW took \in BOOLEAN, NEW ok \in BOOLEAN,
             Post(g, e, took, ok)
      PROVE  OnceAnswered'
  <2>0. rows' = rows /\ e \in InFlight(g) /\ pass[g].result[e] = "none"
    BY <1>7 DEF Post, Answered
  <2>1. /\ rows' = rows /\ e \in InFlight(g) /\ pass[g].result[e] = "none"
        /\ pass'[g].buf = pass[g].buf
        /\ \A i \in Events : i # e => pass'[g].result[i] = pass[g].result[i]
        /\ pass'[g].result[e] = IF ok THEN "ok" ELSE "fail"
        /\ \A h \in Goroutines \ {g} : pass'[h] = pass[h]
    BY <1>7, <2>0, PostFields DEF Inv
  <2>2. \A h \in Goroutines : InFlight(h)' = InFlight(h)
    BY <2>1 DEF InFlight
  <2>3. \A h \in Goroutines : e \in InFlight(h) => h = g
    BY <1>2, <2>1
  <2>4. answered[e] = 0 /\ rows[e].status # "none"
    BY <2>1 DEF OnceAnswered
  <2>5. /\ answered'[e] = IF ok THEN 1 ELSE 0
        /\ \A i \in Events : i # e => answered'[i] = answered[i]
    BY <1>7, <2>4 DEF Post, Inv, TypeOK
  <2>6. ASSUME NEW i \in Events, i # e
        PROVE  /\ answered'[i] <= 1
               /\ \A h \in Goroutines : i \in InFlight(h)' =>
                    /\ rows'[i].status # "none"
                    /\ pass'[h].result[i] # "ok" => answered'[i] = 0
               /\ rows'[i].status = "pending" /\ (\A h \in Goroutines : i \notin InFlight(h)')
                    => answered'[i] = 0
               /\ rows'[i].status = "none" => answered'[i] = 0
    BY <2>1, <2>2, <2>5, <2>6 DEF OnceAnswered
  <2>7. /\ answered'[e] <= 1
        /\ \A h \in Goroutines : e \in InFlight(h)' =>
             /\ rows'[e].status # "none"
             /\ pass'[h].result[e] # "ok" => answered'[e] = 0
        /\ ~(\A h \in Goroutines : e \notin InFlight(h)')
        /\ rows'[e].status # "none"
    BY <2>1, <2>2, <2>3, <2>4, <2>5
  <2>. QED
    BY <2>6, <2>7 DEF OnceAnswered
<1>8. ASSUME NEW g \in Goroutines, NEW e \in Events, Finish(g, e) PROVE OnceAnswered'
  <2>1. /\ pass[g].result[e] # "none" /\ answered' = answered
        /\ pass'[g].buf[e] = NoRow
        /\ \A i \in Events : i # e => /\ pass'[g].buf[i] = pass[g].buf[i]
                                      /\ pass'[g].result[i] = pass[g].result[i]
        /\ \A h \in Goroutines \ {g} : pass'[h] = pass[h]
    BY <1>8, FinishFields DEF Inv, Finish, Answered
  <2>2. e \in InFlight(g) /\ pass[g].buf[e] \in Row /\ pass[g].buf[e].status = "pending"
    BY <2>1 DEF InFlight, Inv, PostOK, RowOK
  <2>3. \A h \in Goroutines : e \notin InFlight(h)'
    BY <1>2, <2>1, <2>2 DEF InFlight, NoRow
  <2>4. \A h \in Goroutines, i \in Events : i # e =>
          /\ i \in InFlight(h)' <=> i \in InFlight(h)
          /\ pass'[h].result[i] = pass[h].result[i]
    BY <2>1 DEF InFlight
  <2>. DEFINE ok == pass[g].result[e] = "ok"
              new == AfterAttempt(pass[g].buf[e], ok)
  <2>5. new.status # "none" /\ (ok => new.status = "delivered")
    BY <2>2, AfterStatus
  <2>6. /\ rows'[e] = new \/ (rows'[e] = rows[e] /\ ~Present(e))
        /\ \A i \in Events : i # e => rows'[i] = rows[i]
    BY <1>8 DEF Finish, Inv, TypeOK
  <2>. HIDE DEF new
  <2>7. ~ok => answered[e] = 0
    BY <2>2 DEF OnceAnswered
  <2>8. rows[e].status # "none"
    BY <2>2 DEF OnceAnswered
  <2>. HIDE DEF ok
  <2>9. ASSUME NEW i \in Events, i # e
        PROVE  /\ answered'[i] <= 1
               /\ \A h \in Goroutines : i \in InFlight(h)' =>
                    /\ rows'[i].status # "none"
                    /\ pass'[h].result[i] # "ok" => answered'[i] = 0
               /\ rows'[i].status = "pending" /\ (\A h \in Goroutines : i \notin InFlight(h)')
                    => answered'[i] = 0
               /\ rows'[i].status = "none" => answered'[i] = 0
    BY <2>1, <2>4, <2>6, <2>9 DEF OnceAnswered
  <2>10. /\ answered'[e] <= 1 /\ rows'[e].status # "none"
         /\ rows'[e].status = "pending" => answered'[e] = 0
    BY <1>1, <2>1, <2>5, <2>6, <2>7, <2>8 DEF Present
  <2>. QED
    BY <2>3, <2>9, <2>10 DEF OnceAnswered
<1>9. ASSUME NEW g \in Goroutines, EndPass(g) PROVE OnceAnswered'
  <2>1. rows' = rows /\ answered' = answered /\ InFlight(g) = {}
    BY <1>9 DEF EndPass
  <2>2. pass'[g] = NoPass /\ \A h \in Goroutines \ {g} : pass'[h] = pass[h]
    BY <1>9 DEF EndPass, Inv, TypeOK
  <2>3. InFlight(g)' = {} /\ \A h \in Goroutines \ {g} : InFlight(h)' = InFlight(h)
    BY <2>2, NoPassFields DEF InFlight
  <2>4. \A h \in Goroutines : InFlight(h)' = InFlight(h)
    BY <2>1, <2>3
  <2>. QED
    BY <2>1, <2>2, <2>3, <2>4 DEF OnceAnswered
<1>10. ASSUME NEW p \in Processes, Crash(p) PROVE FALSE
  BY <1>10 DEF Crash, Inv, TypeOK
<1>11. CASE Tick
  <2>1. \A g \in Goroutines : InFlight(g)' = InFlight(g) /\ pass'[g].result = pass[g].result
    BY <1>11, TickFields DEF InFlight
  <2>2. answered' = answered /\ \A e \in Events : rows'[e].status = rows[e].status
    BY <1>11, OlderRowOK DEF Tick, Inv
  <2>. QED
    BY <2>1, <2>2 DEF OnceAnswered
<1>. QED
  BY <1>3, <1>5, <1>6, <1>7, <1>8, <1>9, <1>10, <1>11, StepKinds DEF PassStep

LEMMA InitSerial == Init => Serial /\ Fresh /\ OnceAnswered
<1>. SUFFICES ASSUME Init PROVE Serial /\ Fresh /\ OnceAnswered
  OBVIOUS
<1>1. \A g \in Goroutines : ~pass[g].busy /\ pass[g].todo = {} /\ InFlight(g) = {}
  BY NoPassFields DEF Init, InFlight
<1>. QED
  BY <1>1 DEF Init, Serial, Fresh, OnceAnswered

(* Within one process that does not die, an event whose success has been   *)
(* heard of is not posted again unless an admin asks for it, for any       *)
(* number of goroutines that run passes, sequential or parallel.           *)
THEOREM HeardOnce ==
  ASSUME SameProcess, MaxCrashes = 0
  PROVE  Spec => []AnsweredOnce
<1>1. Serial /\ OnceAnswered /\ Inv /\ [Next]_vars => Serial' /\ OnceAnswered'
  BY SerialStep, OnceStep
<1>2. OnceAnswered => AnsweredOnce
  BY DEF OnceAnswered, AnsweredOnce
<1>. QED
  BY <1>1, <1>2, InitSerial, SpecInv, PTL DEF Spec

(* Within one process, also one that is restarted, no attempt starts       *)
(* before next_attempt_at, although the fetch does not look at it again.   *)
THEOREM BackoffHolds ==
  ASSUME SameProcess
  PROVE  Spec => BackoffRespected
<1>1. Serial /\ Fresh /\ Inv /\ [Next]_vars => Serial' /\ Fresh'
  BY SerialStep, FreshStep
<1>2. Fresh => [\A g \in Goroutines, e \in Events :
                  (Fetch(g, e) /\ rows[e].status = "pending") => rows[e].due = 0]_vars
  BY DEF Fresh, Fetch
<1>. QED
  BY <1>1, <1>2, InitSerial, SpecInv, PTL DEF Spec, BackoffRespected

=============================================================================
