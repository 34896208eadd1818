---------------------------- MODULE WebhookOutbox ----------------------------
(***************************************************************************)
(* Delivery of job events: the table job_webhook_outbox and the goroutines *)
(* of internal/job/service.go that post its rows to the webhook receiver.  *)
(*                                                                         *)
(* A delivery pass (ProcessWebhookOutbox) runs under a mutex of its        *)
(* process: it lists the due rows, reads each one again, posts it, and     *)
(* writes the whole row back with what the attempt made of it.  Between    *)
(* the read and the write the post is on its way; admins, purges and other *)
(* replicas, which share the table and not the mutex, go on meanwhile.     *)
(* A step is one store statement, or the receiver's answer.                *)
(***************************************************************************)
EXTENDS Integers

CONSTANTS
  Events,       \* event ids, one per terminal job status
  Processes,    \* API processes (replicas) on the same table
  Goroutines,   \* goroutines that run delivery passes
  Clerks,       \* goroutines that purge, or serve an admin's retry or purge
  ProcessOf,    \* the process each goroutine belongs to
  MaxAttempts,  \* AI_CLOUDHUB_JOB_WEBHOOK_MAX_ATTEMPTS
  Backoff,      \* [1..MaxAttempts -> Nat] delay after the n-th failure
  Parallel,     \* AI_CLOUDHUB_JOB_WEBHOOK_MAX_INFLIGHT > 1
  PurgeAges,    \* retention periods and older_than values in use
  Cascades,     \* whether jobs are purged, their outbox rows with them
  MaxCrashes,   \* bound: crashes of a process
  MaxAge        \* bound: ages saturate here

ASSUME ProcessAssumption == ProcessOf \in [Goroutines \cup Clerks -> Processes]

ASSUME AttemptsAssumption == /\ MaxAttempts \in Nat \ {0}
                             /\ Backoff \in [1..MaxAttempts -> Nat]

ASSUME FlagsAssumption == Parallel \in BOOLEAN /\ Cascades \in BOOLEAN

ASSUME AgesAssumption == /\ MaxAge \in Nat /\ MaxCrashes \in Nat
                         /\ PurgeAges \subseteq Nat \ {0}
                         /\ \A a \in PurgeAges : a < MaxAge

VARIABLES
  rows,      \* the table
  pass,      \* the delivery pass of each goroutine
  desk,      \* the retry or purge each clerk is at
  accepted,  \* history: events the receiver has answered with success
  answered,  \* history: successful answers since the last requeue, at most 2
  crashes    \* history: crashes so far

vars == <<rows, pass, desk, accepted, answered, crashes>>

-----------------------------------------------------------------------------
(* Rows.  due: time left until next_attempt_at, 0 once it has passed;      *)
(* age: since updated_at, which is delivered_at too on a delivered row.    *)
(* Each is kept up only while the code looks at it.                        *)

Settled  == {"delivered", "dead"}
Statuses == Settled \cup {"none", "pending", "gone"}

Row == [status : Statuses, attempts : Nat, due : Nat, age : 0..MaxAge]

NoRow  == [status |-> "none", attempts |-> 0, due |-> 0, age |-> 0]
Queued == [NoRow EXCEPT !.status = "pending"]
Gone   == [NoRow EXCEPT !.status = "gone"]

Present(e) == rows[e].status \notin {"none", "gone"}

\* Mutants: next_attempt_at is not looked at; only first attempts are listed.
DueAnyTime(e) == rows[e].status = "pending"

DueFirst(e) == rows[e] = Queued

Due(e) == rows[e].status = "pending" /\ rows[e].due = 0

OlderRow(r) ==
  [r EXCEPT !.due = IF r.status = "pending" /\ @ > 0 THEN @ - 1 ELSE @,
            !.age = IF r.status \in Settled /\ @ < MaxAge THEN @ + 1 ELSE @]

\* Mutants: one attempt too many; a status no query knows; errors ignored.
DeadLate(r, ok) ==
  LET n == r.attempts + 1
  IN IF ok THEN [r EXCEPT !.attempts = n, !.status = "delivered", !.age = 0]
     ELSE IF n > MaxAttempts
          THEN [r EXCEPT !.attempts = n, !.status = "dead", !.age = 0]
          ELSE [r EXCEPT !.attempts = n, !.due = Backoff[n], !.age = 0]

FailedForGood(r, ok) == [r EXCEPT !.status = IF ok THEN "delivered" ELSE "failed",
                                  !.attempts = @ + 1, !.age = 0]

DeliveredAnyway(r, ok) == [r EXCEPT !.status = "delivered", !.attempts = @ + 1,
                                    !.age = 0]

(* finishWebhookAttempt.                                                   *)
AfterAttempt(r, ok) ==
  LET n == r.attempts + 1
  IN IF ok THEN [r EXCEPT !.attempts = n, !.status = "delivered", !.age = 0]
     ELSE IF n >= MaxAttempts
          THEN [r EXCEPT !.attempts = n, !.status = "dead", !.age = 0]
          ELSE [r EXCEPT !.attempts = n, !.due = Backoff[n], !.age = 0]

-----------------------------------------------------------------------------
(* Delivery passes.                                                        *)

NoPass == [busy |-> FALSE, todo |-> {}, buf |-> [e \in Events |-> NoRow],
           result |-> [e \in Events |-> "none"]]

Pass == [busy   : BOOLEAN,                            \* holds the mutex
         todo   : SUBSET Events,                      \* listed, not yet read
         buf    : [Events -> Row],                    \* rows being posted
         result : [Events -> {"none", "ok", "fail"}]] \* answers so far

InFlight(g) == {e \in Events : pass[g].buf[e].status # "none"}
Answered(g) == {e \in Events : pass[g].result[e] # "none"}

\* Mutant: passes are not serialized.
NoMutex(g) == TRUE

(* webhookProcessMu is free.                                               *)
Unlocked(g) == \A h \in Goroutines : ProcessOf[h] = ProcessOf[g] => ~pass[h].busy

(* Lock and ListDueWebhookOutbox.                                          *)
BeginPass(g) ==
  /\ ~pass[g].busy /\ Unlocked(g)
  /\ \E e \in Events : Due(e)
  /\ pass' = [pass EXCEPT ![g].busy = TRUE, ![g].todo = {e \in Events : Due(e)}]
  /\ UNCHANGED <<rows, desk, accepted, answered, crashes>>

(* GetWebhookOutbox: the row is posted if it is still pending; whether it  *)
(* is still due is not asked.  One row at a time unless Parallel.          *)
Fetch(g, e) ==
  /\ e \in pass[g].todo
  /\ Parallel \/ InFlight(g) = {}
  /\ pass' = [pass EXCEPT ![g].todo = @ \ {e},
                          ![g].buf[e] = IF rows[e].status = "pending"
                                        THEN rows[e] ELSE @]
  /\ UNCHANGED <<rows, desk, accepted, answered, crashes>>

(* deliverWebhookOnce.  The receiver may take the event while its answer   *)
(* is an error, or is lost, or comes after the client's timeout.           *)
Post(g, e, took, ok) ==
  /\ e \in InFlight(g) \ Answered(g)
  /\ ok => took
  /\ pass' = [pass EXCEPT ![g].result[e] = IF ok THEN "ok" ELSE "fail"]
  /\ accepted' = IF took THEN accepted \cup {e} ELSE accepted
  /\ answered' = IF ok THEN [answered EXCEPT ![e] = IF @ < 2 THEN @ + 1 ELSE @] ELSE answered
  /\ UNCHANGED <<rows, desk, crashes>>

(* finishWebhookAttempt writes the whole row, unless it has been deleted.  *)
(* A parallel batch is waited for before the first result is written.      *)
Finish(g, e) ==
  /\ e \in Answered(g)
  /\ Parallel => pass[g].todo = {} /\ InFlight(g) = Answered(g)
  /\ rows' = IF Present(e)
             THEN [rows EXCEPT ![e] = AfterAttempt(pass[g].buf[e],
                                                   pass[g].result[e] = "ok")]
             ELSE rows
  /\ pass' = [pass EXCEPT ![g].buf[e] = NoRow, ![g].result[e] = "none"]
  /\ UNCHANGED <<desk, accepted, answered, crashes>>

EndPass(g) ==
  /\ pass[g].busy /\ pass[g].todo = {} /\ InFlight(g) = {}
  /\ pass' = [pass EXCEPT ![g] = NoPass]
  /\ UNCHANGED <<rows, desk, accepted, answered, crashes>>

-----------------------------------------------------------------------------
(* Retries and purges: a list of ids, then one statement for each.  The    *)
(* statements do not look at the row's status again.                       *)

Task   == [op : {"none", "retry", "purge"}, ids : SUBSET Events]
NoTask == [op |-> "none", ids |-> {}]

AtDesk(c, op, ids) == /\ desk[c].op = "none"
                      /\ desk' = [desk EXCEPT ![c] = [op |-> op, ids |-> ids]]

(* notifyJobTerminal: EnqueueWebhookOutbox.                                *)
Enqueue(e) ==
  /\ rows[e].status = "none"
  /\ rows' = [rows EXCEPT ![e] = Queued]
  /\ UNCHANGED <<pass, desk, accepted, answered, crashes>>

AdminRetryWebhook(c, e) ==
  /\ Present(e)
  /\ AtDesk(c, "retry", {e})
  /\ UNCHANGED <<rows, pass, accepted, answered, crashes>>

AdminRetryWebhooksBatch(c, s) ==
  /\ AtDesk(c, "retry", {e \in Events : rows[e].status = s})
  /\ UNCHANGED <<rows, pass, accepted, answered, crashes>>

(* requeueWebhookRow sets every field that can change.                     *)
RequeueWebhookRow(c, e) ==
  /\ desk[c].op = "retry" /\ e \in desk[c].ids
  /\ desk' = [desk EXCEPT ![c].ids = @ \ {e}]
  /\ IF Present(e)
     THEN /\ rows' = [rows EXCEPT ![e] = Queued]
          /\ answered' = [answered EXCEPT ![e] = 0]
     ELSE UNCHANGED <<rows, answered>>
  /\ UNCHANGED <<pass, accepted, crashes>>

(* PurgeWebhookOutbox selects delivered and dead rows, ...                 *)
PurgeWebhookOutbox(c, age) ==
  /\ AtDesk(c, "purge", {e \in Events : rows[e].status \in Settled /\ rows[e].age > age})
  /\ UNCHANGED <<rows, pass, accepted, answered, crashes>>

(* ... and deletes them by id.                                             *)
PurgeDelete(c, e) ==
  /\ desk[c].op = "purge" /\ e \in desk[c].ids
  /\ desk' = [desk EXCEPT ![c].ids = @ \ {e}]
  /\ rows' = IF Present(e) THEN [rows EXCEPT ![e] = Gone] ELSE rows
  /\ UNCHANGED <<pass, accepted, answered, crashes>>

Leave(c) ==
  /\ desk[c].op # "none" /\ desk[c].ids = {}
  /\ desk' = [desk EXCEPT ![c] = NoTask]
  /\ UNCHANGED <<rows, pass, accepted, answered, crashes>>

(* The event's job is purged: DeleteWebhookOutboxByJobIDs.                 *)
Cascade(e) ==
  /\ Cascades /\ Present(e)
  /\ rows' = [rows EXCEPT ![e] = Gone]
  /\ UNCHANGED <<pass, desk, accepted, answered, crashes>>

-----------------------------------------------------------------------------
Tick ==
  /\ rows' = [e \in Events |-> OlderRow(rows[e])]
  /\ pass' = [g \in Goroutines |->
                [pass[g] EXCEPT !.buf = [e \in Events |-> OlderRow(@[e])]]]
  /\ UNCHANGED <<desk, accepted, answered, crashes>>

(* A process dies with what its goroutines were at and is started again.   *)
Crash(p) ==
  /\ crashes < MaxCrashes
  /\ crashes' = crashes + 1
  /\ pass' = [g \in Goroutines |-> IF ProcessOf[g] = p THEN NoPass ELSE pass[g]]
  /\ desk' = [c \in Clerks |-> IF ProcessOf[c] = p THEN NoTask ELSE desk[c]]
  /\ UNCHANGED <<rows, accepted, answered>>

Init ==
  /\ rows = [e \in Events |-> NoRow]
  /\ pass = [g \in Goroutines |-> NoPass]
  /\ desk = [c \in Clerks |-> NoTask]
  /\ accepted = {}
  /\ answered = [e \in Events |-> 0]
  /\ crashes = 0

PassStep(g) ==
  \/ \E e \in Events : \/ Fetch(g, e)
                       \/ \E took, ok \in BOOLEAN : Post(g, e, took, ok)
                       \/ Finish(g, e)
  \/ EndPass(g)

ClerkStep(c) ==
  \/ \E e \in Events : RequeueWebhookRow(c, e) \/ PurgeDelete(c, e)
  \/ Leave(c)

Next ==
  \/ \E e \in Events : Enqueue(e) \/ Cascade(e)
  \/ \E g \in Goroutines : BeginPass(g) \/ PassStep(g)
  \/ \E c \in Clerks : \/ \E e \in Events : AdminRetryWebhook(c, e)
                       \/ \E s \in Settled \cup {"pending"} :
                            AdminRetryWebhooksBatch(c, s)
                       \/ \E age \in PurgeAges : PurgeWebhookOutbox(c, age)
                       \/ ClerkStep(c)
  \/ \E p \in Processes : Crash(p)
  \/ Tick

Spec == Init /\ [][Next]_vars

(* The worker polls for ever, a post ends by the client's timeout, and     *)
(* time passes.                                                            *)
Fairness ==
  /\ \A g \in Goroutines : WF_vars(BeginPass(g)) /\ WF_vars(PassStep(g))
  /\ \A c \in Clerks : WF_vars(ClerkStep(c))
  /\ WF_vars(Tick)

FairSpec == Spec /\ Fairness

-----------------------------------------------------------------------------
(* Properties.                                                             *)

(* The table, the passes and the tasks have their types; in particular a   *)
(* row has no status that the queries do not know.                         *)
TypeOK ==
  /\ rows \in [Events -> Row]
  /\ pass \in [Goroutines -> Pass]
  /\ desk \in [Clerks -> Task]
  /\ accepted \subseteq Events
  /\ answered \in [Events -> 0..2]
  /\ crashes \in 0..MaxCrashes

(* A pending row has an attempt left and a dead one has had them all,      *)
(* whatever passes, retries and replicas write over each other: no row is  *)
(* given up early, and none is stuck pending with its budget spent.        *)
BudgetKept == \A e \in Events :
  /\ rows[e].status = "pending" => rows[e].attempts < MaxAttempts
  /\ rows[e].status = "dead"    => rows[e].attempts = MaxAttempts

(* A row marked delivered was taken by the receiver.                       *)
DeliveredWasAccepted ==
  \A e \in Events : rows[e].status = "delivered" => e \in accepted

(* Within one process an event whose success has been heard of is not      *)
(* posted again unless an admin asks for it: the mutex keeps a kicked pass *)
(* from posting what the worker's pass has in flight.                      *)
AnsweredOnce == \A e \in Events : answered[e] <= 1

(* Within one process no attempt starts before next_attempt_at.            *)
BackoffRespected ==
  [][\A g \in Goroutines, e \in Events :
        (Fetch(g, e) /\ rows[e].status = "pending") => rows[e].due = 0]_vars

(* Every event is taken by the receiver or runs out of attempts, also when *)
(* processes crash between a post and the record of its outcome.           *)
AtLeastOnce == \A e \in Events :
  rows[e].status = "pending" ~> (e \in accepted \/ rows[e].status = "dead")
=============================================================================
