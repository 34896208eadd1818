---------------------------- MODULE JobLifecycle ----------------------------
(***************************************************************************)
(* What docs/JOBS.md promises of a job, whatever carries it out: the       *)
(* lifecycle pending -> running -> (pending | terminal), where a terminal  *)
(* status is the last one, is announced once in the webhook outbox, and    *)
(* only then may the job be purged.                                        *)
(***************************************************************************)
EXTENDS Naturals

CONSTANT Jobs

VARIABLES
  status,    \* [Jobs -> status], "none" before creation, "gone" after purge
  attempts,  \* [Jobs -> Nat], claims counted so far
  told       \* [Jobs -> set of statuses announced]

lvars == <<status, attempts, told>>

Final == {"succeeded", "failed", "cancelled"}

LInit ==
  /\ status = [j \in Jobs |-> "none"]
  /\ attempts = [j \in Jobs |-> 0]
  /\ told = [j \in Jobs |-> {}]

Move(j, from, to) == status[j] \in from /\ status' = [status EXCEPT ![j] = to]

LCreate(j)    == Move(j, {"none"}, "pending") /\ UNCHANGED <<attempts, told>>

LClaim(j)     == /\ Move(j, {"pending"}, "running")
                 /\ attempts' = [attempts EXCEPT ![j] = @ + 1]
                 /\ UNCHANGED told

LRelease(j)   == Move(j, {"running"}, "pending") /\ UNCHANGED <<attempts, told>>

LFinish(j, s) == Move(j, {"pending", "running"}, s) /\ UNCHANGED <<attempts, told>>

LAnnounce(j)  == /\ status[j] \in Final /\ told[j] = {}
                 /\ told' = [told EXCEPT ![j] = {status[j]}]
                 /\ UNCHANGED <<status, attempts>>

(* Only an announced job is purged; its count goes with it.                *)
LPurge(j)     == /\ told[j] # {}
                 /\ Move(j, Final, "gone")
                 /\ attempts' = [attempts EXCEPT ![j] = 0]
                 /\ UNCHANGED told

LForget(j)    == /\ status[j] = "gone" /\ told[j] # {}
                 /\ told' = [told EXCEPT ![j] = {}]
                 /\ UNCHANGED <<status, attempts>>

LNext == \E j \in Jobs :
  \/ LCreate(j) \/ LClaim(j) \/ LRelease(j)
  \/ \E s \in Final : LFinish(j, s)
  \/ LAnnounce(j) \/ LPurge(j) \/ LForget(j)

LSafety == LInit /\ [][LNext]_lvars

LSpec == /\ LSafety
         /\ \A j \in Jobs : WF_lvars(LAnnounce(j)) /\ WF_lvars(LForget(j))
=============================================================================
