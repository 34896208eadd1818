----------------------------- MODULE MCJobQueue -----------------------------
(* Instances of JobQueue for TLC.                                          *)
EXTENDS JobQueue, TLC

\* One job without a timeout, with two attempts.
OneJob    == {1}
NoTimeout == [j \in OneJob |-> 0]
OneBudget == [j \in OneJob |-> 2]
OnePriority == [j \in OneJob |-> 0]

\* Two jobs: one with a timeout, the other more urgent and with a budget.
TwoJobs     == {1, 2}
TwoTimeout  == <<1, 0>>
TwoBudget   == <<0, 2>>
TwoPriority == <<0, 5>>

AllRequests == RequestKinds

Symmetry == Permutations(Handlers) \cup Permutations(Runners)
=============================================================================
