--------------------------- MODULE MCWebhookOutbox ---------------------------
(* Instances of WebhookOutbox for TLC.                                     *)
EXTENDS WebhookOutbox, TLC

CONSTANTS g1, g2, p1, p2

OneProcess == {p1}
Replicas   == {p1, p2}
AllOnOne   == [x \in Goroutines \cup Clerks |-> p1]
OneEach    == [x \in Goroutines \cup Clerks |-> IF x = g2 THEN p2 ELSE p1]

\* One unit of time after every failure.
ShortBackoff == <<1, 1>>

\* Goroutines of one process are alike.
Symmetry == Permutations(Events) \cup Permutations(Goroutines)
=============================================================================
