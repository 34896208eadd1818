------------------------------ MODULE MCMounts ------------------------------
(* Instances of Mounts for TLC.                                            *)
EXTENDS Mounts

OwnDrive  == [b \in Bindings |-> IF b = "b1" THEN "d1" ELSE "d2"]
BothModes == [b \in Bindings |-> IF b = "b1" THEN "mount"
                                             ELSE "sync_workspace"]
OneOfEach == {{"b1"}, {"b2"}}
SyncOnly  == {{"b2"}}
\* <<asks, faults, times>>
SomeBudgets ==
  {<<1, 2, 0>>, <<0, 2, 1>>, <<2, 1, 0>>, <<2, 0, 1>>, <<1, 1, 2>>}
SmallBudget == {<<1, 1, 1>>}
=============================================================================
