----------------------------- MODULE MCJobSerial -----------------------------
(* Instances of JobSerial for TLC: the jobs of MCJobQueue, one goroutine.  *)
EXTENDS JobSerial, MCJobQueue
=============================================================================
