-------------------------- MODULE MCBlockingTasks ---------------------------
(* Instances for TLC.  Nobody outside the pool waits for termination.       *)
EXTENDS BlockingTasks

NoCallers == {}
=============================================================================
