---------------------------- MODULE MCJobPanics -----------------------------
(* Instance for TLC.  The second of four tasks is detached.                 *)
EXTENDS JobPanics

NoCallers == {}
OneDetached == {1}
=============================================================================
