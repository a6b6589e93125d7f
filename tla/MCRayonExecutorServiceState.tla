--------------------- MODULE MCRayonExecutorServiceState ---------------------
(* Instance for TLC: three threads, so that one admission may reserve more *)
(* than one closure, and more ids than the capacity, so that a slot freed  *)
(* by a completion or a cancellation is taken again.                       *)
EXTENDS RayonExecutorServiceState, TLC

CONSTANTS c1, c2

MCCallers == {c1, c2}
Symmetry == Permutations(MCCallers)
=============================================================================
