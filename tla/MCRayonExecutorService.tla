----------------------- MODULE MCRayonExecutorService -----------------------
(* Instances for TLC: the threads of the pool and the calling threads as   *)
(* model values.                                                           *)
EXTENDS RayonExecutorServiceProgress, TLC

CONSTANTS c1, c2, w1, w2, w3

TwoCallers == {c1, c2}
OneWorker == {w1}
TwoWorkers == {w1, w2}
ThreeWorkers == {w1, w2, w3}

Symmetry == Permutations(Callers) \union Permutations(Workers)
=============================================================================
