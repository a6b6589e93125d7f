------------------- MODULE MCRayonExecutorServiceBuilder --------------------
(* Instance for TLC: zero, a count Rayon creates, and one beyond its limit. *)
EXTENDS RayonExecutorServiceBuilder

MCValues == {0, 1, MaxPoolThreads + 1}
=============================================================================
