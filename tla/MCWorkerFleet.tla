---------------------------- MODULE MCWorkerFleet ----------------------------
(* WorkerFleet for TLC: workers and builds are interchangeable.            *)
EXTENDS WorkerFleet, TLC

Symmetry == Permutations(Task) \cup Permutations(Build)
=============================================================================
