-------------------------- MODULE MCLocalSessions --------------------------
(* Instances of LocalSessions.tla for TLC. *)
EXTENDS LocalSessions

Symmetry == Permutations(Task) \cup Permutations(Session)
=============================================================================
