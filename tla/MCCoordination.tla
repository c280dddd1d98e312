--------------------------- MODULE MCCoordination ---------------------------
(* Instances of Coordination.tla for TLC. *)
EXTENDS Coordination, TLC

Symmetry == Permutations(Task) \cup Permutations(Session) \cup Permutations(Conn)
=============================================================================
