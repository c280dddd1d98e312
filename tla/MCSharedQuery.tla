--------------------------- MODULE MCSharedQuery ---------------------------
(* Instances of SharedQuery.tla for TLC. *)
EXTENDS SharedQuery

Symmetry == Permutations(Task) \cup Permutations(Session)

(* SessionConflictError, SessionCapacityError, HTTP 404 and 409, and the rest. *)
Errors == {"conflict", "capacity", "notFound", "versionsFull", "error"}
=============================================================================
