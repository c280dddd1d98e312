--------------------------- MODULE MCSchemaIndex ---------------------------
(* Instances of SchemaIndex.tla for TLC. *)
EXTENDS SchemaIndex

Symmetry == Permutations(Task) \cup Permutations(Db)
=============================================================================
