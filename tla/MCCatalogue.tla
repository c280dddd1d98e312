----------------------------- MODULE MCCatalogue -----------------------------
(* Catalogue for TLC: the first name may say either of two things, the      *)
(* second a third one; the two things and the requests are interchangeable. *)
EXTENDS Catalogue, TLC

CONSTANTS n1, t1, t2, t3

TheTexts == [n \in Name |-> IF n = n1 THEN {t1, t2} ELSE {t3}]
Symmetry == Permutations(Request) \cup Permutations({t1, t2})
=============================================================================
