--------------------------- MODULE MCQueryRequest ---------------------------
(* QueryRequest for TLC: a stream and a JSON request of one session, and a *)
(* stream of another.                                                      *)
EXTENDS QueryRequest

CONSTANTS a, b, c

TheSessions == [r \in Request |-> IF r = c THEN 2 ELSE 1]
=============================================================================
