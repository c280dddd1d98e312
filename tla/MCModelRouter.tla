---------------------------- MODULE MCModelRouter ----------------------------
(* ModelRouter for TLC: two calls of one query, one of them for a caller   *)
(* with a budget of its own, and a stream of another query.                *)
EXTENDS ModelRouter

CONSTANTS a, b, s, near, far, mine, whole

TheChain == <<near, far>>
TheRpm == [x \in Provider |-> IF x = near THEN 1 ELSE 0]
TheBudgets == [c \in Call |-> CASE c = a -> {whole} [] c = b -> {whole, mine} [] OTHER -> {}]
TheLimits == [x \in Budget |-> IF x = whole THEN 3 ELSE 1]
=============================================================================
