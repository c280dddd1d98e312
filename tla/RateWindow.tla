----------------------------- MODULE RateWindow -----------------------------
(***************************************************************************)
(* What the rate limit of a provider promises, whoever enforces it: the    *)
(* limit is the one the first caller came with, it never changes, and no   *)
(* window of time holds more admissions than it.                           *)
(***************************************************************************)
EXTENDS Naturals, FiniteSets

CONSTANTS Rpm,    \* limits callers come with; 0 is "unlimited"
          Id,     \* names of admissions
          Unset,  \* nobody has come yet
          Window  \* length of the window, sixty seconds in the code

VARIABLES limit,   \* Rpm \cup {Unset}
          counted, \* every admission there has been, [id, at]
          now      \* the clock

windowVars == <<limit, counted, now>>

(* The admissions of the window that ends at t.                            *)
InWindow(t) == {a \in counted : t < a.at + Window /\ a.at <= t}

WindowInit ==
    /\ limit = Unset
    /\ counted = {}
    /\ now = 0

(* The limit becomes known; with no limit nothing else is written down.    *)
Agree(r) ==
    /\ limit \in {Unset, r}
    /\ limit' = r
    /\ UNCHANGED <<counted, now>>

(* Caller comes with limit r and is admitted at t, which may have passed   *)
(* by the time it is written down.                                         *)
Admit(r, id, t) ==
    /\ limit \in {Unset, r}
    /\ limit' = r
    /\ \A a \in counted : a.at <= t /\ a.id # id
    /\ Cardinality(InWindow(t)) < r
    /\ counted' = counted \cup {[id |-> id, at |-> t]}
    /\ UNCHANGED now

Pass ==
    /\ now' = now + 1
    /\ UNCHANGED <<limit, counted>>

WindowNext ==
    \/ \E r \in Rpm : Agree(r) \/ \E id \in Id, t \in 0 .. now : Admit(r, id, t)
    \/ Pass

WindowSpec == WindowInit /\ [][WindowNext]_windowVars

(* No window of sixty seconds, wherever it ends, holds more admissions     *)
(* than the limit.                                                         *)
NeverMoreThanTheLimit == \A t \in 0 .. now : limit # Unset /\ limit # 0 =>
                             Cardinality(InWindow(t)) <= limit
=============================================================================
