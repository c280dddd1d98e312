----------------------------- MODULE QueryLease -----------------------------
(***************************************************************************)
(* What MySQLCoordinator.query promises a caller, without MySQL: a task    *)
(* that enters holds one admission slot and one session exclusively, the   *)
(* server may take both away at any moment, a task is told of the loss     *)
(* later, and only a lease that was never lost may end with "ok".          *)
(*                                                                         *)
(* Coordination.tla implements this specification; SharedQuery.tla builds  *)
(* the query path of the application on top of it.                         *)
(***************************************************************************)
CONSTANTS Task,      \* requests (asyncio tasks) of all worker processes
          Session,   \* session identities
          Slot,      \* the slots 0 .. capacity-1 of the global admission
          BodyError  \* what the body itself may raise

VARIABLES
    phase,     \* [Task -> Phase]
    slot,      \* [Task -> Slot], meaningful while the task is in a lease
    session,   \* [Task -> Session], meaningful while the task is in a lease
    outcome    \* [Task -> Outcome], how the task's last attempt ended

leaseVars == <<phase, slot, session, outcome>>

Phase   == {"none", "held", "lost", "returned"}
Failure == {"busy", "unavailable", "cancelled"} \cup BodyError
Outcome == {"none", "ok"} \cup Failure

LeaseTypeOK ==
    /\ phase \in [Task -> Phase]
    /\ slot \in [Task -> Slot]
    /\ session \in [Task -> Session]
    /\ outcome \in [Task -> Outcome]

LeaseInit ==
    /\ phase = [t \in Task |-> "none"]
    /\ slot \in [Task -> Slot]
    /\ session \in [Task -> Session]
    /\ outcome = [t \in Task |-> "none"]

(* The slot or the session asked for is in someone's hands. *)
Taken(q, s) == \E u \in Task : phase[u] = "held" /\ (slot[u] = q \/ session[u] = s)

(* A task that is not in a lease begins an attempt, or reports its failure. *)
Attempt(t, q, s) ==
    /\ phase[t] = "none"
    /\ slot' = [slot EXCEPT ![t] = q]
    /\ session' = [session EXCEPT ![t] = s]
    /\ outcome' = [outcome EXCEPT ![t] = "none"]
    /\ UNCHANGED phase

Refuse(t, why) ==
    /\ phase[t] = "none"
    /\ outcome' = [outcome EXCEPT ![t] = why]
    /\ UNCHANGED <<phase, slot, session>>

(* The body of `async with coordinator.query(...)` starts. *)
Grant(t, q, s) ==
    /\ phase[t] = "none"
    /\ ~Taken(q, s)
    /\ phase' = [phase EXCEPT ![t] = "held"]
    /\ slot' = [slot EXCEPT ![t] = q]
    /\ session' = [session EXCEPT ![t] = s]
    /\ outcome' = [outcome EXCEPT ![t] = "none"]

(* The server ends the connections of some leases; their tasks do not know. *)
Revoke(T) ==
    /\ T # {} /\ \A t \in T : phase[t] = "held"
    /\ phase' = [t \in Task |-> IF t \in T THEN "lost" ELSE phase[t]]
    /\ UNCHANGED <<slot, session, outcome>>

(* The session is given back and the server confirmed that it was ours. *)
Return(t) ==
    /\ phase[t] = "held"
    /\ phase' = [phase EXCEPT ![t] = "returned"]
    /\ UNCHANGED <<slot, session, outcome>>

(* After the return the slot's release may still fail, or the caller may   *)
(* have cancelled meanwhile: any outcome is possible.                      *)
Report(t, how) ==
    /\ phase[t] = "returned"
    /\ phase' = [phase EXCEPT ![t] = "none"]
    /\ outcome' = [outcome EXCEPT ![t] = how]
    /\ UNCHANGED <<slot, session>>

(* The attempt ends without a confirmed return: never with "ok".           *)
Abandon(t, why) ==
    /\ phase[t] \in {"held", "lost"}
    /\ phase' = [phase EXCEPT ![t] = "none"]
    /\ outcome' = [outcome EXCEPT ![t] = why]
    /\ UNCHANGED <<slot, session>>

LeaseNext ==
    \/ \E T \in SUBSET Task : Revoke(T)
    \/ \E t \in Task :
        \/ \E q \in Slot, s \in Session : Attempt(t, q, s) \/ Grant(t, q, s)
        \/ Return(t)
        \/ \E why \in Failure : Refuse(t, why) \/ Abandon(t, why)
        \/ \E how \in Outcome \ {"none", "busy"} : Report(t, how)

LeaseSpec == LeaseInit /\ [][LeaseNext]_leaseVars

(* Mutual exclusion: no two leases that the server still honours share a   *)
(* session or an admission slot, so they are at most as many as the slots. *)
Exclusive ==
    \A t, u \in Task :
        t # u /\ phase[t] = "held" /\ phase[u] = "held"
            => slot[t] # slot[u] /\ session[t] # session[u]
=============================================================================
