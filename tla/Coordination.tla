---------------------------- MODULE Coordination ----------------------------
(***************************************************************************)
(* MySQLCoordinator of app/harness/mysql_coordination.py: query leases     *)
(* made of two MySQL named locks, an admission slot and a session, held by *)
(* one dedicated pool connection and watched while the body runs.          *)
(*                                                                         *)
(* A task talks to the server over its connection, one call at a time; a   *)
(* call is one step in which the server executes it and the task reads the *)
(* answer, except when the answer is lost (timeout, cancellation, network):*)
(* then the client closes the connection and the server may still execute  *)
(* the call until it notices.  A named lock belongs to the server's end of *)
(* the connection and is freed when that end goes away, and only then or   *)
(* by RELEASE_LOCK.                                                        *)
(*                                                                         *)
(* asyncio is modelled by its interleaving: a task runs alone from one     *)
(* await to the next, so the statements between two awaits are one step.   *)
(***************************************************************************)
EXTENDS Naturals

CONSTANTS Task,      \* requests (asyncio tasks) of all worker processes
          Session,   \* session identities; sha256 prefixes of distinct ones differ
          Conn,      \* the connections of the coordination pools
          Capacity,  \* MySQLCoordinator.capacity
          NoConn, NoLock

ASSUME CapacityAssumption == Capacity \in Nat \ {0}
ASSUME ConnAssumption == NoConn \notin Conn

Slot == 0 .. Capacity - 1

ASSUME LockAssumption == Session \cap Slot = {} /\ NoLock \notin Session \cup Slot

Lock == Slot \cup Session

VARIABLES
    \* the MySQL server
    owner,     \* [Lock -> Conn \cup {NoConn}], IS_USED_LOCK
    srv,       \* [Conn -> BOOLEAN], the server's end of the connection exists
    late,      \* [Conn -> Lock \cup {NoLock}], a GET_LOCK whose client has given up
    \* the connections as the workers see them
    up,        \* [Conn -> BOOLEAN], the client's end is open (not conn.closed)
    \* the tasks inside MySQLCoordinator.query
    pc,        \* [Task -> PC]
    conn,      \* [Task -> Conn \cup {NoConn}], the connection acquired from the pool
    slot,      \* [Task -> Slot], `index`, then `slot`
    session,   \* [Task -> Session], the session asked for
    mon,       \* [Task -> Mon], the watchdog task
    expired,   \* [Task -> BOOLEAN], deadline.reschedule(now) was called
    how,       \* [Task -> How], how the body ended
    result,    \* [Task -> Result], how the last query() ended
    crossed    \* [Task -> BOOLEAN], history: another lease on this task's slot or
               \* session began while this task was inside its own

serverVars == <<owner, srv, late>>
taskVars   == <<pc, conn, slot, session, mon, expired, how, result, crossed>>
vars       == <<owner, srv, late, up, pc, conn, slot, session, mon, expired, how,
                result, crossed>>

PC     == {"idle", "slot", "session", "identity", "body", "join", "relSession", "relSlot"}
Mon    == {"off", "sleep", "slot", "session", "done"}
How    == {"ok", "cancelled", "error", "lost"}
Result == {"none", "ok", "busy", "unavailable", "cancelled", "error"}

TypeOK ==
    /\ owner \in [Lock -> Conn \cup {NoConn}]
    /\ srv \in [Conn -> BOOLEAN]
    /\ late \in [Conn -> Lock \cup {NoLock}]
    /\ up \in [Conn -> BOOLEAN]
    /\ pc \in [Task -> PC]
    /\ conn \in [Task -> Conn \cup {NoConn}]
    /\ slot \in [Task -> Slot]
    /\ session \in [Task -> Session]
    /\ mon \in [Task -> Mon]
    /\ expired \in [Task -> BOOLEAN]
    /\ how \in [Task -> How]
    /\ result \in [Task -> Result]
    /\ crossed \in [Task -> BOOLEAN]

Init ==
    /\ owner = [l \in Lock |-> NoConn]
    /\ srv = [c \in Conn |-> FALSE]
    /\ late = [c \in Conn |-> NoLock]
    /\ up = [c \in Conn |-> FALSE]
    /\ pc = [t \in Task |-> "idle"]
    /\ conn = [t \in Task |-> NoConn]
    /\ slot = [t \in Task |-> 0]
    /\ session \in [Task -> Session]
    /\ mon = [t \in Task |-> "off"]
    /\ expired = [t \in Task |-> FALSE]
    /\ how = [t \in Task |-> "ok"]
    /\ result = [t \in Task |-> "none"]
    /\ crossed = [t \in Task |-> FALSE]

-----------------------------------------------------------------------------
(* Helper state formulae *)

(* Mutant: one connection for all queries instead of one from the pool.   *)
SharedConnection(c) == TRUE

Pooled(c) == \A t \in Task : conn[t] # c

(* The call reaches a live server end and its answer comes back.           *)
Answers(t) == up[conn[t]] /\ srv[conn[t]]

LastSlot(t) == slot[t] + 1 = Capacity

(* Mutant: a failed query leaves its connection open.                      *)
LeftOpen(t) == up

(* conn.close()                                                            *)
Closed(t) == [up EXCEPT ![conn[t]] = FALSE]

(* Mutant: `stopped.set()` is forgotten.                                   *)
NeverStopped(t) == FALSE

(* stopped.is_set()                                                        *)
Stopped(t) == pc[t] = "join"

Inside(t) == pc[t] \in {"body", "join", "relSession"}

(* `locks` of query(): the names the task believes it holds.               *)
Locks(t) ==
    CASE pc[t] \in {"session", "relSlot"} -> {slot[t]}
      [] pc[t] \in {"identity", "body", "join", "relSession"} -> {slot[t], session[t]}
      [] OTHER -> {}

Owns(t) == owner[slot[t]] = conn[t] /\ owner[session[t]] = conn[t]

Freed(C) == [l \in Lock |-> IF owner[l] \in C THEN NoConn ELSE owner[l]]

-----------------------------------------------------------------------------
(* MySQLCoordinator.query: admission *)

(* query() is called: the pool hands out one of its idle connections, or   *)
(* makes one.  An idle connection may have died without the pool noticing. *)
Acquire(t, s, c) ==
    /\ pc[t] = "idle" /\ Pooled(c)
    /\ up[c] \/ ~srv[c]
    /\ up' = [up EXCEPT ![c] = TRUE]
    /\ srv' = [srv EXCEPT ![c] = up[c] => srv[c]]
    /\ conn' = [conn EXCEPT ![t] = c]
    /\ pc' = [pc EXCEPT ![t] = "slot"]
    /\ slot' = [slot EXCEPT ![t] = 0]
    /\ session' = [session EXCEPT ![t] = s]
    /\ result' = [result EXCEPT ![t] = "none"]
    /\ crossed' = [crossed EXCEPT ![t] = FALSE]
    /\ UNCHANGED <<owner, late, mon, expired, how>>

(* pool.acquire failed or timed out: nothing was taken.                    *)
AcquireFails(t) ==
    /\ pc[t] = "idle"
    /\ result' = [result EXCEPT ![t] = "unavailable"]
    /\ UNCHANGED <<owner, srv, late, up, pc, conn, slot, session, mon, expired, how, crossed>>

(* `except BaseException: conn.close()`; the closed connection makes       *)
(* _release raise at once and pool.release drops it instead of pooling it. *)
Leave(t, why) ==
    /\ up' = Closed(t)
    /\ pc' = [pc EXCEPT ![t] = "idle"]
    /\ conn' = [conn EXCEPT ![t] = NoConn]
    /\ mon' = [mon EXCEPT ![t] = "off"]
    /\ expired' = [expired EXCEPT ![t] = FALSE]
    /\ how' = [how EXCEPT ![t] = "ok"]
    /\ result' = [result EXCEPT ![t] = why]

(* SELECT GET_LOCK(slot index, 0) answers 1, or 0 and the loop goes on.    *)
GetSlot(t) ==
    /\ pc[t] = "slot" /\ Answers(t)
    /\ \/ /\ owner[slot[t]] \in {NoConn, conn[t]}
          /\ owner' = [owner EXCEPT ![slot[t]] = conn[t]]
          /\ pc' = [pc EXCEPT ![t] = "session"]
          /\ UNCHANGED slot
       \/ /\ owner[slot[t]] \notin {NoConn, conn[t]}
          /\ ~LastSlot(t)
          /\ slot' = [slot EXCEPT ![t] = @ + 1]
          /\ UNCHANGED <<owner, pc>>
    /\ UNCHANGED <<srv, late, up, conn, session, mon, expired, how, result, crossed>>

(* The last slot answered 0: CoordinationBusyError, connection closed.     *)
SlotsBusy(t) ==
    /\ pc[t] = "slot" /\ Answers(t)
    /\ owner[slot[t]] \notin {NoConn, conn[t]}
    /\ LastSlot(t)
    /\ Leave(t, "busy")
    /\ UNCHANGED <<serverVars, slot, session, crossed>>

GetSession(t) ==
    /\ pc[t] = "session" /\ Answers(t)
    /\ owner[session[t]] \in {NoConn, conn[t]}
    /\ owner' = [owner EXCEPT ![session[t]] = conn[t]]
    /\ pc' = [pc EXCEPT ![t] = "identity"]
    /\ UNCHANGED <<srv, late, up, conn, slot, session, mon, expired, how, result, crossed>>

(* Mutant: the answer 0 to the session's GET_LOCK is taken for a 1.        *)
BusySessionEntered(t) ==
    /\ pc[t] = "session" /\ Answers(t)
    /\ owner[session[t]] \notin {NoConn, conn[t]}
    /\ pc' = [pc EXCEPT ![t] = "identity"]
    /\ UNCHANGED <<serverVars, up, conn, slot, session, mon, expired, how, result, crossed>>

(* The session is used elsewhere: the slot is not released by name, the    *)
(* connection that holds it is closed.                                     *)
SessionBusy(t) ==
    /\ pc[t] = "session" /\ Answers(t)
    /\ owner[session[t]] \notin {NoConn, conn[t]}
    /\ Leave(t, "busy")
    /\ UNCHANGED <<serverVars, slot, session, crossed>>

(* The answer to a GET_LOCK or to CONNECTION_ID is NULL, late, cancelled   *)
(* or lost.  A GET_LOCK may have reached the server all the same.          *)
AdmissionUnconfirmed(t, why) ==
    /\ pc[t] \in {"slot", "session", "identity"}
    /\ late' = [late EXCEPT ![conn[t]] =
                   IF ~srv[conn[t]] \/ pc[t] = "identity" THEN NoLock
                   ELSE IF pc[t] = "slot" THEN slot[t] ELSE session[t]]
    /\ Leave(t, why)
    /\ UNCHANGED <<owner, srv, slot, session, crossed>>

(* CONNECTION_ID is known: the watchdog is created and the body starts.    *)
Enter(t) ==
    /\ pc[t] = "identity" /\ Answers(t)
    /\ pc' = [pc EXCEPT ![t] = "body"]
    /\ mon' = [mon EXCEPT ![t] = "sleep"]
    /\ crossed' = [u \in Task |->
          \/ crossed[u]
          \/ u # t /\ Inside(u) /\ (slot[u] = slot[t] \/ session[u] = session[t])]
    /\ UNCHANGED <<owner, srv, late, up, conn, slot, session, expired, how, result>>

-----------------------------------------------------------------------------
(* _watch_ownership *)

(* 250 ms passed without `stopped`; or `stopped` was set and it returns.   *)
MonitorWakes(t) ==
    /\ mon[t] = "sleep"
    /\ mon' = [mon EXCEPT ![t] = IF Stopped(t) THEN "done" ELSE "slot"]
    /\ UNCHANGED <<owner, srv, late, up, pc, conn, slot, session, expired, how, result, crossed>>

(* IS_USED_LOCK answered this connection for the slot, then the session;   *)
(* `while not stopped.is_set()` ends the loop once the body is over.       *)
MonitorConfirms(t) ==
    /\ mon[t] \in {"slot", "session"} /\ Answers(t)
    /\ owner[IF mon[t] = "slot" THEN slot[t] ELSE session[t]] = conn[t]
    /\ mon' = [mon EXCEPT ![t] = CASE mon[t] = "slot" -> "session"
                                   [] Stopped(t) -> "done"
                                   [] OTHER -> "sleep"]
    /\ UNCHANGED <<owner, srv, late, up, pc, conn, slot, session, expired, how, result, crossed>>

(* Mutant: a failed probe ends the watchdog and nothing else.              *)
LossUnreported(t) ==
    /\ mon[t] \in {"slot", "session"}
    /\ mon' = [mon EXCEPT ![t] = "done"]
    /\ UNCHANGED <<serverVars, up, pc, conn, slot, session, expired, how, result, crossed>>

(* The probe timed out, failed, or named another owner: the deadline       *)
(* expires now.  A probe cut off by its timeout may close the connection.  *)
(* A task already joining the watchdog gets the expiry as a cancellation,  *)
(* which a caller's own cancellation outranks.                             *)
MonitorFails(t) ==
    /\ mon[t] \in {"slot", "session"}
    /\ mon' = [mon EXCEPT ![t] = "done"]
    /\ expired' = [expired EXCEPT ![t] = TRUE]
    /\ how' = [how EXCEPT ![t] = IF pc[t] = "join" /\ @ # "cancelled" THEN "lost" ELSE @]
    /\ \E open \in {up[conn[t]], FALSE} : up' = [up EXCEPT ![conn[t]] = open]
    /\ UNCHANGED <<owner, srv, late, pc, conn, slot, session, result, crossed>>

-----------------------------------------------------------------------------
(* _watched_lease and _joined_release: the way out *)

(* The body returns or raises, the caller cancels it, or the expired       *)
(* deadline does; `finally: stopped.set()`.                                *)
BodyEnds(t, h) ==
    /\ pc[t] = "body"
    /\ h = "lost" => expired[t]
    /\ pc' = [pc EXCEPT ![t] = "join"]
    /\ how' = [how EXCEPT ![t] = h]
    /\ UNCHANGED <<owner, srv, late, up, conn, slot, session, mon, expired, result, crossed>>

(* A cancellation while the watchdog or the release is awaited is kept     *)
(* until the shielded task is over.                                        *)
CancelDuringExit(t) ==
    /\ \/ pc[t] = "join" /\ mon[t] # "done"
       \/ pc[t] \in {"relSession", "relSlot"}
    /\ how' = [how EXCEPT ![t] = "cancelled"]
    /\ UNCHANGED <<owner, srv, late, up, pc, conn, slot, session, mon, expired, result, crossed>>

(* The watchdog is over and the body ended well: RELEASE_LOCK comes next.  *)
Joined(t) ==
    /\ pc[t] = "join" /\ mon[t] = "done" /\ how[t] = "ok"
    /\ pc' = [pc EXCEPT ![t] = "relSession"]
    /\ UNCHANGED <<owner, srv, late, up, conn, slot, session, mon, expired, how, result, crossed>>

JoinedFailed(t) ==
    /\ pc[t] = "join" /\ mon[t] = "done" /\ how[t] # "ok"
    /\ Leave(t, IF how[t] = "lost" THEN "unavailable" ELSE how[t])
    /\ UNCHANGED <<serverVars, slot, session, crossed>>

(* RELEASE_LOCK of the session answers 1: it was ours until now.           *)
ReleaseSession(t) ==
    /\ pc[t] = "relSession" /\ Answers(t)
    /\ owner[session[t]] = conn[t]
    /\ owner' = [owner EXCEPT ![session[t]] = NoConn]
    /\ pc' = [pc EXCEPT ![t] = "relSlot"]
    /\ UNCHANGED <<srv, late, up, conn, slot, session, mon, expired, how, result, crossed>>

(* RELEASE_LOCK of the slot answers 1: the open connection is pooled.      *)
ReleaseSlot(t) ==
    /\ pc[t] = "relSlot" /\ Answers(t)
    /\ owner[slot[t]] = conn[t]
    /\ owner' = [owner EXCEPT ![slot[t]] = NoConn]
    /\ pc' = [pc EXCEPT ![t] = "idle"]
    /\ conn' = [conn EXCEPT ![t] = NoConn]
    /\ mon' = [mon EXCEPT ![t] = "off"]
    /\ expired' = [expired EXCEPT ![t] = FALSE]
    /\ how' = [how EXCEPT ![t] = "ok"]
    /\ result' = [result EXCEPT ![t] = how[t]]
    /\ UNCHANGED <<srv, late, up, slot, session, crossed>>

(* Mutant: an unconfirmed release is passed over.                          *)
ReleaseSwallowed(t) ==
    /\ pc[t] \in {"relSession", "relSlot"}
    /\ Leave(t, how[t])
    /\ UNCHANGED <<serverVars, slot, session, crossed>>

(* The release is not confirmed; the server may have executed it.          *)
ReleaseUnconfirmed(t) ==
    /\ pc[t] \in {"relSession", "relSlot"}
    /\ LET l == IF pc[t] = "relSession" THEN session[t] ELSE slot[t]
       IN  \/ UNCHANGED owner
           \/ owner[l] = conn[t] /\ owner' = [owner EXCEPT ![l] = NoConn]
    /\ Leave(t, "unavailable")
    /\ UNCHANGED <<srv, late, slot, session, crossed>>

-----------------------------------------------------------------------------
(* The MySQL server *)

(* Connections die at the server: KILL CONNECTION, failover, restart.      *)
ServerEnds(C) ==
    /\ C # {} /\ \A c \in C : srv[c]
    /\ srv' = [c \in Conn |-> srv[c] /\ c \notin C]
    /\ late' = [c \in Conn |-> IF c \in C THEN NoLock ELSE late[c]]
    /\ owner' = Freed(C)
    /\ UNCHANGED <<up, taskVars>>

(* The server notices that a client has closed its end.                    *)
ServerDrops(c) == ~up[c] /\ ServerEnds({c})

(* A GET_LOCK without a client any more is executed before that.           *)
LateGetLock(c) ==
    /\ late[c] # NoLock
    /\ owner' = IF owner[late[c]] = NoConn THEN [owner EXCEPT ![late[c]] = c] ELSE owner
    /\ late' = [late EXCEPT ![c] = NoLock]
    /\ UNCHANGED <<srv, up, taskVars>>

-----------------------------------------------------------------------------
Admission(t) ==
    \/ \E s \in Session, c \in Conn : Acquire(t, s, c)
    \/ AcquireFails(t)
    \/ GetSlot(t)
    \/ SlotsBusy(t)
    \/ GetSession(t)
    \/ SessionBusy(t)
    \/ \E why \in {"unavailable", "cancelled"} : AdmissionUnconfirmed(t, why)
    \/ Enter(t)

Watchdog(t) == MonitorWakes(t) \/ MonitorConfirms(t) \/ MonitorFails(t)

Exit(t) ==
    \/ \E h \in How : BodyEnds(t, h)
    \/ CancelDuringExit(t)
    \/ Joined(t)
    \/ JoinedFailed(t)
    \/ ReleaseSession(t)
    \/ ReleaseSlot(t)
    \/ ReleaseUnconfirmed(t)

Server ==
    \/ \E C \in SUBSET Conn : ServerEnds(C)
    \/ \E c \in Conn : ServerDrops(c) \/ LateGetLock(c)

Next == Server \/ \E t \in Task : Admission(t) \/ Watchdog(t) \/ Exit(t)

Spec == Init /\ [][Next]_vars

(* Every call has a timeout and every timeout a handler, the watchdog is a *)
(* task of its own, and a closed socket reaches the server; how long the   *)
(* body runs is the caller's business, except that it stops at an expired  *)
(* deadline.                                                               *)
StepOut(t) ==
    \/ GetSlot(t) \/ SlotsBusy(t) \/ GetSession(t) \/ SessionBusy(t) \/ Enter(t)
    \/ AdmissionUnconfirmed(t, "unavailable")
    \/ BodyEnds(t, "lost")
    \/ Joined(t) \/ JoinedFailed(t)
    \/ ReleaseSession(t) \/ ReleaseSlot(t) \/ ReleaseUnconfirmed(t)

Fairness ==
    /\ \A t \in Task : WF_vars(StepOut(t)) /\ WF_vars(Watchdog(t))
    /\ \A c \in Conn : WF_vars(ServerDrops(c))

FairSpec == Spec /\ Fairness

(* What query() cannot see to: the caller's body ends, as it does after    *)
(* settings.query_timeout_seconds at the latest.                           *)
BodiesEnd == \A t \in Task : []<>(pc[t] # "body")

-----------------------------------------------------------------------------
(* Properties *)

(* A connection that waits in the pool carries nothing over: no lock, and  *)
(* no call that could still take one.                                      *)
PooledConnectionsAreClean ==
    \A c \in Conn : up[c] /\ Pooled(c) =>
        late[c] = NoLock /\ \A l \in Lock : owner[l] # c

(* A lock held by an open connection is one its task knows of, so that it  *)
(* will be given back; no admission slot leaks while a worker lives.       *)
NoOrphanLock ==
    \A l \in Lock, c \in Conn : owner[l] = c /\ up[c] =>
        \E t \in Task : conn[t] = c /\ l \in Locks(t)

(* query() returns normally only if nobody else entered with the same slot *)
(* or session while the body ran: RELEASE_LOCK = 1 on the same connection  *)
(* is the proof that the locks were never lost in between.                 *)
CleanExitWasExclusive == \A t \in Task : result[t] = "ok" => ~crossed[t]

(* The coordinator implements the lease of QueryLease.tla.                 *)
LeasePhase(t) ==
    CASE Inside(t) -> IF Owns(t) THEN "held" ELSE "lost"
      [] pc[t] = "relSlot" -> "returned"
      [] OTHER -> "none"

Lease == INSTANCE QueryLease WITH
            phase <- [t \in Task |-> LeasePhase(t)],
            outcome <- result,
            BodyError <- {"error"}

ImplementsLease == Lease!LeaseSpec
Exclusive == Lease!Exclusive

(* A body whose locks are gone does not run on: the watchdog ends it.      *)
LossEndsTheBody == \A t \in Task : (pc[t] = "body" /\ ~Owns(t)) ~> (pc[t] # "body")

(* Every query() that is called returns or raises once its body has ended. *)
EveryQueryEnds == BodiesEnd => \A t \in Task : (pc[t] # "idle") ~> (pc[t] = "idle")

(* Every lock is given up by the connection that took it, whatever happens *)
(* to the query in between: admission slots do not leak away.              *)
EveryLockIsFreed == BodiesEnd => \A c \in Conn, l \in Lock : (owner[l] = c) ~> (owner[l] # c)
=============================================================================
