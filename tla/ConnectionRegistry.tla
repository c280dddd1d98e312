------------------------- MODULE ConnectionRegistry -------------------------
(***************************************************************************)
(* The database connections of one process: ConnectionFactory of           *)
(* app/db/connections.py, the gates, leases and native calls of            *)
(* app/db/runtime.py, and the requests that use a handle: schema           *)
(* extraction, ExecuteSQLNode, the connection test and the catalog list.   *)
(*                                                                         *)
(* A gate is the queue of the tasks that want it and its head holds it, as *)
(* asyncio.Semaphore(1) is fair.  The lease of a handle is the gate named  *)
(* by id(handle); a handle nobody refers to any more gives its identity to *)
(* the next one that is opened.                                            *)
(***************************************************************************)
EXTENDS FiniteSets, SequencesExt

CONSTANTS Task,      \* the requests of the process
          Db,        \* identifiers of databases (db_id)
          Probe,     \* the identifier "test_probe" of every connection test
          Handle,    \* identities of native connections
          Native,    \* the handles whose calls run in a worker thread
          None       \* no handle, no database

ASSUME RegistryAssumption ==
    /\ Probe \in Db
    /\ Native \subseteq Handle
    /\ None \notin Handle \cup Db

VARIABLES
    registry,  \* [Db -> Handle \cup {None}], ConnectionFactory._connections
    handle,    \* [Handle -> State]
    gateQ,     \* [Db -> Seq(Task)], gate(("connect", db_id))
    leaseQ,    \* [Handle -> Seq(Task)], gate(("database", id(handle)))
    req        \* [Task -> Request], the local variables of each request

vars == <<registry, handle, gateQ, leaseQ, req>>

\* "broken": closed by a call that used it, and not by the factory.
State == {"closed", "open", "broken", "closing"}
Live  == {"open", "broken"}  \* the factory has not begun to close it
PC == {"idle",
       "gate",       \* create(): waits for the gate, then for the driver
       "retire",     \* aclose(): waits for the lease of the registered handle
       "dispose",    \* _close_handle() of that handle, under its lease
       "discard",    \* _create() failed: _close_handle() of the new handle
       "extract",    \* SchemaExtractor: waits for the lease
       "read",       \* the extraction is running
       "think",      \* resolve_query_targets() has returned, no lease is held
       "execute",    \* ExecuteSQLNode: waits for the lease
       "run",        \* the statement is running
       "drain",      \* cancelled: native_call() waits for its worker thread
       "probe",      \* test_connection() uses the handle create() returned;
                     \* only its network drivers make others run meanwhile
       "catalogs"}   \* list_catalogs() uses the registered handle

\* conn: the handle captured by the request.  cand: the new handle of _create()
\* while it is not registered.  cut: a cancellation to raise after dispose().
Request == [pc : PC, db : Db \cup {None}, conn : Handle \cup {None},
            cand : Handle \cup {None}, cut : BOOLEAN]
Resting == [pc |-> "idle", db |-> None, conn |-> None, cand |-> None, cut |-> FALSE]

TypeOK ==
    /\ registry \in [Db -> Handle \cup {None}]
    /\ handle \in [Handle -> State]
    /\ gateQ \in [Db -> Seq(Task)]
    /\ leaseQ \in [Handle -> Seq(Task)]
    /\ req \in [Task -> Request]
    /\ \A t \in Task : req[t].conn = None =>
          req[t].pc \in {"idle", "gate", "discard"}

Init ==
    /\ registry = [d \in Db |-> None]
    /\ handle = [h \in Handle |-> "closed"]
    /\ gateQ = [d \in Db |-> <<>>]
    /\ leaseQ = [h \in Handle |-> <<>>]
    /\ req = [t \in Task |-> Resting]

-----------------------------------------------------------------------------
(* Helper state formulae *)

At(t, p) == req[t].pc = p

First(q, t) == q # <<>> /\ Head(q) = t

HoldsGate(t)  == First(gateQ[req[t].db], t)
HoldsLease(t) == First(leaseQ[req[t].conn], t)

\* Leaving a queue, as its holder or as one that waits: a task is there once.
Place(s, t)      == CHOOSE i \in DOMAIN s : s[i] = t
Without(q, k, t) == [q EXCEPT ![k] = IF t \in ToSet(@) THEN RemoveAt(@, Place(@, t)) ELSE @]
Joined(q, k, t)  == [q EXCEPT ![k] = Append(@, t)]

(* Mutant: the registry is not asked again after the wait for the lease.   *)
Unchecked(t) == TRUE

IsCurrent(t) == registry[req[t].db] = req[t].conn

Unreferenced(h) ==
    /\ handle[h] = "closed"
    /\ leaseQ[h] = <<>>
    /\ \A t \in Task : h \notin {req[t].conn, req[t].cand}

Working(t) == req[t].pc \in {"read", "run", "drain"}

\* A call over the network returns, raises, times out or is cancelled: a doubt
\* about the session, or the driver itself, may have closed the connection.  The
\* registry does not learn of it.
CallEnds(t) ==
    \/ UNCHANGED handle
    \/ /\ req[t].conn \notin Native /\ handle[req[t].conn] = "open"
       /\ handle' = [handle EXCEPT ![req[t].conn] = "broken"]

-----------------------------------------------------------------------------
(* Creation and closing *)

Rest(t) == req' = [req EXCEPT ![t] = Resting]

\* _create() stores h: the gate is left, and a connection test goes on with h.
Register(t, reg, h) ==
    LET d == req[t].db IN
    /\ registry' = [reg EXCEPT ![d] = h]
    /\ gateQ' = Without(gateQ, d, t)
    /\ req' = [req EXCEPT ![t] = IF d = Probe
                                 THEN [Resting EXCEPT !.pc = "probe", !.db = d, !.conn = h]
                                 ELSE Resting]

\* aclose() returns: to _create(), or to whoever disconnects.
CloseReturns(t, reg) ==
    IF req[t].cand # None THEN Register(t, reg, req[t].cand)
    ELSE registry' = reg /\ Rest(t) /\ UNCHANGED gateQ

(* Mutant: a cancelled replacement drops its new handle.                   *)
CandidateDropped(t) ==
    /\ Rest(t)
    /\ gateQ' = Without(gateQ, req[t].db, t)
    /\ handle' = [handle EXCEPT ![req[t].conn] = IF At(t, "dispose") THEN "closed" ELSE @]

\* aclose() raises: _create() closes its new handle before it leaves the gate.
CloseRaises(t) ==
    /\ handle' = [h \in Handle |-> CASE h = req[t].cand -> "closing"
                                     [] h = req[t].conn /\ At(t, "dispose") -> "closed"
                                     [] OTHER -> handle[h]]
    /\ req' = [req EXCEPT ![t] = IF @.cand = None THEN Resting
                                 ELSE [Resting EXCEPT !.pc = "discard", !.db = req[t].db, !.cand = req[t].cand]]
    /\ UNCHANGED gateQ

StartCreate(t, d) ==
    /\ At(t, "idle")
    /\ req' = [req EXCEPT ![t].pc = "gate", ![t].db = d]
    /\ gateQ' = Joined(gateQ, d, t)
    /\ UNCHANGED <<registry, handle, leaseQ>>

Connected(t, h) ==
    LET old == registry[req[t].db] IN
    /\ At(t, "gate") /\ HoldsGate(t)
    /\ Unreferenced(h)
    /\ handle' = [handle EXCEPT ![h] = "open"]
    /\ IF old = None
       THEN Register(t, registry, h) /\ UNCHANGED leaseQ
       ELSE /\ req' = [req EXCEPT ![t].pc = "retire", ![t].conn = old, ![t].cand = h]
            /\ leaseQ' = Joined(leaseQ, old, t)
            /\ UNCHANGED <<registry, gateQ>>

(* Mutant: the gate is not given back when the driver raises.              *)
GateKept(t) ==
    /\ At(t, "gate") /\ HoldsGate(t)
    /\ Rest(t)
    /\ UNCHANGED <<registry, handle, gateQ, leaseQ>>

ConnectFails(t) ==
    /\ At(t, "gate") /\ HoldsGate(t)
    /\ gateQ' = Without(gateQ, req[t].db, t)
    /\ Rest(t)
    /\ UNCHANGED <<registry, handle, leaseQ>>

StartClose(t, d) ==
    /\ At(t, "idle")
    /\ registry[d] # None
    /\ req' = [req EXCEPT ![t].pc = "retire", ![t].db = d, ![t].conn = registry[d]]
    /\ leaseQ' = Joined(leaseQ, registry[d], t)
    /\ UNCHANGED <<registry, handle, gateQ>>

Retire(t) ==
    /\ At(t, "retire") /\ HoldsLease(t)
    /\ IsCurrent(t)
    /\ registry' = [registry EXCEPT ![req[t].db] = None]
    /\ handle' = [handle EXCEPT ![req[t].conn] = "closing"]
    /\ req' = [req EXCEPT ![t].pc = "dispose"]
    /\ UNCHANGED <<gateQ, leaseQ>>

\* Somebody else closed the handle while aclose() waited for its lease.
AlreadyRetired(t) ==
    /\ At(t, "retire") /\ HoldsLease(t)
    /\ ~IsCurrent(t)
    /\ leaseQ' = Without(leaseQ, req[t].conn, t)
    /\ CloseReturns(t, registry)
    /\ UNCHANGED handle

Disposed(t) ==
    /\ At(t, "dispose") /\ ~req[t].cut
    /\ handle' = [handle EXCEPT ![req[t].conn] = "closed"]
    /\ leaseQ' = Without(leaseQ, req[t].conn, t)
    /\ CloseReturns(t, registry)

\* close() of the driver raises, or the cancellation is raised after it.
DisposeRaises(t) ==
    /\ At(t, "dispose")
    /\ leaseQ' = Without(leaseQ, req[t].conn, t)
    /\ CloseRaises(t)
    /\ UNCHANGED registry

Discarded(t) ==
    /\ At(t, "discard")
    /\ handle' = [h \in Handle |-> IF h = req[t].cand THEN "closed" ELSE handle[h]]
    /\ gateQ' = Without(gateQ, req[t].db, t)
    /\ Rest(t)
    /\ UNCHANGED <<registry, leaseQ>>

-----------------------------------------------------------------------------
(* Use *)

\* The handle is captured with the request's target, before the first await.
StartExtract(t, d) ==
    /\ At(t, "idle")
    /\ registry[d] # None
    /\ req' = [req EXCEPT ![t].pc = "extract", ![t].db = d, ![t].conn = registry[d]]
    /\ leaseQ' = Joined(leaseQ, registry[d], t)
    /\ UNCHANGED <<registry, handle, gateQ>>

\* The extractor does not ask the registry: a handle that is not open fails it.
Extract(t) ==
    /\ At(t, "extract") /\ HoldsLease(t)
    /\ IF handle[req[t].conn] = "open"
       THEN req' = [req EXCEPT ![t].pc = "read"] /\ UNCHANGED leaseQ
       ELSE Rest(t) /\ leaseQ' = Without(leaseQ, req[t].conn, t)
    /\ UNCHANGED <<registry, handle, gateQ>>

\* The schema is returned to the client, or a query goes on with it.
Extracted(t) ==
    /\ At(t, "read")
    /\ leaseQ' = Without(leaseQ, req[t].conn, t)
    /\ \/ Rest(t)
       \/ req' = [req EXCEPT ![t].pc = "think"]
    /\ CallEnds(t)
    /\ UNCHANGED <<registry, gateQ>>

StartExecute(t) ==
    /\ At(t, "think")
    /\ req' = [req EXCEPT ![t].pc = "execute"]
    /\ leaseQ' = Joined(leaseQ, req[t].conn, t)
    /\ UNCHANGED <<registry, handle, gateQ>>

\* connection_changed, or the driver refuses a connection that was closed.
Execute(t) ==
    /\ At(t, "execute") /\ HoldsLease(t)
    /\ IF IsCurrent(t) /\ handle[req[t].conn] = "open"
       THEN req' = [req EXCEPT ![t].pc = "run"] /\ UNCHANGED leaseQ
       ELSE Rest(t) /\ leaseQ' = Without(leaseQ, req[t].conn, t)
    /\ UNCHANGED <<registry, handle, gateQ>>

\* The statement ends, or times out, or the worker of a cancelled call ends.
Executed(t) ==
    /\ req[t].pc \in {"run", "drain"}
    /\ leaseQ' = Without(leaseQ, req[t].conn, t)
    /\ Rest(t)
    /\ CallEnds(t)
    /\ UNCHANGED <<registry, gateQ>>

\* The native connections answer the catalog list without being asked.
StartCatalogs(t, d) ==
    /\ At(t, "idle")
    /\ registry[d] \in Handle \ Native
    /\ req' = [req EXCEPT ![t].pc = "catalogs", ![t].db = d, ![t].conn = registry[d]]
    /\ UNCHANGED <<registry, handle, gateQ, leaseQ>>

\* test_connection() closes what is registered by now; an error leaves it open.
Probed(t) ==
    /\ At(t, "probe")
    /\ CallEnds(t)
    /\ \/ Rest(t) /\ UNCHANGED leaseQ
       \/ /\ registry[Probe] # None
          /\ req' = [req EXCEPT ![t].pc = "retire", ![t].conn = registry[Probe]]
          /\ leaseQ' = Joined(leaseQ, registry[Probe], t)
    /\ UNCHANGED <<registry, gateQ>>

CatalogsListed(t) ==
    /\ At(t, "catalogs")
    /\ Rest(t)
    /\ CallEnds(t)
    /\ UNCHANGED <<registry, gateQ, leaseQ>>

-----------------------------------------------------------------------------
(* Cancellation of a request, or the timeout of a workflow node *)

CancelWaiting(t) ==
    /\ req[t].pc \in {"gate", "extract", "think", "execute", "probe", "catalogs"}
    /\ Rest(t)
    /\ gateQ' = IF At(t, "gate") THEN Without(gateQ, req[t].db, t) ELSE gateQ
    /\ leaseQ' = IF req[t].pc \in {"extract", "execute"}
                 THEN Without(leaseQ, req[t].conn, t) ELSE leaseQ
    /\ IF req[t].pc \in {"probe", "catalogs"} THEN CallEnds(t) ELSE UNCHANGED handle
    /\ UNCHANGED registry

\* The worker thread of a native handle goes on; other drivers stop at once.
CancelWorking(t) ==
    /\ req[t].pc \in {"read", "run"}
    /\ IF req[t].conn \in Native
       THEN req' = [req EXCEPT ![t].pc = "drain"] /\ UNCHANGED leaseQ
       ELSE Rest(t) /\ leaseQ' = Without(leaseQ, req[t].conn, t)
    /\ CallEnds(t)
    /\ UNCHANGED <<registry, gateQ>>

CancelRetire(t) ==
    /\ At(t, "retire")
    /\ leaseQ' = Without(leaseQ, req[t].conn, t)
    /\ CloseRaises(t)
    /\ UNCHANGED registry

\* The shielded dispose() is waited for; the cancellation is raised then.
CancelDispose(t) ==
    /\ At(t, "dispose") /\ ~req[t].cut
    /\ req' = [req EXCEPT ![t].cut = TRUE]
    /\ UNCHANGED <<registry, handle, gateQ, leaseQ>>

Cancel(t) == CancelWaiting(t) \/ CancelWorking(t) \/ CancelRetire(t) \/ CancelDispose(t)

-----------------------------------------------------------------------------
Start(t) == \E d \in Db : StartCreate(t, d) \/ StartClose(t, d)
                          \/ StartExtract(t, d) \/ StartCatalogs(t, d)

\* What a request that has begun does next.
Continue(t) ==
    \/ ConnectFails(t) \/ \E h \in Handle : Connected(t, h)
    \/ Retire(t) \/ AlreadyRetired(t) \/ Disposed(t) \/ DisposeRaises(t) \/ Discarded(t)
    \/ Extract(t) \/ Extracted(t) \/ StartExecute(t) \/ Execute(t) \/ Executed(t)
    \/ Probed(t) \/ CatalogsListed(t)

Next == \E t \in Task : Start(t) \/ Continue(t) \/ Cancel(t)

Spec == Init /\ [][Next]_vars

FairSpec == Spec /\ \A t \in Task : WF_vars(Continue(t))

-----------------------------------------------------------------------------
(* Properties *)

(***************************************************************************)
(* A statement runs on the handle its database is registered with, from    *)
(* its first moment to the end of its worker thread, whoever replaces or   *)
(* disconnects the database meanwhile, and nobody else works on that       *)
(* handle under its lease.  is_current is asked once, at the beginning.    *)
(* The factory closes no handle under a leased worker, drained ones        *)
(* included: aclose() takes a handle from the registry, under its lease,   *)
(* before it closes it.  So a native handle is open while it is worked on  *)
(* and while it is registered.  A network connection may have been closed  *)
(* by a call on it (execute_sql.py closes a MySQL connection after a       *)
(* timeout, a cancellation or a failed clean-up) and stays registered.     *)
(***************************************************************************)
NotRetired(h) == IF h \in Native THEN handle[h] = "open" ELSE handle[h] \in Live

RunsOnRegistered ==
    /\ \A t \in Task : At(t, "run") =>
          /\ registry[req[t].db] = req[t].conn
          /\ \A u \in Task \ {t} : Working(u) => req[u].conn # req[t].conn
    /\ \A t \in Task : Working(t) => NotRetired(req[t].conn)
    /\ \A d \in Db : registry[d] # None => NotRetired(registry[d])

(***************************************************************************)
(* Every handle the factory has not begun to close can be found again,     *)
(* also one that a failed call has broken: it is registered under one      *)
(* database, or it is the candidate of a replacement in progress; a handle *)
(* being closed has a task that sees to it.  Cancelled and failed          *)
(* replacements leave none behind (and every variable has its type).       *)
(***************************************************************************)
NoHandleIsForgotten ==
    TypeOK /\ \A h \in Handle :
        /\ handle[h] \in Live =>
              Cardinality({d \in Db : registry[d] = h})
                + Cardinality({t \in Task : req[t].cand = h}) = 1
        /\ handle[h] = "closing" =>
              \E t \in Task : \/ At(t, "dispose") /\ req[t].conn = h
                              \/ At(t, "discard") /\ req[t].cand = h

(***************************************************************************)
(* Every request ends, although a replacement holds the gate of its        *)
(* database while it waits for the lease of the old handle: no lease is    *)
(* ever kept by a task that waits for a gate, and both queues are fair.    *)
(***************************************************************************)
EveryRequestEnds == \A t \in Task : ~At(t, "idle") ~> At(t, "idle")
=============================================================================
