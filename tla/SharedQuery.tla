---------------------------- MODULE SharedQuery ----------------------------
(***************************************************************************)
(* The shared query path: run_query and the version edits of               *)
(* app/api/query.py run inside a query lease (QueryLease.tla), read the    *)
(* session's snapshot from MySQLSessionStore, work on a copy of it and     *)
(* commit the copy with the revision they read.                            *)
(*                                                                         *)
(* A write is one MySQL transaction.  It starts by locking the namespace's *)
(* configuration row, so at most one is open; its decisions are taken when *)
(* the statements run (Stage), its effect appears at COMMIT, and a client  *)
(* that gives up in between leaves the server to finish it either way.     *)
(* Plain reads see committed rows only and wait for nobody.  Time is       *)
(* abstract: a row may pass its expires_at at any moment.                  *)
(***************************************************************************)
EXTENDS QueryLease, Naturals, FiniteSets, SequencesExt

CONSTANTS MaxEntries,  \* max_entries of the store
          MaxTurns,    \* settings.session_max_turns
          MaxVersions, \* settings.session_max_versions
          MaxRevision, \* bound of the model: writes that get a revision
          NoRow, NoTxn

VARIABLES
    rows,      \* [Session -> Row \cup {NoRow}], the committed worker_sessions table
    txn,       \* the open transaction, NoTxn when there is none
    revision,  \* number of revisions handed out so far (uuid4, never reused)
    step,      \* [Task -> Step], where a task stands inside its lease
    kind,      \* [Task -> {"query", "edit"}]
    copy,      \* [Task -> Payload], the task's private snapshot
    base,      \* [Task -> 0 .. MaxRevision], the revision it read, 0 for None
    disturbed  \* history: sessions of which a lease was lost or abandoned, or
               \* a write was left unconfirmed

storeVars == <<rows, txn, revision>>
bodyVars  == <<step, kind, copy, base>>
vars      == <<leaseVars, storeVars, bodyVars, disturbed>>

Revision == 1 .. MaxRevision
Payload  == [turns : Seq(Revision), versions : Seq(Revision)]
Row      == [rev : Revision, value : Payload, expired : BOOLEAN]
\* gone: the client has given up, the server finishes on its own.
Txn      == [task : Task, session : Session, pruned : SUBSET Session, rev : Revision,
             value : Payload, gone : BOOLEAN]
Step     == {"out", "read", "create", "commit", "done"}

ASSUME SharedAssumption ==
    /\ {MaxEntries, MaxTurns, MaxVersions} \subseteq Nat \ {0} /\ MaxRevision \in Nat
    /\ NoRow \notin Row /\ NoTxn \notin Txn
    /\ {"conflict", "capacity", "notFound", "versionsFull", "error"} \subseteq BodyError

(* An item of a history is named by the revision of the write that added it. *)
Empty == [turns |-> <<>>, versions |-> <<>>]

TypeOK ==
    /\ LeaseTypeOK
    /\ rows \in [Session -> Row \cup {NoRow}]
    /\ \A s \in Session : rows[s] # NoRow => Len(rows[s].value.turns) <= MaxTurns
    /\ txn \in Txn \cup {NoTxn}
    /\ revision \in 0 .. MaxRevision
    /\ step \in [Task -> Step]
    /\ kind \in [Task -> {"query", "edit"}]
    /\ copy \in [Task -> Payload]
    /\ base \in [Task -> 0 .. MaxRevision]
    /\ disturbed \subseteq Session

Init ==
    /\ LeaseInit
    /\ rows = [s \in Session |-> NoRow]
    /\ txn = NoTxn
    /\ revision = 0
    /\ step = [t \in Task |-> "out"]
    /\ kind = [t \in Task |-> "query"]
    /\ copy = [t \in Task |-> Empty]
    /\ base = [t \in Task |-> 0]
    /\ disturbed = {}

-----------------------------------------------------------------------------
(* Helper state formulae *)

Leased(s) == \E u \in Task : phase[u] = "held" /\ session[u] = s

Stored == {s \in Session : rows[s] # NoRow}

Current(s) == rows[s] # NoRow /\ ~rows[s].expired

LastTurns(h) == SubSeq(h, Len(h) - Min({Len(h), MaxTurns}) + 1, Len(h))

(* The payload that a task writes: the new session, its copy with one turn *)
(* more (the oldest dropped beyond the limit), or with one version more.   *)
(* The versions begin as a copy of the turns.                              *)
NewValue(t, rev) ==
    IF step[t] = "create" THEN Empty
    ELSE IF kind[t] = "query"
    THEN [copy[t] EXCEPT !.turns = LastTurns(Append(@, rev))]
    ELSE [copy[t] EXCEPT !.versions = Append(IF @ = <<>> THEN copy[t].turns ELSE @, rev)]

EditRefused(v) ==
    IF v.turns = <<>> /\ v.versions = <<>> THEN "notFound"
    ELSE IF Len(IF v.versions = <<>> THEN v.turns ELSE v.versions) >= MaxVersions
    THEN "versionsFull" ELSE "none"

Writing(t) == txn # NoTxn /\ txn.task = t /\ ~txn.gone

(* The request is over; what its frame held is forgotten.                  *)
BodyOver(t) ==
    /\ step' = [step EXCEPT ![t] = "out"]
    /\ kind' = [kind EXCEPT ![t] = "query"]
    /\ copy' = [copy EXCEPT ![t] = Empty]
    /\ base' = [base EXCEPT ![t] = 0]

-----------------------------------------------------------------------------
(* shared_query_scope: into the lease *)

Begin(t, k, q, s) ==
    /\ step[t] = "out"
    /\ Grant(t, q, s)
    /\ step' = [step EXCEPT ![t] = "read"]
    /\ kind' = [kind EXCEPT ![t] = k]
    /\ UNCHANGED <<storeVars, copy, base, disturbed>>

(* CoordinationBusyError becomes QueryCapacityError; other refusals pass.  *)
Refused(t, why) ==
    /\ step[t] = "out"
    /\ Refuse(t, why)
    /\ UNCHANGED <<storeVars, bodyVars, disturbed>>

(* The server loses the lease's connections; the body does not know yet.   *)
LeaseLost(T) ==
    /\ Revoke(T)
    /\ disturbed' = disturbed \cup {session[t] : t \in T}
    /\ UNCHANGED <<storeVars, bodyVars>>

(* The request ends by an exception, wherever it stands: a refusal of its  *)
(* own, an unavailable store, a drifted configuration, a failing node, the *)
(* caller's cancellation or the watchdog's.  An open transaction is closed *)
(* from the client's side; the server is left to finish it.                *)
Raise(t, why) ==
    /\ Abandon(t, why)
    /\ BodyOver(t)
    /\ IF Writing(t)
       THEN txn' = [txn EXCEPT !.gone = TRUE] /\ disturbed' = disturbed \cup {session[t]}
       ELSE UNCHANGED <<txn, disturbed>>
    /\ UNCHANGED <<rows, revision>>

-----------------------------------------------------------------------------
(* MySQLSessionStore.get, in _load_query_session and _rollback_to_version  *)

Read(t) ==
    /\ step[t] = "read"
    /\ LET s == session[t]
       IN  \/ /\ Current(s)
              /\ kind[t] = "edit" => EditRefused(rows[s].value) = "none"
              /\ copy' = [copy EXCEPT ![t] = rows[s].value]
              /\ base' = [base EXCEPT ![t] = rows[s].rev]
              /\ step' = [step EXCEPT ![t] = "commit"]
              /\ UNCHANGED <<leaseVars, storeVars, kind, disturbed>>
           \/ /\ Current(s) /\ kind[t] = "edit" /\ EditRefused(rows[s].value) # "none"
              /\ Raise(t, EditRefused(rows[s].value))
           \/ /\ ~Current(s) /\ kind[t] = "query"
              /\ step' = [step EXCEPT ![t] = "create"]
              /\ UNCHANGED <<leaseVars, storeVars, kind, copy, base, disturbed>>
           \/ /\ ~Current(s) /\ kind[t] = "edit"
              /\ Raise(t, "notFound")

-----------------------------------------------------------------------------
(* MySQLSessionStore.put *)

(* Mutant: DELETE without IS_FREE_LOCK.                                    *)
EveryExpired(lingering) == {s \in Stored : rows[s].expired}

(* DELETE ... WHERE expires_at <= now AND IS_FREE_LOCK(session): the lock  *)
(* of a session nobody leases may linger at the server a little longer.    *)
Prunable(lingering) == {s \in Stored : rows[s].expired /\ ~Leased(s)} \ lingering

(* Mutant: the revision is not compared.                                   *)
NoConflict(t, pruned) == FALSE

(* Mutant: an expired row that is still there blocks the creation.         *)
ExpiredConflicts(t, pruned) ==
    \/ base[t] = 0 /\ session[t] \in Stored \ pruned
    \/ base[t] # 0 /\ ~(session[t] \in Stored \ pruned /\ rows[session[t]].rev = base[t])

Conflicts(t, pruned) ==
    LET s == session[t]
        present == rows[s] # NoRow /\ s \notin pruned
    IN  \/ base[t] = 0 /\ present /\ ~rows[s].expired
        \/ base[t] # 0 /\ ~(present /\ rows[s].rev = base[t])

(* Mutant: COUNT > max_entries.                                            *)
OneTooMany(t, pruned) ==
    /\ session[t] \notin Stored \ pruned
    /\ Cardinality(Stored \ pruned) > MaxEntries

Full(t, pruned) ==
    /\ session[t] \notin Stored \ pruned
    /\ Cardinality(Stored \ pruned) >= MaxEntries

(* The transaction runs up to COMMIT, or raises and is rolled back.        *)
Stage(t) ==
    /\ step[t] \in {"create", "commit"} /\ txn = NoTxn
    /\ \E lingering \in SUBSET {s \in Stored : rows[s].expired} :
       LET pruned == Prunable(lingering)
       IN  \/ Conflicts(t, pruned) /\ Raise(t, "conflict")
           \/ ~Conflicts(t, pruned) /\ Full(t, pruned) /\ Raise(t, "capacity")
           \/ /\ ~Conflicts(t, pruned) /\ ~Full(t, pruned)
              /\ revision < MaxRevision
              /\ revision' = revision + 1
              /\ txn' = [task |-> t, gone |-> FALSE, session |-> session[t],
                         pruned |-> pruned, rev |-> revision + 1,
                         value |-> NewValue(t, revision + 1)]
              /\ UNCHANGED <<leaseVars, rows, bodyVars, disturbed>>

(* Mutant: the UPDATE matches no row.                                      *)
OnlyInserted ==
    [s \in Session |->
        IF s = txn.session /\ rows[s] = NoRow
        THEN [rev |-> txn.rev, value |-> txn.value, expired |-> FALSE]
        ELSE IF s \in txn.pruned THEN NoRow ELSE rows[s]]

Applied ==
    [s \in Session |->
        IF s = txn.session
        THEN [rev |-> txn.rev, value |-> txn.value, expired |-> FALSE]
        ELSE IF s \in txn.pruned THEN NoRow ELSE rows[s]]

(* COMMIT is confirmed: a created session is worked on, a commit is final. *)
Committed(t) ==
    /\ Writing(t)
    /\ rows' = Applied
    /\ txn' = NoTxn
    /\ \/ /\ step[t] = "create"
          /\ base' = [base EXCEPT ![t] = txn.rev]
          /\ step' = [step EXCEPT ![t] = "commit"]
       \/ /\ step[t] = "commit"
          /\ step' = [step EXCEPT ![t] = "done"]
          /\ UNCHANGED base
    /\ UNCHANGED <<leaseVars, revision, kind, copy, disturbed>>

(* The server finishes a transaction whose client has gone: COMMIT had     *)
(* reached it, or it rolls back.                                           *)
ServerFinishes ==
    /\ txn # NoTxn /\ txn.gone
    /\ \/ rows' = Applied
       \/ UNCHANGED rows
    /\ txn' = NoTxn
    /\ UNCHANGED <<leaseVars, revision, bodyVars, disturbed>>

(* A row passes its expires_at.                                            *)
Expires(s) ==
    /\ Current(s)
    /\ rows' = [rows EXCEPT ![s].expired = TRUE]
    /\ UNCHANGED <<leaseVars, txn, revision, bodyVars, disturbed>>

-----------------------------------------------------------------------------
(* Out of the lease *)

GiveBack(t) ==
    /\ step[t] = "done"
    /\ Return(t)
    /\ UNCHANGED <<storeVars, bodyVars, disturbed>>

Answered(t, how) ==
    /\ step[t] = "done"
    /\ Report(t, how)
    /\ BodyOver(t)
    /\ UNCHANGED <<storeVars, disturbed>>

-----------------------------------------------------------------------------
Body(t) ==
    \/ \E k \in {"query", "edit"}, q \in Slot, s \in Session : Begin(t, k, q, s)
    \/ \E why \in {"busy", "unavailable", "cancelled"} : Refused(t, why)
    \/ Read(t) \/ Stage(t) \/ Committed(t)
    \/ \E why \in {"unavailable", "cancelled", "error"} : Raise(t, why)
    \/ GiveBack(t)
    \/ \E how \in {"ok", "unavailable", "cancelled"} : Answered(t, how)

Next ==
    \/ \E t \in Task : Body(t)
    \/ \E T \in SUBSET Task : LeaseLost(T)
    \/ ServerFinishes
    \/ \E s \in Session : Expires(s)

Spec == Init /\ [][Next]_vars

-----------------------------------------------------------------------------
(* Properties *)

(* v extends u by one item: nothing that another request wrote is lost,    *)
(* except the oldest turns beyond the limit.                               *)
Extends(v, u) ==
    \/ \E r \in Revision : v = [u EXCEPT !.turns = LastTurns(Append(@, r))]
    \/ \E r \in Revision : v = [u EXCEPT !.versions =
                                  Append(IF @ = <<>> THEN u.turns ELSE @, r)]

(* A snapshot that has not expired is replaced only by an extension of     *)
(* itself, whoever writes: a stale writer, a late COMMIT, a lost lease.    *)
NoLostUpdate ==
    [][\A s \in Session : Current(s) /\ rows'[s] # rows[s] =>
          /\ rows'[s] # NoRow
          /\ rows'[s].rev # rows[s].rev => Extends(rows'[s].value, rows[s].value)]_vars

(* A snapshot somebody works on under a lease the server honours is not    *)
(* pruned, even when it expires meanwhile.                                 *)
ActiveSessionIsKept ==
    [][\A t \in Task : phase[t] = "held" /\ step[t] = "commit"
                          /\ rows[session[t]] # NoRow
                          /\ base[t] = rows[session[t]].rev
                          => rows'[session[t]] # NoRow]_vars

(* A request is told of a conflict only if some lease of the session was   *)
(* lost or some write of it was left unconfirmed: two requests that both   *)
(* keep their leases never collide.                                        *)
ConflictMeansDisturbance ==
    \A t \in Task : outcome[t] = "conflict" => session[t] \in disturbed

(* A good answer means the turn, or the version, is in the table: the last *)
(* write of a session under an undisturbed lease is the one it read back.  *)
DoneMeansStored ==
    \A t \in Task : step[t] = "done" /\ phase[t] = "held" /\ session[t] \notin disturbed
        => rows[session[t]] # NoRow /\ rows[session[t]].rev > base[t]

(* The retention bound holds for all workers together, whatever commits    *)
(* were left unconfirmed (and every variable has its type).                *)
RetentionBound == TypeOK /\ Cardinality(Stored) <= MaxEntries
=============================================================================
