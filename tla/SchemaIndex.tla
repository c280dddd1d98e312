---------------------------- MODULE SchemaIndex ----------------------------
(***************************************************************************)
(* The schema index: refresh_database_schema and clear_database_schema_-   *)
(* index of app/db/schema_refresh.py, SchemaMetadataRAG of app/knowledge/  *)
(* retrieval/schema_rag.py over its two backends, the start-up of app/rag/ *)
(* engine.py, and the requests that disconnect a database or search.       *)
(*                                                                         *)
(* The documents of a database are those of one version of its schema,     *)
(* read from one connection.  ConnectionRegistry.tla models the connection *)
(* and its lease; here a handle is a number, a handle that is no longer    *)
(* registered is closed, and it is not closed under a running extraction.  *)
(***************************************************************************)
EXTENDS Naturals, SequencesExt

CONSTANTS Task,         \* requests and background refreshes
          Db,
          NoDb,         \* no database: a search without db_id
          MaxHandle,    \* bound of the model: connections ever opened
          MaxVersion    \* bound of the model: versions of a schema

ASSUME IndexAssumption ==
    /\ NoDb \notin Db
    /\ MaxHandle \in Nat \ {0}
    /\ MaxVersion \in Nat \ {0}

VARIABLES
    up,          \* the process is running
    conn,        \* [Db -> handle registered, 0 for none]
    opened,      \* number of handles opened so far
    source,      \* [Db -> version of its schema]
    gateQ,       \* [Db -> Seq(Task)], gate(("schema-refresh", db_id))
    job,         \* [Task -> Job], the local variables of each request
    dense,       \* [Db -> Documents] in LanceDB, persistent
    sparse,      \* [Db -> Documents] in the FTS5 table, persistent
    marker,      \* the databases with a readable index-pending file, persistent
    required,    \* _refresh_required_databases
    unavailable, \* _unavailable_databases
    verified,    \* history: contents replaced as a whole by this process
    torn,        \* history: a bulk clear failed between the two backends
    effaced      \* history: an unfinished rewrite destroyed the marker

index   == <<dense, sparse>>
trust   == <<required, unavailable>>
history == <<verified, torn, effaced>>
vars == <<up, conn, opened, source, gateQ, job, index, marker, trust, history>>

Documents == [handle : 0 .. MaxHandle, version : 0 .. MaxVersion]
Empty     == [handle |-> 0, version |-> 0]

\* The steps of a request that works on one database.
OnDb == {"gate", "extract", "extracted", "embed", "verify", "verified", "close", "clear"}

PC == {"idle",
       "gate",      \* refresh_database_schema: waits for the gate
       "extract",   \* waits for the connection's lease, then for the driver
       "extracted", \* the driver is done; the task still holds the lease
       "embed",     \* the marker is written, the documents are embedded
       "verify",    \* verify_source extracts again
       "verified",  \* as "extracted"
       "close",     \* disconnect_database: aclose() waits for the lease
       "clear",     \* clear_database_schema_index: waits for the gate
       "search",    \* find_relevant_tables embeds the query
       "answered"}

\* floor is history: the version of the source when the embedding ended.
Job == [pc : PC, db : Db \cup {NoDb}, handle : 0 .. MaxHandle,
        snapshot : 0 .. MaxVersion, seen : 0 .. MaxVersion, floor : 0 .. MaxVersion]
Resting == [pc |-> "idle", db |-> NoDb, handle |-> 0, snapshot |-> 0, seen |-> 0, floor |-> 0]

First(q, t) == q # <<>> /\ Head(q) = t

TypeOK ==
    /\ up \in BOOLEAN
    /\ conn \in [Db -> 0 .. MaxHandle] /\ opened \in 0 .. MaxHandle
    /\ source \in [Db -> 1 .. MaxVersion]
    /\ gateQ \in [Db -> Seq(Task)]
    /\ job \in [Task -> Job]
    /\ dense \in [Db -> Documents] /\ sparse \in [Db -> Documents]
    /\ {marker, required, unavailable, verified, torn, effaced} \subseteq SUBSET Db
    /\ ~up => /\ \A t \in Task : job[t] = Resting
              /\ required \cup unavailable = {}
    \* Refreshes of one database are serialised.
    /\ \A t \in Task : job[t].pc \in {"extract", "extracted", "embed", "verify", "verified"} =>
          /\ job[t].db \in Db
          /\ First(gateQ[job[t].db], t)

\* An installation that starts for the first time.
Init ==
    /\ up = TRUE
    /\ conn = [d \in Db |-> 0] /\ opened = 0
    /\ source = [d \in Db |-> 1]
    /\ gateQ = [d \in Db |-> <<>>]
    /\ job = [t \in Task |-> Resting]
    /\ dense = [d \in Db |-> Empty] /\ sparse = [d \in Db |-> Empty]
    /\ marker = {} /\ required = {} /\ unavailable = {}
    /\ verified = {} /\ torn = {} /\ effaced = {}

-----------------------------------------------------------------------------
(* Helper state formulae *)

At(t, p) == job[t].pc = p

HoldsGate(t) == First(gateQ[job[t].db], t)

\* Leaving a gate, as its holder or as one that waits: a task is there once.
Place(s, t)      == CHOOSE i \in DOMAIN s : s[i] = t
Without(q, d, t) == [q EXCEPT ![d] = IF t \in ToSet(@) THEN RemoveAt(@, Place(@, t)) ELSE @]

Registered(t) == conn[job[t].db] = job[t].handle

\* Some extraction holds the lease of this connection.
InUse(d) == \E t \in Task : /\ job[t].pc \in {"extracted", "verified"}
                            /\ job[t].db = d /\ Registered(t)

\* _check_available: without a database, all of them have to be available.
Available(d) ==
    IF d = NoDb THEN required \cup unavailable = {} ELSE d \notin required \cup unavailable

Scope(t) == IF job[t].db = NoDb THEN Db ELSE {job[t].db}

\* database_ids() of the two backends.
DenseIds  == {d \in Db : dense[d] # Empty}
SparseIds == {d \in Db : sparse[d] # Empty}

Rest(t) == job' = [job EXCEPT ![t] = Resting]

\* The request returns or raises, and leaves the gate.
Leave(t) ==
    /\ Rest(t)
    /\ gateQ' = Without(gateQ, job[t].db, t)

-----------------------------------------------------------------------------
(* _replace_database: it has no await, so it is a step of its caller *)

Replaced(d, docs) ==
    /\ dense' = [dense EXCEPT ![d] = docs]
    /\ sparse' = [sparse EXCEPT ![d] = docs]
    /\ unavailable' = unavailable \ {d}
    /\ required' = required \ {d}
    /\ verified' = verified \cup {d}
    /\ torn' = torn \ {d}
    /\ effaced' = effaced \ {d}

\* A write failed and both backends were restored, or nothing was written yet.
Restored == UNCHANGED <<index, trust, history>>

\* A write failed, and so did the restoration of one backend or of both.
NotRestored(d, docs) ==
    /\ dense' \in {[dense EXCEPT ![d] = left] : left \in {dense[d], Empty, docs}}
    /\ sparse' \in {[sparse EXCEPT ![d] = left] : left \in {sparse[d], Empty}}
    /\ unavailable' = unavailable \cup {d}
    /\ UNCHANGED <<required, history>>

ReplaceFails(d, docs) == Restored \/ NotRestored(d, docs)

\* What a crash leaves behind: some of delete, delete, insert, index were done,
\* or all of them, but the marker is not removed yet.
Interrupted(d, docs) ==
    \/ dense' = [dense EXCEPT ![d] = Empty] /\ UNCHANGED sparse
    \/ dense' = [dense EXCEPT ![d] = docs] /\ sparse' = [sparse EXCEPT ![d] = docs]
    \/ /\ dense' \in {[dense EXCEPT ![d] = left] : left \in {Empty, docs}}
       /\ sparse' = [sparse EXCEPT ![d] = Empty]

-----------------------------------------------------------------------------
(* refresh_database_schema, with index_schemas *)

StartRefresh(t, d) ==
    /\ up /\ At(t, "idle")
    /\ job' = [job EXCEPT ![t].pc = "gate", ![t].db = d]
    /\ gateQ' = [gateQ EXCEPT ![d] = Append(@, t)]
    /\ UNCHANGED <<up, conn, opened, source, index, marker, trust, history>>

Capture(t) ==
    /\ At(t, "gate") /\ HoldsGate(t)
    /\ IF conn[job[t].db] = 0
       THEN Leave(t)
       ELSE /\ job' = [job EXCEPT ![t].pc = "extract", ![t].handle = conn[job[t].db]]
            /\ UNCHANGED gateQ
    /\ UNCHANGED <<up, conn, opened, source, index, marker, trust, history>>

\* The driver reads the schema; others run before the task goes on.
Extract(t) ==
    /\ job[t].pc \in {"extract", "verify"}
    /\ Registered(t)
    /\ job' = [job EXCEPT ![t].pc = IF @ = "extract" THEN "extracted" ELSE "verified",
                          ![t].seen = source[job[t].db]]
    /\ UNCHANGED <<up, conn, opened, source, gateQ, index, marker, trust, history>>

\* The connection is closed or replaced, or its driver raises.
ExtractFails(t) ==
    /\ job[t].pc \in {"extract", "verify"}
    /\ Leave(t)
    /\ UNCHANGED <<up, conn, opened, source, index, marker, trust, history>>

(* Mutant: the marker is not written before the replacement.               *)
Unmarked(t) ==
    /\ At(t, "extracted")
    /\ job' = [job EXCEPT ![t].pc = "embed", ![t].snapshot = job[t].seen]
    /\ UNCHANGED <<up, conn, opened, source, gateQ, index, marker, trust, history>>

BeginReplacement(t) ==
    /\ At(t, "extracted")
    /\ job' = [job EXCEPT ![t].pc = "embed", ![t].snapshot = job[t].seen]
    /\ marker' = marker \cup {job[t].db}
    /\ effaced' = effaced \ {job[t].db}
    /\ UNCHANGED <<up, conn, opened, source, gateQ, index, trust, verified, torn>>

\* write_text() truncates the marker of an earlier replacement, and does not get
\* further: pending_replacements() skips what it cannot read.
MarkerBroken(d) ==
    /\ marker' = marker \ {d}
    /\ effaced' = effaced \cup (marker \cap {d})

\* The marker cannot be written, before or after it was truncated.
BeginFails(t) ==
    /\ At(t, "extracted")
    /\ MarkerBroken(job[t].db) \/ UNCHANGED <<marker, effaced>>
    /\ Leave(t)
    /\ UNCHANGED <<up, conn, opened, source, index, trust, verified, torn>>

Embedded(t) ==
    /\ At(t, "embed")
    /\ job' = [job EXCEPT ![t].pc = "verify", ![t].floor = source[job[t].db]]
    /\ UNCHANGED <<up, conn, opened, source, gateQ, index, marker, trust, history>>

EmbeddingFails(t) ==
    /\ At(t, "embed")
    /\ Leave(t)
    /\ UNCHANGED <<up, conn, opened, source, index, marker, trust, history>>

(* Mutant: the second extraction is not compared with the first.           *)
AnyStructure(t) == TRUE

SameStructure(t) == job[t].seen = job[t].snapshot

Prepared(t) == [handle |-> job[t].handle, version |-> job[t].snapshot]

\* The marker is removed at the end; when that fails it stays.
Publish(t) ==
    /\ At(t, "verified")
    /\ Registered(t) /\ SameStructure(t)
    /\ \/ Replaced(job[t].db, Prepared(t)) /\ marker' \in {marker, marker \ {job[t].db}}
       \/ ReplaceFails(job[t].db, Prepared(t)) /\ UNCHANGED marker
    /\ Leave(t)
    /\ UNCHANGED <<up, conn, opened, source>>

Conflict(t) ==
    /\ At(t, "verified")
    /\ ~(Registered(t) /\ SameStructure(t))
    /\ Leave(t)
    /\ UNCHANGED <<up, conn, opened, source, index, marker, trust, history>>

-----------------------------------------------------------------------------
(* Disconnecting and clearing *)

StartDisconnect(t, d) ==
    /\ up /\ At(t, "idle")
    /\ conn[d] # 0
    /\ required' = required \cup {d}
    /\ job' = [job EXCEPT ![t].pc = "close", ![t].db = d, ![t].handle = conn[d]]
    /\ UNCHANGED <<up, conn, opened, source, gateQ, index, marker, unavailable, history>>

\* aclose() returns: it closed the handle, or found that somebody else had.
Close(t) ==
    LET d == job[t].db IN
    /\ At(t, "close")
    /\ ~(Registered(t) /\ InUse(d))
    /\ conn' = IF Registered(t) THEN [conn EXCEPT ![d] = 0] ELSE conn
    /\ job' = [job EXCEPT ![t].pc = "clear"]
    /\ gateQ' = [gateQ EXCEPT ![d] = Append(@, t)]
    /\ UNCHANGED <<up, opened, source, index, marker, trust, history>>

StartClear(t, d) ==
    /\ up /\ At(t, "idle")
    /\ job' = [job EXCEPT ![t].pc = "clear", ![t].db = d]
    /\ gateQ' = [gateQ EXCEPT ![d] = Append(@, t)]
    /\ UNCHANGED <<up, conn, opened, source, index, marker, trust, history>>

\* clear_database writes no marker and removes none.
Clear(t) ==
    /\ At(t, "clear") /\ HoldsGate(t)
    /\ Replaced(job[t].db, Empty) \/ ReplaceFails(job[t].db, Empty)
    /\ Leave(t)
    /\ UNCHANGED <<up, conn, opened, source, marker>>

\* POST /learning/rag/clear asks for no gate.  It may fail between the backends.
BulkClear ==
    /\ up
    /\ dense' = [d \in Db |-> Empty]
    /\ \/ /\ sparse' = [d \in Db |-> Empty]
          /\ required' = {} /\ unavailable' = {}
          /\ torn' = {} /\ effaced' = {}
       \/ torn' = SparseIds /\ UNCHANGED <<sparse, trust, effaced>>
    /\ UNCHANGED <<up, conn, opened, source, gateQ, job, marker, verified>>

-----------------------------------------------------------------------------
(* find_relevant_tables *)

StartSearch(t, d) ==
    /\ up /\ At(t, "idle")
    /\ Available(d)
    /\ job' = [job EXCEPT ![t].pc = "search", ![t].db = d]
    /\ UNCHANGED <<up, conn, opened, source, gateQ, index, marker, trust, history>>

(* Mutant: the index is not asked again after the query was embedded.      *)
AnsweredAnyway(t) ==
    /\ At(t, "search")
    /\ job' = [job EXCEPT ![t].pc = "answered"]
    /\ UNCHANGED <<up, conn, opened, source, gateQ, index, marker, trust, history>>

\* Both backends are read without an await after the second check.
Answer(t) ==
    /\ At(t, "search")
    /\ Available(job[t].db)
    /\ job' = [job EXCEPT ![t].pc = "answered"]
    /\ UNCHANGED <<up, conn, opened, source, gateQ, index, marker, trust, history>>

\* The search raises or has returned, or its caller is cancelled.
SearchEnds(t) ==
    /\ job[t].pc \in {"search", "answered"}
    /\ Rest(t)
    /\ UNCHANGED <<up, conn, opened, source, gateQ, index, marker, trust, history>>

-----------------------------------------------------------------------------
(* Cancellation, the outside world, crash and start-up *)

Cancel(t) ==
    /\ job[t].pc \in OnDb
    /\ Rest(t)
    /\ gateQ' = Without(gateQ, job[t].db, t)
    /\ UNCHANGED <<up, conn, opened, source, index, marker, trust, history>>

\* create(): a new handle, in the place of an old one that is not in use.
Connect(d) ==
    /\ up /\ opened < MaxHandle
    /\ ~InUse(d)
    /\ opened' = opened + 1
    /\ conn' = [conn EXCEPT ![d] = opened']
    /\ UNCHANGED <<up, source, gateQ, job, index, marker, trust, history>>

\* Somebody alters the database.
Alter(d) ==
    /\ source[d] < MaxVersion
    /\ source' = [source EXCEPT ![d] = @ + 1]
    /\ UNCHANGED <<up, conn, opened, gateQ, job, index, marker, trust, history>>

\* What a crash does to the files, perhaps in the middle of a replacement or of
\* writing its marker.
FilesAtCrash ==
    \/ UNCHANGED <<index, marker, effaced>>
    \/ \E t \in Task : At(t, "extracted") /\ MarkerBroken(job[t].db) /\ UNCHANGED index
    \/ /\ \E t \in Task :
             \/ /\ At(t, "verified") /\ Registered(t) /\ SameStructure(t)
                /\ Interrupted(job[t].db, Prepared(t))
             \/ /\ At(t, "clear") /\ HoldsGate(t)
                /\ Interrupted(job[t].db, Empty)
       /\ UNCHANGED <<marker, effaced>>

Crash ==
    /\ up
    /\ up' = FALSE
    /\ FilesAtCrash
    /\ conn' = [d \in Db |-> 0]
    /\ gateQ' = [d \in Db |-> <<>>]
    /\ job' = [t \in Task |-> Resting]
    /\ required' = {} /\ unavailable' = {}
    /\ verified' = {} /\ torn' = {}
    /\ UNCHANGED <<opened, source>>

\* SchemaMetadataRAG.__init__ and _build_rag_engine, before any connection.
StartUp ==
    /\ ~up
    /\ up' = TRUE
    /\ required' = marker \cup DenseIds \cup SparseIds
    /\ UNCHANGED <<conn, opened, source, gateQ, job, index, marker, unavailable, history>>

-----------------------------------------------------------------------------
Refresh(t) ==
    \/ \E d \in Db : StartRefresh(t, d)
    \/ Capture(t) \/ Extract(t) \/ ExtractFails(t)
    \/ BeginReplacement(t) \/ BeginFails(t)
    \/ Embedded(t) \/ EmbeddingFails(t) \/ Publish(t) \/ Conflict(t)

Maintain(t) ==
    \/ \E d \in Db : StartDisconnect(t, d) \/ StartClear(t, d)
    \/ Close(t) \/ Clear(t)

Search(t) ==
    \/ \E d \in Db \cup {NoDb} : StartSearch(t, d)
    \/ Answer(t) \/ SearchEnds(t)

Next ==
    \/ \E t \in Task : Refresh(t) \/ Maintain(t) \/ Search(t) \/ Cancel(t)
    \/ \E d \in Db : Connect(d) \/ Alter(d)
    \/ BulkClear \/ Crash \/ StartUp

Spec == Init /\ [][Next]_vars

-----------------------------------------------------------------------------
(* Properties *)

(***************************************************************************)
(* What a search returns was put into both backends by one replacement of  *)
(* this process: contents of an earlier process, of a replacement half     *)
(* done or half undone are never used, even when they become such while    *)
(* the query is embedded.  A bulk clear that failed half-way is the        *)
(* exception: it reports an error, but takes no availability away.         *)
(***************************************************************************)
AnswersAreWhole ==
    [][\A t \in Task : At(t, "search") /\ job'[t].pc = "answered" =>
          \A d \in Scope(t) \ torn :
             /\ dense[d] = sparse[d]
             /\ d \in verified \/ dense[d] = Empty]_vars

(***************************************************************************)
(* New documents are published only for the connection that is registered  *)
(* at that moment, and they show every alteration made before or during    *)
(* their embedding: verify_source reads the source after it.               *)
(***************************************************************************)
PublishedIsCurrent ==
    [][\A t \in Task : LET d == job[t].db IN
          At(t, "verified") /\ up' /\ d \notin unavailable'
                           /\ dense'[d] \notin {dense[d], Empty} =>
             /\ dense'[d].handle = conn[d]
             /\ dense'[d].version >= job[t].floor]_vars

(***************************************************************************)
(* The persistent state tells whole contents from torn ones, however often *)
(* the process crashed in whatever step: when a database has no readable   *)
(* marker and both backends know it, they hold the same documents.  This   *)
(* is all an immutable worker checks before it serves the files.  There is *)
(* one exception, and it takes two accidents: a replacement that did not   *)
(* end well, and then the rewrite of its marker, which is in place, failed *)
(* or interrupted; it lasts until a replacement or a new marker is         *)
(* complete.  (And every variable has its type.)                           *)
(***************************************************************************)
ServableIsWhole ==
    TypeOK /\ \A d \in (DenseIds \cap SparseIds) \ (marker \cup effaced) : dense[d] = sparse[d]
=============================================================================
