--------------------------- MODULE LocalSessions ---------------------------
(***************************************************************************)
(* The session store of one process without a shared runtime: the          *)
(* dictionary _SESSION_STORE of app/api/query.py, the gates of             *)
(* app/db/runtime.py that run_query enters, and the version endpoints,     *)
(* which enter no gate here.                                               *)
(*                                                                         *)
(* asyncio interleaves the requests at their awaits only.  A query keeps a *)
(* reference to its session's dictionary from _load_query_session to the   *)
(* end of the pipeline; the other requests prune, evict and edit           *)
(* meanwhile.  A gate is the queue of the tasks that want it, its head     *)
(* holds it: asyncio.Semaphore(1) is fair, and release() hands the permit  *)
(* to the first waiter at once.                                            *)
(***************************************************************************)
EXTENDS Naturals, FiniteSets, SequencesExt

CONSTANTS Task,          \* the query requests of the process
          Session,
          MaxConcurrent, \* settings.max_concurrent_queries
          MaxEntries,    \* settings.session_max_entries
          MaxTurns,      \* settings.session_max_turns
          MaxVersions,   \* settings.session_max_versions
          MaxMade        \* bound of the model: SQL texts generated or edited

ASSUME LimitAssumption ==
    /\ {MaxConcurrent, MaxEntries, MaxTurns, MaxVersions} \subseteq Nat \ {0}
    /\ MaxMade \in Nat

VARIABLES
    queue,     \* [Session -> Seq(Task)], gate(("session", s))
    pc,        \* [Task -> PC]
    session,   \* [Task -> Session], meaningful while the task is not idle
    stored,    \* the keys of _SESSION_STORE
    older,     \* its insertion order: <<x, y>> when x was stored before y
    data,      \* [Session -> Record], New for a session that is not stored
    detached,  \* the working tasks whose dictionary left the store
    made       \* number of SQL texts made so far; an SQL text is its number

storeVars == <<stored, older, data>>
vars == <<queue, pc, session, stored, older, data, detached, made>>

PC      == {"idle", "gate", "work", "close"}
SQL     == 1 .. MaxMade
Source  == {"generated", "rollback", "branch"}
Version == [number : Nat, sql : SQL, source : Source, parent : Nat]
New     == [turns |-> <<>>, versions |-> <<>>, current |-> 0, stale |-> FALSE]

First(q, t) == q # <<>> /\ Head(q) = t

Busy == {t \in Task : pc[t] # "idle"}

TypeOK ==
    /\ queue \in [Session -> Seq(Task)]
    /\ pc \in [Task -> PC]
    /\ session \in [Task -> Session]
    /\ stored \subseteq Session /\ older \subseteq stored \X stored
    /\ \A s \in Session :
          /\ data[s].turns \in Seq(SQL) /\ Len(data[s].turns) <= MaxTurns
          /\ data[s].versions \in Seq(Version)
          /\ Len(data[s].versions) <= (IF MaxTurns < MaxVersions THEN MaxVersions ELSE MaxTurns)
          /\ data[s].stale \in BOOLEAN
    /\ detached \subseteq Task
    /\ made \in 0 .. MaxMade

Init ==
    /\ queue = [s \in Session |-> <<>>]
    /\ pc = [t \in Task |-> "idle"]
    /\ session \in [Task -> Session]
    /\ stored = {} /\ older = {}
    /\ data = [s \in Session |-> New]
    /\ detached = {}
    /\ made = 0

-----------------------------------------------------------------------------
(* Helper state formulae *)

(* Mutant: the pruning looks only for waiting requests.                    *)
Awaited(s) == Len(queue[s]) > 1

Locked(s) == queue[s] # <<>>

\* Neither stale, or in use.
Fresh(keys) == {x \in keys : Locked(x) \/ ~data[x].stale}

(* Mutant: the eviction gives up when the oldest session is in use.        *)
OldestOnly(keys) ==
    LET fresh  == Fresh(keys)
        oldest == {x \in fresh : ~Locked(x) /\ \A y \in fresh \ {x} : <<x, y>> \in older}
    IN  {IF Cardinality(fresh) < MaxEntries THEN fresh ELSE fresh \ oldest}

(* _prune_sessions on these keys: the stale ones go, then the oldest ones  *)
(* until there is room for one more; a session whose gate is in use stays. *)
(* The order decides which ones go, so there is one outcome.               *)
Pruned(keys) ==
    LET fresh   == Fresh(keys)
        idle    == {x \in fresh : ~Locked(x)}
        surplus == IF Cardinality(fresh) < MaxEntries THEN 0
                   ELSE Cardinality(fresh) - MaxEntries + 1
    IN  {kept \in SUBSET fresh :
            LET evicted == fresh \ kept
            IN  /\ evicted \subseteq idle
                /\ Cardinality(evicted) <= surplus
                /\ evicted = idle \/ Cardinality(evicted) = surplus
                /\ \A x \in evicted, y \in idle \cap kept : <<x, y>> \in older}

(* _ensure_versions_store: the turns become the first versions.            *)
Seeded(d) ==
    IF d.versions # <<>> THEN d
    ELSE [d EXCEPT
            !.versions = [i \in DOMAIN d.turns |->
                [number |-> i, sql |-> d.turns[i], source |-> "generated", parent |-> 0]],
            !.current = IF d.turns = <<>> THEN @ ELSE Len(d.turns)]

(* _find_version: the versions numbered n, empty for HTTP 404.             *)
Found(d, n) == {i \in DOMAIN d.versions : d.versions[i].number = n}

Place(q, t) == CHOOSE i \in DOMAIN q : q[i] = t

LastTurns(h) == IF Len(h) <= MaxTurns THEN h ELSE SubSeq(h, Len(h) - MaxTurns + 1, Len(h))

-----------------------------------------------------------------------------
(* run_query *)

(* Admission refuses when every permit is taken; otherwise the request     *)
(* goes straight to the session's gate.                                    *)
Arrive(t, s) ==
    /\ pc[t] = "idle"
    /\ Cardinality(Busy) < MaxConcurrent
    /\ pc' = [pc EXCEPT ![t] = "gate"]
    /\ session' = [session EXCEPT ![t] = s]
    /\ queue' = [queue EXCEPT ![s] = Append(@, t)]
    /\ UNCHANGED <<storeVars, detached, made>>

(* _get_or_create_session: the stored session unless it is stale, else     *)
(* room is made and a new one is stored.                                   *)
Load(t) ==
    LET s == session[t]
    IN  /\ pc[t] = "gate" /\ First(queue[s], t)
        /\ pc' = [pc EXCEPT ![t] = "work"]
        /\ \/ /\ s \in stored /\ ~data[s].stale
              /\ UNCHANGED <<storeVars, detached>>
           \/ /\ s \notin stored \/ data[s].stale
              /\ \E kept \in Pruned(stored \ {s}) :
                    /\ stored' = kept \cup {s}
                    /\ older' = (older \cap (kept \X kept)) \cup (kept \X {s})
                    /\ data' = [x \in Session |-> IF x \in kept THEN data[x] ELSE New]
                    /\ detached' = detached \cup
                           {u \in Task : pc[u] = "work" /\ session[u] \notin kept}
        /\ UNCHANGED <<queue, session, made>>

(* The end of _run_query: the turn is appended to the dictionary in hand,  *)
(* the oldest turns beyond the limit are dropped.                          *)
Turn(t) ==
    LET s == session[t]
    IN  /\ pc[t] = "work" /\ made < MaxMade
        /\ pc' = [pc EXCEPT ![t] = "close"]
        /\ made' = made + 1
        /\ data' = IF t \in detached THEN data
                   ELSE [data EXCEPT ![s].turns = LastTurns(Append(@, made + 1)),
                                     ![s].stale = FALSE]
        /\ UNCHANGED <<queue, session, stored, older, detached>>

(* History, audit and answer are done, or the request raised or was        *)
(* cancelled wherever it stood, waiting for the gate included.             *)
Finish(t) ==
    /\ pc[t] # "idle"
    /\ pc' = [pc EXCEPT ![t] = "idle"]
    /\ queue' = [queue EXCEPT ![session[t]] = RemoveAt(@, Place(@, t))]
    /\ detached' = detached \ {t}
    /\ UNCHANGED <<session, storeVars, made>>

-----------------------------------------------------------------------------
(* The version endpoints: one step each, no await and no gate *)

(* diff_versions seeds the versions, and so do the edits that end in 404   *)
(* or 409.                                                                 *)
Diff(s) ==
    /\ s \in stored
    /\ data' = [data EXCEPT ![s] = Seeded(@)]
    /\ UNCHANGED <<queue, pc, session, stored, older, detached, made>>

(* Mutant: the new version has the number of the last one.                 *)
AddedUnnumbered(d, n, sql, source) ==
    [d EXCEPT !.versions = Append(@, [number |-> Len(d.versions), sql |-> sql,
                                      source |-> source, parent |-> n]),
              !.current = Len(d.versions),
              !.stale = FALSE]

(* Mutant: a rollback drops the versions after its target.                 *)
AddedDestructively(d, n, sql, source) ==
    [d EXCEPT !.versions = Append(SubSeq(@, 1, n), [number |-> n + 1, sql |-> sql,
                                                    source |-> source, parent |-> n]),
              !.current = n + 1,
              !.stale = FALSE]

Added(d, n, sql, source) ==
    LET number == Len(d.versions) + 1
    IN  [d EXCEPT !.versions = Append(@, [number |-> number, sql |-> sql,
                                          source |-> source, parent |-> n]),
                  !.current = number,
                  !.stale = FALSE]

(* _rollback_to_version, and _branch_from_version without edited_sql.      *)
Copy(s, n, source) ==
    LET d == Seeded(data[s])
    IN  /\ s \in stored
        /\ Found(d, n) # {} /\ Len(d.versions) < MaxVersions
        /\ data' = [data EXCEPT ![s] = Added(d, n, d.versions[Min(Found(d, n))].sql, source)]
        /\ UNCHANGED <<queue, pc, session, stored, older, detached, made>>

(* _branch_from_version with edited_sql.                                   *)
Branch(s, n) ==
    LET d == Seeded(data[s])
    IN  /\ s \in stored
        /\ Found(d, n) # {} /\ Len(d.versions) < MaxVersions
        /\ made < MaxMade
        /\ made' = made + 1
        /\ data' = [data EXCEPT ![s] = Added(d, n, made + 1, "branch")]
        /\ UNCHANGED <<queue, pc, session, stored, older, detached>>

(* More than session_ttl_seconds pass since updated_at.                    *)
TimePasses(s) ==
    /\ s \in stored
    /\ data' = [data EXCEPT ![s].stale = TRUE]
    /\ UNCHANGED <<queue, pc, session, stored, older, detached, made>>

-----------------------------------------------------------------------------
Request(t) ==
    \/ \E s \in Session : Arrive(t, s)
    \/ Load(t)
    \/ Turn(t)
    \/ Finish(t)

Edit(s) ==
    \/ Diff(s)
    \/ \E n \in 1 .. MaxVersions :
          \/ \E source \in {"rollback", "branch"} : Copy(s, n, source)
          \/ Branch(s, n)

Next ==
    \/ \E t \in Task : Request(t)
    \/ \E s \in Session : Edit(s) \/ TimePasses(s)

Spec == Init /\ [][Next]_vars

-----------------------------------------------------------------------------
(* Properties *)

(* A query that works on a session works on the stored one: neither the    *)
(* pruning nor the eviction of the other requests takes the dictionary     *)
(* away from it, so its turn is not appended to an object nobody reads.    *)
TurnsReachTheStore == detached = {}

(* The store outgrows session_max_entries only by sessions that were in    *)
(* use when they were stored, and so never outgrows the admission (and     *)
(* every variable has its type).                                           *)
StoreIsBounded ==
    /\ TypeOK
    /\ Cardinality(stored) <= IF MaxEntries < MaxConcurrent THEN MaxConcurrent ELSE MaxEntries

(* The version list is a timeline: the numbers are the positions, a parent *)
(* is an earlier version, a rollback has the SQL of its parent, and the    *)
(* current version is the last.                                            *)
VersionsAreATimeline ==
    \A s \in Session :
        LET d == data[s]
        IN  /\ \A i \in DOMAIN d.versions :
                  LET v == d.versions[i]
                  IN  /\ v.number = i /\ v.parent < i
                      /\ v.source = "generated" <=> v.parent = 0
                      /\ v.source = "rollback" => v.sql = d.versions[v.parent].sql
            /\ d.current = Len(d.versions)

(* Rollback and branch are non-destructive, and queries leave the timeline *)
(* alone: until a session is dropped, its versions are only added to.      *)
VersionsOnlyGrow ==
    [][\A s \in Session : s \in stored \cap stored' /\ data'[s].turns # <<>>
          => IsPrefix(data[s].versions, data'[s].versions)]_vars
=============================================================================
