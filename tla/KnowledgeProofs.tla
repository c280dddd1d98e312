---------------------------- MODULE KnowledgeProofs ----------------------------
(***************************************************************************)
(* Proofs about SchemaIndex.tla, for any requests, databases and versions, *)
(* and about Catalogue.tla, for any requests, names and texts.             *)
(***************************************************************************)
EXTENDS SchemaIndex, Catalogue, SequenceTheorems, TLAPS

-----------------------------------------------------------------------------
(* SchemaIndex.tla *)

Refreshing == {"extract", "extracted", "embed", "verify", "verified"}
Marked     == {"embed", "verify", "verified"}

(* What a request holds on to: its database, the marker that it wrote, and *)
(* the version of the source that its second extraction may not miss.      *)
JobInv(t) ==
    LET d == job[t].db IN
    /\ job[t].pc \in OnDb => d \in Db
    /\ job[t].pc \in Refreshing => First(gateQ[d], t)
    /\ job[t].pc \in Marked => d \in marker
    /\ job[t].pc = "verify" => job[t].floor <= source[d]
    /\ job[t].pc = "verified" => job[t].floor <= job[t].seen

Jobs ==
    /\ gateQ \in [Db -> Seq(Task)]
    /\ job \in [Task -> Job]
    /\ ~up => \A t \in Task : job[t] = Resting
    /\ \A t \in Task : JobInv(t)

(* A running process trusts only what it replaced itself, or found empty.  *)
Trusted ==
    up => \A d \in Db \ (required \cup unavailable \cup torn) :
            dense[d] = sparse[d] /\ (d \in verified \/ dense[d] = Empty)

Servable == \A d \in (DenseIds \cap SparseIds) \ (marker \cup effaced) : dense[d] = sparse[d]

IndexInv == TypeOK /\ Jobs /\ Trusted /\ Servable

-----------------------------------------------------------------------------
(* The gates *)

(* Who is first in a queue stays first when another leaves.                *)
LEMMA OthersStayFirst ==
  ASSUME NEW q \in Seq(Task), NEW t \in Task, t \in ToSet(q)
  PROVE  /\ RemoveAt(q, Place(q, t)) \in Seq(Task)
         /\ \A u \in Task \ {t} : First(q, u) => First(RemoveAt(q, Place(q, t)), u)
<1> DEFINE i == Place(q, t)
           a == SubSeq(q, 1, i - 1)
           b == SubSeq(q, i + 1, Len(q))
<1>1. Len(q) \in Nat /\ DOMAIN q = 1 .. Len(q) /\ \A j \in 1 .. Len(q) : q[j] \in Task
  BY LenProperties, ElementOfSeq
<1>2. i \in 1 .. Len(q) /\ q[i] = t
  BY <1>1 DEF Place, ToSet
<1> HIDE DEF i
<1>3. /\ a \in Seq(Task) /\ b \in Seq(Task) /\ Len(a) = i - 1
      /\ 1 <= i - 1 => a[1] = q[1]
  BY <1>1, <1>2, SubSeqProperties
<1> HIDE DEF a, b
<1>4. /\ a \o b \in Seq(Task)
      /\ 1 <= i - 1 => (a \o b)[1] = q[1] /\ Len(a \o b) >= 1
  <2>1. Len(b) \in Nat /\ i \in Nat \ {0}
    BY <1>1, <1>2, <1>3, LenProperties
  <2> QED
    BY <1>3, <2>1, ConcatProperties
<1>5. ASSUME NEW r \in Seq(Task), Len(r) >= 1 PROVE r # <<>> /\ Head(r) = r[1]
  BY <1>5, EmptySeq
<1>6. ASSUME NEW u \in Task \ {t}, First(q, u) PROVE First(a \o b, u)
  <2>1. q[1] = u
    BY <1>6 DEF First
  <2>2. 1 <= i - 1
    BY <1>1, <1>2, <2>1
  <2> QED
    BY <1>4, <1>5, <2>1, <2>2 DEF First
<1> QED
  BY <1>4, <1>6 DEF RemoveAt, a, b, i

(* A step by which nobody but t loses the head of a gate.                  *)
KeepsFirst(q, t) ==
    /\ q \in [Db -> Seq(Task)]
    /\ \A u \in Task \ {t}, d \in Db : First(gateQ[d], u) => First(q[d], u)

LEMMA WithoutKeeps ==
  ASSUME gateQ \in [Db -> Seq(Task)], NEW d \in Db, NEW t \in Task
  PROVE  KeepsFirst(Without(gateQ, d, t), t)
BY OthersStayFirst DEF Without, KeepsFirst

LEMMA AppendKeeps ==
  ASSUME gateQ \in [Db -> Seq(Task)], NEW d \in Db, NEW t \in Task
  PROVE  KeepsFirst([gateQ EXCEPT ![d] = Append(@, t)], t)
<1>1. ASSUME NEW s \in Seq(Task), NEW u \in Task, First(s, u)
      PROVE  First(Append(s, t), u)
  <2>1. Append(s, t) \in Seq(Task) /\ Append(s, t)[1] = s[1] /\ Len(Append(s, t)) >= 1
    BY <1>1, LenProperties, EmptySeq DEF First
  <2> QED
    BY <1>1, <2>1, EmptySeq DEF First
<1> QED
  BY <1>1 DEF KeepsFirst

-----------------------------------------------------------------------------
(* What a step of one request leaves to the others *)

Moved(t) ==
    /\ up /\ up' /\ UNCHANGED source
    /\ job' \in [Task -> Job]
    /\ \A u \in Task \ {t} : job'[u] = job[u]
    /\ KeepsFirst(gateQ', t)
    /\ \A d \in marker \ marker' : First(gateQ[d], t)
    /\ JobInv(t)'

LEMMA MovedJobs ==
  ASSUME IndexInv, NEW t \in Task, Moved(t)
  PROVE  Jobs'
<1> USE DEF IndexInv, Jobs, Moved
<1>1. ASSUME NEW u \in Task \ {t} PROVE JobInv(u)'
  <2>1. JobInv(u) /\ job'[u] = job[u]
    OBVIOUS
  <2>2. job[u].pc \in Refreshing => job[u].db \in Db
    BY <2>1 DEF JobInv, Refreshing, OnDb
  <2>3. job[u].pc \in Refreshing => First(gateQ'[job[u].db], u)
    BY <2>1, <2>2 DEF JobInv, KeepsFirst
  <2>4. job[u].pc \in Marked => job[u].db \in marker'
    BY <2>1 DEF JobInv, Marked, Refreshing, First
  <2> QED
    BY <2>1, <2>3, <2>4 DEF JobInv
<1> QED
  BY <1>1 DEF KeepsFirst

(* The index and what is known of it stay, or are trusted less.            *)
LEMMA IndexUntouched ==
  ASSUME Trusted, Servable, UNCHANGED <<index, unavailable, history>>,
         up' => up, required \subseteq required', marker \subseteq marker'
  PROVE  Trusted' /\ Servable'
BY DEF Trusted, Servable, index, history, DenseIds, SparseIds

(* TypeOK follows from Jobs and the types of the rest.                     *)
Rested ==
    /\ up \in BOOLEAN
    /\ conn \in [Db -> 0 .. MaxHandle] /\ opened \in 0 .. MaxHandle
    /\ source \in [Db -> 1 .. MaxVersion]
    /\ dense \in [Db -> Documents] /\ sparse \in [Db -> Documents]
    /\ {marker, required, unavailable, verified, torn, effaced} \subseteq SUBSET Db
    /\ ~up => required \cup unavailable = {}

LEMMA TypesSplit == TypeOK /\ Jobs <=> Rested /\ Jobs
BY DEF TypeOK, Jobs, Rested, JobInv, Refreshing, OnDb

LEMMA TypesSplitNext == TypeOK' /\ Jobs' <=> Rested' /\ Jobs'
BY DEF TypeOK, Jobs, Rested, JobInv, Refreshing, OnDb

-----------------------------------------------------------------------------
(* Requests that leave the index alone *)

LEMMA RestingJob == Resting \in Job
BY IndexAssumption DEF Resting, Job, PC

(* A request that is not idle runs, and on a database of its own.          *)
LEMMA RunningJob ==
  ASSUME IndexInv, NEW t \in Task, ~At(t, "idle")
  PROVE  /\ up /\ job[t] \in Job /\ JobInv(t)
         /\ job[t].pc \in OnDb => job[t].db \in Db
BY DEF IndexInv, Jobs, At, JobInv, Resting

(* A request leaves its gate, or the search: nothing else changes.         *)
LEMMA LeavesInv ==
  ASSUME IndexInv, NEW t \in Task, ~At(t, "idle"), Rest(t),
         gateQ' = gateQ \/ (gateQ' = Without(gateQ, job[t].db, t) /\ job[t].pc \in OnDb),
         up' = up, source' = source,
         \A d \in marker \ marker' : First(gateQ[d], t)
  PROVE  Jobs'
<1>1. up /\ job[t] \in Job /\ (job[t].pc \in OnDb => job[t].db \in Db)
  BY RunningJob
<1>2. KeepsFirst(gateQ', t)
  BY <1>1, WithoutKeeps DEF IndexInv, Jobs, KeepsFirst
<1>3. job' \in [Task -> Job] /\ job'[t] = Resting /\ \A u \in Task \ {t} : job'[u] = job[u]
  BY RestingJob DEF Rest, IndexInv, Jobs
<1>4. JobInv(t)'
  BY <1>3 DEF JobInv, Resting, OnDb, Refreshing, Marked
<1> QED
  BY <1>1, <1>2, <1>3, <1>4, MovedJobs DEF Moved

LEMMA QuietInv ==
  ASSUME IndexInv, Jobs', Rested',
         UNCHANGED <<index, unavailable, history>>,
         up' => up, required \subseteq required', marker \subseteq marker'
  PROVE  IndexInv'
BY IndexUntouched, TypesSplitNext DEF IndexInv

LEMMA StartInv ==
  ASSUME IndexInv, NEW t \in Task, NEW d \in Db, NEW p \in {"gate", "clear"},
         up, job' = [job EXCEPT ![t].pc = p, ![t].db = d],
         gateQ' = [gateQ EXCEPT ![d] = Append(@, t)],
         UNCHANGED <<up, conn, opened, source, index, marker, trust, history>>
  PROVE  IndexInv'
<1>1. job[t] \in Job /\ up /\ Rested
  BY TypesSplit DEF IndexInv, Jobs
<1>2. \A u \in Task \ {t} : job'[u] = job[u]
  BY DEF IndexInv, Jobs
<1>3. job'[t] \in Job /\ job'[t].pc = p /\ job'[t].db = d
  BY <1>1 DEF IndexInv, Jobs, Job, PC
<1>4. job' \in [Task -> Job]
  BY <1>3 DEF IndexInv, Jobs
<1>5. KeepsFirst(gateQ', t)
  BY AppendKeeps DEF IndexInv, Jobs
<1>6. JobInv(t)'
  BY <1>3 DEF JobInv, Refreshing, Marked, OnDb
<1>7. Jobs'
  BY <1>1, <1>2, <1>4, <1>5, <1>6, MovedJobs DEF Moved
<1> QED
  BY <1>1, <1>7, QuietInv DEF Rested, index, trust, history

LEMMA StartDisconnectInv ==
  ASSUME IndexInv, NEW t \in Task, NEW d \in Db, StartDisconnect(t, d)
  PROVE  IndexInv'
<1> USE DEF StartDisconnect
<1>1. job[t] \in Job /\ up /\ Rested
  BY TypesSplit DEF IndexInv, Jobs
<1>2. \A u \in Task \ {t} : job'[u] = job[u]
  BY DEF IndexInv, Jobs
<1>3. job'[t] \in Job /\ job'[t].pc = "close" /\ job'[t].db = d
  BY <1>1 DEF IndexInv, Jobs, Job, PC, Rested
<1>4. job' \in [Task -> Job]
  BY <1>3 DEF IndexInv, Jobs
<1>5. KeepsFirst(gateQ', t)
  BY DEF IndexInv, Jobs, KeepsFirst
<1>6. JobInv(t)'
  BY <1>3 DEF JobInv, Refreshing, Marked, OnDb
<1>7. Jobs'
  BY <1>1, <1>2, <1>4, <1>5, <1>6, MovedJobs DEF Moved
<1> QED
  BY <1>1, <1>7, QuietInv DEF Rested, index, history

LEMMA CloseInv ==
  ASSUME IndexInv, NEW t \in Task, Close(t)
  PROVE  IndexInv'
<1> USE DEF Close
<1>1. /\ job[t] \in Job /\ up /\ Rested /\ job[t].db \in Db
  BY RunningJob, TypesSplit DEF IndexInv, At, OnDb
<1>2. \A u \in Task \ {t} : job'[u] = job[u]
  BY DEF IndexInv, Jobs
<1>3. job'[t] \in Job /\ job'[t].pc = "clear" /\ job'[t].db = job[t].db
  BY <1>1 DEF IndexInv, Jobs, Job, PC
<1>4. job' \in [Task -> Job]
  BY <1>3 DEF IndexInv, Jobs
<1>5. KeepsFirst(gateQ', t)
  BY <1>1, AppendKeeps DEF IndexInv, Jobs
<1>6. JobInv(t)'
  BY <1>1, <1>3 DEF JobInv, Refreshing, Marked, OnDb
<1>7. Jobs'
  BY <1>1, <1>2, <1>4, <1>5, <1>6, MovedJobs DEF Moved
<1>8. conn' \in [Db -> 0 .. MaxHandle]
  BY <1>1, IndexAssumption DEF Rested
<1> QED
  BY <1>1, <1>7, <1>8, QuietInv DEF Rested, index, trust, history

LEMMA SearchInv ==
  ASSUME IndexInv, NEW t \in Task,
         (\E d \in Db \cup {NoDb} : StartSearch(t, d)) \/ Answer(t) \/ SearchEnds(t)
  PROVE  IndexInv'
<1> USE DEF StartSearch, Answer, SearchEnds
<1>1. job[t] \in Job /\ up /\ Rested
  BY RunningJob, TypesSplit DEF IndexInv, Jobs, At
<1>2. \A u \in Task \ {t} : job'[u] = job[u]
  BY DEF IndexInv, Jobs, Rest
<1>3. job'[t] \in Job /\ job'[t].pc \in {"search", "answered", "idle"}
  <2>1. ASSUME NEW d \in Db \cup {NoDb}, StartSearch(t, d)
        PROVE  job'[t] \in Job /\ job'[t].pc = "search"
    BY <1>1, <2>1 DEF IndexInv, Jobs, Job, PC
  <2>2. CASE Answer(t)
    BY <1>1, <2>2 DEF IndexInv, Jobs, Job, PC
  <2>3. CASE SearchEnds(t)
    BY <2>3, RestingJob DEF IndexInv, Jobs, Rest, Resting
  <2> QED
    BY <2>1, <2>2, <2>3
<1>4. job' \in [Task -> Job]
  BY <1>3 DEF IndexInv, Jobs, Rest
<1>5. KeepsFirst(gateQ', t)
  BY DEF IndexInv, Jobs, KeepsFirst
<1>6. JobInv(t)'
  BY <1>3 DEF JobInv, Refreshing, Marked, OnDb
<1>7. Jobs'
  BY <1>1, <1>2, <1>4, <1>5, <1>6, MovedJobs DEF Moved
<1> QED
  BY <1>1, <1>7, QuietInv DEF Rested, index, trust, history

LEMMA GivesUpInv ==
  ASSUME IndexInv, NEW t \in Task,
         ExtractFails(t) \/ EmbeddingFails(t) \/ Conflict(t) \/ Cancel(t)
  PROVE  IndexInv'
<1> USE DEF ExtractFails, EmbeddingFails, Conflict, Cancel, Leave
<1>1. ~At(t, "idle") /\ job[t].pc \in OnDb
  BY DEF At, OnDb
<1>2. Jobs'
  BY <1>1, LeavesInv
<1>3. Rested
  BY TypesSplit DEF IndexInv
<1> QED
  BY <1>2, <1>3, QuietInv DEF Rested, index, trust, history

-----------------------------------------------------------------------------
(* A refresh before its documents are written *)

(* The request goes on where it is, still first at its gate.               *)
LEMMA RefreshMoves ==
  ASSUME IndexInv, NEW t \in Task, job[t].pc \in OnDb, up' = up, source' = source,
         gateQ' = gateQ, marker \subseteq marker', NEW j \in Job,
         job' = [job EXCEPT ![t] = j], j.db = job[t].db,
         j.pc \in Refreshing => HoldsGate(t),
         j.pc \in Marked => j.db \in marker',
         j.pc = "verify" => j.floor <= source[j.db],
         j.pc = "verified" => j.floor <= j.seen
  PROVE  Jobs'
<1>1. up /\ job[t].db \in Db
  BY RunningJob DEF At, OnDb
<1>2. job' \in [Task -> Job] /\ job'[t] = j /\ \A u \in Task \ {t} : job'[u] = job[u]
  BY DEF IndexInv, Jobs
<1>3. KeepsFirst(gateQ', t)
  BY DEF IndexInv, Jobs, KeepsFirst
<1>4. JobInv(t)'
  BY <1>1, <1>2 DEF JobInv, HoldsGate
<1> QED
  BY <1>1, <1>2, <1>3, <1>4, MovedJobs DEF Moved

LEMMA CaptureInv ==
  ASSUME IndexInv, NEW t \in Task, Capture(t)
  PROVE  IndexInv'
<1> USE DEF Capture
<1>1. job[t].pc = "gate" /\ job[t] \in Job /\ job[t].db \in Db /\ Rested /\ HoldsGate(t)
  BY RunningJob, TypesSplit DEF IndexInv, At, OnDb
<1>2. ASSUME Leave(t) PROVE Jobs'
  BY <1>1, <1>2, LeavesInv DEF Leave, At, OnDb
<1>3. ASSUME conn[job[t].db] # 0 PROVE Jobs'
  <2> DEFINE j == [job[t] EXCEPT !.pc = "extract", !.handle = conn[job[t].db]]
  <2>1. j \in Job /\ j.pc = "extract" /\ j.db = job[t].db
    BY <1>1 DEF Job, PC, Rested
  <2>2. job' = [job EXCEPT ![t] = j] /\ gateQ' = gateQ
    BY <1>3 DEF IndexInv, Jobs
  <2> HIDE DEF j
  <2> QED
    BY <1>1, <2>1, <2>2, RefreshMoves DEF OnDb, Marked
<1>4. Jobs'
  BY <1>2, <1>3
<1> QED
  BY <1>1, <1>4, QuietInv DEF Rested, index, trust, history

LEMMA ExtractInv ==
  ASSUME IndexInv, NEW t \in Task, Extract(t)
  PROVE  IndexInv'
<1> USE DEF Extract
<1>1. /\ job[t].pc \in {"extract", "verify"} /\ job[t] \in Job /\ job[t].db \in Db
      /\ JobInv(t) /\ Rested
  BY RunningJob, TypesSplit DEF IndexInv, At, OnDb
<1>2. HoldsGate(t)
  BY <1>1 DEF JobInv, Refreshing, HoldsGate
<1> DEFINE j == [job[t] EXCEPT !.pc = IF @ = "extract" THEN "extracted" ELSE "verified",
                               !.seen = source[job[t].db]]
<1>3. source[job[t].db] \in 0 .. MaxVersion
  BY <1>1, IndexAssumption DEF Rested
<1>4. /\ j \in Job /\ j.db = job[t].db /\ j.floor = job[t].floor /\ j.seen = source[job[t].db]
      /\ j.pc = IF job[t].pc = "extract" THEN "extracted" ELSE "verified"
  BY <1>1, <1>3 DEF Job, PC
<1>5. job' = [job EXCEPT ![t] = j]
  BY DEF IndexInv, Jobs
<1> HIDE DEF j
<1>6. Jobs'
  BY <1>1, <1>2, <1>4, <1>5, RefreshMoves DEF OnDb, Marked, JobInv
<1> QED
  BY <1>1, <1>6, QuietInv DEF Rested, index, trust, history

(* Only the markers and what became of them change.                        *)
LEMMA MarkersInv ==
  ASSUME IndexInv, Jobs', UNCHANGED <<up, conn, opened, source, index, trust, verified, torn>>,
         marker' \in SUBSET Db, effaced' \in SUBSET Db,
         marker \cup effaced \subseteq marker' \cup effaced'
  PROVE  IndexInv'
<1>1. Rested /\ Trusted /\ Servable
  BY TypesSplit DEF IndexInv
<1>2. Rested'
  BY <1>1 DEF Rested, index, trust
<1>3. Trusted' /\ Servable'
  BY <1>1 DEF Trusted, Servable, DenseIds, SparseIds, index, trust
<1> QED
  BY <1>2, <1>3, TypesSplitNext DEF IndexInv

LEMMA BeginReplacementInv ==
  ASSUME IndexInv, NEW t \in Task, BeginReplacement(t)
  PROVE  IndexInv'
<1> USE DEF BeginReplacement, At
<1>1. /\ job[t].pc = "extracted" /\ job[t] \in Job /\ job[t].db \in Db
      /\ JobInv(t) /\ Rested
  BY RunningJob, TypesSplit DEF IndexInv, OnDb
<1>2. HoldsGate(t)
  BY <1>1 DEF JobInv, Refreshing, HoldsGate
<1> DEFINE j == [job[t] EXCEPT !.pc = "embed", !.snapshot = job[t].seen]
<1>3. j \in Job /\ j.db = job[t].db /\ j.pc = "embed"
  BY <1>1 DEF Job, PC
<1>4. job' = [job EXCEPT ![t] = j]
  BY DEF IndexInv, Jobs
<1> HIDE DEF j
<1>5. Jobs'
  BY <1>1, <1>2, <1>3, <1>4, RefreshMoves DEF OnDb
<1> QED
  BY <1>1, <1>5, MarkersInv DEF Rested

LEMMA BeginFailsInv ==
  ASSUME IndexInv, NEW t \in Task, BeginFails(t)
  PROVE  IndexInv'
<1> USE DEF BeginFails, MarkerBroken, Leave
<1>1. job[t].pc = "extracted" /\ job[t].db \in Db /\ JobInv(t) /\ Rested
  BY RunningJob, TypesSplit DEF IndexInv, OnDb, At
<1>2. First(gateQ[job[t].db], t)
  BY <1>1 DEF JobInv, Refreshing
<1>3. Jobs'
  BY <1>1, <1>2, LeavesInv DEF At, OnDb
<1> QED
  BY <1>1, <1>3, MarkersInv DEF Rested

LEMMA EmbeddedInv ==
  ASSUME IndexInv, NEW t \in Task, Embedded(t)
  PROVE  IndexInv'
<1> USE DEF Embedded, At
<1>1. /\ job[t].pc = "embed" /\ job[t] \in Job /\ job[t].db \in Db
      /\ JobInv(t) /\ Rested
  BY RunningJob, TypesSplit DEF IndexInv, OnDb
<1>2. HoldsGate(t) /\ job[t].db \in marker
  BY <1>1 DEF JobInv, Refreshing, Marked, HoldsGate
<1> DEFINE j == [job[t] EXCEPT !.pc = "verify", !.floor = source[job[t].db]]
<1>3. source[job[t].db] \in 0 .. MaxVersion
  BY <1>1, IndexAssumption DEF Rested
<1>4. j \in Job /\ j.db = job[t].db /\ j.pc = "verify" /\ j.floor = source[job[t].db]
  BY <1>1, <1>3 DEF Job, PC
<1>5. job' = [job EXCEPT ![t] = j]
  BY DEF IndexInv, Jobs
<1> HIDE DEF j
<1>6. j.floor <= source[j.db] /\ j.db \in marker /\ j.pc \in Refreshing
  BY <1>2, <1>3, <1>4, IndexAssumption DEF Refreshing
<1>7. Jobs'
  BY <1>1, <1>2, <1>4, <1>5, <1>6, RefreshMoves DEF OnDb
<1> QED
  BY <1>1, <1>7, QuietInv DEF Rested, index, trust, history

-----------------------------------------------------------------------------
(* The documents are replaced *)

LEMMA ReplacedInv ==
  ASSUME IndexInv, NEW d \in Db, NEW docs \in Documents, Replaced(d, docs),
         UNCHANGED <<up, conn, opened, source>>, up, Jobs',
         marker \ {d} \subseteq marker', marker' \subseteq marker
  PROVE  IndexInv'
<1> USE DEF Replaced
<1>1. Rested /\ Trusted /\ Servable
  BY TypesSplit DEF IndexInv
<1>2. /\ \A x \in Db : dense'[x] = IF x = d THEN docs ELSE dense[x]
      /\ \A x \in Db : sparse'[x] = IF x = d THEN docs ELSE sparse[x]
  BY <1>1 DEF Rested
<1>3. Rested'
  BY <1>1 DEF Rested
<1>4. Trusted'
  BY <1>1, <1>2 DEF Trusted
<1>5. Servable'
  BY <1>1, <1>2 DEF Servable, DenseIds, SparseIds
<1> QED
  BY <1>3, <1>4, <1>5, TypesSplitNext DEF IndexInv

LEMMA ReplaceFailsInv ==
  ASSUME IndexInv, NEW d \in Db, NEW docs \in Documents, ReplaceFails(d, docs),
         d \in marker \/ docs = Empty,
         UNCHANGED <<up, conn, opened, source, marker>>, up, Jobs'
  PROVE  IndexInv'
<1>1. Rested /\ Trusted /\ Servable /\ Empty \in Documents
  BY TypesSplit, IndexAssumption DEF IndexInv, Documents, Empty
<1>2. CASE Restored
  BY <1>1, <1>2, QuietInv DEF Restored, index, trust, history, Rested
<1>3. CASE NotRestored(d, docs)
  <2> USE <1>3 DEF NotRestored, history
  <2>1. PICK a \in {dense[d], Empty, docs}, b \in {sparse[d], Empty} :
           dense' = [dense EXCEPT ![d] = a] /\ sparse' = [sparse EXCEPT ![d] = b]
    OBVIOUS
  <2>2. /\ \A x \in Db : dense'[x] = IF x = d THEN a ELSE dense[x]
        /\ \A x \in Db : sparse'[x] = IF x = d THEN b ELSE sparse[x]
    BY <1>1, <2>1 DEF Rested
  <2>3. a \in Documents /\ b \in Documents
    BY <1>1, <2>1 DEF Rested
  <2>4. Rested'
    BY <1>1, <2>1, <2>3 DEF Rested
  <2>5. Trusted'
    BY <1>1, <2>2 DEF Trusted
  <2>6. Servable'
    BY <1>1, <2>1, <2>2 DEF Servable, DenseIds, SparseIds
  <2> QED
    BY <2>4, <2>5, <2>6, TypesSplitNext DEF IndexInv
<1> QED
  BY <1>2, <1>3 DEF ReplaceFails

LEMMA PublishInv ==
  ASSUME IndexInv, NEW t \in Task, Publish(t)
  PROVE  IndexInv'
<1> USE DEF Publish
<1> DEFINE d == job[t].db
<1>1. /\ up /\ job[t].pc = "verified" /\ job[t] \in Job /\ d \in Db /\ JobInv(t)
  BY RunningJob DEF At, OnDb
<1>2. d \in marker /\ First(gateQ[d], t) /\ Prepared(t) \in Documents
  BY <1>1 DEF JobInv, Refreshing, Marked, Prepared, Job, Documents
<1>3. Jobs'
  BY <1>1, <1>2, LeavesInv DEF Leave, At, OnDb
<1>4. CASE Replaced(d, Prepared(t)) /\ marker' \in {marker, marker \ {d}}
  BY <1>1, <1>2, <1>3, <1>4, ReplacedInv
<1>5. CASE ReplaceFails(d, Prepared(t)) /\ UNCHANGED marker
  BY <1>1, <1>2, <1>3, <1>5, ReplaceFailsInv
<1> QED
  BY <1>4, <1>5

LEMMA ClearInv ==
  ASSUME IndexInv, NEW t \in Task, Clear(t)
  PROVE  IndexInv'
<1> USE DEF Clear
<1> DEFINE d == job[t].db
<1>1. up /\ d \in Db /\ job[t].pc = "clear" /\ Empty \in Documents
  BY RunningJob, IndexAssumption DEF At, OnDb, Documents, Empty
<1>2. Jobs'
  BY <1>1, LeavesInv DEF Leave, At, OnDb
<1>3. CASE Replaced(d, Empty)
  BY <1>1, <1>2, <1>3, ReplacedInv
<1>4. CASE ReplaceFails(d, Empty)
  BY <1>1, <1>2, <1>4, ReplaceFailsInv
<1> QED
  BY <1>3, <1>4

-----------------------------------------------------------------------------
(* The outside world, crash and start-up *)

LEMMA WorldInv ==
  ASSUME IndexInv, NEW d \in Db, Connect(d) \/ Alter(d)
  PROVE  IndexInv'
<1>1. Rested /\ Jobs
  BY TypesSplit DEF IndexInv
<1>2. CASE Connect(d)
  <2>1. Jobs'
    BY <1>1, <1>2 DEF Connect, Jobs, JobInv
  <2>2. Rested'
    BY <1>1, <1>2, IndexAssumption DEF Connect, Rested, index, trust, history
  <2> QED
    BY <1>2, <2>1, <2>2, QuietInv DEF Connect, trust
<1>3. CASE Alter(d)
  <2>1. \A x \in Db : source'[x] \in 1 .. MaxVersion /\ source[x] <= source'[x]
    BY <1>1, <1>3, IndexAssumption DEF Alter, Rested
  <2>2. ASSUME NEW t \in Task PROVE JobInv(t)'
    <3>1. JobInv(t) /\ job[t] \in Job
      BY <1>1 DEF Jobs
    <3>2. job[t].pc = "verify" => job[t].db \in Db /\ job[t].floor \in Nat
      BY <3>1 DEF JobInv, OnDb, Job
    <3>3. job[t].pc = "verify" => job[t].floor <= source'[job[t].db]
      BY <1>1, <2>1, <3>1, <3>2, IndexAssumption DEF JobInv, Rested
    <3> QED
      BY <1>3, <3>1, <3>3 DEF Alter, JobInv
  <2>3. Jobs'
    BY <1>1, <1>3, <2>2 DEF Alter, Jobs
  <2>4. Rested'
    BY <1>1, <1>3, <2>1 DEF Alter, Rested, index, trust, history
  <2> QED
    BY <1>3, <2>3, <2>4, QuietInv DEF Alter, trust
<1> QED
  BY <1>2, <1>3

LEMMA EmptyIsDocuments == Empty \in Documents
BY IndexAssumption DEF Documents, Empty

LEMMA BulkClearInv ==
  ASSUME IndexInv, BulkClear
  PROVE  IndexInv'
<1> USE DEF BulkClear
<1>1. Rested /\ Jobs /\ Trusted /\ Servable
  BY TypesSplit DEF IndexInv
<1>2. Jobs'
  BY <1>1 DEF Jobs, JobInv
<1>3. \A d \in Db : dense'[d] = Empty
  OBVIOUS
<1>4. Servable'
  BY <1>3 DEF Servable, DenseIds
<1>5. CASE /\ sparse' = [d \in Db |-> Empty]
           /\ required' = {} /\ unavailable' = {} /\ torn' = {} /\ effaced' = {}
  <2>1. Rested'
    BY <1>1, <1>5, EmptyIsDocuments DEF Rested
  <2>2. Trusted'
    BY <1>3, <1>5 DEF Trusted
  <2> QED
    BY <1>2, <1>4, <2>1, <2>2, TypesSplitNext DEF IndexInv
<1>6. CASE torn' = SparseIds /\ UNCHANGED <<sparse, trust, effaced>>
  <2>1. Rested'
    BY <1>1, <1>6, EmptyIsDocuments DEF Rested, trust, SparseIds
  <2>2. Trusted'
    BY <1>3, <1>6 DEF Trusted, SparseIds
  <2> QED
    BY <1>2, <1>4, <2>1, <2>2, TypesSplitNext DEF IndexInv
<1> QED
  BY <1>5, <1>6

(* Whatever part of a replacement a crash leaves, the marker or an empty   *)
(* backend tells of it.                                                    *)
LEMMA InterruptedServable ==
  ASSUME IndexInv, NEW d \in Db, NEW docs \in Documents, Interrupted(d, docs),
         d \in marker \/ docs = Empty, UNCHANGED <<marker, effaced>>
  PROVE  /\ dense' \in [Db -> Documents] /\ sparse' \in [Db -> Documents]
         /\ Servable'
<1>1. Rested /\ Servable /\ Empty \in Documents
  BY TypesSplit, EmptyIsDocuments DEF IndexInv
<1>2. PICK a \in {Empty, docs}, b \in {Empty, sparse[d], docs} :
         /\ dense' = [dense EXCEPT ![d] = a]
         /\ sparse' = [sparse EXCEPT ![d] = b]
         /\ a = Empty \/ b = Empty \/ a = b
  <2>1. sparse = [sparse EXCEPT ![d] = sparse[d]]
    BY <1>1 DEF Rested
  <2> QED
    BY <2>1 DEF Interrupted
<1>3. /\ \A x \in Db : dense'[x] = IF x = d THEN a ELSE dense[x]
      /\ \A x \in Db : sparse'[x] = IF x = d THEN b ELSE sparse[x]
  BY <1>1, <1>2 DEF Rested
<1>4. dense' \in [Db -> Documents] /\ sparse' \in [Db -> Documents]
  BY <1>1, <1>2 DEF Rested
<1>5. Servable'
  BY <1>1, <1>2, <1>3 DEF Servable, DenseIds, SparseIds
<1> QED
  BY <1>4, <1>5

LEMMA CrashInv ==
  ASSUME IndexInv, Crash
  PROVE  IndexInv'
<1> USE DEF Crash
<1>1. Rested /\ Jobs /\ Servable
  BY TypesSplit DEF IndexInv
<1>2. Jobs'
  BY RestingJob DEF Jobs, JobInv, Resting, OnDb, Refreshing, Marked
<1>3. /\ dense' \in [Db -> Documents] /\ sparse' \in [Db -> Documents]
      /\ marker' \in SUBSET Db /\ effaced' \in SUBSET Db
      /\ Servable'
  <2>1. ASSUME NEW t \in Task, At(t, "verified"), Interrupted(job[t].db, Prepared(t)),
               UNCHANGED <<marker, effaced>>
        PROVE  <1>3!:
    <3>1. /\ job[t].db \in Db /\ job[t].db \in marker /\ Prepared(t) \in Documents
      BY <2>1, RunningJob DEF At, OnDb, JobInv, Marked, Prepared, Documents, Job
    <3> QED
      BY <1>1, <2>1, <3>1, InterruptedServable DEF Rested
  <2>2. ASSUME NEW t \in Task, At(t, "clear"), Interrupted(job[t].db, Empty),
               UNCHANGED <<marker, effaced>>
        PROVE  <1>3!:
    <3>1. job[t].db \in Db
      BY <2>2, RunningJob DEF At, OnDb
    <3> QED
      BY <1>1, <2>2, <3>1, EmptyIsDocuments, InterruptedServable DEF Rested
  <2>3. CASE UNCHANGED <<index, marker, effaced>>
    BY <1>1, <2>3 DEF index, Rested, Servable, DenseIds, SparseIds
  <2>4. ASSUME NEW t \in Task, At(t, "extracted"), MarkerBroken(job[t].db), UNCHANGED index
        PROVE  <1>3!:
    <3>1. job[t].db \in Db
      BY <2>4, RunningJob DEF At, OnDb
    <3> QED
      BY <1>1, <2>4, <3>1 DEF MarkerBroken, index, Rested, Servable, DenseIds, SparseIds
  <2> QED
    BY <2>1, <2>2, <2>3, <2>4 DEF FilesAtCrash
<1>4. Rested'
  <2>1. conn' \in [Db -> 0 .. MaxHandle] /\ opened' = opened /\ source' = source
    BY IndexAssumption
  <2>2. /\ up' = FALSE /\ required' = {} /\ unavailable' = {}
        /\ verified' = {} /\ torn' = {}
    OBVIOUS
  <2> HIDE DEF Crash
  <2> QED
    BY <1>1, <1>3, <2>1, <2>2 DEF Rested
<1>5. Trusted'
  BY DEF Trusted
<1> QED
  BY <1>2, <1>3, <1>4, <1>5, TypesSplitNext DEF IndexInv

LEMMA StartUpInv ==
  ASSUME IndexInv, StartUp
  PROVE  IndexInv'
<1> USE DEF StartUp, index, history
<1>1. Rested /\ Jobs /\ Servable
  BY TypesSplit DEF IndexInv
<1>2. Jobs'
  BY <1>1 DEF Jobs, JobInv
<1>3. Rested'
  BY <1>1 DEF Rested, DenseIds, SparseIds
<1>4. Trusted' /\ Servable'
  BY <1>1 DEF Trusted, Servable, DenseIds, SparseIds
<1> QED
  BY <1>2, <1>3, <1>4, TypesSplitNext DEF IndexInv

-----------------------------------------------------------------------------
(* The invariant *)

LEMMA InitIndexInv ==
  ASSUME Init
  PROVE  IndexInv
<1> USE DEF Init
<1>1. Rested
  BY EmptyIsDocuments, IndexAssumption DEF Rested
<1>2. Jobs
  BY RestingJob DEF Jobs, JobInv, Resting, OnDb, Refreshing, Marked
<1>3. Trusted /\ Servable
  BY DEF Trusted, Servable, DenseIds
<1> QED
  BY <1>1, <1>2, <1>3, TypesSplit DEF IndexInv

LEMMA NextIndexInv ==
  ASSUME IndexInv, [Next]_vars
  PROVE  IndexInv'
<1>1. ASSUME NEW t \in Task, Refresh(t) PROVE IndexInv'
  <2>1. ASSUME NEW d \in Db, StartRefresh(t, d) PROVE IndexInv'
    BY <2>1, StartInv DEF StartRefresh
  <2> QED
    BY <1>1, <2>1, CaptureInv, ExtractInv, GivesUpInv, BeginReplacementInv, BeginFailsInv,
       EmbeddedInv, PublishInv DEF Refresh
<1>2. ASSUME NEW t \in Task, Maintain(t) PROVE IndexInv'
  <2>1. ASSUME NEW d \in Db, StartClear(t, d) PROVE IndexInv'
    BY <2>1, StartInv DEF StartClear
  <2> QED
    BY <1>2, <2>1, StartDisconnectInv, CloseInv, ClearInv DEF Maintain
<1>3. ASSUME NEW t \in Task, Search(t) \/ Cancel(t) PROVE IndexInv'
  BY <1>3, SearchInv, GivesUpInv DEF Search
<1>4. CASE UNCHANGED vars
  <2>1. Rested /\ Jobs
    BY TypesSplit DEF IndexInv
  <2>2. Rested' /\ Jobs'
    BY <1>4, <2>1 DEF vars, index, trust, history, Rested, Jobs, JobInv
  <2> QED
    BY <1>4, <2>2, QuietInv DEF vars, trust
<1> QED
  BY <1>1, <1>2, <1>3, <1>4, WorldInv, BulkClearInv, CrashInv, StartUpInv DEF Next

(* The inductive invariant: types, what each request holds on to, what a   *)
(* running process trusts and what the files tell.                         *)
THEOREM IndexInvariant == Spec => []IndexInv
<1>1. Init => IndexInv
  BY InitIndexInv
<1>2. IndexInv /\ [Next]_vars => IndexInv'
  BY NextIndexInv
<1> QED
  BY <1>1, <1>2, PTL DEF Spec

(* Whatever step a crash interrupts, the persistent state tells whole      *)
(* contents from torn ones, but for a marker destroyed while it is written *)
(* anew over contents that an earlier replacement left torn.               *)
THEOREM FilesTellTheTruth == Spec => []ServableIsWhole
<1>1. IndexInv => ServableIsWhole
  BY DEF IndexInv, Servable, ServableIsWhole
<1> QED
  BY <1>1, IndexInvariant, PTL

-----------------------------------------------------------------------------
(* What is answered and what is published *)

(* Only Answer ends in "answered".                                         *)
LEMMA AnswerSteps ==
  ASSUME IndexInv, [Next]_vars, NEW t \in Task, At(t, "search"), job'[t].pc = "answered"
  PROVE  Answer(t) /\ up
<1>1. /\ job \in [Task -> Job] /\ up /\ job[t].pc = "search"
      /\ Resting.pc = "idle"
  BY RunningJob DEF IndexInv, Jobs, At, Resting
<1>2. ASSUME NEW u \in Task, Refresh(u) \/ Maintain(u) \/ Cancel(u) PROVE FALSE
  <2>1. job[u].pc \in OnDb \cup {"idle"}
    BY <1>2 DEF Refresh, Maintain, Cancel, StartRefresh, Capture, Extract, ExtractFails,
       BeginReplacement, BeginFails, Embedded, EmbeddingFails, Publish, Conflict, StartDisconnect,
       StartClear, Close, Clear, At, OnDb
  <2>2. t # u
    BY <1>1, <2>1 DEF OnDb
  <2>3. Refresh(u) => job'[t] = job[t]
    BY <1>1, <2>2 DEF Refresh, StartRefresh, Capture, Extract, ExtractFails,
       BeginReplacement, BeginFails, Embedded, EmbeddingFails, Publish, Conflict, Leave, Rest
  <2>4. Maintain(u) \/ Cancel(u) => job'[t] = job[t]
    BY <1>1, <2>2 DEF Maintain, Cancel, StartDisconnect, StartClear, Close, Clear, Leave, Rest
  <2> QED
    BY <1>1, <1>2, <2>3, <2>4
<1>3. ASSUME NEW u \in Task, Search(u) PROVE Answer(t)
  <2>1. CASE Answer(u)
    BY <1>1, <2>1 DEF Answer
  <2>2. ~SearchEnds(u)
    BY <1>1 DEF SearchEnds, Rest
  <2>3. ASSUME NEW d \in Db \cup {NoDb}, StartSearch(u, d) PROVE FALSE
    <3>1. u # t
      BY <1>1, <2>3 DEF StartSearch, At
    <3> QED
      BY <1>1, <2>3, <3>1 DEF StartSearch
  <2> QED
    BY <1>3, <2>1, <2>2, <2>3 DEF Search
<1>4. ~UNCHANGED job
  BY <1>1
<1> QED
  BY <1>1, <1>2, <1>3, <1>4 DEF Next, Connect, Alter, BulkClear, Crash, StartUp, vars

(* What a search returns was put into both backends by one replacement of  *)
(* this process, or is nothing: an index of an earlier process, or one     *)
(* half replaced, is never used.                                           *)
THEOREM SearchesAreWhole == Spec => AnswersAreWhole
<1>1. ASSUME IndexInv, [Next]_vars, NEW t \in Task, At(t, "search"), job'[t].pc = "answered",
             NEW d \in Scope(t) \ torn
      PROVE  dense[d] = sparse[d] /\ (d \in verified \/ dense[d] = Empty)
  <2>1. up /\ Available(job[t].db) /\ job[t].db \in Db \cup {NoDb}
    BY <1>1, AnswerSteps DEF Answer, IndexInv, Jobs, Job
  <2>2. d \in Db /\ d \notin required \cup unavailable
    BY <1>1, <2>1, IndexAssumption DEF Available, Scope
  <2> QED
    BY <1>1, <2>1, <2>2 DEF IndexInv, Trusted
<1>2. IndexInv /\ [Next]_vars =>
        [\A t \in Task : At(t, "search") /\ job'[t].pc = "answered" =>
            \A d \in Scope(t) \ torn :
               /\ dense[d] = sparse[d]
               /\ d \in verified \/ dense[d] = Empty]_vars
  BY <1>1
<1> QED
  BY <1>2, IndexInvariant, PTL DEF Spec, AnswersAreWhole

(* Documents appear in the dense backend by a publication only.            *)
LEMMA DocumentSteps ==
  ASSUME IndexInv, [Next]_vars, up', NEW d \in Db, d \notin unavailable',
         dense'[d] \notin {dense[d], Empty}
  PROVE  \E t \in Task : /\ Publish(t) /\ job[t].db = d
                         /\ dense'[d] = Prepared(t)
<1>1. dense \in [Db -> Documents]
  BY DEF IndexInv, TypeOK
<1>2. ASSUME NEW x \in Db, NEW docs \in Documents, ReplaceFails(x, docs) PROVE FALSE
  <2>1. ~Restored
    BY DEF Restored, index
  <2>2. NotRestored(x, docs)
    BY <1>2, <2>1 DEF ReplaceFails
  <2>3. x # d
    BY <2>2 DEF NotRestored
  <2> QED
    BY <1>1, <2>2, <2>3 DEF NotRestored
<1>3. ASSUME NEW x \in Db, NEW docs \in Documents, Replaced(x, docs)
      PROVE  x = d /\ dense'[d] = docs
  BY <1>1, <1>3 DEF Replaced
<1>4. ASSUME NEW t \in Task, Publish(t)
      PROVE  job[t].db = d /\ dense'[d] = Prepared(t)
  <2>1. job[t].db \in Db /\ Prepared(t) \in Documents
    BY <1>4, RunningJob DEF Publish, At, OnDb, Prepared, Documents, Job
  <2> QED
    BY <1>2, <1>3, <1>4, <2>1 DEF Publish
<1>5. ASSUME NEW t \in Task, Clear(t) PROVE FALSE
  <2>1. job[t].db \in Db
    BY <1>5, RunningJob DEF Clear, At, OnDb
  <2> QED
    BY <1>2, <1>3, <1>5, <2>1, EmptyIsDocuments DEF Clear
<1>6. ~BulkClear /\ ~Crash /\ ~StartUp /\ ~UNCHANGED vars
  BY DEF BulkClear, Crash, StartUp, vars, index
<1>7. ASSUME NEW x \in Db PROVE ~Connect(x) /\ ~Alter(x)
  BY DEF Connect, Alter, index
<1>8. ASSUME NEW t \in Task, Refresh(t) PROVE Publish(t)
  BY <1>8 DEF Refresh, StartRefresh, Capture, Extract, ExtractFails, BeginReplacement,
     BeginFails, Embedded, EmbeddingFails, Conflict, index
<1>9. ASSUME NEW t \in Task, Maintain(t) \/ Search(t) \/ Cancel(t) PROVE FALSE
  BY <1>5, <1>9 DEF Maintain, Search, Cancel, StartDisconnect, StartClear, Close,
     StartSearch, Answer, SearchEnds, index
<1> QED
  BY <1>4, <1>6, <1>7, <1>8, <1>9 DEF Next

(* New documents belong to the connection that is registered when they are *)
(* published, and show every alteration made before their embedding ended. *)
THEOREM PublicationIsCurrent == Spec => PublishedIsCurrent
<1>1. ASSUME IndexInv, [Next]_vars, NEW t \in Task, At(t, "verified"), up',
             job[t].db \notin unavailable',
             dense'[job[t].db] \notin {dense[job[t].db], Empty}
      PROVE  /\ dense'[job[t].db].handle = conn[job[t].db]
             /\ dense'[job[t].db].version >= job[t].floor
  <2> DEFINE d == job[t].db
  <2>1. d \in Db /\ JobInv(t) /\ job[t] \in Job
    BY <1>1, RunningJob DEF At, OnDb
  <2>2. PICK u \in Task : Publish(u) /\ job[u].db = d /\ dense'[d] = Prepared(u)
    BY <1>1, <2>1, DocumentSteps
  <2>3. First(gateQ[d], u) /\ First(gateQ[d], t)
    BY <1>1, <2>1, <2>2 DEF IndexInv, Jobs, JobInv, Refreshing, Publish, At
  <2>4. u = t
    BY <2>3 DEF First
  <2>5. Registered(t) /\ SameStructure(t) /\ dense'[d] = Prepared(t)
    BY <2>2, <2>4 DEF Publish
  <2>6. job[t].floor <= job[t].seen /\ job[t].floor \in Nat /\ job[t].seen \in Nat
    BY <1>1, <2>1, IndexAssumption DEF JobInv, At, Job
  <2> QED
    BY <2>5, <2>6 DEF Registered, SameStructure, Prepared
<1>2. IndexInv /\ [Next]_vars =>
        [\A t \in Task : LET d == job[t].db IN
            At(t, "verified") /\ up' /\ d \notin unavailable'
                             /\ dense'[d] \notin {dense[d], Empty} =>
               /\ dense'[d].handle = conn[d]
               /\ dense'[d].version >= job[t].floor]_vars
  BY <1>1
<1> QED
  BY <1>2, IndexInvariant, PTL DEF Spec, PublishedIsCurrent

-----------------------------------------------------------------------------
(* Catalogue.tla *)

(* Memory still has what the request made of its names.                    *)
Stands(j) ==
    /\ j.from # None => memory[j.from] = None
    /\ j.to # None => memory[j.to] = j.text

(* What the request may still make of the rows: an indexing task makes     *)
(* nothing of them.                                                        *)
Holds(j) == IF j.stage = "index" THEN {} ELSE Touches(j)

RowsRight(n) ==
    /\ memory[n] = None => rows[n] = {}
    /\ memory[n] # None => memory[n] \in rows[n]
    /\ kind = "rules" => rows[n] \subseteq {memory[n]}

DocsRight(n) ==
    /\ memory[n] = None => lance[n] = {}
    /\ memory[n] # None => lance[n] = {memory[n]} /\ bm25[n] = memory[n]

(* How far a request is with the rows that nobody disturbed.               *)
RowsSoFar(j) ==
    /\ j.stage \in {"erase", "save", "sync"} => Stands(j)
    /\ j.stage = "save" /\ j.from # None => rows[j.from] = {}
    /\ j.stage = "sync" => \A n \in {j.from, j.to} \ {None} : RowsRight(n)
    /\ j.stage = "row" => Loaded
    /\ j.stage \in {"drop", "clean"} => ~Loaded /\ InMemory = {}
    /\ j.stage = "clean" => ~row

(* And with the documents.                                                 *)
DocsSoFar(j) ==
    /\ j.stage \in {"erase", "save", "sync", "index"} => Stands(j)
    /\ j.stage \in {"drop", "clean"} => InMemory = {}

Shape(j) ==
    /\ j.to # None => j.text \in Says[j.to]
    /\ j.from # None => j.from # j.to
    /\ j.stage = "erase" => j.from \in Name
    /\ j.stage \in {"save", "index"} => j.to \in Name
    /\ j.stage = "index" => j.from = None

Shapes ==
    /\ \A r \in Request : Shape(req[r])
    /\ ~Loaded => InMemory = {}

RowsInv ==
    /\ \A q, r \in Request : q # r /\ Holds(req[q]) \cap Holds(req[r]) # {} => ~req[q].rowsOk
    /\ \A r \in Request : req[r].rowsOk => RowsSoFar(req[r])
    /\ \A n \in Name \ badRows : (\A r \in Request : n \notin Holds(req[r])) => RowsRight(n)
    /\ Whole \notin badRows /\ (\A r \in Request : Whole \notin Holds(req[r])) => (row <=> Loaded)

DocsInv ==
    /\ \A q, r \in Request : q # r /\ Touches(req[q]) \cap Touches(req[r]) # {} => ~req[q].docsOk
    /\ \A r \in Request : req[r].docsOk => DocsSoFar(req[r])
    /\ \A n \in Name \ badDocs : (\A r \in Request : n \notin Touches(req[r])) => DocsRight(n)

-----------------------------------------------------------------------------
(* Types *)

LEMMA CatKinds ==
    ASSUME CatalogueTypeOK
    PROVE  kind = "terms" \/ kind = "rules"
BY CatalogueAssumption DEF CatalogueTypeOK

LEMMA ContentsAre ==
    ASSUME NEW f
    PROVE  f \in Contents <=> /\ f \in [Name -> Text \cup {None}]
                              /\ \A n \in Name : f[n] \in Says[n] \cup {None}
BY DEF Contents

LEMMA BlankIsContents ==
    Blank \in Contents /\ \A n \in Name : Blank[n] = None
BY ContentsAre DEF Blank

(* Text is never None, and neither is a file that is there.                *)
LEMMA TextsAre ==
    ASSUME NEW n \in Name, NEW t \in Says[n]
    PROVE  t \in Text /\ t # None
BY CatalogueAssumption

LEMMA ContentsAreLoaded ==
    ASSUME NEW f \in Contents
    PROVE  f # None
BY ContentsAre, CatalogueAssumption

LEMMA ChangedIsContents ==
    ASSUME CatalogueTypeOK, NEW from, NEW to, NEW text,
           to \in Name => text \in Says[to]
    PROVE  /\ Changed(from, to, text) \in Contents
           /\ \A n \in Name : Changed(from, to, text)[n] =
                 IF n = to THEN text ELSE IF n = from THEN None ELSE memory[n]
<1>1. memory \in [Name -> Text \cup {None}] /\ \A n \in Name : memory[n] \in Says[n] \cup {None}
  BY ContentsAre DEF CatalogueTypeOK
<1>2. \A n \in Name : Changed(from, to, text)[n] \in Says[n] \cup {None}
  BY <1>1 DEF Changed
<1>3. Changed(from, to, text) \in [Name -> Text \cup {None}]
  BY <1>1, TextsAre DEF Changed
<1>4. Changed(from, to, text) \in Contents
  BY <1>2, <1>3, ContentsAre
<1> QED
  BY <1>4 DEF Changed

LEMMA TouchesAre ==
    ASSUME NEW j \in Req
    PROVE  /\ Touches(j) \subseteq Name \cup {Whole}
           /\ Holds(j) \subseteq Touches(j)
           /\ j.stage = "idle" => Touches(j) = {}
           /\ j.stage = "row" => Touches(j) = {Whole}
           /\ j.stage \in {"drop", "clean"} => Touches(j) = Name \cup {Whole}
           /\ j.stage \in {"erase", "save", "sync", "index"} => Touches(j) = {j.from, j.to} \ {None}
BY DEF Req, Stage, Touches, Holds

LEMMA IdleIs ==
    /\ Idle \in Req
    /\ Idle.stage = "idle"
    /\ Idle.rowsOk
    /\ Idle.docsOk
    /\ Idle.from = None
    /\ Idle.to = None
BY DEF Idle, Req, Stage

Same(j, k) == j.stage = k.stage /\ j.from = k.from /\ j.to = k.to /\ j.text = k.text

LEMMA SameTouch ==
    ASSUME NEW j \in Req, NEW k \in Req, Same(j, k)
    PROVE  Touches(j) = Touches(k) /\ Holds(j) = Holds(k)
BY DEF Same, Touches, Holds

(* What beginning makes of the requests.                                   *)
LEMMA BeginsIs ==
    ASSUME CatalogueTypeOK, NEW r \in Request, NEW j \in Req, Begins(r, j)
    PROVE  /\ req' \in [Request -> Req]
           /\ Same(req'[r], j)
           /\ req'[r].rowsOk => j.rowsOk
           /\ req'[r].docsOk => j.docsOk
           /\ \A q \in Request \ {r} :
                 /\ Same(req'[q], req[q])
                 /\ req'[q].rowsOk => req[q].rowsOk
                 /\ req'[q].docsOk => req[q].docsOk
                 /\ Touches(req[q]) \cap Touches(j) # {} =>
                       ~req'[q].rowsOk /\ ~req'[q].docsOk /\ ~req'[r].rowsOk /\ ~req'[r].docsOk
<1> DEFINE others == {q \in Request : Touches(req[q]) \cap Touches(j) # {}}
           marked(k) == [k EXCEPT !.rowsOk = FALSE, !.docsOk = FALSE]
<1>1. req' = [q \in Request |-> IF q = r THEN IF others = {} THEN j ELSE marked(j)
                               ELSE IF q \in others THEN marked(req[q]) ELSE req[q]]
  BY DEF Begins
<1>2. \A k \in Req : /\ marked(k) \in Req /\ Same(marked(k), k) /\ Same(k, k)
                     /\ ~marked(k).rowsOk /\ ~marked(k).docsOk
  BY DEF Req, Same
<1>3. req \in [Request -> Req]
  BY DEF CatalogueTypeOK
<1> HIDE DEF marked
<1>4. \A q \in Request \ {r} : req'[q] = IF q \in others THEN marked(req[q]) ELSE req[q]
  BY <1>1
<1>7. req'[r] = marked(j) \/ (others = {} /\ req'[r] = j)
  BY <1>1
<1>8. /\ req'[r] \in Req /\ Same(req'[r], j)
      /\ req'[r].rowsOk => j.rowsOk
      /\ req'[r].docsOk => j.docsOk
  BY <1>2, <1>7
<1>9. ASSUME NEW q \in Request \ {r}
      PROVE  /\ req'[q] \in Req
             /\ Same(req'[q], req[q])
             /\ req'[q].rowsOk => req[q].rowsOk
             /\ req'[q].docsOk => req[q].docsOk
             /\ Touches(req[q]) \cap Touches(j) # {} =>
                   ~req'[q].rowsOk /\ ~req'[q].docsOk /\ ~req'[r].rowsOk /\ ~req'[r].docsOk
  <2>1. req[q] \in Req
    BY <1>3
  <2>2. CASE q \in others
    <3>1. req'[q] = marked(req[q]) /\ req'[r] = marked(j)
      BY <1>4, <1>7, <2>2
    <3> QED
      BY <1>2, <2>1, <3>1
  <2>3. CASE q \notin others
    <3>1. req'[q] = req[q]
      BY <1>4, <2>3
    <3>2. Touches(req[q]) \cap Touches(j) = {}
      BY <2>3
    <3> QED
      BY <1>2, <2>1, <3>1, <3>2
  <2> QED
    BY <2>2, <2>3
<1>10. req' \in [Request -> Req]
  <2>1. DOMAIN req' = Request /\ req' = [q \in Request |-> req'[q]]
    BY <1>1
  <2> QED
    BY <1>8, <1>9, <2>1
<1> QED
  BY <1>8, <1>9, <1>10

-----------------------------------------------------------------------------
(* The handlers *)

(* What a handler does up to its first await, whichever it is: it begins a *)
(* request, and changes in memory what that request touches and makes of   *)
(* it what the request is about.                                           *)
Handles(r) == \E j \in Req :
    /\ Begins(r, j)
    /\ j.stage \in {"erase", "save", "row", "drop"}
    /\ Shape(j)
    /\ memory' \in Contents /\ file' \in Contents \cup {None} /\ mishaps' \in 0 .. MaxMishaps
    /\ Loaded' \/ InMemory' = {}
    /\ \A n \in Name \ Touches(j) : memory'[n] = memory[n]
    /\ Whole \in Touches(j) \/ (Loaded' <=> Loaded)
    /\ RowsSoFar(j)' /\ DocsSoFar(j)'

LEMMA PersistsIs ==
    ASSUME CatalogueTypeOK, Persists, Loaded, memory' \in Contents
    PROVE  /\ file' \in Contents \cup {None} /\ Loaded'
           /\ mishaps' \in 0 .. MaxMishaps
<1>1. file' = memory' \/ file' = file
  BY DEF Persists
<1>2. mishaps' \in 0 .. MaxMishaps
  BY CatalogueAssumption DEF Persists, Mishap, CatalogueTypeOK
<1> QED
  BY <1>1, <1>2, ContentsAreLoaded DEF CatalogueTypeOK, Loaded

LEMMA ChangeHandles ==
    ASSUME CatalogueTypeOK, NEW r \in Request, Loaded, NEW j \in Req, Shape(j),
           \/ j.stage = "save" /\ j.from = None
           \/ j.stage = "erase",
           memory' = Changed(j.from, j.to, j.text), Persists, Begins(r, j)
    PROVE  Handles(r)
<1>1. j.to \in Name => j.text \in Says[j.to]
  BY CatalogueAssumption DEF Shape
<1>2. /\ memory' \in Contents
      /\ \A n \in Name : memory'[n] = IF n = j.to THEN j.text ELSE IF n = j.from THEN None ELSE memory[n]
  BY <1>1, ChangedIsContents
<1>3. file' \in Contents \cup {None} /\ Loaded' /\ mishaps' \in 0 .. MaxMishaps
  BY <1>2, PersistsIs
<1>4. Touches(j) = {j.from, j.to} \ {None}
  BY TouchesAre
<1>5. \A n \in Name \ Touches(j) : memory'[n] = memory[n]
  BY <1>2, <1>4, CatalogueAssumption
<1>6. j.from \in Name \cup {None} /\ j.to \in Name \cup {None}
  BY DEF Req
<1>7. Stands(j)'
  BY <1>2, <1>6 DEF Stands, Shape
<1>8. RowsSoFar(j)' /\ DocsSoFar(j)'
  BY <1>7 DEF RowsSoFar, DocsSoFar
<1> QED
  BY <1>2, <1>3, <1>5, <1>8 DEF Handles

LEMMA AddHandles ==
    ASSUME CatalogueTypeOK, NEW r \in Request, NEW n \in Name, NEW t \in Says[n], Add(r, n, t)
    PROVE  Handles(r)
<1> DEFINE j == [Idle EXCEPT !.stage = "save", !.to = n, !.text = t]
<1>1. t \in Text /\ n # None
  BY TextsAre, CatalogueAssumption
<1>2. j \in Req /\ j.stage = "save" /\ j.from = None /\ j.to = n /\ j.text = t
  BY <1>1 DEF Idle, Req, Stage
<1>3. Shape(j)
  BY <1>2 DEF Shape
<1>4. memory' = Changed(j.from, j.to, j.text) /\ Loaded /\ Persists /\ Begins(r, j)
  BY <1>2 DEF Add
<1> HIDE DEF j
<1> QED
  BY <1>2, <1>3, <1>4, ChangeHandles

LEMMA ChangeOfHandles ==
    ASSUME CatalogueTypeOK, NEW r \in Request, NEW m \in Name, NEW n \in Name, NEW t \in Says[n],
           Change(r, m, n, t)
    PROVE  Handles(r)
<1> DEFINE j == [Idle EXCEPT !.stage = IF m = n THEN "save" ELSE "erase",
                             !.from = IF m = n THEN None ELSE m, !.to = n, !.text = t]
<1>1. t \in Text /\ n # None /\ m # None
  BY TextsAre, CatalogueAssumption
<1>2. /\ j \in Req /\ j.to = n /\ j.text = t
      /\ j.stage = IF m = n THEN "save" ELSE "erase"
      /\ j.from = IF m = n THEN None ELSE m
  BY <1>1 DEF Idle, Req, Stage
<1>3. Shape(j)
  BY <1>1, <1>2 DEF Shape
<1>4. Changed(j.from, j.to, j.text) = Changed(m, n, t)
  BY <1>1, <1>2, CatalogueAssumption DEF Changed
<1>5. memory' = Changed(j.from, j.to, j.text) /\ Loaded /\ Persists /\ Begins(r, j)
  BY <1>4 DEF Change
<1>6. (j.stage = "save" /\ j.from = None) \/ j.stage = "erase"
  BY <1>2
<1> HIDE DEF j
<1> QED
  BY <1>2, <1>3, <1>5, <1>6, ChangeHandles

LEMMA DiscardHandles ==
    ASSUME CatalogueTypeOK, NEW r \in Request, NEW m \in Name, Discard(r, m)
    PROVE  Handles(r)
<1> DEFINE j == [Idle EXCEPT !.stage = "erase", !.from = m]
<1>1. m # None
  BY CatalogueAssumption
<1>2. j \in Req /\ j.stage = "erase" /\ j.from = m /\ j.to = None /\ j.text = None
  BY DEF Idle, Req, Stage
<1>3. Shape(j)
  BY <1>1, <1>2 DEF Shape
<1>4. memory' = Changed(j.from, j.to, j.text) /\ Loaded /\ Persists /\ Begins(r, j)
  BY <1>2 DEF Discard
<1> HIDE DEF j
<1> QED
  BY <1>2, <1>3, <1>4, ChangeHandles

LEMMA DomainHandles ==
    ASSUME CatalogueTypeOK, Shapes, NEW r \in Request,
           CreateDomain(r) \/ UpdateDomain(r) \/ DeleteDomain(r)
    PROVE  Handles(r)
<1> DEFINE j(s) == [Idle EXCEPT !.stage = s]
<1>1. \A s \in {"row", "drop"} : j(s) \in Req /\ j(s).stage = s /\ j(s).from = None /\ j(s).to = None
  BY DEF Idle, Req, Stage
<1>2. \A s \in {"row", "drop"} : Shape(j(s))
  BY <1>1 DEF Shape
<1>3. Touches(j("row")) = {Whole} /\ Touches(j("drop")) = Name \cup {Whole}
  BY <1>1, TouchesAre
<1>4. Blank \in Contents /\ Blank # None /\ \A n \in Name : Blank[n] = None
  BY BlankIsContents, ContentsAreLoaded
<1>5. memory \in Contents /\ file \in Contents \cup {None} /\ mishaps \in 0 .. MaxMishaps
  BY DEF CatalogueTypeOK
<1>6. CASE CreateDomain(r) \/ UpdateDomain(r)
  <2>1. /\ file' # None
        /\ file' \in Contents \cup {None}
        /\ memory' = memory
        /\ mishaps' = mishaps
        /\ Begins(r, j("row"))
    BY <1>4, <1>5, <1>6 DEF CreateDomain, UpdateDomain, Loaded
  <2>2. RowsSoFar(j("row"))' /\ DocsSoFar(j("row"))'
    BY <1>1, <2>1 DEF RowsSoFar, DocsSoFar, Loaded
  <2> HIDE DEF j
  <2>3. /\ memory' \in Contents /\ mishaps' \in 0 .. MaxMishaps /\ Loaded'
        /\ \A n \in Name \ Touches(j("row")) : memory'[n] = memory[n]
        /\ Whole \in Touches(j("row"))
    BY <1>3, <1>5, <2>1 DEF Loaded
  <2> QED
    BY <1>1, <1>2, <2>1, <2>2, <2>3 DEF Handles
<1>7. CASE DeleteDomain(r)
  <2>1. file' = None /\ memory' = Blank /\ mishaps' = mishaps /\ Begins(r, j("drop"))
    BY <1>7 DEF DeleteDomain
  <2>2. ~Loaded' /\ InMemory' = {}
    BY <1>4, <2>1 DEF Loaded, InMemory
  <2>3. RowsSoFar(j("drop"))' /\ DocsSoFar(j("drop"))'
    BY <1>1, <2>2 DEF RowsSoFar, DocsSoFar
  <2> HIDE DEF j
  <2>4. /\ memory' \in Contents /\ file' \in Contents \cup {None} /\ mishaps' \in 0 .. MaxMishaps
        /\ \A n \in Name \ Touches(j("drop")) : memory'[n] = memory[n]
        /\ Whole \in Touches(j("drop"))
    BY <1>3, <1>4, <1>5, <2>1
  <2> QED
    BY <1>1, <1>2, <2>1, <2>2, <2>3, <2>4 DEF Handles
<1> QED
  BY <1>6, <1>7

(* The steps of a request and of the process, and the handlers.            *)
LEMMA NextIs ==
    ASSUME CatalogueTypeOK, Shapes, [CatalogueNext]_catalogueVars
    PROVE  \/ \E r \in Request :
                 \/ Handles(r)
                 \/ SaveRow(r) \/ EraseRow(r) \/ StatementFails(r) \/ SaveDomain(r)
                 \/ DropDomain(r) \/ Sync(r) \/ Clean(r) \/ IndexMetric(r)
           \/ Restart
           \/ UNCHANGED catalogueVars
<1>1. ASSUME NEW r \in Request, NEW n \in Name, NEW t \in Says[n], AddTerm(r, n, t) \/ AddRule(r, n, t)
      PROVE  Handles(r)
  BY <1>1, AddHandles DEF AddTerm, AddRule
<1>2. ASSUME NEW r \in Request, NEW m \in Name, NEW n \in Name, NEW t \in Says[n],
             ChangeTerm(r, m, n, t) \/ ChangeRule(r, m, n, t)
      PROVE  Handles(r)
  BY <1>2, ChangeOfHandles DEF ChangeTerm, ChangeRule
<1>3. ASSUME NEW r \in Request, NEW m \in Name, RemoveTerm(r, m) \/ RemoveRule(r, m)
      PROVE  Handles(r)
  BY <1>3, DiscardHandles DEF RemoveTerm, RemoveRule
<1>4. ASSUME NEW r \in Request, CreateDomain(r) \/ UpdateDomain(r) \/ DeleteDomain(r)
      PROVE  Handles(r)
  BY <1>4, DomainHandles
<1> QED
  BY <1>1, <1>2, <1>3, <1>4 DEF CatalogueNext

-----------------------------------------------------------------------------
(* Types *)

(* What a step of one request leaves alone, and what it has to respect.    *)
LEMMA StepTypes ==
    ASSUME CatalogueTypeOK, Shapes, NEW r \in Request, NEW k \in Req, Shape(k),
           req' = [req EXCEPT ![r] = k], UNCHANGED <<kind, file, memory>>,
           row' \in BOOLEAN, rows' \in [Name -> SUBSET Text],
           ~row' => \A n \in Name : rows'[n] = {},
           lance' \in [Name -> SUBSET Text], bm25' \in Contents, mishaps' \in 0 .. MaxMishaps,
           badRows' \subseteq Name \cup {Whole}, badDocs' \subseteq Name
    PROVE  CatalogueTypeOK' /\ Shapes'
<1>1. req \in [Request -> Req]
  BY DEF CatalogueTypeOK
<1>2. req' \in [Request -> Req] /\ req'[r] = k /\ \A q \in Request \ {r} : req'[q] = req[q]
  BY <1>1
<1>3. CatalogueTypeOK'
  BY <1>2 DEF CatalogueTypeOK, Contents
<1>4. \A q \in Request : Shape(req'[q])
  BY <1>2 DEF Shapes
<1> QED
  BY <1>3, <1>4 DEF Shapes, Shape, Loaded, InMemory

LEMMA MishapIs ==
    ASSUME CatalogueTypeOK, Mishap \/ UNCHANGED mishaps
    PROVE  mishaps' \in 0 .. MaxMishaps
BY CatalogueAssumption DEF Mishap, CatalogueTypeOK

LEMMA RowsSettled ==
    ASSUME CatalogueTypeOK, NEW j \in Req, SettlesRows(j)
    PROVE  badRows' \subseteq Name \cup {Whole}
BY TouchesAre DEF CatalogueTypeOK, SettlesRows

LEMMA DocsSettled ==
    ASSUME CatalogueTypeOK, NEW j \in Req, SettlesDocs(j)
    PROVE  badDocs' \subseteq Name
BY TouchesAre DEF CatalogueTypeOK, SettlesDocs

LEMMA SavedIs ==
    ASSUME CatalogueTypeOK, NEW n \in Name, NEW t \in Text
    PROVE  /\ [rows EXCEPT ![n] = Saved(n, t)] \in [Name -> SUBSET Text]
           /\ [rows EXCEPT ![n] = {}] \in [Name -> SUBSET Text]
BY DEF CatalogueTypeOK, Saved

(* What a batch of documents leaves in the two indexes.                    *)
LEMMA IndexMetricsIs ==
    ASSUME CatalogueTypeOK, NEW batch \in SUBSET Name, NEW text,
           \A n \in batch : text[n] \in Says[n],
           NEW done \in SUBSET IndexSteps, IndexMetrics(batch, text, done)
    PROVE  /\ lance' \in [Name -> SUBSET Text] /\ bm25' \in Contents
           /\ \A n \in Name \ batch : lance'[n] = lance[n] /\ bm25'[n] = bm25[n]
<1>1. /\ lance \in [Name -> SUBSET Text]
      /\ bm25 \in [Name -> Text \cup {None}] /\ \A n \in Name : bm25[n] \in Says[n] \cup {None}
      /\ \A n \in batch : text[n] \in Text
  BY ContentsAre, CatalogueAssumption DEF CatalogueTypeOK
<1>2. lance' = [n \in Name |-> IF n \in batch
                               THEN (IF "deleted" \in done THEN {} ELSE lance[n])
                                    \cup (IF "inserted" \in done THEN {text[n]} ELSE {})
                               ELSE lance[n]]
  BY DEF IndexMetrics
<1>3. PICK gone \in SUBSET batch :
         /\ "keyed" \in done \/ "inserted" \notin done => gone = {}
         /\ bm25' = [n \in Name |-> IF "keyed" \in done /\ n \in batch THEN text[n]
                                    ELSE IF n \in gone THEN None ELSE bm25[n]]
  BY DEF IndexMetrics
<1>4. \A n \in Name : lance'[n] = IF n \in batch THEN (IF "deleted" \in done THEN {} ELSE lance[n])
                                                \cup (IF "inserted" \in done THEN {text[n]} ELSE {})
                                  ELSE lance[n]
  BY <1>2
<1>5. \A n \in Name : bm25'[n] = IF "keyed" \in done /\ n \in batch THEN text[n]
                                 ELSE IF n \in gone THEN None ELSE bm25[n]
  BY <1>3
<1>6. lance' \in [Name -> SUBSET Text]
  BY <1>1, <1>2
<1>7. bm25' \in Contents
  <2>1. bm25' \in [Name -> Text \cup {None}]
    BY <1>1, <1>3
  <2>2. \A n \in Name : bm25'[n] \in Says[n] \cup {None}
    BY <1>1, <1>5
  <2> QED
    BY <2>1, <2>2, ContentsAre
<1>11. \A n \in Name \ batch : lance'[n] = lance[n] /\ bm25'[n] = bm25[n]
  BY <1>1, <1>3, <1>4, <1>5
<1> QED
  BY <1>6, <1>7, <1>11

(* A batch that comes to its end, and one that does not come to LanceDB.   *)
LEMMA AllIndexed ==
    ASSUME NEW batch \in SUBSET Name, NEW text, IndexMetrics(batch, text, IndexSteps), NEW n \in batch
    PROVE  lance'[n] = {text[n]} /\ bm25'[n] = text[n]
BY DEF IndexMetrics, IndexSteps

LEMMA NothingIndexed ==
    ASSUME CatalogueTypeOK, NEW batch \in SUBSET Name, NEW text, IndexMetrics(batch, text, {}),
           NEW n \in Name
    PROVE  lance'[n] = lance[n] /\ bm25'[n] = bm25[n]
BY DEF IndexMetrics, CatalogueTypeOK

LEMMA CatTypes ==
    ASSUME CatalogueTypeOK, Shapes, [CatalogueNext]_catalogueVars
    PROVE  CatalogueTypeOK' /\ Shapes'
<1> USE DEF tables, indexes, marks
<1>0. /\ row \in BOOLEAN /\ rows \in [Name -> SUBSET Text] /\ (~row => \A n \in Name : rows[n] = {})
      /\ lance \in [Name -> SUBSET Text] /\ bm25 \in Contents /\ mishaps \in 0 .. MaxMishaps
      /\ badRows \subseteq Name \cup {Whole} /\ badDocs \subseteq Name
      /\ req \in [Request -> Req] /\ memory \in Contents
  BY DEF CatalogueTypeOK
<1>1. ASSUME NEW r \in Request, Handles(r)
      PROVE  CatalogueTypeOK' /\ Shapes'
  <2>1. PICK j \in Req :
           /\ Begins(r, j) /\ Shape(j)
           /\ memory' \in Contents /\ file' \in Contents \cup {None} /\ mishaps' \in 0 .. MaxMishaps
           /\ Loaded' \/ InMemory' = {}
    BY <1>1 DEF Handles
  <2>2. /\ req' \in [Request -> Req] /\ Same(req'[r], j)
        /\ \A q \in Request \ {r} : Same(req'[q], req[q])
    BY <2>1, BeginsIs
  <2>3. \A q \in Request : Shape(req'[q])
    <3> TAKE q \in Request
    <3>1. CASE q = r
      BY <2>1, <2>2, <3>1 DEF Shape, Same
    <3>2. CASE q # r
      BY <2>2, <3>2 DEF Shapes, Shape, Same
    <3> QED
      BY <3>1, <3>2
  <2>4. UNCHANGED <<kind, tables, indexes, marks>>
    BY <2>1 DEF Begins
  <2>5. CatalogueTypeOK'
    BY <2>1, <2>2, <2>4 DEF CatalogueTypeOK, Contents
  <2> QED
    BY <2>1, <2>3, <2>5 DEF Shapes, Shape, Loaded, InMemory
<1>2. ASSUME NEW r \in Request
      PROVE  /\ req[r] \in Req /\ Shape(req[r])
             /\ req[r].to \in Name => req[r].text \in Text /\ req[r].text \in Says[req[r].to]
             /\ \A s \in Stage : [req[r] EXCEPT !.stage = s] \in Req
             /\ \A s \in Stage : [req[r] EXCEPT !.stage = s, !.rowsOk = FALSE] \in Req
             /\ [req[r] EXCEPT !.rowsOk = FALSE] \in Req
             /\ \A b \in BOOLEAN : [req[r] EXCEPT !.docsOk = b] \in Req
  <2>1. req[r] \in Req /\ Shape(req[r])
    BY <1>0 DEF Shapes
  <2>2. req[r].to \in Name => req[r].text \in Text /\ req[r].text \in Says[req[r].to]
    BY <2>1, CatalogueAssumption DEF Shape
  <2> QED
    BY <2>1, <2>2 DEF Req
<1>3. ASSUME NEW r \in Request, SaveRow(r) \/ EraseRow(r)
      PROVE  CatalogueTypeOK' /\ Shapes'
  <2> DEFINE j == req[r]
             stage == IF j.stage = "erase" /\ j.to # None THEN "save" ELSE "sync"
             k == [j EXCEPT !.stage = stage]
  <2>1. stage \in Stage /\ k \in Req
    BY <1>2 DEF Stage
  <2>2. Shape(k)
    BY <1>2, <2>1 DEF Shape, Req
  <2>3. req' = [req EXCEPT ![r] = k]
    BY <1>0, <1>3 DEF SaveRow, EraseRow, Goes
  <2>4. rows' \in [Name -> SUBSET Text] /\ (~row' => \A n \in Name : rows'[n] = {}) /\ row' = row
    <3>1. CASE SaveRow(r)
      <4>1. req[r].stage = "save" /\ row /\ row' = row
            /\ rows' = [rows EXCEPT ![req[r].to] = Saved(req[r].to, req[r].text)]
        BY <3>1 DEF SaveRow
      <4>2. req[r].to \in Name /\ req[r].text \in Text
        BY <1>2, <4>1 DEF Shape
      <4> QED
        BY <4>1, <4>2, SavedIs
    <3>2. CASE EraseRow(r)
      BY <1>0, <1>2, <3>2 DEF EraseRow, Shape
    <3> QED
      BY <1>3, <3>1, <3>2
  <2>5. UNCHANGED <<kind, file, memory, lance, bm25, mishaps, badRows, badDocs>>
    BY <1>3 DEF SaveRow, EraseRow
  <2> HIDE DEF k
  <2> QED
    BY <1>0, <2>1, <2>2, <2>3, <2>4, <2>5, StepTypes
<1>4. ASSUME NEW r \in Request, StatementFails(r)
      PROVE  CatalogueTypeOK' /\ Shapes'
  <2> DEFINE j == req[r]
             k == [j EXCEPT !.stage = "sync", !.rowsOk = FALSE]
  <2>1. k \in Req
    BY <1>2 DEF Stage
  <2>2. Shape(k)
    BY <1>2, <2>1 DEF Shape, Req
  <2>3. req' = [req EXCEPT ![r] = k]
    BY <1>0, <1>4 DEF StatementFails
  <2>4. rows' \in [Name -> SUBSET Text] /\ (~row' => \A n \in Name : rows'[n] = {}) /\ row' = row
    <3>1. row' = row /\ \/ rows' = rows
                        \/ j.stage = "save" /\ row /\ rows' = [rows EXCEPT ![j.to] = Saved(j.to, j.text)]
                        \/ j.stage = "erase" /\ rows' = [rows EXCEPT ![j.from] = {}]
      BY <1>4 DEF StatementFails
    <3>2. CASE rows' = rows
      BY <1>0, <3>1, <3>2
    <3>3. CASE j.stage = "save" /\ row /\ rows' = [rows EXCEPT ![j.to] = Saved(j.to, j.text)]
      <4>1. j.to \in Name /\ j.text \in Text
        BY <1>2, <3>3 DEF Shape
      <4> QED
        BY <3>1, <3>3, <4>1, SavedIs
    <3>4. CASE j.stage = "erase" /\ rows' = [rows EXCEPT ![j.from] = {}]
      <4>1. j.from \in Name
        BY <1>2, <3>4 DEF Shape
      <4> QED
        BY <1>0, <3>1, <3>4, <4>1
    <3> QED
      BY <3>1, <3>2, <3>3, <3>4
  <2>5. UNCHANGED <<kind, file, memory, lance, bm25, badRows, badDocs>> /\ mishaps' \in 0 .. MaxMishaps
    BY <1>4, MishapIs DEF StatementFails
  <2> HIDE DEF k
  <2> QED
    BY <1>0, <2>1, <2>2, <2>3, <2>4, <2>5, StepTypes
<1>5. ASSUME NEW r \in Request, SaveDomain(r)
      PROVE  CatalogueTypeOK' /\ Shapes'
  <2>1. UNCHANGED <<kind, file, memory, rows, lance, bm25, badDocs>> /\ req' = [req EXCEPT ![r] = Idle]
    BY <1>5 DEF SaveDomain
  <2>2. row' \in BOOLEAN /\ (~row' => ~row) /\ mishaps' \in 0 .. MaxMishaps
    BY <1>0, <1>5, MishapIs DEF SaveDomain
  <2>3. badRows' \subseteq Name \cup {Whole}
    BY <1>2, <1>5, RowsSettled DEF SaveDomain
  <2>4. Shape(Idle)
    BY IdleIs DEF Shape
  <2> QED
    BY <1>0, <2>1, <2>2, <2>3, <2>4, IdleIs, StepTypes
<1>6. ASSUME NEW r \in Request, DropDomain(r)
      PROVE  CatalogueTypeOK' /\ Shapes'
  <2> DEFINE k == req'[r]
  <2>1. k \in Req /\ Shape(k) /\ req' = [req EXCEPT ![r] = k]
    <3>1. \/ k = [req[r] EXCEPT !.stage = "clean"]
          \/ k = [req[r] EXCEPT !.stage = "clean", !.rowsOk = FALSE]
      BY <1>0, <1>6 DEF DropDomain, Goes
    <3>2. k \in Req
      BY <1>2, <3>1 DEF Stage
    <3>3. k.stage = "clean" /\ k.from = req[r].from /\ k.to = req[r].to /\ k.text = req[r].text
      BY <1>2, <3>1 DEF Req
    <3>4. Shape(k)
      BY <1>2, <3>3 DEF Shape
    <3>5. req' = [req EXCEPT ![r] = k]
      BY <1>0, <1>6 DEF DropDomain, Goes
    <3> QED
      BY <3>2, <3>4, <3>5
  <2>2. UNCHANGED <<kind, file, memory, lance, bm25, badRows, badDocs>> /\ mishaps' \in 0 .. MaxMishaps
    BY <1>6, MishapIs DEF DropDomain
  <2>3. row' \in BOOLEAN /\ rows' \in [Name -> SUBSET Text] /\ (~row' => \A n \in Name : rows'[n] = {})
    BY <1>0, <1>6 DEF DropDomain
  <2> HIDE DEF k
  <2> QED
    BY <1>0, <2>1, <2>2, <2>3, StepTypes
<1>7. ASSUME NEW r \in Request, Sync(r)
      PROVE  CatalogueTypeOK' /\ Shapes'
  <2> DEFINE j == req[r]
             k == IF j.to = None THEN Idle ELSE [j EXCEPT !.stage = "index", !.from = None, !.rowsOk = TRUE]
  <2>1. k \in Req /\ Shape(k)
    <3>1. CASE j.to = None
      BY <3>1, IdleIs DEF Shape
    <3>2. CASE j.to # None
      <4> DEFINE m == [j EXCEPT !.stage = "index", !.from = None, !.rowsOk = TRUE]
      <4>1. j \in Req
        BY <1>2
      <4>2. m \in Req /\ m.stage = "index" /\ m.from = None /\ m.to = j.to /\ m.text = j.text
        BY <4>1 DEF Req, Stage
      <4>3. Shape(m)
        BY <1>2, <3>2, <4>1, <4>2 DEF Shape, Req
      <4> QED
        BY <3>2, <4>2, <4>3
    <3> QED
      BY <3>1, <3>2
  <2>3. req' = [req EXCEPT ![r] = k]
    BY <1>0, <1>7 DEF Sync
  <2>4. UNCHANGED <<kind, file, memory, row, rows, bm25>> /\ mishaps' \in 0 .. MaxMishaps
    BY <1>7, MishapIs DEF Sync
  <2>5. lance' \in [Name -> SUBSET Text]
    BY <1>0, <1>2, <1>7 DEF Sync, Purged
  <2>6. badRows' \subseteq Name \cup {Whole}
    BY <1>2, <1>7, RowsSettled DEF Sync
  <2>7. badDocs' \subseteq Name
    <3>1. [j EXCEPT !.to = None] \in Req /\ [[j EXCEPT !.docsOk = FALSE] EXCEPT !.to = None] \in Req
      BY <1>2 DEF Req
    <3>2. \/ SettlesDocs([j EXCEPT !.to = None])
          \/ SettlesDocs([[j EXCEPT !.docsOk = FALSE] EXCEPT !.to = None])
      BY <1>7 DEF Sync
    <3> QED
      BY <3>1, <3>2, DocsSettled
  <2> HIDE DEF k
  <2> QED
    BY <1>0, <2>1, <2>3, <2>4, <2>5, <2>6, <2>7, StepTypes
<1>8. ASSUME NEW r \in Request, Clean(r)
      PROVE  CatalogueTypeOK' /\ Shapes'
  <2>1. UNCHANGED <<kind, file, memory, row, rows>> /\ req' = [req EXCEPT ![r] = Idle]
    BY <1>8 DEF Clean
  <2>2. PICK d \in BOOLEAN, s \in BOOLEAN :
           /\ IF d /\ s THEN UNCHANGED mishaps ELSE Mishap
           /\ lance' = IF d THEN [n \in Name |-> {}] ELSE lance
           /\ bm25' = IF s THEN Blank ELSE bm25
           /\ SettlesDocs(IF d /\ s THEN req[r] ELSE [req[r] EXCEPT !.docsOk = FALSE])
    BY <1>8 DEF Clean
  <2>3. mishaps' \in 0 .. MaxMishaps
    BY <2>2, MishapIs
  <2>4. lance' \in [Name -> SUBSET Text] /\ bm25' \in Contents
    BY <1>0, <2>2, BlankIsContents
  <2>5. badRows' \subseteq Name \cup {Whole}
    BY <1>2, <1>8, RowsSettled DEF Clean
  <2>6. badDocs' \subseteq Name
    <3>1. req[r] \in Req /\ [req[r] EXCEPT !.docsOk = FALSE] \in Req
      BY <1>2
    <3>2. SettlesDocs(req[r]) \/ SettlesDocs([req[r] EXCEPT !.docsOk = FALSE])
      BY <2>2
    <3> QED
      BY <3>1, <3>2, DocsSettled
  <2>7. Shape(Idle)
    BY IdleIs DEF Shape
  <2> QED
    BY <1>0, <2>1, <2>3, <2>4, <2>5, <2>6, <2>7, IdleIs, StepTypes
<1>9. ASSUME NEW r \in Request, IndexMetric(r)
      PROVE  CatalogueTypeOK' /\ Shapes'
  <2> DEFINE j == req[r]
  <2>1. UNCHANGED <<kind, file, memory, row, rows, badRows>> /\ req' = [req EXCEPT ![r] = Idle]
        /\ j.stage = "index" /\ mishaps' \in 0 .. MaxMishaps
    BY <1>9, MishapIs DEF IndexMetric
  <2>2. j.to \in Name /\ j.text \in Text /\ j.text \in Says[j.to]
    BY <1>2, <2>1 DEF Shape
  <2> DEFINE batch == {j.to}
             text  == [n \in Name |-> j.text]
  <2>3. PICK done \in SUBSET IndexSteps : IndexMetrics(batch, text, done)
    BY <1>9 DEF IndexMetric
  <2>4. batch \in SUBSET Name /\ \A n \in batch : text[n] \in Says[n]
    BY <2>2
  <2>5. lance' \in [Name -> SUBSET Text] /\ bm25' \in Contents
    <3> HIDE DEF batch, text
    <3> QED
      BY <1>0, <2>3, <2>4, IndexMetricsIs
  <2>6. badDocs' \subseteq Name
    <3>1. [j EXCEPT !.docsOk = FALSE] \in Req
      BY <1>2
    <3>2. SettlesDocs(j) \/ SettlesDocs([j EXCEPT !.docsOk = FALSE])
      BY <1>9 DEF IndexMetric
    <3> QED
      BY <1>2, <3>1, <3>2, DocsSettled
  <2>7. Shape(Idle)
    BY IdleIs DEF Shape
  <2> QED
    BY <1>0, <2>1, <2>5, <2>6, <2>7, IdleIs, StepTypes
<1>10. ASSUME Restart
       PROVE  CatalogueTypeOK' /\ Shapes'
  <2>1. UNCHANGED <<kind, file, row, rows>> /\ mishaps' \in 0 .. MaxMishaps
        /\ memory' = (IF file = None THEN Blank ELSE file) /\ req' = [r \in Request |-> Idle]
    BY <1>10, MishapIs DEF Restart
  <2>2. memory' \in Contents
    BY <2>1, BlankIsContents DEF CatalogueTypeOK
  <2>3. /\ \A n \in Name : memory'[n] # None => memory'[n] \in Text
        /\ \A n \in Name : memory'[n] \in Says[n] \cup {None}
    BY <2>2, ContentsAre
  <2>4. badRows' \subseteq Name \cup {Whole} /\ badDocs' \subseteq Name
    <3>1. \A r \in Request : Touches(req[r]) \subseteq Name \cup {Whole}
      BY <1>0, TouchesAre
    <3> QED
      BY <1>0, <1>10, <3>1 DEF Restart
  <2>5. lance' \in [Name -> SUBSET Text] /\ bm25' \in Contents
    <3> DEFINE fresh == {n \in Name : memory'[n] # None /\ kind = "terms"}
    <3>1. PICK done \in SUBSET IndexSteps :
             IndexMetrics(fresh, memory', done)
      BY <1>10 DEF Restart
    <3>2. fresh \in SUBSET Name /\ \A n \in fresh : memory'[n] \in Says[n]
      BY <2>3
    <3> HIDE DEF fresh
    <3> QED
      BY <1>0, <3>1, <3>2, IndexMetricsIs
  <2>7. req' \in [Request -> Req]
    BY <2>1, IdleIs
  <2>8. CatalogueTypeOK'
    BY <1>0, <2>1, <2>2, <2>4, <2>5, <2>7 DEF CatalogueTypeOK, Contents
  <2>9. ~Loaded' => InMemory' = {}
    BY <2>1, BlankIsContents DEF Loaded, InMemory
  <2>10. \A q \in Request : Shape(req'[q])
    BY <2>1, IdleIs DEF Shape
  <2> QED
    BY <2>8, <2>9, <2>10 DEF Shapes, Shape, Loaded, InMemory
<1>11. CASE UNCHANGED catalogueVars
  BY <1>11 DEF catalogueVars, CatalogueTypeOK, Contents, Shapes, Shape, Loaded, InMemory
<1> QED
  BY <1>1, <1>3, <1>4, <1>5, <1>6, <1>7, <1>8, <1>9, <1>10, <1>11, NextIs

-----------------------------------------------------------------------------
(* Rows *)

(* Of the rows and of the domain, a step changes what is in T only.        *)
RowsKept(T) ==
    /\ kind' = kind
    /\ \A n \in Name \ T : memory'[n] = memory[n] /\ rows'[n] = rows[n]
    /\ Whole \in T \/ (row' = row /\ (Loaded' <=> Loaded))

LEMMA RowRightKept ==
    ASSUME NEW T, RowsKept(T), NEW n \in Name \ T
    PROVE  RowsRight(n) <=> RowsRight(n)'
BY DEF RowsKept, RowsRight

LEMMA RowsSoFarKept ==
    ASSUME CatalogueTypeOK, NEW T, RowsKept(T), NEW j \in Req, Holds(j) \cap T = {}, RowsSoFar(j)
    PROVE  RowsSoFar(j)'
<1>1. j.from \in Name \cup {None} /\ j.to \in Name \cup {None}
  BY DEF Req
<1>2. CASE j.stage \in {"idle", "index"}
  BY <1>2 DEF RowsSoFar
<1>3. CASE j.stage \in {"erase", "save", "sync"}
  <2>1. Holds(j) = {j.from, j.to} \ {None}
    BY <1>3, TouchesAre DEF Holds
  <2>2. \A n \in {j.from, j.to} \ {None} : n \in Name \ T
    BY <1>1, <2>1
  <2>3. \A n \in {j.from, j.to} \ {None} :
           /\ memory'[n] = memory[n] /\ rows'[n] = rows[n]
           /\ RowsRight(n) <=> RowsRight(n)'
    BY <2>2, RowRightKept DEF RowsKept
  <2>4. Stands(j) => Stands(j)'
    BY <2>3 DEF Stands
  <2> QED
    BY <1>3, <2>3, <2>4 DEF RowsSoFar
<1>4. CASE j.stage = "row"
  <2>1. Whole \notin T
    BY <1>4, TouchesAre DEF Holds
  <2> QED
    BY <1>4, <2>1 DEF RowsSoFar, RowsKept
<1>5. CASE j.stage \in {"drop", "clean"}
  <2>1. T \cap (Name \cup {Whole}) = {}
    BY <1>5, TouchesAre DEF Holds
  <2>2. /\ \A n \in Name : memory'[n] = memory[n] /\ rows'[n] = rows[n]
        /\ row' = row /\ (Loaded' <=> Loaded)
    BY <2>1 DEF RowsKept
  <2>3. InMemory = {} => InMemory' = {}
    BY <2>2 DEF InMemory
  <2> QED
    BY <1>5, <2>2, <2>3 DEF RowsSoFar
<1> QED
  BY <1>2, <1>3, <1>4, <1>5 DEF Req, Stage

(* What the same request at the same place has made so far is the same.    *)
LEMMA SoFarSame ==
    ASSUME NEW j, NEW k, Same(j, k)
    PROVE  (RowsSoFar(j) <=> RowsSoFar(k)) /\ (DocsSoFar(j) <=> DocsSoFar(k))
BY DEF Same, RowsSoFar, DocsSoFar, Stands

LEMMA RowsBegin ==
    ASSUME CatalogueTypeOK, RowsInv, NEW r \in Request, Handles(r)
    PROVE  RowsInv'
<1>1. PICK j \in Req :
        /\ Begins(r, j)
        /\ j.stage \in {"erase", "save", "row", "drop"}
        /\ \A n \in Name \ Touches(j) : memory'[n] = memory[n]
        /\ Whole \in Touches(j) \/ (Loaded' <=> Loaded)
        /\ RowsSoFar(j)'
  BY DEF Handles
<1> DEFINE T == Touches(j)
<1>2. T = Holds(j)
  BY <1>1 DEF Holds
<1>3. UNCHANGED <<kind, row, rows, badRows>>
  BY <1>1 DEF Begins, tables, marks
<1>4. RowsKept(T)
  BY <1>1, <1>3 DEF RowsKept
<1>5. /\ req \in [Request -> Req] /\ req' \in [Request -> Req]
      /\ Same(req'[r], j) /\ (req'[r].rowsOk => j.rowsOk)
      /\ \A q \in Request \ {r} :
            /\ Same(req'[q], req[q])
            /\ req'[q].rowsOk => req[q].rowsOk
            /\ Touches(req[q]) \cap T # {} => ~req'[q].rowsOk /\ ~req'[r].rowsOk
  BY <1>1, BeginsIs DEF CatalogueTypeOK
<1>6. /\ Holds(req'[r]) = T
      /\ \A q \in Request \ {r} : Holds(req'[q]) = Holds(req[q]) /\ Holds(req[q]) \subseteq Touches(req[q])
  BY <1>2, <1>5, SameTouch, TouchesAre
<1> HIDE DEF T
<1>7. \A p, q \in Request : p # q /\ Holds(req'[p]) \cap Holds(req'[q]) # {} => ~req'[p].rowsOk
  <2> SUFFICES ASSUME NEW p \in Request, NEW q \in Request, p # q,
                      Holds(req'[p]) \cap Holds(req'[q]) # {}
               PROVE  ~req'[p].rowsOk
    OBVIOUS
  <2>1. CASE p = r
    BY <1>5, <1>6, <2>1
  <2>2. CASE q = r
    BY <1>5, <1>6, <2>2
  <2>3. CASE p # r /\ q # r
    BY <1>5, <1>6, <2>3 DEF RowsInv
  <2> QED
    BY <2>1, <2>2, <2>3
<1>8. \A q \in Request : req'[q].rowsOk => RowsSoFar(req[q])' 
  <2> SUFFICES ASSUME NEW q \in Request, req'[q].rowsOk PROVE RowsSoFar(req[q])'
    OBVIOUS
  <2>1. CASE q = r
    BY <1>1, <1>5, <2>1 DEF Same, RowsSoFar, Stands
  <2>2. CASE q # r
    <3>1. /\ req[q].rowsOk
          /\ RowsSoFar(req[q])
          /\ Holds(req[q]) \cap T = {}
          /\ req[q] \in Req
          /\ Same(req'[q], req[q])
      BY <1>5, <1>6, <2>2 DEF RowsInv
    <3>2. PICK k \in Req : k = req[q]
      BY <3>1
    <3>3. RowsSoFar(k)'
      BY <1>4, <3>1, <3>2, RowsSoFarKept
    <3> QED
      BY <3>1, <3>2, <3>3 DEF Same, RowsSoFar, Stands
  <2> QED
    BY <2>1, <2>2
<1>9. \A n \in Name \ badRows' : (\A q \in Request : n \notin Holds(req'[q])) => RowsRight(n)'
  <2> SUFFICES ASSUME NEW n \in Name \ badRows, \A q \in Request : n \notin Holds(req'[q])
               PROVE  RowsRight(n)'
    BY <1>3
  <2>1. n \notin T /\ \A q \in Request \ {r} : n \notin Holds(req[q])
    BY <1>6
  <2>2. req[r].stage = "idle" /\ Holds(req[r]) = {}
    BY <1>1, <1>5, TouchesAre DEF Begins
  <2>3. RowsRight(n)
    BY <2>1, <2>2 DEF RowsInv
  <2> QED
    BY <1>4, <2>1, <2>3, RowRightKept
<1>10. Whole \notin badRows' /\ (\A q \in Request : Whole \notin Holds(req'[q])) => (row' <=> Loaded')
  <2>1. req[r].stage = "idle" /\ Holds(req[r]) = {}
    BY <1>1, <1>5, TouchesAre DEF Begins
  <2> QED
    BY <1>3, <1>4, <1>6, <2>1 DEF RowsInv, RowsKept
<1> QED
  BY <1>7, <1>8, <1>9, <1>10 DEF RowsInv

(* A step of r, after which it is at k.                                    *)
LEMMA RowsStep ==
    ASSUME CatalogueTypeOK, RowsInv, NEW r \in Request, NEW k \in Req,
           req' = [req EXCEPT ![r] = k], RowsKept(Holds(req[r])),
           Holds(k) \subseteq Holds(req[r]),
           Holds(k) # {} /\ k.rowsOk => req[r].rowsOk,
           k.rowsOk => RowsSoFar(k)',
           \A x \in (Name \cup {Whole}) \ Holds(req[r]) : x \in badRows <=> x \in badRows',
           \A n \in Name \cap Holds(req[r]) : n \in Holds(k) \/ n \in badRows' \/ RowsRight(n)',
           Whole \in Holds(req[r]) => Whole \in Holds(k) \/ Whole \in badRows' \/ (row' <=> Loaded')
    PROVE  RowsInv'
<1> DEFINE T == Holds(req[r])
<1>1. req \in [Request -> Req] /\ req'[r] = k /\ \A q \in Request \ {r} : req'[q] = req[q]
  BY DEF CatalogueTypeOK
<1>2. \A p, q \in Request : p # q /\ Holds(req'[p]) \cap Holds(req'[q]) # {} => ~req'[p].rowsOk
  <2> SUFFICES ASSUME NEW p \in Request, NEW q \in Request, p # q,
                      Holds(req'[p]) \cap Holds(req'[q]) # {}
               PROVE  ~req'[p].rowsOk
    OBVIOUS
  <2>1. Holds(req'[p]) \subseteq Holds(req[p]) /\ Holds(req'[q]) \subseteq Holds(req[q])
    BY <1>1
  <2>2. ~req[p].rowsOk
    BY <2>1 DEF RowsInv
  <2> QED
    BY <1>1, <2>2
<1>3. \A q \in Request : req'[q].rowsOk => RowsSoFar(req[q])'
  <2> SUFFICES ASSUME NEW q \in Request, req'[q].rowsOk PROVE RowsSoFar(req[q])'
    OBVIOUS
  <2>1. CASE q = r
    BY <1>1, <2>1 DEF RowsSoFar, Stands
  <2>2. CASE q # r
    <3>1. req'[q] = req[q] /\ req[q] \in Req /\ req[q].rowsOk /\ RowsSoFar(req[q])
      BY <1>1, <2>2 DEF RowsInv
    <3>2. Holds(req[q]) \cap T = {}
      BY <2>2, <3>1 DEF RowsInv
    <3>3. PICK m \in Req : m = req[q]
      BY <3>1
    <3> HIDE DEF T
    <3>4. RowsKept(T)
      BY DEF T
    <3>5. RowsSoFar(m)'
      BY <3>1, <3>2, <3>3, <3>4, RowsSoFarKept
    <3> QED
      BY <3>1, <3>3, <3>5 DEF RowsSoFar, Stands
  <2> QED
    BY <2>1, <2>2
<1>4. \A n \in Name \ badRows' : (\A q \in Request : n \notin Holds(req'[q])) => RowsRight(n)'
  <2> SUFFICES ASSUME NEW n \in Name \ badRows', \A q \in Request : n \notin Holds(req'[q])
               PROVE  RowsRight(n)'
    OBVIOUS
  <2>1. n \notin Holds(k) /\ \A q \in Request \ {r} : n \notin Holds(req[q])
    BY <1>1
  <2>2. CASE n \in T
    BY <2>1, <2>2
  <2>3. CASE n \notin T
    <3>1. n \in Name \ badRows /\ \A q \in Request : n \notin Holds(req[q])
      BY <2>1, <2>3
    <3>2. RowsRight(n) /\ n \in Name \ T
      BY <2>3, <3>1 DEF RowsInv
    <3> HIDE DEF T
    <3>3. RowsKept(T)
      BY DEF T
    <3> QED
      BY <3>2, <3>3, RowRightKept
  <2> QED
    BY <2>2, <2>3
<1>5. Whole \notin badRows' /\ (\A q \in Request : Whole \notin Holds(req'[q])) => (row' <=> Loaded')
  <2> SUFFICES ASSUME Whole \notin badRows', \A q \in Request : Whole \notin Holds(req'[q])
               PROVE  row' <=> Loaded'
    OBVIOUS
  <2>1. Whole \notin Holds(k) /\ \A q \in Request \ {r} : Whole \notin Holds(req[q])
    BY <1>1
  <2>2. CASE Whole \in T
    BY <2>1, <2>2
  <2>3. CASE Whole \notin T
    <3>1. Whole \notin badRows /\ \A q \in Request : Whole \notin Holds(req[q])
      BY <2>1, <2>3
    <3> QED
      BY <2>3, <3>1 DEF RowsInv, RowsKept
  <2> QED
    BY <2>2, <2>3
<1> QED
  BY <1>2, <1>3, <1>4, <1>5 DEF RowsInv

LEMMA RowsSaves ==
    ASSUME CatalogueTypeOK, Shapes, RowsInv, NEW r \in Request, SaveRow(r) \/ EraseRow(r)
    PROVE  RowsInv'
<1>1. /\ req[r] \in Req /\ req \in [Request -> Req] /\ Shape(req[r])
      /\ rows \in [Name -> SUBSET Text]
  BY DEF CatalogueTypeOK, Shapes
<1>j. PICK j \in Req : j = req[r]
  BY <1>1
<1> DEFINE stage == IF j.stage = "erase" /\ j.to # None THEN "save" ELSE "sync"
<1>k. PICK k \in Req : k = [j EXCEPT !.stage = stage]
  BY DEF Req, Stage
<1>2. /\ k.stage = stage /\ k.from = j.from /\ k.to = j.to /\ k.text = j.text
      /\ k.rowsOk = j.rowsOk /\ k.stage \in {"save", "sync"}
      /\ Shape(j)
  BY <1>1, <1>j, <1>k DEF Req
<1>3. req' = [req EXCEPT ![r] = k] /\ j.stage \in {"save", "erase"}
  BY <1>1, <1>j, <1>k DEF SaveRow, EraseRow, Goes
<1>4. Holds(j) = {j.from, j.to} \ {None} /\ Holds(k) = {j.from, j.to} \ {None}
  BY <1>1, <1>2, <1>3, TouchesAre DEF Holds
<1>5. UNCHANGED <<kind, file, memory, row, badRows>>
  BY DEF SaveRow, EraseRow, marks
<1>6. /\ j.from \in Name \cup {None}
      /\ j.to \in Name \cup {None}
      /\ (j.to # None => j.text \in Text /\ j.text # None)
  BY <1>2, CatalogueAssumption, TextsAre DEF Req, Shape
<1>7. /\ j.stage = "save" => j.to \in Name /\ rows' = [rows EXCEPT ![j.to] = Saved(j.to, j.text)]
      /\ j.stage = "erase" => j.from \in Name /\ rows' = [rows EXCEPT ![j.from] = {}]
  BY <1>2, <1>j DEF SaveRow, EraseRow, Shape
<1>8. RowsKept(Holds(j))
  BY <1>1, <1>3, <1>4, <1>5, <1>7, CatalogueAssumption DEF RowsKept, Loaded
<1>9. k.rowsOk => RowsSoFar(k)'
  <2> SUFFICES ASSUME k.rowsOk PROVE RowsSoFar(k)'
    OBVIOUS
  <2>1. RowsSoFar(j)
    BY <1>2, <1>j DEF RowsInv
  <2>2. /\ j.from # None => memory'[j.from] = None
        /\ j.to # None => memory'[j.to] = j.text
        /\ j.from # j.to
    BY <1>2, <1>3, <1>5, <1>7, <2>1, CatalogueAssumption DEF RowsSoFar, Stands, Shape
  <2>3. CASE j.stage = "erase"
    <3>1. j.from \in Name /\ rows'[j.from] = {} /\ j.from # None
      BY <1>1, <1>7, <2>3, CatalogueAssumption
    <3>2. RowsRight(j.from)'
      BY <2>2, <3>1 DEF RowsRight
    <3> QED
      BY <1>2, <2>2, <2>3, <3>1, <3>2 DEF RowsSoFar, Stands, RowsRight
  <2>4. CASE j.stage = "save"
    <3>1. j.to \in Name /\ j.to # None /\ rows'[j.to] = Saved(j.to, j.text)
      BY <1>1, <1>7, <2>4, CatalogueAssumption
    <3>2. j.from # None => rows'[j.from] = {}
      BY <1>1, <1>6, <1>7, <2>1, <2>2, <2>4 DEF RowsSoFar
    <3>3. /\ memory'[j.to] = j.text /\ j.text # None
          /\ j.text \in rows'[j.to] /\ (kind # "terms" => rows'[j.to] = {j.text})
      BY <1>6, <2>2, <3>1 DEF Saved
    <3>4. /\ memory'[j.to] # None
          /\ memory'[j.to] \in rows'[j.to]
          /\ (kind' = "rules" => rows'[j.to] \subseteq {memory'[j.to]})
      BY <1>5, <3>3
    <3> QED
      BY <1>2, <2>2, <2>4, <3>1, <3>2, <3>4 DEF RowsSoFar, Stands, RowsRight
  <2> QED
    BY <1>3, <2>3, <2>4
<1> HIDE DEF stage
<1> QED
  BY <1>2, <1>3, <1>4, <1>5, <1>8, <1>9, <1>j, CatalogueAssumption, RowsStep

LEMMA RowsFails ==
    ASSUME CatalogueTypeOK, Shapes, RowsInv, NEW r \in Request, StatementFails(r)
    PROVE  RowsInv'
<1>1. /\ req[r] \in Req /\ req \in [Request -> Req] /\ Shape(req[r])
      /\ rows \in [Name -> SUBSET Text]
  BY DEF CatalogueTypeOK, Shapes
<1>j. PICK j \in Req : j = req[r]
  BY <1>1
<1>k. PICK k \in Req : k = [j EXCEPT !.stage = "sync", !.rowsOk = FALSE]
  BY DEF Req, Stage
<1>2. k.stage = "sync" /\ k.from = j.from /\ k.to = j.to /\ ~k.rowsOk /\ Shape(j)
  BY <1>1, <1>j, <1>k DEF Req
<1>3. req' = [req EXCEPT ![r] = k] /\ j.stage \in {"save", "erase"}
  BY <1>1, <1>j, <1>k DEF StatementFails
<1>4. Holds(j) = {j.from, j.to} \ {None} /\ Holds(k) = {j.from, j.to} \ {None}
  BY <1>2, <1>3, TouchesAre DEF Holds
<1>5. UNCHANGED <<kind, file, memory, row, badRows>>
  BY DEF StatementFails, marks
<1>6. /\ j.stage = "save" => j.to \in Name
      /\ j.stage = "erase" => j.from \in Name
      /\ \/ rows' = rows
         \/ j.stage = "save" /\ rows' = [rows EXCEPT ![j.to] = Saved(j.to, j.text)]
         \/ j.stage = "erase" /\ rows' = [rows EXCEPT ![j.from] = {}]
  BY <1>2, <1>j DEF StatementFails, Shape
<1>7. RowsKept(Holds(j))
  BY <1>1, <1>4, <1>5, <1>6, CatalogueAssumption DEF RowsKept, Loaded
<1> QED
  BY <1>2, <1>3, <1>4, <1>5, <1>7, <1>j, RowsStep

LEMMA RowsOfDomain ==
    ASSUME CatalogueTypeOK, Shapes, RowsInv, NEW r \in Request, SaveDomain(r)
    PROVE  RowsInv'
<1>1. req[r] \in Req /\ req[r].stage = "row" /\ Holds(req[r]) = {Whole} /\ Touches(req[r]) = {Whole}
  BY TouchesAre DEF CatalogueTypeOK, SaveDomain, Holds
<1>2. Holds(Idle) = {}
  BY IdleIs, TouchesAre DEF Holds
<1>3. RowsSoFar(Idle)'
  BY IdleIs DEF RowsSoFar
<1>4. req' = [req EXCEPT ![r] = Idle] /\ UNCHANGED <<kind, file, memory, rows>>
  BY DEF SaveDomain
<1>5. RowsKept({Whole})
  BY <1>4 DEF RowsKept
<1>6. \/ row' = TRUE /\ SettlesRows(req[r])
      \/ SettlesRows([req[r] EXCEPT !.rowsOk = FALSE])
  BY DEF SaveDomain
<1>7. \/ row' = TRUE /\ req[r].rowsOk /\ badRows' = badRows \ {Whole}
      \/ badRows' = badRows \cup {Whole}
  <2>1. CASE row' = TRUE /\ SettlesRows(req[r])
    BY <1>1, <2>1 DEF SettlesRows
  <2>2. CASE SettlesRows([req[r] EXCEPT !.rowsOk = FALSE])
    <3>1. PICK k \in Req : k = [req[r] EXCEPT !.rowsOk = FALSE]
      BY <1>1 DEF Req
    <3>2. k.stage = "row" /\ ~k.rowsOk
      BY <1>1, <3>1 DEF Req
    <3>3. Touches(k) = {Whole} /\ SettlesRows(k)
      BY <2>2, <3>1, <3>2, TouchesAre
    <3> QED
      BY <3>2, <3>3 DEF SettlesRows
  <2> QED
    BY <1>6, <2>1, <2>2
<1>8. Whole \in badRows' \/ (row' <=> Loaded')
  BY <1>1, <1>4, <1>7 DEF RowsInv, RowsSoFar, Loaded
<1> QED
  BY <1>1, <1>2, <1>3, <1>4, <1>5, <1>7, <1>8, IdleIs, CatalogueAssumption, RowsStep

LEMMA RowsDrop ==
    ASSUME CatalogueTypeOK, Shapes, RowsInv, NEW r \in Request, DropDomain(r)
    PROVE  RowsInv'
<1>1. req[r] \in Req /\ req \in [Request -> Req] /\ req[r].stage = "drop"
  BY DEF CatalogueTypeOK, DropDomain
<1>2. PICK k \in Req : k = req'[r]
  <2>1. \/ req'[r] = [req[r] EXCEPT !.stage = "clean"]
        \/ req'[r] = [req[r] EXCEPT !.stage = "clean", !.rowsOk = FALSE]
    BY <1>1 DEF DropDomain, Goes
  <2> QED
    BY <1>1, <2>1 DEF Req, Stage
<1>3. /\ k.stage = "clean" /\ req' = [req EXCEPT ![r] = k]
      /\ k.rowsOk => req[r].rowsOk /\ row' = FALSE
  BY <1>1, <1>2 DEF DropDomain, Goes, Req
<1>4. Holds(req[r]) = Name \cup {Whole} /\ Holds(k) = Name \cup {Whole}
  BY <1>1, <1>3, TouchesAre DEF Holds
<1>5. UNCHANGED <<kind, file, memory>>
  BY DEF DropDomain
<1>6. RowsKept(Name \cup {Whole})
  BY <1>5 DEF RowsKept
<1>7. k.rowsOk => RowsSoFar(k)'
  BY <1>1, <1>3, <1>5 DEF RowsInv, RowsSoFar, Loaded, InMemory
<1> QED
  BY <1>3, <1>4, <1>6, <1>7, RowsStep

LEMMA RowsSync ==
    ASSUME CatalogueTypeOK, Shapes, RowsInv, NEW r \in Request, Sync(r)
    PROVE  RowsInv'
<1>1. /\ req[r] \in Req /\ req \in [Request -> Req] /\ req[r].stage = "sync"
      /\ req[r].from \in Name \cup {None} /\ req[r].to \in Name \cup {None}
  BY DEF CatalogueTypeOK, Sync, Req
<1>2. PICK k \in Req : k = IF req[r].to = None THEN Idle ELSE
                           [req[r] EXCEPT !.stage = "index", !.from = None, !.rowsOk = TRUE]
  BY <1>1, IdleIs DEF Req, Stage
<1>3. req' = [req EXCEPT ![r] = k]
  BY <1>1, <1>2 DEF Sync
<1>4. k.stage \in {"idle", "index"}
  BY <1>1, <1>2, IdleIs DEF Req
<1>5. Holds(k) = {} /\ RowsSoFar(k)'
  BY <1>4, TouchesAre DEF Holds, RowsSoFar
<1>6. UNCHANGED <<kind, file, memory, row, rows>>
  BY DEF Sync, tables
<1>7. Holds(req[r]) = Touches(req[r]) /\ Touches(req[r]) = {req[r].from, req[r].to} \ {None}
  BY <1>1, TouchesAre DEF Holds
<1>8. RowsKept(Holds(req[r]))
  BY <1>6 DEF RowsKept, Loaded
<1>9. badRows' = IF req[r].rowsOk THEN badRows \ Touches(req[r]) ELSE badRows \cup Touches(req[r])
  BY DEF Sync, SettlesRows
<1>10. ASSUME NEW n \in Holds(req[r]) PROVE n \in badRows' \/ RowsRight(n)'
  <2>1. CASE req[r].rowsOk
    <3>1. RowsRight(n)
      BY <1>1, <1>7, <2>1 DEF RowsInv, RowsSoFar
    <3> QED
      BY <1>6, <3>1 DEF RowsRight
  <2>2. CASE ~req[r].rowsOk
    BY <1>7, <1>9, <2>2
  <2> QED
    BY <2>1, <2>2
<1>11. Whole \notin Holds(req[r])
  BY <1>1, <1>7, CatalogueAssumption
<1> QED
  BY <1>3, <1>5, <1>7, <1>8, <1>9, <1>10, <1>11, RowsStep

LEMMA RowsClean ==
    ASSUME CatalogueTypeOK, Shapes, RowsInv, NEW r \in Request, Clean(r)
    PROVE  RowsInv'
<1>1. /\ req[r] \in Req
      /\ req[r].stage = "clean"
      /\ Holds(req[r]) = Name \cup {Whole}
      /\ Touches(req[r]) = Name \cup {Whole}
  BY TouchesAre DEF CatalogueTypeOK, Clean, Holds
<1>2. Holds(Idle) = {}
  BY IdleIs, TouchesAre DEF Holds
<1>3. RowsSoFar(Idle)'
  BY IdleIs DEF RowsSoFar
<1>4. req' = [req EXCEPT ![r] = Idle] /\ UNCHANGED <<kind, file, memory, row, rows>>
  BY DEF Clean, tables
<1>5. RowsKept(Name \cup {Whole})
  BY <1>4 DEF RowsKept
<1>6. badRows' = IF req[r].rowsOk THEN badRows \ (Name \cup {Whole}) ELSE badRows \cup (Name \cup {Whole})
  BY <1>1 DEF Clean, SettlesRows
<1>7. CASE ~req[r].rowsOk
  BY <1>1, <1>2, <1>3, <1>4, <1>5, <1>6, <1>7, IdleIs, RowsStep
<1>8. CASE req[r].rowsOk
  <2>1. ~Loaded /\ InMemory = {} /\ ~row
    BY <1>1, <1>8 DEF RowsInv, RowsSoFar
  <2>2. \A n \in Name : rows[n] = {} /\ memory[n] = None
    BY <2>1 DEF CatalogueTypeOK, InMemory
  <2>3. \A n \in Name : RowsRight(n)'
    BY <1>4, <2>2 DEF RowsRight
  <2>4. row' <=> Loaded'
    BY <1>4, <2>1 DEF Loaded
  <2> QED
    BY <1>1, <1>2, <1>3, <1>4, <1>5, <1>6, <2>3, <2>4, IdleIs, RowsStep
<1> QED
  BY <1>7, <1>8

LEMMA RowsIndex ==
    ASSUME CatalogueTypeOK, Shapes, RowsInv, NEW r \in Request, IndexMetric(r)
    PROVE  RowsInv'
<1>1. req[r] \in Req /\ req[r].stage = "index" /\ Holds(req[r]) = {}
  BY DEF CatalogueTypeOK, IndexMetric, Holds
<1>2. Holds(Idle) = {}
  BY IdleIs, TouchesAre DEF Holds
<1>3. RowsSoFar(Idle)'
  BY IdleIs DEF RowsSoFar
<1>4. req' = [req EXCEPT ![r] = Idle] /\ UNCHANGED <<kind, file, memory, row, rows, badRows>>
  BY DEF IndexMetric, tables
<1>5. RowsKept({})
  BY <1>4 DEF RowsKept, Loaded
<1> QED
  BY <1>1, <1>2, <1>3, <1>4, <1>5, IdleIs, RowsStep

LEMMA RowsRestart ==
    ASSUME CatalogueTypeOK, Shapes, RowsInv, Restart
    PROVE  RowsInv'
<1>1. req' = [r \in Request |-> Idle] /\ UNCHANGED <<kind, file, row, rows>>
  BY DEF Restart, tables
<1>2. \A r \in Request : req'[r] = Idle
  BY <1>1
<1>3. Holds(Idle) = {} /\ RowsSoFar(Idle)'
  BY IdleIs, TouchesAre DEF Holds, RowsSoFar
<1> DEFINE cut == UNION {Touches(req[r]) : r \in Request}
           lost == {n \in Name : memory[n] # memory'[n]}
<1>4. badRows' = badRows \cup cut \cup lost
  BY Zenon DEF Restart
<1>c. \A r \in Request : Touches(req[r]) \subseteq cut
  OBVIOUS
<1>l. \A n \in Name : memory[n] = memory'[n] \/ n \in lost
  OBVIOUS
<1> HIDE DEF cut, lost
<1>5. \A x : x \notin badRows' => x \notin badRows /\ \A r \in Request : x \notin Holds(req[r])
  BY <1>4, <1>c, TouchesAre DEF CatalogueTypeOK
<1>6. ASSUME NEW n \in Name \ badRows' PROVE RowsRight(n)'
  <2>1. RowsRight(n) /\ memory[n] = memory'[n]
    BY <1>4, <1>5, <1>l DEF RowsInv
  <2> QED
    BY <1>1, <2>1 DEF RowsRight
<1>7. Whole \notin badRows' => (row' <=> Loaded')
  BY <1>1, <1>5 DEF RowsInv, Loaded
<1>8. \A q, r \in Request : Holds(req'[q]) \cap Holds(req'[r]) = {}
  BY <1>2, <1>3
<1>9. \A r \in Request : RowsSoFar(req[r])'
  BY <1>2, IdleIs DEF RowsSoFar
<1> QED
  BY <1>6, <1>7, <1>8, <1>9 DEF RowsInv

LEMMA RowsNext ==
    ASSUME CatalogueTypeOK, Shapes, RowsInv, [CatalogueNext]_catalogueVars
    PROVE  RowsInv'
<1>1. CASE UNCHANGED catalogueVars
  BY <1>1 DEF catalogueVars, RowsInv, RowsSoFar, RowsRight, Holds, Touches, Stands, Loaded, InMemory
<1> QED
  BY <1>1, NextIs, RowsBegin, RowsSaves, RowsFails, RowsOfDomain, RowsDrop, RowsSync, RowsClean,
     RowsIndex, RowsRestart

-----------------------------------------------------------------------------
(* Documents *)

(* Of what is searched for, a step changes what is in T only.              *)
DocsKept(T) == \A n \in Name \ T :
    memory'[n] = memory[n] /\ lance'[n] = lance[n] /\ bm25'[n] = bm25[n]

LEMMA DocRightKept ==
    ASSUME NEW T, DocsKept(T), NEW n \in Name \ T
    PROVE  DocsRight(n) <=> DocsRight(n)'
BY DEF DocsKept, DocsRight

LEMMA DocsSoFarKept ==
    ASSUME CatalogueTypeOK, NEW T, DocsKept(T), NEW j \in Req, Touches(j) \cap T = {}, DocsSoFar(j)
    PROVE  DocsSoFar(j)'
<1>1. j.from \in Name \cup {None} /\ j.to \in Name \cup {None}
  BY DEF Req
<1>2. CASE j.stage \in {"idle", "row"}
  BY <1>2 DEF DocsSoFar
<1>3. CASE j.stage \in {"erase", "save", "sync", "index"}
  <2>1. Touches(j) = {j.from, j.to} \ {None}
    BY <1>3, TouchesAre
  <2>2. \A n \in {j.from, j.to} \ {None} : memory'[n] = memory[n]
    BY <1>1, <2>1 DEF DocsKept
  <2> QED
    BY <1>3, <2>2 DEF DocsSoFar, Stands
<1>4. CASE j.stage \in {"drop", "clean"}
  <2>1. \A n \in Name : memory'[n] = memory[n]
    BY <1>4, TouchesAre DEF DocsKept
  <2> QED
    BY <1>4, <2>1 DEF DocsSoFar, InMemory
<1> QED
  BY <1>2, <1>3, <1>4 DEF Req, Stage

LEMMA DocsBegin ==
    ASSUME CatalogueTypeOK, DocsInv, NEW r \in Request, Handles(r)
    PROVE  DocsInv'
<1>1. PICK j \in Req :
        /\ Begins(r, j)
        /\ \A n \in Name \ Touches(j) : memory'[n] = memory[n]
        /\ DocsSoFar(j)'
  BY DEF Handles
<1> DEFINE T == Touches(j)
<1>3. UNCHANGED <<lance, bm25, badDocs>>
  BY <1>1 DEF Begins, indexes, marks
<1>4. DocsKept(T)
  BY <1>1, <1>3 DEF DocsKept
<1>5. /\ req \in [Request -> Req] /\ req' \in [Request -> Req]
      /\ Same(req'[r], j) /\ (req'[r].docsOk => j.docsOk)
      /\ \A q \in Request \ {r} :
            /\ Same(req'[q], req[q])
            /\ req'[q].docsOk => req[q].docsOk
            /\ Touches(req[q]) \cap T # {} => ~req'[q].docsOk /\ ~req'[r].docsOk
  BY <1>1, BeginsIs DEF CatalogueTypeOK
<1>6. Touches(req'[r]) = T /\ \A q \in Request \ {r} : Touches(req'[q]) = Touches(req[q])
  BY <1>5, SameTouch
<1> HIDE DEF T
<1>7. \A p, q \in Request : p # q /\ Touches(req'[p]) \cap Touches(req'[q]) # {} => ~req'[p].docsOk
  <2> SUFFICES ASSUME NEW p \in Request, NEW q \in Request, p # q,
                      Touches(req'[p]) \cap Touches(req'[q]) # {}
               PROVE  ~req'[p].docsOk
    OBVIOUS
  <2>1. CASE p = r
    BY <1>5, <1>6, <2>1
  <2>2. CASE q = r
    BY <1>5, <1>6, <2>2
  <2>3. CASE p # r /\ q # r
    BY <1>5, <1>6, <2>3 DEF DocsInv
  <2> QED
    BY <2>1, <2>2, <2>3
<1>8. \A q \in Request : req'[q].docsOk => DocsSoFar(req[q])'
  <2> SUFFICES ASSUME NEW q \in Request, req'[q].docsOk PROVE DocsSoFar(req[q])'
    OBVIOUS
  <2>1. CASE q = r
    BY <1>1, <1>5, <2>1 DEF Same, DocsSoFar, Stands
  <2>2. CASE q # r
    <3>1. /\ req[q].docsOk
          /\ DocsSoFar(req[q])
          /\ Touches(req[q]) \cap T = {}
          /\ req[q] \in Req
          /\ Same(req'[q], req[q])
      BY <1>5, <1>6, <2>2 DEF DocsInv
    <3>2. PICK k \in Req : k = req[q]
      BY <3>1
    <3>3. DocsSoFar(k)'
      BY <1>4, <3>1, <3>2, DocsSoFarKept
    <3> QED
      BY <3>1, <3>2, <3>3 DEF Same, DocsSoFar, Stands
  <2> QED
    BY <2>1, <2>2
<1>9. \A n \in Name \ badDocs' : (\A q \in Request : n \notin Touches(req'[q])) => DocsRight(n)'
  <2> SUFFICES ASSUME NEW n \in Name \ badDocs, \A q \in Request : n \notin Touches(req'[q])
               PROVE  DocsRight(n)'
    BY <1>3
  <2>1. n \notin T /\ \A q \in Request \ {r} : n \notin Touches(req[q])
    BY <1>6
  <2>2. Touches(req[r]) = {}
    BY <1>1, <1>5, TouchesAre DEF Begins
  <2>3. DocsRight(n)
    BY <2>1, <2>2 DEF DocsInv
  <2> QED
    BY <1>4, <2>1, <2>3, DocRightKept
<1> QED
  BY <1>7, <1>8, <1>9 DEF DocsInv

LEMMA DocsStep ==
    ASSUME CatalogueTypeOK, DocsInv, NEW r \in Request, NEW k \in Req,
           req' = [req EXCEPT ![r] = k], DocsKept(Touches(req[r])),
           Touches(k) \subseteq Touches(req[r]),
           Touches(k) # {} /\ k.docsOk => req[r].docsOk,
           k.docsOk => DocsSoFar(k)',
           \A n \in Name \ Touches(req[r]) : n \in badDocs <=> n \in badDocs',
           \A n \in Name \cap Touches(req[r]) : n \in Touches(k) \/ n \in badDocs' \/ DocsRight(n)'
    PROVE  DocsInv'
<1> DEFINE T == Touches(req[r])
<1>1. req \in [Request -> Req] /\ req'[r] = k /\ \A q \in Request \ {r} : req'[q] = req[q]
  BY DEF CatalogueTypeOK
<1>2. \A p, q \in Request : p # q /\ Touches(req'[p]) \cap Touches(req'[q]) # {} => ~req'[p].docsOk
  <2> SUFFICES ASSUME NEW p \in Request, NEW q \in Request, p # q,
                      Touches(req'[p]) \cap Touches(req'[q]) # {}
               PROVE  ~req'[p].docsOk
    OBVIOUS
  <2>1. Touches(req'[p]) \subseteq Touches(req[p]) /\ Touches(req'[q]) \subseteq Touches(req[q])
    BY <1>1
  <2>2. ~req[p].docsOk
    BY <2>1 DEF DocsInv
  <2> QED
    BY <1>1, <2>2
<1>3. \A q \in Request : req'[q].docsOk => DocsSoFar(req[q])'
  <2> SUFFICES ASSUME NEW q \in Request, req'[q].docsOk PROVE DocsSoFar(req[q])'
    OBVIOUS
  <2>1. CASE q = r
    BY <1>1, <2>1 DEF DocsSoFar, Stands
  <2>2. CASE q # r
    <3>1. req'[q] = req[q] /\ req[q] \in Req /\ req[q].docsOk /\ DocsSoFar(req[q])
      BY <1>1, <2>2 DEF DocsInv
    <3>2. Touches(req[q]) \cap T = {}
      BY <2>2, <3>1 DEF DocsInv
    <3>3. PICK m \in Req : m = req[q]
      BY <3>1
    <3> HIDE DEF T
    <3>4. DocsKept(T)
      BY DEF T
    <3>5. DocsSoFar(m)'
      BY <3>1, <3>2, <3>3, <3>4, DocsSoFarKept
    <3> QED
      BY <3>1, <3>3, <3>5 DEF DocsSoFar, Stands
  <2> QED
    BY <2>1, <2>2
<1>4. \A n \in Name \ badDocs' : (\A q \in Request : n \notin Touches(req'[q])) => DocsRight(n)'
  <2> SUFFICES ASSUME NEW n \in Name \ badDocs', \A q \in Request : n \notin Touches(req'[q])
               PROVE  DocsRight(n)'
    OBVIOUS
  <2>1. n \notin Touches(k) /\ \A q \in Request \ {r} : n \notin Touches(req[q])
    BY <1>1
  <2>2. CASE n \in T
    BY <2>1, <2>2
  <2>3. CASE n \notin T
    <3>1. n \in Name \ badDocs /\ \A q \in Request : n \notin Touches(req[q])
      BY <2>1, <2>3
    <3>2. DocsRight(n) /\ n \in Name \ T
      BY <2>3, <3>1 DEF DocsInv
    <3> HIDE DEF T
    <3>3. DocsKept(T)
      BY DEF T
    <3> QED
      BY <3>2, <3>3, DocRightKept
  <2> QED
    BY <2>2, <2>3
<1> QED
  BY <1>2, <1>3, <1>4 DEF DocsInv

(* A step that changes neither memory nor documents: the statements.       *)
LEMMA DocsStatement ==
    ASSUME CatalogueTypeOK, DocsInv, NEW r \in Request,
           SaveRow(r) \/ EraseRow(r) \/ StatementFails(r) \/ DropDomain(r)
    PROVE  DocsInv'
<1>1. req[r] \in Req /\ req \in [Request -> Req] /\ req[r].stage \in {"erase", "save", "drop"}
  BY DEF CatalogueTypeOK, SaveRow, EraseRow, StatementFails, DropDomain
<1>2. PICK k \in Req : k = req'[r]
  <2>1. \/ \E s \in {"save", "sync", "clean"} : req'[r] = [req[r] EXCEPT !.stage = s]
        \/ \E s \in {"sync", "clean"} : req'[r] = [req[r] EXCEPT !.stage = s, !.rowsOk = FALSE]
    BY <1>1 DEF SaveRow, EraseRow, StatementFails, DropDomain, Goes
  <2> QED
    BY <1>1, <2>1 DEF Req, Stage
<1>3. /\ req' = [req EXCEPT ![r] = k]
      /\ k.from = req[r].from /\ k.to = req[r].to /\ k.text = req[r].text /\ k.docsOk = req[r].docsOk
      /\ \/ req[r].stage \in {"erase", "save"} /\ k.stage \in {"save", "sync"}
         \/ req[r].stage = "drop" /\ k.stage = "clean"
  BY <1>1, <1>2 DEF SaveRow, EraseRow, StatementFails, DropDomain, Goes, Req
<1>4. Touches(k) = Touches(req[r])
  BY <1>1, <1>3, TouchesAre
<1>5. UNCHANGED <<memory, lance, bm25, badDocs>>
  BY DEF SaveRow, EraseRow, StatementFails, DropDomain, indexes, marks
<1>6. \A T : DocsKept(T)
  BY <1>5 DEF DocsKept
<1>7. k.docsOk => DocsSoFar(k)'
  BY <1>1, <1>3, <1>5 DEF DocsInv, DocsSoFar, Stands, InMemory
<1> QED
  BY <1>3, <1>4, <1>5, <1>6, <1>7, DocsStep

LEMMA DocsOfDomain ==
    ASSUME CatalogueTypeOK, DocsInv, NEW r \in Request, SaveDomain(r)
    PROVE  DocsInv'
<1>1. Touches(req[r]) = {Whole}
  BY TouchesAre DEF CatalogueTypeOK, SaveDomain
<1>2. Touches(Idle) = {} /\ DocsSoFar(Idle)'
  BY IdleIs, TouchesAre DEF DocsSoFar
<1>3. req' = [req EXCEPT ![r] = Idle] /\ UNCHANGED <<memory, lance, bm25, badDocs>>
  BY DEF SaveDomain, indexes
<1>4. \A T : DocsKept(T)
  BY <1>3 DEF DocsKept
<1> QED
  BY <1>1, <1>2, <1>3, <1>4, IdleIs, CatalogueAssumption, DocsStep

LEMMA DocsSync ==
    ASSUME CatalogueTypeOK, Shapes, DocsInv, NEW r \in Request, Sync(r)
    PROVE  DocsInv'
<1>1. req[r] \in Req /\ req \in [Request -> Req] /\ Shape(req[r]) /\ lance \in [Name -> SUBSET Text]
  BY DEF CatalogueTypeOK, Shapes
<1>j. PICK j \in Req : j = req[r]
  BY <1>1
<1>2. /\ j.stage = "sync"
      /\ j.from \in Name \cup {None}
      /\ j.to \in Name \cup {None}
      /\ (j.from # None => j.from # j.to)
  BY <1>1, <1>j DEF Sync, Req, Shape
<1>3. Touches(j) = {j.from, j.to} \ {None}
  BY <1>2, TouchesAre
<1>k. PICK k \in Req : k = IF j.to = None THEN Idle ELSE
                           [j EXCEPT !.stage = "index", !.from = None, !.rowsOk = TRUE]
  BY IdleIs DEF Req, Stage
<1>4. req' = [req EXCEPT ![r] = k]
  BY <1>1, <1>j, <1>k DEF Sync
<1>5. /\ j.to = None => k.stage = "idle"
      /\ j.to # None => /\ k.stage = "index" /\ k.from = None /\ k.to = j.to
                        /\ k.text = j.text /\ k.docsOk = j.docsOk
  BY <1>k, IdleIs DEF Req
<1>6. Touches(k) = {j.to} \ {None}
  BY <1>5, TouchesAre
<1>7. UNCHANGED <<memory, bm25>>
  BY DEF Sync
<1>o. PICK o \in Req, l \in Req : /\ o = [j EXCEPT !.to = None]
                                  /\ l = [[j EXCEPT !.docsOk = FALSE] EXCEPT !.to = None]
  BY DEF Req
<1>8. /\ o.stage = "sync" /\ o.from = j.from /\ o.to = None /\ o.docsOk = j.docsOk
      /\ l.stage = "sync" /\ l.from = j.from /\ l.to = None /\ ~l.docsOk
  BY <1>o, <1>2 DEF Req
<1>9. Touches(o) = {j.from} \ {None} /\ Touches(l) = {j.from} \ {None}
  BY <1>8, TouchesAre
<1>10. \/ lance' = Purged(j) /\ SettlesDocs(o)
       \/ lance' = lance /\ SettlesDocs(l)
  BY <1>j, <1>o DEF Sync
<1>11. \/ lance' = Purged(j) /\ j.docsOk /\ badDocs' = badDocs \ ({j.from} \ {None})
       \/ (lance' = Purged(j) \/ lance' = lance) /\ badDocs' = badDocs \cup ({j.from} \ {None})
  <2>1. Whole \notin {j.from} \ {None}
    BY <1>2, CatalogueAssumption
  <2> QED
    BY <1>8, <1>9, <1>10, <2>1 DEF SettlesDocs
<1>12. \A n \in Name : /\ n # j.from => lance'[n] = lance[n]
                       /\ n = j.from /\ lance' = Purged(j) => lance'[n] = {}
  BY <1>1, <1>11, CatalogueAssumption DEF Purged
<1>13. DocsKept(Touches(j))
  BY <1>3, <1>7, <1>12, CatalogueAssumption DEF DocsKept
<1>14. j.docsOk => Stands(j)
  BY <1>2, <1>j DEF DocsInv, DocsSoFar
<1>15. k.docsOk => DocsSoFar(k)'
  BY <1>5, <1>7, <1>14 DEF DocsSoFar, Stands
<1>16. \A n \in Name \cap Touches(j) : n \in Touches(k) \/ n \in badDocs' \/ DocsRight(n)'
  <2> SUFFICES ASSUME NEW n \in Name, n = j.from, n \notin badDocs' PROVE DocsRight(n)'
    BY <1>3, <1>6
  <2>1. lance' = Purged(j) /\ j.docsOk /\ n # None
    BY <1>11, CatalogueAssumption
  <2>2. lance'[n] = {} /\ memory'[n] = None
    BY <1>7, <1>12, <1>14, <2>1 DEF Stands
  <2> QED
    BY <2>2 DEF DocsRight
<1>17. \A n \in Name \ Touches(j) : n \in badDocs <=> n \in badDocs'
  BY <1>3, <1>11
<1>18. Touches(k) # {} /\ k.docsOk => j.docsOk
  BY <1>5, <1>6
<1>19. Touches(k) \subseteq Touches(j)
  BY <1>3, <1>6
<1> QED
  BY <1>4, <1>13, <1>15, <1>16, <1>17, <1>18, <1>19, <1>j, DocsStep

LEMMA DocsClean ==
    ASSUME CatalogueTypeOK, DocsInv, NEW r \in Request, Clean(r)
    PROVE  DocsInv'
<1>1. req[r] \in Req /\ req[r].stage = "clean" /\ Touches(req[r]) = Name \cup {Whole}
  BY TouchesAre DEF CatalogueTypeOK, Clean
<1>2. Touches(Idle) = {} /\ DocsSoFar(Idle)'
  BY IdleIs, TouchesAre DEF DocsSoFar
<1>3. req' = [req EXCEPT ![r] = Idle] /\ UNCHANGED memory
  BY DEF Clean
<1>4. PICK d \in BOOLEAN, s \in BOOLEAN :
         /\ lance' = IF d THEN [n \in Name |-> {}] ELSE lance
         /\ SettlesDocs(IF d /\ s THEN req[r] ELSE [req[r] EXCEPT !.docsOk = FALSE])
  BY DEF Clean
<1>5. DocsKept(Name \cup {Whole})
  BY DEF DocsKept
<1>6. \/ req[r].docsOk /\ lance' = [n \in Name |-> {}]
      \/ badDocs' = badDocs \cup Name
  <2>1. CASE d /\ s /\ req[r].docsOk
    BY <1>4, <2>1
  <2>2. CASE d /\ s /\ ~req[r].docsOk
    <3>1. SettlesDocs(req[r])
      BY <1>4, <2>2
    <3> QED
      BY <1>1, <2>2, <3>1, CatalogueAssumption DEF SettlesDocs
  <2>3. CASE ~(d /\ s)
    <3>1. PICK k \in Req : k = [req[r] EXCEPT !.docsOk = FALSE]
      BY <1>1 DEF Req
    <3>2. k.stage = "clean" /\ ~k.docsOk
      BY <1>1, <3>1 DEF Req
    <3>3. SettlesDocs(k) /\ Touches(k) = Name \cup {Whole}
      BY <1>4, <2>3, <3>1, <3>2, TouchesAre
    <3> QED
      BY <3>2, <3>3, CatalogueAssumption DEF SettlesDocs
  <2> QED
    BY <2>1, <2>2, <2>3
<1>7. \A n \in Name : n \in badDocs' \/ DocsRight(n)'
  <2>1. CASE req[r].docsOk /\ lance' = [n \in Name |-> {}]
    <3>1. \A n \in Name : memory'[n] = None /\ lance'[n] = {}
      BY <1>1, <1>3, <2>1 DEF DocsInv, DocsSoFar, InMemory
    <3> QED
      BY <3>1 DEF DocsRight
  <2>2. CASE badDocs' = badDocs \cup Name
    BY <2>2
  <2> QED
    BY <1>6, <2>1, <2>2
<1> QED
  BY <1>1, <1>2, <1>3, <1>5, <1>7, IdleIs, DocsStep

LEMMA DocsIndex ==
    ASSUME CatalogueTypeOK, Shapes, DocsInv, NEW r \in Request, IndexMetric(r)
    PROVE  DocsInv'
<1>1. /\ req[r] \in Req /\ Shape(req[r]) /\ lance \in [Name -> SUBSET Text]
      /\ bm25 \in [Name -> Text \cup {None}]
  BY ContentsAre DEF CatalogueTypeOK, Shapes
<1>j. PICK j \in Req : j = req[r]
  BY <1>1
<1>2. j.stage = "index" /\ j.to \in Name /\ j.to # None /\ j.from = None
  BY <1>1, <1>j, CatalogueAssumption DEF IndexMetric, Shape
<1>3. Touches(j) = {j.to}
  BY <1>2, TouchesAre
<1>4. Touches(Idle) = {} /\ DocsSoFar(Idle)'
  BY IdleIs, TouchesAre DEF DocsSoFar
<1>5. req' = [req EXCEPT ![r] = Idle] /\ UNCHANGED memory
  BY DEF IndexMetric
<1> DEFINE batch == {j.to}
           text  == [n \in Name |-> j.text]
<1>6. PICK done \in SUBSET IndexSteps :
         /\ IndexMetrics(batch, text, done)
         /\ IF done = IndexSteps THEN SettlesDocs(j) ELSE SettlesDocs([j EXCEPT !.docsOk = FALSE])
  BY <1>j DEF IndexMetric
<1>t. batch \in SUBSET Name /\ \A n \in batch : text[n] = j.text /\ text[n] \in Says[n]
  BY <1>1, <1>2, <1>j DEF Shape
<1>i. /\ \A n \in Name \ {j.to} : lance'[n] = lance[n] /\ bm25'[n] = bm25[n]
      /\ done = IndexSteps => lance'[j.to] = {j.text} /\ bm25'[j.to] = j.text
  <2>1. /\ \A n \in Name \ batch : lance'[n] = lance[n] /\ bm25'[n] = bm25[n]
        /\ done = IndexSteps => \A n \in batch : lance'[n] = {text[n]} /\ bm25'[n] = text[n]
    <3>1. IndexMetrics(batch, text, done) /\ \A n \in batch : text[n] \in Says[n]
      BY <1>6, <1>t
    <3> HIDE DEF batch, text
    <3>2. CatalogueTypeOK /\ batch \in SUBSET Name /\ done \in SUBSET IndexSteps
      BY <1>t
    <3>4. \A n \in Name \ batch : lance'[n] = lance[n] /\ bm25'[n] = bm25[n]
      BY <3>1, <3>2, IndexMetricsIs
    <3>5. ASSUME done = IndexSteps, NEW n \in batch PROVE lance'[n] = {text[n]} /\ bm25'[n] = text[n]
      <4>1. IndexMetrics(batch, text, IndexSteps)
        BY <3>1, <3>5
      <4> QED
        BY <3>2, <3>5, <4>1, AllIndexed
    <3> QED
      BY <3>4, <3>5
  <2> QED
    BY <1>2, <1>t, <2>1
<1> HIDE DEF batch, text
<1>7. DocsKept(Touches(j))
  BY <1>3, <1>5, <1>i DEF DocsKept
<1>8. \/ /\ lance'[j.to] = {j.text} /\ bm25'[j.to] = j.text
         /\ j.docsOk /\ badDocs' = badDocs \ {j.to}
      \/ badDocs' = badDocs \cup {j.to}
  <2>1. j.to # Whole
    BY <1>2, CatalogueAssumption
  <2>2. CASE done # IndexSteps
    <3>1. PICK k \in Req : k = [j EXCEPT !.docsOk = FALSE]
      BY DEF Req
    <3>2. k.stage = "index" /\ ~k.docsOk /\ k.to = j.to /\ k.from = None
      BY <1>2, <3>1 DEF Req
    <3>3. SettlesDocs(k) /\ Touches(k) = {j.to}
      BY <1>2, <1>6, <2>2, <3>1, <3>2, TouchesAre
    <3> QED
      BY <2>1, <3>2, <3>3 DEF SettlesDocs
  <2>3. CASE done = IndexSteps
    BY <1>3, <1>6, <1>i, <2>1, <2>3 DEF SettlesDocs
  <2> QED
    BY <2>2, <2>3
<1>9. j.to \in badDocs' \/ DocsRight(j.to)'
  <2>0. PICK n \in Name : n = j.to
    BY <1>2
  <2>1. CASE lance'[n] = {j.text} /\ bm25'[n] = j.text /\ j.docsOk
    <3>2. memory'[n] = j.text /\ j.text # None
      <4>1. Stands(j)
        BY <1>2, <1>j, <2>1 DEF DocsInv, DocsSoFar
      <4>2. j.text \in Says[n]
        BY <1>1, <1>2, <1>j, <2>0 DEF Shape
      <4> QED
        BY <1>2, <1>5, <2>0, <4>1, <4>2, TextsAre DEF Stands
    <3> QED
      BY <2>0, <2>1, <3>2 DEF DocsRight
  <2> QED
    BY <1>8, <2>0, <2>1
<1>10. \A n \in Name \ Touches(j) : n \in badDocs <=> n \in badDocs'
  BY <1>3, <1>8
<1> QED
  BY <1>3, <1>4, <1>5, <1>7, <1>9, <1>10, <1>j, IdleIs, DocsStep

LEMMA DocsRestart ==
    ASSUME CatalogueTypeOK, DocsInv, Restart
    PROVE  DocsInv'
<1>1. \A r \in Request : req'[r] = Idle
  BY DEF Restart
<1>2. Touches(Idle) = {}
  BY IdleIs, TouchesAre
<1> DEFINE cut == UNION {Touches(req[r]) : r \in Request}
           lost == {n \in Name : memory[n] # memory'[n]}
           fresh == {n \in Name : memory'[n] # None /\ kind = "terms"}
           bad == badDocs \cup lost \cup (cut \ {Whole})
<1>3. PICK done \in SUBSET IndexSteps :
         /\ IndexMetrics(fresh, memory', done)
         /\ badDocs' = IF done = IndexSteps THEN bad \ fresh
                       ELSE IF done = {} THEN bad ELSE bad \cup fresh
  BY Zenon DEF Restart
<1>4. \A r \in Request : Touches(req[r]) \subseteq cut
  OBVIOUS
<1>5. \A n \in Name : memory[n] = memory'[n] \/ n \in lost
  OBVIOUS
<1>6. \A n \in fresh : memory'[n] # None
  OBVIOUS
<1>i. /\ \A n \in Name \ fresh : lance'[n] = lance[n] /\ bm25'[n] = bm25[n]
      /\ done = {} => \A n \in Name : lance'[n] = lance[n] /\ bm25'[n] = bm25[n]
      /\ done = IndexSteps => \A n \in fresh : lance'[n] = {memory'[n]} /\ bm25'[n] = memory'[n]
  <2>1. memory' \in Contents
    BY BlankIsContents DEF Restart, CatalogueTypeOK
  <2>2. fresh \in SUBSET Name /\ \A n \in fresh : memory'[n] \in Says[n]
    BY <2>1, ContentsAre
  <2>3. IndexMetrics(fresh, memory', done)
    BY <1>3
  <2> HIDE DEF fresh, bad
  <2>4. \A n \in Name \ fresh : lance'[n] = lance[n] /\ bm25'[n] = bm25[n]
    BY <2>2, <2>3, IndexMetricsIs
  <2>5. ASSUME done = {}, NEW n \in Name PROVE lance'[n] = lance[n] /\ bm25'[n] = bm25[n]
    <3>1. IndexMetrics(fresh, memory', {})
      BY <2>3, <2>5
    <3> QED
      BY <2>2, <3>1, NothingIndexed
  <2>6. ASSUME done = IndexSteps, NEW n \in fresh PROVE lance'[n] = {memory'[n]} /\ bm25'[n] = memory'[n]
    <3>1. IndexMetrics(fresh, memory', IndexSteps)
      BY <2>3, <2>6
    <3> QED
      BY <2>2, <2>6, <3>1, AllIndexed
  <2> QED
    BY <2>4, <2>5, <2>6
<1>b. badDocs \cup lost \cup (cut \ {Whole}) = bad
  OBVIOUS
<1> HIDE DEF cut, lost, fresh, bad
<1>7. ASSUME NEW n \in Name \ badDocs' PROVE DocsRight(n)'
  <2>1. CASE done = IndexSteps /\ n \in fresh
    BY <1>6, <1>i, <2>1 DEF DocsRight
  <2>2. CASE ~(done = IndexSteps /\ n \in fresh)
    <3>1. n \notin bad
      BY <1>3, <2>2
    <3>2. n \in Name \ badDocs /\ memory[n] = memory'[n] /\ \A r \in Request : n \notin Touches(req[r])
      BY <1>4, <1>5, <1>b, <3>1, CatalogueAssumption
    <3>3. DocsRight(n)
      BY <3>2 DEF DocsInv
    <3>4. lance'[n] = lance[n] /\ bm25'[n] = bm25[n]
      BY <1>3, <1>i, <2>2, <3>1
    <3> QED
      BY <3>2, <3>3, <3>4 DEF DocsRight
  <2> QED
    BY <2>1, <2>2
<1>8. \A q, r \in Request : Touches(req'[q]) \cap Touches(req'[r]) = {}
  BY <1>1, <1>2
<1>9. \A r \in Request : DocsSoFar(req[r])'
  BY <1>1, IdleIs DEF DocsSoFar
<1> QED
  BY <1>7, <1>8, <1>9 DEF DocsInv

LEMMA DocsNext ==
    ASSUME CatalogueTypeOK, Shapes, DocsInv, [CatalogueNext]_catalogueVars
    PROVE  DocsInv'
<1>1. CASE UNCHANGED catalogueVars
  BY <1>1 DEF catalogueVars, DocsInv, DocsSoFar, DocsRight, Touches, Stands, InMemory
<1> QED
  BY <1>1, NextIs, DocsBegin, DocsStatement, DocsOfDomain, DocsSync, DocsClean, DocsIndex, DocsRestart

-----------------------------------------------------------------------------
(* The theorems *)

CatalogueInv == CatalogueTypeOK /\ Shapes /\ RowsInv /\ DocsInv

LEMMA CatalogueStarts ==
    ASSUME CatalogueInit
    PROVE  CatalogueInv
<1>1. memory \in Contents /\ bm25 \in Contents /\ (~Loaded => InMemory = {})
  BY BlankIsContents DEF CatalogueInit, Loaded, InMemory
<1>2. \A n \in Name : bm25[n] # None => bm25[n] \in Text
  BY <1>1, ContentsAre
<1>3. lance \in [Name -> SUBSET Text]
  BY <1>2 DEF CatalogueInit, Value
<1>4. CatalogueTypeOK
  <2>1. /\ kind \in Kinds /\ file \in Contents \cup {None} /\ row \in BOOLEAN
        /\ rows \in [Name -> SUBSET Text] /\ \A n \in Name : rows[n] = {}
    BY DEF CatalogueInit
  <2>2. req \in [Request -> Req] /\ mishaps \in 0 .. MaxMishaps
    BY IdleIs, CatalogueAssumption DEF CatalogueInit
  <2>3. InMemory \subseteq Name
    BY DEF InMemory
  <2>4. badRows \subseteq Name \cup {Whole} /\ badDocs \subseteq Name
    BY <2>3 DEF CatalogueInit
  <2> QED
    BY <1>1, <1>3, <2>1, <2>2, <2>4 DEF CatalogueTypeOK
<1>5. \A r \in Request : req[r] = Idle
  BY DEF CatalogueInit
<1>6. Touches(Idle) = {} /\ Holds(Idle) = {} /\ RowsSoFar(Idle) /\ DocsSoFar(Idle) /\ Shape(Idle)
  BY IdleIs, TouchesAre DEF RowsSoFar, DocsSoFar, Shape
<1>7. \A n \in Name \ badRows : RowsRight(n)
  BY DEF CatalogueInit, InMemory, RowsRight
<1>8. Whole \notin badRows => (row <=> Loaded)
  BY DEF CatalogueInit, Loaded
<1>9. \A n \in Name \ badDocs : DocsRight(n)
  <2>1. \A n \in Name : lance[n] = {bm25[n]} \ {None}
    BY DEF CatalogueInit, Value
  <2>2. \A n \in Name : n \notin badDocs => bm25[n] = memory[n]
    BY BlankIsContents DEF CatalogueInit, InMemory
  <2> QED
    BY <2>1, <2>2 DEF DocsRight
<1> QED
  BY <1>1, <1>4, <1>5, <1>6, <1>7, <1>8, <1>9 DEF CatalogueInv, Shapes, RowsInv, DocsInv

(* Types, and how far every request is with rows and documents: what it    *)
(* has made of its names so far if nobody disturbed it, and that names no   *)
(* request is busy with are right unless their last change went wrong.     *)
THEOREM CatalogueInvariant == CatalogueSpec => []CatalogueInv
<1>1. CatalogueInit => CatalogueInv
  BY CatalogueStarts
<1>2. CatalogueInv /\ [CatalogueNext]_catalogueVars => CatalogueInv'
  BY CatTypes, RowsNext, DocsNext DEF CatalogueInv
<1> QED
  BY <1>1, <1>2, PTL DEF CatalogueSpec

(* Lists of terms, rules and domains show what the process works with, as  *)
(* far as the last change met no failure, no restart and no other change.  *)
THEOREM ListsHold == CatalogueSpec => []ListsAreCurrent
<1>1. CatalogueInv => ListsAreCurrent
  <2> SUFFICES ASSUME CatalogueInv PROVE ListsAreCurrent
    OBVIOUS
  <2>1. ASSUME Quiet PROVE \A r \in Request : Holds(req[r]) = {}
    BY <2>1, TouchesAre DEF CatalogueInv, CatalogueTypeOK, Quiet
  <2>2. ASSUME Quiet, NEW n \in Name \ badRows
        PROVE  /\ Value(memory, n) \subseteq Listing(n)
               /\ kind = "rules" \/ Value(memory, n) = {} => Listing(n) = Value(memory, n)
    <3>1. RowsRight(n)
      BY <2>1, <2>2 DEF CatalogueInv, RowsInv
    <3> QED
      BY <3>1 DEF RowsRight, Listing, Value
  <2>3. ASSUME Quiet, Whole \notin badRows PROVE row <=> Loaded
    BY <2>1, <2>3 DEF CatalogueInv, RowsInv
  <2> QED
    BY <2>2, <2>3 DEF ListsAreCurrent, CatalogueInv
<1> QED
  BY <1>1, CatalogueInvariant, PTL

(* So does a search for metrics, up to the documents BM25 never deletes.   *)
THEOREM MetricsHold == CatalogueSpec => []MetricsAreCurrent
<1>1. CatalogueInv => MetricsAreCurrent
  <2> SUFFICES ASSUME CatalogueInv, Quiet, NEW n \in Name \ badDocs
               PROVE  lance[n] = Value(memory, n) /\ (memory[n] # None => bm25[n] = memory[n])
    BY DEF MetricsAreCurrent
  <2>1. \A r \in Request : Touches(req[r]) = {}
    BY TouchesAre DEF CatalogueInv, CatalogueTypeOK, Quiet
  <2>2. DocsRight(n)
    BY <2>1 DEF CatalogueInv, DocsInv
  <2> QED
    BY <2>2 DEF DocsRight, Value
<1> QED
  BY <1>1, CatalogueInvariant, PTL
=============================================================================
