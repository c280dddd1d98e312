------------------------- MODULE LocalProcessProofs -------------------------
(***************************************************************************)
(* Proofs about what a process without a shared runtime keeps to itself:   *)
(* the session store (LocalSessions.tla), for any requests, sessions and   *)
(* limits, first the version lists, then the gates and the size of the     *)
(* store; and the model router (ModelRouter.tla), for any calls, chain,    *)
(* limits and budgets.                                                     *)
(***************************************************************************)
EXTENDS LocalSessions, ModelRouter, SequenceTheorems, FiniteSetTheorems, TLAPS

Record == [turns : Seq(SQL), versions : Seq(Version), current : Nat, stale : BOOLEAN]

(* VersionsAreATimeline of one dictionary.                                 *)
Timeline(d) ==
    /\ \A i \in DOMAIN d.versions :
          LET v == d.versions[i]
          IN  /\ v.number = i /\ v.parent < i
              /\ v.source = "generated" <=> v.parent = 0
              /\ v.source = "rollback" => v.sql = d.versions[v.parent].sql
    /\ d.current = Len(d.versions)

\* A seeding may exceed the limit of the edits.
Bounded(d) ==
    /\ Len(d.turns) <= MaxTurns
    /\ Len(d.versions) <= (IF MaxTurns < MaxVersions THEN MaxVersions ELSE MaxTurns)

Sound(d) == d \in Record /\ Timeline(d) /\ Bounded(d)

(* What the requests may make of a dictionary: the versions stay, or grow. *)
Extends(d, e) == Sound(e) /\ IsPrefix(d.versions, e.versions)

VersionInv ==
    /\ session \in [Task -> Session]
    /\ data \in [Session -> Record]
    /\ made \in 0 .. MaxMade
    /\ \A s \in Session : Sound(data[s])

-----------------------------------------------------------------------------
(* The operations on one dictionary *)

LEMMA SameIsPrefix == ASSUME NEW S, NEW q \in Seq(S) PROVE IsPrefix(q, q)
BY DEF IsPrefix

LEMMA SeededExtends ==
  ASSUME NEW d, Sound(d)
  PROVE  Extends(d, Seeded(d))
<1> USE DEF Sound
<1>1. CASE d.versions # <<>>
  BY <1>1, SameIsPrefix DEF Seeded, Extends, Record
<1>2. CASE d.versions = <<>>
  <2> DEFINE first == [i \in DOMAIN d.turns |->
                [number |-> i, sql |-> d.turns[i], source |-> "generated", parent |-> 0]]
  <2>1. Seeded(d) = [d EXCEPT !.versions = first,
                              !.current = IF d.turns = <<>> THEN @ ELSE Len(d.turns)]
    BY <1>2 DEF Seeded
  <2>2. first \in Seq(Version) /\ Len(first) = Len(d.turns)
    <3>1. Len(d.turns) \in Nat /\ DOMAIN d.turns = 1 .. Len(d.turns)
      BY DEF Record
    <3>2. \A i \in 1 .. Len(d.turns) : first[i] \in Version
      BY <3>1 DEF Record, Version, Source
    <3>3. first \in [1 .. Len(d.turns) -> Version]
      <4>1. DOMAIN first = 1 .. Len(d.turns) /\ first = [i \in DOMAIN first |-> first[i]]
        BY <3>1
      <4> HIDE DEF first
      <4> QED
        BY <3>2, <4>1
    <3> HIDE DEF first
    <3>4. first \in Seq(Version)
      BY <3>1, <3>3, SeqDef
    <3>5. DOMAIN first = 1 .. Len(first) /\ Len(first) \in Nat /\ DOMAIN first = 1 .. Len(d.turns)
      BY <3>3, <3>4, LenProperties
    <3> QED
      BY <3>1, <3>4, <3>5
  <2>3. Seeded(d).versions = first /\ Seeded(d).turns = d.turns /\ Seeded(d) \in Record
    <3> HIDE DEF first
    <3>1. Len(d.turns) \in Nat /\ d.current \in Nat
      BY DEF Record
    <3> QED
      BY <2>1, <2>2, <3>1 DEF Record
  <2>4. Seeded(d).current = Len(first)
    BY <1>2, <2>1, <2>2 DEF Record, Timeline
  <2>5. \A i \in DOMAIN first : /\ i \in Nat \ {0} /\ first[i].number = i
                               /\ first[i].parent = 0 /\ first[i].source = "generated"
    BY DEF Record
  <2>6. Timeline(Seeded(d))
    <3> HIDE DEF first
    <3> QED
      BY <2>3, <2>4, <2>5 DEF Timeline
  <2>7. IsPrefix(d.versions, first)
    <3> HIDE DEF first
    <3> QED
      BY <1>2, <2>2 DEF IsPrefix
  <2>8. Bounded(Seeded(d))
    <3> HIDE DEF first
    <3>1. Len(d.turns) \in Nat /\ Len(d.turns) <= MaxTurns
      BY DEF Record, Bounded
    <3> QED
      BY <2>2, <2>3, <3>1, LimitAssumption DEF Bounded
  <2> QED
    BY <2>3, <2>6, <2>7, <2>8 DEF Extends
<1> QED
  BY <1>1, <1>2

LEMMA AddedExtends ==
  ASSUME NEW d, Sound(d), NEW n \in DOMAIN d.versions, NEW sql \in SQL,
         Len(d.versions) < MaxVersions,
         NEW source \in {"rollback", "branch"},
         source = "rollback" => sql = d.versions[n].sql
  PROVE  Extends(d, Added(d, n, sql, source))
<1> USE DEF Sound
<1> DEFINE number == Len(d.versions) + 1
           new == [number |-> number, sql |-> sql, source |-> source, parent |-> n]
           e == Added(d, n, sql, source)
<1>1. d.versions \in Seq(Version) /\ n \in 1 .. Len(d.versions) /\ new \in Version
  BY DEF Record, Version, Source
<1>2. /\ e = [d EXCEPT !.versions = Append(@, new), !.current = number, !.stale = FALSE]
      /\ e \in Record
  <2>1. e = [d EXCEPT !.versions = Append(@, new), !.current = number, !.stale = FALSE]
    BY DEF Added
  <2>2. Append(d.versions, new) \in Seq(Version) /\ number \in Nat
    BY <1>1, LenProperties
  <2> QED
    BY <2>1, <2>2 DEF Record
<1>3. e.versions = Append(d.versions, new) /\ e.current = number /\ e.turns = d.turns
  BY <1>2 DEF Record
<1> HIDE DEF e
<1>4. /\ DOMAIN e.versions = 1 .. number
      /\ \A i \in 1 .. Len(d.versions) : e.versions[i] = d.versions[i]
      /\ e.versions[number] = new /\ Len(e.versions) = number
  <2> HIDE DEF new
  <2>1. Len(d.versions) \in Nat /\ d.versions \in [1 .. Len(d.versions) -> Version]
    BY <1>1, LenProperties
  <2>2. Append(d.versions, new) \in Seq(Version) /\ Len(Append(d.versions, new)) = number
    BY <1>1, <2>1
  <2>3. \A i \in 1 .. number : Append(d.versions, new)[i] = IF i = number THEN new ELSE d.versions[i]
    BY <1>1, <2>1
  <2> QED
    BY <1>3, <2>1, <2>2, <2>3, LenProperties
<1>5. ASSUME NEW i \in 1 .. Len(d.versions)
      PROVE  LET v == e.versions[i]
             IN  /\ v.number = i /\ v.parent < i
                 /\ v.source = "generated" <=> v.parent = 0
                 /\ v.source = "rollback" => v.sql = e.versions[v.parent].sql
  <2>1. e.versions[i] = d.versions[i] /\ d.versions[i].parent \in Nat
    <3>1. d.versions[i] \in Version
      BY <1>1, ElementOfSeq
    <3> HIDE DEF new, number
    <3> QED
      BY <1>4, <3>1 DEF Version
  <2>2. d.versions[i].source = "rollback" => d.versions[i].parent \in 1 .. Len(d.versions)
    BY <1>1, <2>1 DEF Timeline
  <2>3. /\ d.versions[i].number = i /\ d.versions[i].parent < i
        /\ d.versions[i].source = "generated" <=> d.versions[i].parent = 0
        /\ d.versions[i].source = "rollback" =>
              d.versions[i].sql = d.versions[d.versions[i].parent].sql
    BY <1>1 DEF Timeline
  <2>4. d.versions[i].source = "rollback" =>
           e.versions[d.versions[i].parent] = d.versions[d.versions[i].parent]
    BY <1>4, <2>2
  <2> HIDE DEF new, number
  <2> QED
    BY <2>1, <2>3, <2>4
<1>6. /\ new.number = number /\ new.parent < number
      /\ new.source = "generated" <=> new.parent = 0
      /\ new.source = "rollback" => new.sql = e.versions[new.parent].sql
  BY <1>1, <1>4
<1>7. Timeline(e)
  <2> HIDE DEF new
  <2>1. \A i \in DOMAIN e.versions : i \in 1 .. Len(d.versions) \/ i = number
    BY <1>1, <1>4
  <2> QED
    BY <1>3, <1>4, <1>5, <1>6, <2>1 DEF Timeline
<1>8. IsPrefix(d.versions, e.versions)
  BY <1>1, <1>3, <1>4 DEF IsPrefix
<1>9. Bounded(e)
  <2>1. Len(d.versions) \in Nat /\ Len(d.turns) <= MaxTurns
    BY <1>1, LenProperties DEF Bounded
  <2> QED
    BY <1>3, <1>4, <2>1, LimitAssumption DEF Bounded
<1> QED
  BY <1>2, <1>7, <1>8, <1>9 DEF Extends, e

LEMMA PrefixTransitive ==
  ASSUME NEW d, Sound(d), NEW e, NEW f, Extends(d, e), Extends(e, f)
  PROVE  Extends(d, f)
<1>1. d.versions \in Seq(Version) /\ e.versions \in Seq(Version) /\ f.versions \in Seq(Version)
  BY DEF Extends, Sound, Record
<1>2. ASSUME NEW p \in Seq(Version), NEW q \in Seq(Version), NEW r \in Seq(Version),
             IsPrefix(p, q), IsPrefix(q, r)
      PROVE  IsPrefix(p, r)
  BY <1>2 DEF IsPrefix
<1> QED
  BY <1>1, <1>2 DEF Extends
-----------------------------------------------------------------------------
(* The requests *)

LEMMA VersionInitInv == Init => VersionInv
<1>1. <<>> \in Seq(SQL) /\ <<>> \in Seq(Version) /\ Len(<<>>) = 0
  OBVIOUS
<1>2. Sound(New)
  BY <1>1, LimitAssumption DEF New, Record, Timeline, Bounded, Sound
<1>3. New \in Record
  BY <1>2 DEF Sound
<1> QED
  BY <1>2, <1>3, LimitAssumption DEF Init, VersionInv

(* A step that changes the dictionary of s only, to an extension of it.    *)
Changes(s) == \E e : Extends(data[s], e) /\ data' = [data EXCEPT ![s] = e]

LEMMA TurnChanges ==
  ASSUME VersionInv, NEW t \in Task, Turn(t), t \notin detached
  PROVE  Changes(session[t])
<1> DEFINE d == data[session[t]]
           h == Append(d.turns, made + 1)
           e == [d EXCEPT !.turns = LastTurns(h), !.stale = FALSE]
<1>1. d \in Record /\ Timeline(d) /\ Bounded(d)
  BY DEF VersionInv, Sound
<1>2. made + 1 \in SQL
  BY LimitAssumption DEF VersionInv, SQL, Turn
<1>3. h \in Seq(SQL)
  BY <1>1, <1>2 DEF Record
<1>4. LastTurns(h) \in Seq(SQL) /\ Len(LastTurns(h)) <= MaxTurns
  <2> HIDE DEF h
  <2>1. MaxTurns \in Nat \ {0} /\ Len(h) \in Nat
    BY <1>3, LimitAssumption
  <2>2. CASE Len(h) > MaxTurns
    <3>1. \A i \in Len(h) - MaxTurns + 1 .. Len(h) : h[i] \in SQL
      BY <1>3, <2>1, <2>2, ElementOfSeq
    <3> QED
      BY <2>1, <2>2, <3>1, SubSeqProperties DEF LastTurns
  <2> QED
    BY <1>3, <2>1, <2>2 DEF LastTurns
<1>5. /\ e \in Record /\ e.versions = d.versions /\ e.current = d.current
      /\ e.turns = LastTurns(h)
  <2> HIDE DEF h
  <2> QED
    BY <1>1, <1>4 DEF Record
<1>6. data' = [data EXCEPT ![session[t]] = e]
  BY DEF Turn, VersionInv, Record
<1>7. Extends(d, e)
  <2> HIDE DEF e
  <2>1. IsPrefix(d.versions, d.versions)
    BY <1>1, SameIsPrefix DEF Record
  <2> QED
    BY <1>1, <1>4, <1>5, <2>1 DEF Extends, Timeline, Sound, Bounded
<1> QED
  BY <1>6, <1>7 DEF Changes

LEMMA EditChanges ==
  ASSUME VersionInv, NEW s \in Session, Edit(s) \/ TimePasses(s)
  PROVE  Changes(s)
<1>1. Sound(data[s]) /\ data[s] \in Record
  BY DEF VersionInv, Sound
<1>2. Extends(data[s], Seeded(data[s]))
  BY <1>1, SeededExtends
<1>3. CASE Diff(s)
  BY <1>2, <1>3 DEF Diff, Changes
<1>4. ASSUME NEW n \in 1 .. MaxVersions, NEW source \in {"rollback", "branch"},
             Copy(s, n, source) \/ Branch(s, n)
      PROVE  Changes(s)
  <2> DEFINE d == Seeded(data[s])
  <2>1. Sound(d) /\ d \in Record /\ Timeline(d) /\ Found(d, n) # {} /\ Len(d.versions) < MaxVersions
    BY <1>2, <1>4 DEF Extends, Copy, Branch, Sound
  <2> HIDE DEF d
  <2>2. Found(d, n) = {n} /\ n \in DOMAIN d.versions
    BY <2>1 DEF Found, Timeline
  <2>3. CASE Copy(s, n, source)
    <3>1. Min(Found(d, n)) = n
      BY <2>2 DEF Min
    <3>2. d.versions[n] \in Version
      BY <2>1, <2>2, ElementOfSeq, LenProperties DEF Record
    <3>3. Extends(d, Added(d, n, d.versions[n].sql, source))
      BY <2>1, <2>2, <3>2, AddedExtends DEF Version
    <3>4. data' = [data EXCEPT ![s] = Added(d, n, d.versions[n].sql, source)]
      BY <2>3, <3>1 DEF Copy, d
    <3> QED
      BY <1>1, <1>2, <3>3, <3>4, PrefixTransitive DEF Changes, d
  <2>4. CASE Branch(s, n)
    <3>1. made + 1 \in SQL
      BY <2>4, LimitAssumption DEF VersionInv, SQL, Branch
    <3>2. Extends(d, Added(d, n, made + 1, "branch"))
      BY <2>1, <2>2, <3>1, AddedExtends
    <3>3. data' = [data EXCEPT ![s] = Added(d, n, made + 1, "branch")]
      BY <2>4 DEF Branch, d
    <3> QED
      BY <1>1, <1>2, <3>2, <3>3, PrefixTransitive DEF Changes, d
  <2> QED
    BY <1>4, <2>3, <2>4
<1>5. CASE TimePasses(s)
  <2> DEFINE e == [data[s] EXCEPT !.stale = TRUE]
  <2>1. data' = [data EXCEPT ![s] = e]
    BY <1>5 DEF TimePasses
  <2>2. /\ e \in Record /\ e.versions = data[s].versions /\ e.current = data[s].current
        /\ e.turns = data[s].turns
    BY <1>1 DEF Record
  <2>3. Extends(data[s], e)
    <3> HIDE DEF e
    <3>1. IsPrefix(data[s].versions, data[s].versions)
      BY <1>1, SameIsPrefix DEF Record
    <3> QED
      BY <1>1, <2>2, <3>1 DEF Extends, Timeline, Sound, Bounded
  <2> QED
    BY <2>1, <2>3 DEF Changes
<1> QED
  BY <1>3, <1>4, <1>5 DEF Edit
(* The dictionary of a session is extended, or it is a new one.            *)
Evolves == \A s \in Session : Extends(data[s], data'[s]) \/ data'[s] = New

LEMMA StepEvolves ==
  ASSUME VersionInv, [Next]_vars
  PROVE  VersionInv' /\ Evolves
<1>1. \A s \in Session : Extends(data[s], data[s])
  <2> SUFFICES ASSUME NEW s \in Session PROVE Extends(data[s], data[s])
    OBVIOUS
  <2>1. Sound(data[s]) /\ data[s] \in Record
    BY DEF VersionInv, Sound
  <2> QED
    BY <2>1, SameIsPrefix DEF Extends, Record
<1>2. Sound(New)
  <2>1. <<>> \in Seq(SQL) /\ <<>> \in Seq(Version) /\ Len(<<>>) = 0
    OBVIOUS
  <2> QED
    BY <2>1, LimitAssumption DEF New, Record, Timeline, Bounded, Sound
<1>3. ASSUME DOMAIN data' = Session, data' = [s \in Session |-> data'[s]], Evolves,
             session' \in [Task -> Session], made' \in 0 .. MaxMade
      PROVE  VersionInv'
  <2>1. \A s \in Session : Sound(data'[s]) /\ data'[s] \in Record
    BY <1>2, <1>3 DEF Evolves, Extends, Sound
  <2> QED
    BY <1>3, <2>1 DEF VersionInv, Sound, Timeline, Bounded
<1>4. ASSUME NEW s \in Session, Changes(s)
      PROVE  data' = [x \in Session |-> data'[x]] /\ Evolves
  <2>1. PICK e : Extends(data[s], e) /\ data' = [data EXCEPT ![s] = e]
    BY <1>4 DEF Changes
  <2> QED
    BY <1>1, <2>1 DEF VersionInv, Evolves
<1>5. ASSUME UNCHANGED data
      PROVE  data' = [x \in Session |-> data'[x]] /\ Evolves
  BY <1>1, <1>5 DEF VersionInv, Evolves
<1>6. CASE UNCHANGED vars
  BY <1>3, <1>5, <1>6 DEF vars, storeVars, VersionInv
<1>7. ASSUME NEW t \in Task, Request(t) PROVE VersionInv' /\ Evolves
  <2>1. CASE (\E s \in Session : Arrive(t, s)) \/ Finish(t)
    BY <1>3, <1>5, <2>1 DEF Arrive, Finish, storeVars, VersionInv
  <2>2. CASE Load(t)
    <3>1. session' = session /\ made' = made
      BY <2>2 DEF Load
    <3>2. CASE UNCHANGED data
      BY <1>3, <1>5, <3>1, <3>2 DEF VersionInv
    <3>3. ASSUME NEW kept, data' = [x \in Session |-> IF x \in kept THEN data[x] ELSE New]
          PROVE  VersionInv' /\ Evolves
      BY <1>1, <1>3, <3>1, <3>3 DEF VersionInv, Evolves
    <3> QED
      BY <2>2, <3>2, <3>3 DEF Load, storeVars
  <2>3. CASE Turn(t)
    <3>1. session' = session /\ made' \in 0 .. MaxMade
      BY <2>3, LimitAssumption DEF Turn, VersionInv
    <3>2. CASE t \in detached
      BY <1>3, <1>5, <2>3, <3>1, <3>2 DEF Turn, VersionInv
    <3>3. CASE t \notin detached
      BY <1>3, <1>4, <2>3, <3>1, <3>3, TurnChanges DEF VersionInv
    <3> QED
      BY <3>2, <3>3
  <2> QED
    BY <1>7, <2>1, <2>2, <2>3 DEF Request
<1>8. ASSUME NEW s \in Session, Edit(s) \/ TimePasses(s) PROVE VersionInv' /\ Evolves
  <2>1. session' = session /\ made' \in 0 .. MaxMade
    BY <1>8, LimitAssumption DEF Edit, Diff, Copy, Branch, TimePasses, VersionInv
  <2> QED
    BY <1>3, <1>4, <1>8, <2>1, EditChanges DEF VersionInv
<1> QED
  BY <1>6, <1>7, <1>8 DEF Next

-----------------------------------------------------------------------------
(* What the version endpoints promise *)

LEMMA VersionsAreSound == Spec => []VersionInv
BY VersionInitInv, StepEvolves, PTL DEF Spec

(* Numbers are positions, parents come earlier, a rollback has the SQL of  *)
(* its parent, and the current version is the last.                        *)
THEOREM TimelineIsKept == Spec => []VersionsAreATimeline
<1>1. VersionInv => VersionsAreATimeline
  BY DEF VersionInv, VersionsAreATimeline, Timeline, Sound
<1> QED
  BY <1>1, VersionsAreSound, PTL

(* No request, whatever it interleaves with, takes a version away from a   *)
(* session that stays in the store.                                        *)
THEOREM NothingIsRewritten == Spec => VersionsOnlyGrow
<1>1. VersionInv /\ [Next]_vars =>
        [\A s \in Session : s \in stored \cap stored' /\ data'[s].turns # <<>>
            => IsPrefix(data[s].versions, data'[s].versions)]_vars
  <2> SUFFICES ASSUME VersionInv, [Next]_vars, NEW s \in Session, data'[s].turns # <<>>
               PROVE  IsPrefix(data[s].versions, data'[s].versions)
    OBVIOUS
  <2>1. data'[s] # New
    BY DEF New
  <2> QED
    BY <2>1, StepEvolves DEF Evolves, Extends
<1> QED
  BY <1>1, VersionsAreSound, PTL DEF Spec, VersionsOnlyGrow

-----------------------------------------------------------------------------
(* The queue of a gate *)

In(q, t) == \E i \in DOMAIN q : q[i] = t

NoRepeats(q) == \A i, j \in DOMAIN q : q[i] = q[j] => i = j

LEMMA FirstIsOne ==
  ASSUME NEW q \in Seq(Task), NEW t
  PROVE  First(q, t) <=> Len(q) >= 1 /\ q[1] = t
BY EmptySeq, LenProperties DEF First

LEMMA AppendQueue ==
  ASSUME NEW q \in Seq(Task), NEW t \in Task, NoRepeats(q), ~In(q, t)
  PROVE  /\ Append(q, t) \in Seq(Task) /\ NoRepeats(Append(q, t))
         /\ \A u : In(Append(q, t), u) <=> In(q, u) \/ u = t
         /\ \A u : First(q, u) => First(Append(q, t), u)
<1> DEFINE r == Append(q, t)
<1>1. r \in Seq(Task) /\ Len(r) = Len(q) + 1 /\ Len(q) \in Nat
      /\ DOMAIN q = 1 .. Len(q) /\ DOMAIN r = 1 .. Len(q) + 1
  BY LenProperties
<1>2. \A i \in DOMAIN r : r[i] = IF i = Len(q) + 1 THEN t ELSE q[i]
  BY <1>1
<1> HIDE DEF r
<1>3. NoRepeats(r)
  BY <1>1, <1>2 DEF NoRepeats, In
<1>4. \A u : In(r, u) <=> In(q, u) \/ u = t
  BY <1>1, <1>2 DEF In
<1>5. \A u : First(q, u) => First(r, u)
  BY <1>1, <1>2, FirstIsOne
<1> QED
  BY <1>1, <1>3, <1>4, <1>5 DEF r

LEMMA LeaveQueue ==
  ASSUME NEW q \in Seq(Task), NEW t \in Task, NoRepeats(q), In(q, t)
  PROVE  LET r == RemoveAt(q, Place(q, t))
         IN  /\ r \in Seq(Task) /\ NoRepeats(r)
             /\ \A u : In(r, u) <=> In(q, u) /\ u # t
             /\ \A u : First(q, u) /\ u # t => First(r, u)
<1> DEFINE i == Place(q, t)
           a == SubSeq(q, 1, i - 1)
           b == SubSeq(q, i + 1, Len(q))
           r == RemoveAt(q, i)
<1>1. i \in 1 .. Len(q) /\ q[i] = t /\ DOMAIN q = 1 .. Len(q) /\ Len(q) \in Nat
  BY LenProperties DEF In, Place
<1> HIDE DEF i
<1>2. a \in Seq(Task) /\ Len(a) = i - 1 /\ \A j \in 1 .. i - 1 : a[j] = q[j]
  <2>1. \A j \in 1 .. i - 1 : q[j] \in Task
    BY <1>1, ElementOfSeq
  <2> QED
    BY <1>1, <2>1, SubSeqProperties
<1>3. b \in Seq(Task) /\ Len(b) = Len(q) - i /\ \A j \in 1 .. Len(q) - i : b[j] = q[i + j]
  <2>1. \A j \in i + 1 .. Len(q) : q[j] \in Task
    BY <1>1, ElementOfSeq
  <2>2. i + 1 \in Int /\ Len(q) \in Int
    BY <1>1
  <2>3. /\ b \in Seq(Task)
        /\ Len(b) = IF i + 1 <= Len(q) THEN Len(q) - (i + 1) + 1 ELSE 0
        /\ \A j \in 1 .. Len(q) - (i + 1) + 1 : b[j] = q[(i + 1) + j - 1]
    BY <2>1, <2>2, SubSeqProperties
  <2> HIDE DEF b
  <2>4. Len(q) - (i + 1) + 1 = Len(q) - i /\ (~(i + 1 <= Len(q)) => Len(q) - i = 0)
    <3>1. i \in Nat /\ Len(q) \in Nat /\ i <= Len(q)
      BY <1>1
    <3> HIDE <1>1
    <3> QED
      BY <3>1
  <2>5. \A j \in 1 .. Len(q) - i : (i + 1) + j - 1 = i + j
    BY <1>1
  <2> QED
    BY <2>3, <2>4, <2>5
<1>4. r = a \o b
  BY DEF RemoveAt
<1> HIDE DEF a, b, r
<1>5. r \in Seq(Task) /\ Len(r) = Len(q) - 1 /\ DOMAIN r = 1 .. Len(q) - 1
  <2>1. r \in Seq(Task) /\ Len(r) = Len(a) + Len(b)
    <3>1. a \in Seq(Task) /\ b \in Seq(Task)
      BY <1>2, <1>3
    <3> QED
      BY <1>4, <3>1, ConcatProperties
  <2>2. (i - 1) + (Len(q) - i) = Len(q) - 1
    BY <1>1
  <2> QED
    BY <1>2, <1>3, <2>1, <2>2, LenProperties
<1>6. \A j \in 1 .. Len(q) - 1 : r[j] = IF j < i THEN q[j] ELSE q[j + 1]
  <2> SUFFICES ASSUME NEW j \in 1 .. Len(q) - 1
               PROVE  r[j] = IF j < i THEN q[j] ELSE q[j + 1]
    OBVIOUS
  <2>1. CASE j < i
    BY <1>1, <1>2, <1>3, <1>4, <2>1, ConcatProperties
  <2>2. CASE ~(j < i)
    <3>1. r[j] = b[j - (i - 1)]
      BY <1>1, <1>2, <1>3, <1>4, <2>2, ConcatProperties
    <3>2. j - (i - 1) \in 1 .. Len(q) - i /\ i + (j - (i - 1)) = j + 1
      BY <1>1, <2>2
    <3> QED
      BY <1>3, <2>2, <3>1, <3>2
  <2> QED
    BY <2>1, <2>2
<1>7. NoRepeats(r)
  <2> SUFFICES ASSUME NEW j \in 1 .. Len(q) - 1, NEW k \in 1 .. Len(q) - 1, r[j] = r[k]
               PROVE  j = k
    BY <1>5 DEF NoRepeats
  <2>1. /\ j \in 1 .. Len(q) /\ j + 1 \in 1 .. Len(q)
        /\ k \in 1 .. Len(q) /\ k + 1 \in 1 .. Len(q)
    BY <1>1
  <2>2. \A m, n \in 1 .. Len(q) : q[m] = q[n] => m = n
    BY <1>1 DEF NoRepeats
  <2> QED
    BY <1>1, <1>6, <2>1, <2>2
<1>8. \A u : In(r, u) => In(q, u) /\ u # t
  BY <1>1, <1>5, <1>6 DEF In, NoRepeats
<1>9. ASSUME NEW j \in 1 .. Len(q), q[j] # t PROVE In(r, q[j])
  <2>1. CASE j < i
    BY <1>1, <1>5, <1>6, <2>1 DEF In
  <2>2. CASE ~(j < i)
    <3>1. j - 1 \in 1 .. Len(q) - 1 /\ ~(j - 1 < i) /\ (j - 1) + 1 = j
      BY <1>1, <1>9, <2>2
    <3> QED
      BY <1>5, <1>6, <3>1 DEF In
  <2> QED
    BY <2>1, <2>2
<1>10. ASSUME NEW u, First(q, u), u # t PROVE First(r, u)
  <2>1. q[1] = u /\ 1 < i
    BY <1>1, <1>10, FirstIsOne
  <2> QED
    BY <1>1, <1>5, <1>6, <2>1, FirstIsOne
<1> QED
  BY <1>1, <1>5, <1>7, <1>8, <1>9, <1>10 DEF r, i, In

-----------------------------------------------------------------------------
(* The gates and the store *)

(* A request is in the queue of its session's gate from its arrival to its *)
(* end, and at the head of it while it has the session in hand.            *)
GateInv ==
    /\ queue \in [Session -> Seq(Task)] /\ pc \in [Task -> PC]
    /\ \A s \in Session : NoRepeats(queue[s])
    /\ \A s \in Session, t \in Task :
          In(queue[s], t) <=> pc[t] # "idle" /\ session[t] = s
    /\ \A t \in Task : pc[t] \in {"work", "close"} =>
          First(queue[session[t]], t) /\ session[t] \in stored
    /\ detached = {}

Room == IF MaxEntries < MaxConcurrent THEN MaxConcurrent ELSE MaxEntries

StoreInv ==
    /\ stored \subseteq Session /\ older \subseteq stored \X stored
    /\ IsFiniteSet(Busy) /\ Cardinality(Busy) <= MaxConcurrent
    /\ IsFiniteSet(stored) /\ Cardinality(stored) <= Room

SessionInv == VersionInv /\ GateInv /\ StoreInv

LEMMA SessionInitInv == Init => SessionInv
<1>1. ASSUME Init PROVE GateInv
  <2>1. \A q \in Seq(Task) : q = <<>> => NoRepeats(q) /\ \A t : ~In(q, t)
    BY DEF NoRepeats, In
  <2>2. <<>> \in Seq(Task)
    OBVIOUS
  <2>3. \A s \in Session : queue[s] = <<>> /\ NoRepeats(queue[s]) /\ \A t : ~In(queue[s], t)
    BY <1>1, <2>1, <2>2 DEF Init
  <2> QED
    BY <1>1, <2>2, <2>3 DEF Init, GateInv, PC
<1>2. ASSUME Init PROVE StoreInv
  <2>1. Busy = {}
    BY <1>2 DEF Init, Busy
  <2> QED
    BY <1>2, <2>1, FS_EmptySet, LimitAssumption DEF Init, StoreInv, Room
<1> QED
  BY <1>1, <1>2, VersionInitInv DEF SessionInv

(* A session in use belongs to a request that is not idle.                 *)
LEMMA LockedIsBusy ==
  ASSUME GateInv, NEW s \in Session, Locked(s)
  PROVE  \E u \in Busy : session[u] = s
<1>1. queue[s] \in Seq(Task) /\ queue[s] # <<>>
  BY DEF GateInv, Locked
<1>2. Len(queue[s]) >= 1 /\ queue[s][1] \in Task
  BY <1>1, EmptySeq, LenProperties, ElementOfSeq
<1>3. In(queue[s], queue[s][1])
  BY <1>1, <1>2, LenProperties DEF In
<1> QED
  BY <1>2, <1>3 DEF GateInv, Busy

LEMMA LockedAreFew ==
  ASSUME GateInv, StoreInv, NEW L \in SUBSET Session, \A s \in L : Locked(s)
  PROVE  IsFiniteSet(L) /\ Cardinality(L) <= MaxConcurrent
<1> DEFINE f == [s \in L |-> CHOOSE u \in Busy : session[u] = s]
<1>1. \A s \in L : f[s] \in Busy /\ session[f[s]] = s
  BY LockedIsBusy
<1>2. f \in [L -> Busy] /\ \A a, b \in L : f[a] = f[b] => a = b
  BY <1>1
<1> HIDE DEF f
<1>3. f \in Injection(L, Busy)
  BY <1>2 DEF Injection, IsInjective
<1>4. IsFiniteSet(L) /\ Cardinality(L) <= Cardinality(Busy)
  BY <1>3, FS_Injection DEF StoreInv
<1> QED
  BY <1>4, FS_CardinalityType, LimitAssumption DEF StoreInv

(* What pruning leaves: nothing in use is lost, and with one more session  *)
(* the store has room, or holds sessions in use only.                      *)
LEMMA PruningMakesRoom ==
  ASSUME GateInv, StoreInv, NEW s \in Session, Locked(s), NEW kept \in Pruned(stored \ {s})
  PROVE  /\ kept \subseteq stored \ {s}
         /\ \A x \in stored \ {s} : Locked(x) => x \in kept
         /\ IsFiniteSet(kept \cup {s}) /\ Cardinality(kept \cup {s}) <= Room
<1> DEFINE fresh   == Fresh(stored \ {s})
           idle    == {x \in fresh : ~Locked(x)}
           evicted == fresh \ kept
           surplus == IF Cardinality(fresh) < MaxEntries THEN 0
                      ELSE Cardinality(fresh) - MaxEntries + 1
<1>1. /\ kept \subseteq fresh /\ evicted \subseteq idle
      /\ evicted = idle \/ Cardinality(evicted) = surplus
  BY DEF Pruned
<1>2. /\ fresh \subseteq stored \ {s} /\ s \notin kept
      /\ \A x \in stored \ {s} : Locked(x) => x \in fresh \ idle
  BY <1>1 DEF Fresh
<1>3. kept \subseteq stored \ {s} /\ \A x \in stored \ {s} : Locked(x) => x \in kept
  BY <1>1, <1>2
<1>4. IsFiniteSet(fresh) /\ IsFiniteSet(kept)
  BY <1>1, <1>2, FS_Subset DEF StoreInv
<1>5. /\ IsFiniteSet(kept \cup {s}) /\ Cardinality(kept \cup {s}) = Cardinality(kept) + 1
      /\ Cardinality(kept) \in Nat /\ Cardinality(fresh) \in Nat
  BY <1>2, <1>4, FS_AddElement, FS_CardinalityType
<1>6. CASE evicted = idle
  <2>1. \A x \in kept \cup {s} : Locked(x)
    BY <1>1, <1>6
  <2>2. kept \cup {s} \in SUBSET Session
    BY <1>3 DEF StoreInv
  <2>3. Cardinality(kept \cup {s}) <= MaxConcurrent
    BY <2>1, <2>2, LockedAreFew
  <2> QED
    BY <1>3, <1>5, <2>3, LimitAssumption DEF Room
<1>7. CASE Cardinality(evicted) = surplus
  <2>1. kept = fresh \ evicted /\ fresh \cap evicted = evicted
    BY <1>1
  <2>2. Cardinality(kept) = Cardinality(fresh) - surplus
    <3> HIDE DEF fresh, evicted, surplus
    <3> QED
      BY <1>4, <1>7, <2>1, FS_Difference
  <2>3. Cardinality(kept) + 1 <= MaxEntries
    <3> HIDE DEF fresh
    <3> QED
      BY <1>5, <2>2, LimitAssumption
  <2> QED
    BY <1>3, <1>5, <2>3, LimitAssumption DEF Room
<1> QED
  BY <1>1, <1>6, <1>7

-----------------------------------------------------------------------------
(* The requests and the gates *)

LEMMA ArriveInv ==
  ASSUME SessionInv, NEW t \in Task, NEW s \in Session, Arrive(t, s)
  PROVE  GateInv' /\ StoreInv'
<1> USE DEF SessionInv
<1>1. /\ queue[s] \in Seq(Task) /\ NoRepeats(queue[s]) /\ ~In(queue[s], t)
      /\ pc[t] = "idle"
  BY DEF GateInv, Arrive
<1>2. /\ queue' \in [Session -> Seq(Task)] /\ NoRepeats(queue'[s])
      /\ \A u : In(queue'[s], u) <=> In(queue[s], u) \/ u = t
      /\ \A u : First(queue[s], u) => First(queue'[s], u)
      /\ \A x \in Session \ {s} : queue'[x] = queue[x]
  BY <1>1, AppendQueue DEF GateInv, Arrive
<1>3. /\ pc' \in [Task -> PC] /\ pc'[t] = "gate" /\ session'[t] = s
      /\ \A u \in Task \ {t} : pc'[u] = pc[u] /\ session'[u] = session[u]
  BY DEF GateInv, VersionInv, Arrive, PC
<1>4. \A x \in Session : NoRepeats(queue'[x])
  BY <1>2 DEF GateInv
<1>5. \A x \in Session, u \in Task :
         In(queue'[x], u) <=> pc'[u] # "idle" /\ session'[u] = x
  <2> SUFFICES ASSUME NEW x \in Session, NEW u \in Task
               PROVE  In(queue'[x], u) <=> pc'[u] # "idle" /\ session'[u] = x
    OBVIOUS
  <2>1. In(queue[x], u) <=> pc[u] # "idle" /\ session[u] = x
    BY DEF GateInv
  <2>2. CASE u = t
    BY <1>1, <1>2, <1>3, <2>1, <2>2
  <2>3. CASE u # t
    BY <1>2, <1>3, <2>1, <2>3
  <2> QED
    BY <2>2, <2>3
<1>6. \A u \in Task : pc'[u] \in {"work", "close"} =>
         First(queue'[session'[u]], u) /\ session'[u] \in stored'
  <2> SUFFICES ASSUME NEW u \in Task, pc'[u] \in {"work", "close"}
               PROVE  First(queue'[session'[u]], u) /\ session'[u] \in stored'
    OBVIOUS
  <2>1. u # t /\ First(queue[session[u]], u) /\ session[u] \in stored /\ session[u] \in Session
    BY <1>3 DEF GateInv, VersionInv
  <2> QED
    BY <1>2, <1>3, <2>1 DEF Arrive, storeVars
<1>7. GateInv'
  BY <1>2, <1>3, <1>4, <1>5, <1>6 DEF GateInv, Arrive
<1>8. IsFiniteSet(Busy') /\ Cardinality(Busy') <= MaxConcurrent
  <2>1. Busy' = Busy \cup {t} /\ t \notin Busy
    BY <1>1, <1>3 DEF Busy
  <2>2. IsFiniteSet(Busy \cup {t}) /\ Cardinality(Busy \cup {t}) = Cardinality(Busy) + 1
    BY <2>1, FS_AddElement DEF StoreInv
  <2>3. Cardinality(Busy) \in Nat /\ Cardinality(Busy) < MaxConcurrent
    BY FS_CardinalityType DEF StoreInv, Arrive
  <2> QED
    BY <2>1, <2>2, <2>3, LimitAssumption
<1>9. StoreInv'
  BY <1>8 DEF StoreInv, Arrive, storeVars
<1> QED
  BY <1>7, <1>9

(* No request but t changes where it stands.                               *)
LEMMA StaysBusy ==
  ASSUME StoreInv, GateInv, NEW t \in Task, NEW p, pc[t] # "idle", p # "idle",
         pc' = [pc EXCEPT ![t] = p]
  PROVE  Busy' = Busy
BY DEF Busy, GateInv

LEMMA LoadInv ==
  ASSUME SessionInv, NEW t \in Task, Load(t)
  PROVE  GateInv' /\ StoreInv'
<1> USE DEF SessionInv
<1> DEFINE s == session[t]
           Kept == /\ IsFiniteSet(stored') /\ Cardinality(stored') <= Room
                   /\ stored' \subseteq Session /\ older' \subseteq stored' \X stored'
                   /\ s \in stored' /\ \A x \in stored : Locked(x) => x \in stored'
                   /\ detached' = {}
<1>1. /\ s \in Session /\ First(queue[s], t) /\ Locked(s)
      /\ pc[t] = "gate" /\ pc' = [pc EXCEPT ![t] = "work"]
      /\ UNCHANGED <<queue, session, made>>
  BY DEF VersionInv, Load, First, Locked
<1>2. Busy' = Busy /\ pc' \in [Task -> PC]
  BY <1>1, StaysBusy DEF GateInv, PC
<1>3. Kept
  <2>1. CASE s \in stored /\ UNCHANGED <<storeVars, detached>>
    BY <2>1 DEF storeVars, GateInv, StoreInv
  <2>2. ASSUME NEW kept \in Pruned(stored \ {s}), stored' = kept \cup {s},
               older' = (older \cap (kept \X kept)) \cup (kept \X {s}),
               detached' = detached \cup {u \in Task : pc[u] = "work" /\ session[u] \notin kept}
        PROVE  Kept
    <3>1. /\ kept \subseteq stored \ {s} /\ \A x \in stored \ {s} : Locked(x) => x \in kept
          /\ IsFiniteSet(stored') /\ Cardinality(stored') <= Room
      BY <1>1, <2>2, PruningMakesRoom
    <3>2. ASSUME NEW u \in Task, pc[u] = "work" PROVE session[u] \in kept
      <4>1. First(queue[session[u]], u) /\ session[u] \in stored /\ Locked(session[u])
        BY <3>2 DEF GateInv, First, Locked
      <4>2. u # t /\ session[u] # s
        BY <1>1, <3>2, <4>1 DEF First
      <4> QED
        BY <3>1, <4>1, <4>2
    <3> QED
      BY <1>1, <2>2, <3>1, <3>2 DEF GateInv, StoreInv
  <2> QED
    BY <2>1, <2>2 DEF Load
<1>4. StoreInv'
  BY <1>2, <1>3 DEF StoreInv, Room
<1>5. \A u \in Task : pc'[u] \in {"work", "close"} =>
         First(queue'[session'[u]], u) /\ session'[u] \in stored'
  <2> SUFFICES ASSUME NEW u \in Task \ {t}, pc'[u] \in {"work", "close"}
               PROVE  First(queue[session[u]], u) /\ session[u] \in stored'
    BY <1>1, <1>3
  <2>1. First(queue[session[u]], u) /\ session[u] \in stored /\ Locked(session[u])
    BY <1>1 DEF GateInv, First, Locked
  <2> QED
    BY <1>3, <2>1
<1>6. \A x \in Session, u \in Task :
         In(queue'[x], u) <=> pc'[u] # "idle" /\ session'[u] = x
  BY <1>1 DEF GateInv
<1>7. GateInv'
  BY <1>1, <1>2, <1>3, <1>5, <1>6 DEF GateInv
<1> QED
  BY <1>4, <1>7

LEMMA TurnInv ==
  ASSUME SessionInv, NEW t \in Task, Turn(t)
  PROVE  GateInv' /\ StoreInv'
<1> USE DEF SessionInv
<1>1. /\ pc[t] = "work" /\ pc' = [pc EXCEPT ![t] = "close"]
      /\ UNCHANGED <<queue, session, stored, older, detached>>
  BY DEF Turn
<1>2. Busy' = Busy /\ pc' \in [Task -> PC]
  BY <1>1, StaysBusy DEF GateInv, PC
<1>3. StoreInv'
  BY <1>1, <1>2 DEF StoreInv, Room
<1>4. GateInv'
  BY <1>1, <1>2 DEF GateInv
<1> QED
  BY <1>3, <1>4

LEMMA FinishInv ==
  ASSUME SessionInv, NEW t \in Task, Finish(t)
  PROVE  GateInv' /\ StoreInv'
<1> USE DEF SessionInv
<1> DEFINE s == session[t]
<1>1. /\ s \in Session /\ queue[s] \in Seq(Task) /\ NoRepeats(queue[s]) /\ In(queue[s], t)
      /\ pc[t] # "idle" /\ pc' = [pc EXCEPT ![t] = "idle"]
      /\ UNCHANGED <<session, stored, older>> /\ detached' = {}
  BY DEF GateInv, VersionInv, Finish, storeVars
<1>2. /\ queue' \in [Session -> Seq(Task)] /\ NoRepeats(queue'[s])
      /\ \A u : In(queue'[s], u) <=> In(queue[s], u) /\ u # t
      /\ \A u : First(queue[s], u) /\ u # t => First(queue'[s], u)
      /\ \A x \in Session \ {s} : queue'[x] = queue[x]
  BY <1>1, LeaveQueue DEF GateInv, Finish
<1>3. pc' \in [Task -> PC] /\ pc'[t] = "idle" /\ \A u \in Task \ {t} : pc'[u] = pc[u]
  BY <1>1 DEF GateInv, PC
<1>4. \A x \in Session : NoRepeats(queue'[x])
  BY <1>2 DEF GateInv
<1>5. ASSUME NEW x \in Session, NEW u \in Task
      PROVE  In(queue'[x], u) <=> pc'[u] # "idle" /\ session'[u] = x
  <2>1. In(queue[x], u) <=> pc[u] # "idle" /\ session[u] = x
    BY DEF GateInv
  <2>2. In(queue'[x], u) <=> In(queue[x], u) /\ ~(x = s /\ u = t)
    BY <1>2
  <2>3. pc'[u] # "idle" <=> pc[u] # "idle" /\ u # t
    BY <1>3
  <2> QED
    BY <1>1, <2>1, <2>2, <2>3
<1>6. \A u \in Task : pc'[u] \in {"work", "close"} =>
         First(queue'[session'[u]], u) /\ session'[u] \in stored'
  BY <1>1, <1>2, <1>3 DEF GateInv, VersionInv
<1>7. GateInv'
  BY <1>1, <1>2, <1>3, <1>4, <1>5, <1>6 DEF GateInv
<1>8. IsFiniteSet(Busy') /\ Cardinality(Busy') <= MaxConcurrent
  <2>1. Busy' \subseteq Busy
    BY <1>3 DEF Busy
  <2> QED
    BY <2>1, FS_Subset, FS_CardinalityType, LimitAssumption DEF StoreInv
<1>9. StoreInv'
  BY <1>1, <1>8 DEF StoreInv, Room
<1> QED
  BY <1>7, <1>9

LEMMA StepSession == SessionInv /\ [Next]_vars => SessionInv'
<1> SUFFICES ASSUME SessionInv, [Next]_vars PROVE SessionInv'
  OBVIOUS
<1>1. VersionInv'
  BY StepEvolves DEF SessionInv
<1>2. ASSUME UNCHANGED <<queue, pc, session, stored, older, detached>>
      PROVE  GateInv' /\ StoreInv'
  BY <1>2 DEF SessionInv, GateInv, StoreInv, Busy, Room
<1>3. CASE UNCHANGED vars
  BY <1>1, <1>2, <1>3 DEF vars, storeVars, SessionInv
<1>4. ASSUME NEW t \in Task, Request(t) PROVE GateInv' /\ StoreInv'
  BY <1>4, ArriveInv, LoadInv, TurnInv, FinishInv DEF Request
<1>5. ASSUME NEW s \in Session, Edit(s) \/ TimePasses(s) PROVE GateInv' /\ StoreInv'
  BY <1>2, <1>5 DEF Edit, Diff, Copy, Branch, TimePasses
<1> QED
  BY <1>1, <1>3, <1>4, <1>5 DEF Next, SessionInv

-----------------------------------------------------------------------------
(* What the store promises *)

LEMMA SessionsAreSound == Spec => []SessionInv
BY SessionInitInv, StepSession, PTL DEF Spec

(* However requests arrive, wait, expire and are cancelled, no eviction    *)
(* takes the dictionary of a running query out of the store.               *)
THEOREM NoTurnIsDetached == Spec => []TurnsReachTheStore
<1>1. SessionInv => TurnsReachTheStore
  BY DEF SessionInv, GateInv, TurnsReachTheStore
<1> QED
  BY <1>1, SessionsAreSound, PTL

(* The store holds no more sessions than its limit, or than queries are    *)
(* admitted at once, if that is more; and every variable has its type.     *)
THEOREM StoreHasItsBound == Spec => []StoreIsBounded
<1>1. SessionInv => StoreIsBounded
  <2> SUFFICES ASSUME SessionInv PROVE StoreIsBounded
    OBVIOUS
  <2>1. \A s \in Session : /\ data[s].turns \in Seq(SQL) /\ Len(data[s].turns) <= MaxTurns
                           /\ data[s].versions \in Seq(Version) /\ data[s].stale \in BOOLEAN
                           /\ Bounded(data[s])
    BY DEF SessionInv, VersionInv, Sound, Record, Bounded
  <2> QED
    BY <2>1 DEF SessionInv, VersionInv, GateInv, StoreInv, StoreIsBounded, TypeOK, Bounded, Room
<1> QED
  BY <1>1, SessionsAreSound, PTL

-----------------------------------------------------------------------------
(* The model router *)

Placed ==
    /\ await \in [Call -> Await]
    /\ pos \in [Call -> 1 .. Len(Chain) + 1]
    /\ attempt \in [Call -> 0 .. Retries]
    /\ wait \in [Call -> 0 .. Window + Backoff]
    /\ \A c \in Call : await[c] \in {"rate", "permit", "call", "stream"} => pos[c] <= Len(Chain)

Permitted ==
    /\ permits \subseteq {c \in Call : await[c] \in {"call", "stream"}}
    /\ IsFiniteSet(permits) /\ Cardinality(permits) <= Permits

Cooling ==
    /\ status \in [Provider -> Status]
    /\ cooling \in [Provider -> 0 .. Cooldown]
    /\ \A p \in Provider : status[p] # "bad" => cooling[p] = 0

Charged ==
    /\ spent \in [Budget -> Nat] /\ reached = spent
    /\ \A b \in Budget : spent[b] <= Limit[b]

(* A window is the end of what was taken, and what went out of it is old.  *)
EndOf(w, s) ==
    /\ w \in Seq(Age) /\ s \in Seq(Age) /\ Len(w) <= Len(s)
    /\ \A i \in 1 .. Len(w) : w[i] = s[Len(s) - Len(w) + i]
    /\ \A i \in 1 .. Len(s) - Len(w) : s[i] = Window

Windows ==
    /\ window \in [Provider -> Seq(Age)] /\ slots \in [Provider -> Seq(Age)]
    /\ \A p \in Provider : EndOf(window[p], slots[p]) /\ Len(window[p]) <= Rpm[p]

RouterInv == Placed /\ Permitted /\ Cooling /\ Charged /\ Windows

LEMMA ChainIs ==
    /\ Len(Chain) \in Nat /\ \A i \in 1 .. Len(Chain) : Chain[i] \in Provider
    /\ Window \in Nat \ {0} /\ Permits \in Nat \ {0}
    /\ Retries \in Nat /\ Backoff \in Nat /\ Cooldown \in Nat
BY RouterAssumption

LEMMA HereIs ==
    ASSUME Placed, NEW c \in Call, await[c] \in {"rate", "permit", "call", "stream"}
    PROVE  Here(c) \in Provider
<1>1. pos[c] \in 1 .. Len(Chain) + 1 /\ pos[c] <= Len(Chain)
  BY DEF Placed
<1>2. pos[c] \in 1 .. Len(Chain)
  BY <1>1, ChainIs
<1> QED
  BY <1>2, ChainIs DEF Here

(* The loop of _wait_rate takes a beginning out of the window, all of it   *)
(* old.                                                                    *)
LEMMA LiveIs ==
    ASSUME NEW p \in Provider, window[p] \in Seq(Age)
    PROVE  \E k \in 0 .. Len(window[p]) :
              /\ Live(p) \in Seq(Age) /\ Len(Live(p)) = Len(window[p]) - k
              /\ \A i \in 1 .. Len(window[p]) - k : Live(p)[i] = window[p][k + i]
              /\ \A i \in 1 .. k : window[p][i] = Window
<1> DEFINE w == window[p]
           old == {i \in DOMAIN w : \A j \in 1 .. i : w[j] = Window}
           k == Cardinality(old)
<1>1. w \in Seq(Age) /\ Len(w) \in Nat /\ DOMAIN w = 1 .. Len(w)
  OBVIOUS
<1>2. old \subseteq 1 .. Len(w) /\ IsFiniteSet(1 .. Len(w)) /\ Cardinality(1 .. Len(w)) = Len(w)
  <2>1. 1 <= Len(w) + 1 /\ 1 \in Int /\ Len(w) \in Int
    BY <1>1
  <2>2. IsFiniteSet(1 .. Len(w))
        /\ Cardinality(1 .. Len(w)) = IF 1 > Len(w) THEN 0 ELSE Len(w) - 1 + 1
    BY <2>1, FS_Interval
  <2> QED
    BY <2>2, <1>1
<1>3. IsFiniteSet(old) /\ k \in Nat /\ k <= Len(w)
  <2>1. IsFiniteSet(old) /\ Cardinality(old) <= Cardinality(1 .. Len(w))
    BY <1>2, FS_Subset
  <2> QED
    BY <2>1, <1>2, FS_CardinalityType
<1>4. ASSUME NEW i \in 1 .. k
      PROVE  i \in old
  <2>1. SUFFICES ASSUME i \notin old PROVE FALSE
    OBVIOUS
  <2>2. i \in 1 .. Len(w) /\ i \in Nat /\ i - 1 \in Nat
    <3>1. i \in 1 .. k /\ k \in Nat /\ k <= Len(w) /\ Len(w) \in Nat
      BY <1>1, <1>3
    <3> HIDE DEF k, w
    <3> QED
      BY <3>1
  <2>3. ASSUME NEW j \in old
        PROVE  j \in 1 .. i - 1
    <3>1. j \in 1 .. Len(w) /\ \A h \in 1 .. j : w[h] = Window
      BY <1>2
    <3>2. ASSUME j >= i
          PROVE  FALSE
      <4>1. \A h \in 1 .. i : h \in 1 .. j
        BY <3>1, <3>2, <2>2
      <4>2. i \in DOMAIN w /\ \A h \in 1 .. i : w[h] = Window
        BY <4>1, <3>1, <2>2, <1>1
      <4> QED
        BY <4>2, <2>1
    <3> QED
      BY <3>1, <3>2, <2>2
  <2>4. IsFiniteSet(1 .. i - 1) /\ Cardinality(1 .. i - 1) = i - 1
    <3> DEFINE n == i - 1
    <3>1. n \in Nat
      BY <2>2
    <3> HIDE DEF n
    <3>2. 1 \in Int /\ n \in Int
      BY <3>1
    <3>3. IsFiniteSet(1 .. n) /\ Cardinality(1 .. n) = IF 1 > n THEN 0 ELSE n - 1 + 1
      BY <3>2, FS_Interval
    <3>4. Cardinality(1 .. n) = n
      BY <3>1, <3>3
    <3> QED
      BY <3>3, <3>4 DEF n
  <2>5. k <= i - 1
    <3>1. old \subseteq 1 .. i - 1
      BY <2>3
    <3>2. Cardinality(old) <= Cardinality(1 .. i - 1)
      BY <3>1, <2>4, FS_Subset
    <3> QED
      BY <3>2, <2>4
  <2> QED
    BY <2>5, <2>2, <1>3, <1>4
<1>5. \A i \in 1 .. k : w[i] = Window
  <2>1. ASSUME NEW i \in 1 .. k
        PROVE  w[i] = Window
    <3>1. i \in old
      BY <1>4
    <3>2. i \in 1 .. i
      BY <1>3
    <3> QED
      BY <3>1, <3>2
  <2> QED
    BY <2>1
<1>6. Live(p) = SubSeq(w, k + 1, Len(w))
  BY DEF Live
<1> HIDE DEF k, old
<1>7. /\ Live(p) \in Seq(Age) /\ Len(Live(p)) = Len(w) - k
      /\ \A i \in 1 .. Len(w) - k : Live(p)[i] = w[k + i]
  <2>1. k + 1 \in Int /\ Len(w) \in Int /\ k + 1 \in 1 .. Len(w) + 1
    BY <1>1, <1>3
  <2>2. \A i \in k + 1 .. Len(w) : w[i] \in Age
    BY <1>1, <1>3, ElementOfSeq
  <2>3. /\ SubSeq(w, k + 1, Len(w)) \in Seq(Age)
        /\ Len(SubSeq(w, k + 1, Len(w))) = IF k + 1 <= Len(w) THEN Len(w) - (k + 1) + 1 ELSE 0
        /\ \A i \in 1 .. Len(w) - (k + 1) + 1 : SubSeq(w, k + 1, Len(w))[i] = w[(k + 1) + i - 1]
    BY <2>1, <2>2, SubSeqProperties
  <2>4. Len(w) - (k + 1) + 1 = Len(w) - k /\ \A i \in 1 .. Len(w) - k : (k + 1) + i - 1 = k + i
    BY <1>1, <1>3
  <2>5. Len(SubSeq(w, k + 1, Len(w))) = Len(w) - k
    BY <2>3, <1>1, <1>3
  <2> QED
    BY <2>3, <2>4, <2>5, <1>6
<1>8. k \in 0 .. Len(w)
  BY <1>1, <1>3
<1> QED
  BY <1>5, <1>7, <1>8

(* A slot is taken: what was old goes, what is taken is new.               *)
LEMMA TakeKeepsEnd ==
    ASSUME NEW w \in Seq(Age), NEW s \in Seq(Age), EndOf(w, s), NEW k \in 0 .. Len(w),
           NEW l \in Seq(Age), Len(l) = Len(w) - k,
           \A i \in 1 .. Len(w) - k : l[i] = w[k + i],
           \A i \in 1 .. k : w[i] = Window
    PROVE  EndOf(l, s) /\ EndOf(Append(l, 0), Append(s, 0))
<1>1. Len(w) \in Nat /\ Len(s) \in Nat /\ Len(l) \in Nat /\ Len(w) <= Len(s) /\ k \in Nat
      /\ Len(l) <= Len(s) /\ Len(s) - Len(l) = Len(s) - Len(w) + k
  BY DEF EndOf
<1>2. \A i \in 1 .. Len(l) : l[i] = s[Len(s) - Len(l) + i]
  <2>1. ASSUME NEW i \in 1 .. Len(l)
        PROVE  l[i] = s[Len(s) - Len(l) + i]
    <3>1. k + i \in 1 .. Len(w) /\ i \in 1 .. Len(w) - k
          /\ Len(s) - Len(w) + (k + i) = Len(s) - Len(l) + i
      BY <1>1
    <3> QED
      BY <3>1 DEF EndOf
  <2> QED
    BY <2>1
<1>3. \A i \in 1 .. Len(s) - Len(l) : s[i] = Window
  <2>1. ASSUME NEW i \in 1 .. Len(s) - Len(l)
        PROVE  s[i] = Window
    <3> DEFINE d == Len(s) - Len(w)
    <3>1. d \in Nat /\ i \in 1 .. d + k /\ d = Len(s) - Len(w)
      BY <1>1
    <3> HIDE DEF d
    <3>2. CASE i <= d
      <4>1. i \in 1 .. d
        BY <3>1, <3>2, <1>1
      <4> QED
        BY <4>1, <3>1 DEF EndOf
    <3>3. CASE ~(i <= d)
      <4>1. i - d \in 1 .. k /\ i - d \in 1 .. Len(w) /\ d + (i - d) = i
        BY <3>1, <3>3, <1>1
      <4>2. w[i - d] = s[d + (i - d)]
        BY <4>1, <3>1 DEF EndOf
      <4>3. w[i - d] = Window
        BY <4>1
      <4> QED
        BY <4>1, <4>2, <4>3
    <3> QED
      BY <3>2, <3>3
  <2> QED
    BY <2>1
<1>4. EndOf(l, s)
  BY <1>1, <1>2, <1>3 DEF EndOf
<1> DEFINE l1 == Append(l, 0)
           s1 == Append(s, 0)
<1>5. 0 \in Age
  BY ChainIs DEF Age
<1>6. /\ l1 \in Seq(Age) /\ Len(l1) = Len(l) + 1 /\ l1[Len(l) + 1] = 0
      /\ \A i \in 1 .. Len(l) : l1[i] = l[i]
  BY <1>5
<1>7. /\ s1 \in Seq(Age) /\ Len(s1) = Len(s) + 1 /\ s1[Len(s) + 1] = 0
      /\ \A i \in 1 .. Len(s) : s1[i] = s[i]
  BY <1>5
<1> HIDE DEF l1, s1
<1>8. Len(s1) - Len(l1) = Len(s) - Len(l) /\ Len(l1) <= Len(s1)
  BY <1>1, <1>6, <1>7
<1>9. ASSUME NEW i \in 1 .. Len(l1)
      PROVE  l1[i] = s1[Len(s1) - Len(l1) + i]
  <2>1. CASE i = Len(l) + 1
    <3>1. Len(s) \in Nat /\ Len(l) \in Nat
      BY <1>1
    <3>2. Len(s1) - Len(l1) + i = Len(s) + 1
      BY <3>1, <2>1, <1>6, <1>7
    <3> QED
      BY <3>2, <2>1, <1>6, <1>7
  <2>2. CASE i # Len(l) + 1
    <3>1. i \in 1 .. Len(l) /\ Len(s) - Len(l) + i \in 1 .. Len(s)
      BY <2>2, <1>1, <1>6
    <3>2. l1[i] = l[i] /\ s1[Len(s) - Len(l) + i] = s[Len(s) - Len(l) + i]
      BY <3>1, <1>6, <1>7
    <3>3. l[i] = s[Len(s) - Len(l) + i]
      BY <3>1, <1>2
    <3> QED
      BY <3>2, <3>3, <1>8
  <2> QED
    BY <2>1, <2>2
<1>10. ASSUME NEW i \in 1 .. Len(s1) - Len(l1)
       PROVE  s1[i] = Window
  <2>1. i \in 1 .. Len(s) /\ i \in 1 .. Len(s) - Len(l)
    BY <1>1, <1>8
  <2> QED
    BY <2>1, <1>3, <1>7
<1>11. EndOf(l1, s1)
  BY <1>6, <1>7, <1>8, <1>9, <1>10 DEF EndOf
<1> QED
  BY <1>4, <1>11 DEF l1, s1

LEMMA OlderIs ==
    ASSUME NEW s \in Seq(Age)
    PROVE  /\ Older(s) \in Seq(Age) /\ Len(Older(s)) = Len(s)
           /\ \A i \in 1 .. Len(s) : Older(s)[i] = IF s[i] < Window THEN s[i] + 1 ELSE Window
<1>1. DOMAIN s = 1 .. Len(s) /\ Len(s) \in Nat /\ Window \in Nat
  BY ChainIs
<1>2. \A i \in 1 .. Len(s) : s[i] \in Age
  BY ElementOfSeq
<1>3. \A i \in 1 .. Len(s) : (IF s[i] < Window THEN s[i] + 1 ELSE Window) \in Age
  BY <1>1, <1>2 DEF Age
<1>4. Older(s) \in [1 .. Len(s) -> Age]
  BY <1>1, <1>3 DEF Older
<1> QED
  BY <1>1, <1>4 DEF Older

LEMMA OlderKeepsEnd ==
    ASSUME NEW w, NEW s, EndOf(w, s)
    PROVE  EndOf(Older(w), Older(s))
<1>1. w \in Seq(Age) /\ s \in Seq(Age) /\ Len(w) \in Nat /\ Len(s) \in Nat /\ Len(w) <= Len(s)
  BY DEF EndOf
<1>2. Window \in Nat
  BY ChainIs
<1>3. /\ Older(w) \in Seq(Age) /\ Len(Older(w)) = Len(w)
      /\ \A i \in 1 .. Len(w) : Older(w)[i] = IF w[i] < Window THEN w[i] + 1 ELSE Window
  BY <1>1, OlderIs
<1>4. /\ Older(s) \in Seq(Age) /\ Len(Older(s)) = Len(s)
      /\ \A i \in 1 .. Len(s) : Older(s)[i] = IF s[i] < Window THEN s[i] + 1 ELSE Window
  BY <1>1, OlderIs
<1>5. ASSUME NEW i \in 1 .. Len(w)
      PROVE  Older(w)[i] = Older(s)[Len(s) - Len(w) + i]
  <2>1. Len(s) - Len(w) + i \in 1 .. Len(s) /\ w[i] = s[Len(s) - Len(w) + i]
    BY <1>1 DEF EndOf
  <2> QED
    BY <2>1, <1>3, <1>4
<1>6. ASSUME NEW i \in 1 .. Len(s) - Len(w)
      PROVE  Older(s)[i] = Window
  <2>1. i \in 1 .. Len(s) /\ s[i] = Window /\ ~(Window < Window)
    BY <1>1, <1>2 DEF EndOf
  <2> QED
    BY <2>1, <1>4
<1> QED
  BY <1>1, <1>3, <1>4, <1>5, <1>6 DEF EndOf

-----------------------------------------------------------------------------

LEMMA WindowsStep ==
    ASSUME Placed, Windows, RouterNext
    PROVE  Windows'
<1>1. CASE UNCHANGED <<window, slots>>
  BY <1>1 DEF Windows, EndOf, Age
<1>2. ASSUME NEW c \in Call, Slot(c)
      PROVE  Windows'
  <2> DEFINE p == Here(c)
  <2>1. await[c] = "rate" /\ p \in Provider
    BY <1>2, HereIs DEF Slot, At
  <2>2. CASE Rpm[p] = 0
    BY <2>2, <1>2, <1>1 DEF Slot
  <2>3. CASE Rpm[p] # 0
    <3> HIDE DEF p
    <3>1. /\ window[p] \in Seq(Age) /\ slots[p] \in Seq(Age) /\ EndOf(window[p], slots[p])
          /\ Len(window[p]) <= Rpm[p] /\ Rpm[p] \in Nat
      BY <2>1, RouterAssumption DEF Windows
    <3>2. PICK k \in 0 .. Len(window[p]) :
              /\ Live(p) \in Seq(Age) /\ Len(Live(p)) = Len(window[p]) - k
              /\ \A i \in 1 .. Len(window[p]) - k : Live(p)[i] = window[p][k + i]
              /\ \A i \in 1 .. k : window[p][i] = Window
      BY <2>1, <3>1, LiveIs
    <3>3. EndOf(Live(p), slots[p]) /\ EndOf(Append(Live(p), 0), Append(slots[p], 0))
      BY <3>1, <3>2, TakeKeepsEnd
    <3>4. CASE Len(Live(p)) < Rpm[p]
      <4>1. /\ window' = [window EXCEPT ![p] = Append(Live(p), 0)]
            /\ slots' = [slots EXCEPT ![p] = Append(slots[p], 0)]
        BY <1>2, <2>3, <3>4 DEF Slot, Counts, p
      <4>2. Append(Live(p), 0) \in Seq(Age) /\ Append(slots[p], 0) \in Seq(Age)
        BY <3>3 DEF EndOf
      <4>3. Len(Append(Live(p), 0)) <= Rpm[p]
        <5>1. Len(Append(Live(p), 0)) = Len(Live(p)) + 1 /\ Len(Live(p)) \in Nat
          BY <3>2
        <5> QED
          BY <5>1, <3>1, <3>4
      <4> QED
        BY <4>1, <4>2, <4>3, <3>3, <2>1 DEF Windows, EndOf, Age
    <3>5. CASE ~(Len(Live(p)) < Rpm[p])
      <4>1. window' = [window EXCEPT ![p] = Live(p)] /\ slots' = slots
        BY <1>2, <2>3, <3>5 DEF Slot, p
      <4>2. Len(Live(p)) <= Rpm[p]
        BY <3>1, <3>2
      <4> QED
        BY <4>1, <4>2, <3>2, <3>3, <2>1 DEF Windows, EndOf, Age
    <3> QED
      BY <3>4, <3>5
  <2> QED
    BY <2>2, <2>3
<1>3. CASE Tick
  <2>1. window' = [p \in Provider |-> Older(window[p])] /\ slots' = [p \in Provider |-> Older(slots[p])]
    BY <1>3 DEF Tick
  <2>2. ASSUME NEW p \in Provider
        PROVE  /\ window'[p] \in Seq(Age) /\ slots'[p] \in Seq(Age)
               /\ EndOf(window'[p], slots'[p]) /\ Len(window'[p]) <= Rpm[p]
    <3>1. /\ window[p] \in Seq(Age) /\ slots[p] \in Seq(Age) /\ EndOf(window[p], slots[p])
          /\ Len(window[p]) <= Rpm[p]
      BY DEF Windows
    <3>2. EndOf(Older(window[p]), Older(slots[p])) /\ Len(Older(window[p])) = Len(window[p])
      BY <3>1, OlderKeepsEnd, OlderIs
    <3> QED
      BY <2>1, <3>1, <3>2 DEF EndOf
  <2> QED
    BY <2>1, <2>2 DEF Windows, EndOf, Age
<1>4. ASSUME NEW c \in Call, Step(c)
      PROVE  Windows'
  <2>1. CASE Slot(c)
    BY <2>1, <1>2
  <2>2. CASE Begin(c) \/ Choose(c) \/ Permit(c) \/ Answered(c) \/ Failed(c) \/ Leaves(c)
    BY <2>2, <1>1 DEF Begin, Choose, Permit, Answered, Failed, Leaves
  <2> QED
    BY <1>4, <2>1, <2>2 DEF Step
<1> QED
  BY <1>3, <1>4 DEF RouterNext

LEMMA ChargedStep ==
    ASSUME Charged, RouterNext
    PROVE  Charged'
<1>1. CASE UNCHANGED <<spent, reached>>
  BY <1>1 DEF Charged
<1>2. ASSUME NEW c \in Call, Permit(c), ~(\E b \in BudgetsOf[c] : spent[b] >= Limit[b])
      PROVE  Charged'
  <2>1. /\ spent' = [b \in Budget |-> IF b \in BudgetsOf[c] THEN spent[b] + 1 ELSE spent[b]]
        /\ reached' = [b \in Budget |-> IF b \in BudgetsOf[c] THEN reached[b] + 1 ELSE reached[b]]
    BY <1>2 DEF Permit
  <2>2. \A b \in Budget : spent[b] \in Nat /\ Limit[b] \in Nat /\ spent[b] <= Limit[b]
    BY RouterAssumption DEF Charged
  <2>3. spent' \in [Budget -> Nat] /\ reached' = spent'
    BY <2>1, <2>2 DEF Charged
  <2>4. \A b \in Budget : spent'[b] <= Limit[b]
    BY <2>1, <2>2, <1>2
  <2> QED
    BY <2>3, <2>4 DEF Charged
<1>3. ASSUME NEW c \in Call, Permit(c), \E b \in BudgetsOf[c] : spent[b] >= Limit[b]
      PROVE  Charged'
  BY <1>3, <1>1 DEF Permit
<1>4. ASSUME NEW c \in Call, Step(c)
      PROVE  Charged'
  <2>1. CASE Permit(c)
    BY <2>1, <1>2, <1>3
  <2>2. CASE Begin(c) \/ Choose(c) \/ Slot(c) \/ Answered(c) \/ Failed(c) \/ Leaves(c)
    BY <2>2, <1>1 DEF Begin, Choose, Slot, Answered, Failed, Leaves
  <2> QED
    BY <1>4, <2>1, <2>2 DEF Step
<1>5. CASE Tick
  BY <1>5, <1>1 DEF Tick
<1> QED
  BY <1>4, <1>5 DEF RouterNext

LEMMA CoolingStep ==
    ASSUME Placed, Cooling, RouterNext
    PROVE  Cooling'
<1> USE DEF Status
<1>1. CASE UNCHANGED providers
  BY <1>1 DEF Cooling, providers
<1>2. ASSUME NEW c \in Call, Answered(c)
      PROVE  Cooling'
  <2>1. Here(c) \in Provider
    BY <1>2, HereIs DEF Answered
  <2> QED
    BY <2>1, <1>2, ChainIs DEF Answered, Cooling
<1>3. ASSUME NEW c \in Call, Failed(c)
      PROVE  Cooling'
  <2>1. Here(c) \in Provider
    BY <1>3, HereIs DEF Failed
  <2>2. CASE attempt[c] < Retries
    BY <2>2, <1>3, <1>1 DEF Failed
  <2>3. CASE ~(attempt[c] < Retries)
    <3>1. /\ status' = [status EXCEPT ![Here(c)] = "bad"]
          /\ cooling' = [cooling EXCEPT ![Here(c)] = Cooldown]
      BY <2>3, <1>3 DEF Failed
    <3>2. Cooldown \in 0 .. Cooldown
      BY ChainIs
    <3>3. status' \in [Provider -> Status] /\ cooling' \in [Provider -> 0 .. Cooldown]
      BY <3>1, <3>2, <2>1 DEF Cooling
    <3>4. \A p \in Provider : status'[p] # "bad" => cooling'[p] = 0
      BY <3>1, <2>1 DEF Cooling
    <3> QED
      BY <3>3, <3>4 DEF Cooling
  <2> QED
    BY <2>2, <2>3
<1>4. CASE Tick
  <2>1. /\ cooling' = [p \in Provider |-> IF cooling[p] > 0 THEN cooling[p] - 1 ELSE 0]
        /\ status' = status
    BY <1>4 DEF Tick
  <2>2. \A p \in Provider : cooling[p] \in 0 .. Cooldown
    BY DEF Cooling
  <2>3. cooling' \in [Provider -> 0 .. Cooldown]
    BY <2>1, <2>2, ChainIs
  <2> QED
    BY <2>1, <2>3 DEF Cooling
<1>5. ASSUME NEW c \in Call, Step(c)
      PROVE  Cooling'
  <2>1. CASE Begin(c) \/ Choose(c) \/ Slot(c) \/ Permit(c) \/ Leaves(c)
    BY <2>1, <1>1 DEF Begin, Choose, Slot, Permit, Leaves
  <2> QED
    BY <1>5, <2>1, <1>2, <1>3 DEF Step
<1> QED
  BY <1>4, <1>5 DEF RouterNext

LEMMA PlacedStep ==
    ASSUME Placed, Windows, RouterNext
    PROVE  Placed'
<1> USE DEF Await
<1>1. ASSUME NEW c \in Call, Ends(c)
      PROVE  Placed'
  BY <1>1, ChainIs DEF Placed, Ends, Goes
<1>2. ASSUME NEW c \in Call, NEW to \in Await, Goes(c, to), UNCHANGED <<pos, attempt, wait>>,
             to \in {"idle", "choose", "over"}
                \/ await[c] \in {"rate", "permit", "call", "stream"}
      PROVE  Placed'
  BY <1>2 DEF Placed, Goes
<1>3. ASSUME NEW c \in Call, Begin(c)
      PROVE  Placed'
  BY <1>3, <1>2 DEF Begin
<1>4. ASSUME NEW c \in Call, Choose(c)
      PROVE  Placed'
  <2>1. CASE Ends(c)
    BY <2>1, <1>1
  <2>2. ASSUME NEW j \in Able(c), Goes(c, "rate"), pos' = [pos EXCEPT ![c] = j],
               attempt' = [attempt EXCEPT ![c] = 0], UNCHANGED wait
        PROVE  Placed'
    <3>1. pos[c] \in 1 .. Len(Chain) + 1 /\ j \in pos[c] .. Len(Chain)
      BY DEF Placed, Able
    <3>2. j \in 1 .. Len(Chain) + 1 /\ j <= Len(Chain)
      BY <3>1, ChainIs
    <3> QED
      BY <3>2, <2>2, ChainIs DEF Placed, Goes
  <2> QED
    BY <1>4, <2>1, <2>2 DEF Choose
<1>5. ASSUME NEW c \in Call, Slot(c)
      PROVE  Placed'
  <2> DEFINE p == Here(c)
  <2>1. await[c] = "rate" /\ p \in Provider /\ UNCHANGED <<pos, attempt>>
    BY <1>5, HereIs DEF Slot, At
  <2>2. CASE Goes(c, "permit") /\ UNCHANGED wait
    BY <2>2, <2>1, <1>2
  <2>3. CASE UNCHANGED await /\ wait' = [wait EXCEPT ![c] = Window - Head(Live(p))]
             /\ Rpm[p] # 0 /\ ~(Len(Live(p)) < Rpm[p])
    <3> HIDE DEF p
    <3>1. window[p] \in Seq(Age) /\ Rpm[p] \in Nat
      BY <2>1, RouterAssumption DEF Windows
    <3>2. Live(p) \in Seq(Age)
      BY <2>1, <3>1, LiveIs
    <3>3. Live(p) # <<>>
      BY <2>3, <3>1, <3>2
    <3>4. Head(Live(p)) \in 0 .. Window
      BY <3>2, <3>3, HeadTailProperties DEF Age
    <3>5. Window - Head(Live(p)) \in 0 .. Window + Backoff
      BY <3>4, ChainIs
    <3> QED
      BY <3>5, <2>1, <2>3 DEF Placed
  <2> QED
    BY <1>5, <2>2, <2>3 DEF Slot
<1>6. ASSUME NEW c \in Call, Permit(c)
      PROVE  Placed'
  BY <1>6, <1>1, <1>2 DEF Permit, At
<1>7. ASSUME NEW c \in Call, Answered(c)
      PROVE  Placed'
  BY <1>7, <1>1, <1>2 DEF Answered
<1>8. ASSUME NEW c \in Call, Failed(c)
      PROVE  Placed'
  <2>1. await[c] = "call"
    BY <1>8 DEF Failed
  <2>2. CASE attempt[c] < Retries
    <3>1. attempt[c] + 1 \in 0 .. Retries /\ Backoff \in 0 .. Window + Backoff
      BY <2>2, ChainIs DEF Placed
    <3>2. /\ Goes(c, "rate") /\ attempt' = [attempt EXCEPT ![c] = attempt[c] + 1]
          /\ wait' = [wait EXCEPT ![c] = Backoff] /\ pos' = pos
      BY <1>8, <2>2 DEF Failed
    <3> QED
      BY <3>1, <3>2, <2>1 DEF Placed, Goes
  <2>3. CASE ~(attempt[c] < Retries)
    <3>1. pos[c] + 1 \in 1 .. Len(Chain) + 1
      BY <2>1, ChainIs DEF Placed
    <3>2. Goes(c, "choose") /\ pos' = [pos EXCEPT ![c] = pos[c] + 1] /\ UNCHANGED <<attempt, wait>>
      BY <1>8, <2>3 DEF Failed
    <3> QED
      BY <3>1, <3>2 DEF Placed, Goes
  <2> QED
    BY <2>2, <2>3
<1>9. ASSUME NEW c \in Call, Leaves(c)
      PROVE  Placed'
  BY <1>9, <1>1 DEF Leaves
<1>10. CASE Tick
  <2>1. wait' = [c \in Call |-> IF wait[c] > 0 THEN wait[c] - 1 ELSE 0]
        /\ UNCHANGED <<await, pos, attempt>>
    BY <1>10 DEF Tick
  <2>2. \A c \in Call : wait[c] \in 0 .. Window + Backoff
    BY DEF Placed
  <2>3. wait' \in [Call -> 0 .. Window + Backoff]
    BY <2>1, <2>2, ChainIs
  <2> QED
    BY <2>1, <2>3 DEF Placed
<1> QED
  BY <1>3, <1>4, <1>5, <1>6, <1>7, <1>8, <1>9, <1>10 DEF RouterNext, Step

LEMMA PermittedStep ==
    ASSUME Placed, Permitted, RouterNext
    PROVE  Permitted'
<1>1. ASSUME NEW c \in Call, permits' = permits \ {c}, NEW to, Goes(c, to)
      PROVE  Permitted'
  <2>1. IsFiniteSet(permits) /\ Cardinality(permits) <= Permits
    BY DEF Permitted
  <2>2. /\ IsFiniteSet(permits \ {c})
        /\ Cardinality(permits \ {c}) = IF c \in permits THEN Cardinality(permits) - 1
                                                       ELSE Cardinality(permits)
    BY <2>1, FS_RemoveElement
  <2>3. Cardinality(permits) \in Nat /\ Permits \in Nat
    BY <2>1, FS_CardinalityType, ChainIs
  <2>4. Cardinality(permits \ {c}) <= Permits
    BY <2>1, <2>2, <2>3
  <2> QED
    BY <2>2, <2>4, <1>1 DEF Permitted, Placed, Goes
<1>2. ASSUME NEW c \in Call, UNCHANGED permits, NEW to, Goes(c, to),
             await[c] \notin {"call", "stream"} \/ to \in {"call", "stream"}
      PROVE  Permitted'
  BY <1>2 DEF Permitted, Placed, Goes
<1>3. CASE UNCHANGED <<permits, await>>
  BY <1>3 DEF Permitted
<1>4. ASSUME NEW c \in Call, Permit(c)
      PROVE  Permitted'
  <2>1. await[c] = "permit" /\ Cardinality(permits) < Permits
    BY <1>4 DEF Permit, At
  <2>2. CASE Ends(c) /\ UNCHANGED permits
    BY <2>1, <2>2, <1>2 DEF Ends
  <2>3. CASE Goes(c, "call") /\ permits' = permits \cup {c}
    <3>1. c \notin permits /\ IsFiniteSet(permits)
      BY <2>1 DEF Permitted
    <3>2. IsFiniteSet(permits \cup {c}) /\ Cardinality(permits \cup {c}) = Cardinality(permits) + 1
      BY <3>1, FS_AddElement
    <3>3. Cardinality(permits) \in Nat /\ Permits \in Nat
      BY <3>1, FS_CardinalityType, ChainIs
    <3>4. Cardinality(permits \cup {c}) <= Permits
      BY <2>1, <3>2, <3>3
    <3> QED
      BY <3>2, <3>4, <2>3 DEF Permitted, Placed, Goes
  <2> QED
    BY <1>4, <2>2, <2>3 DEF Permit
<1>5. ASSUME NEW c \in Call, Step(c)
      PROVE  Permitted'
  <2>1. CASE Begin(c)
    BY <2>1, <1>2 DEF Begin
  <2>2. CASE Choose(c)
    <3>1. await[c] = "choose" /\ permits' = permits /\ (Goes(c, "over") \/ Goes(c, "rate"))
      BY <2>2 DEF Choose, At, Ends
    <3> QED
      BY <3>1, <1>2
  <2>3. CASE Slot(c)
    <3>1. await[c] = "rate" /\ permits' = permits /\ (Goes(c, "permit") \/ await' = await)
      BY <2>3 DEF Slot, At
    <3> QED
      BY <3>1, <1>2, <1>3
  <2>4. CASE Answered(c)
    <3>1. (Goes(c, "stream") /\ permits' = permits) \/ (Goes(c, "over") /\ permits' = permits \ {c})
      BY <2>4 DEF Answered, Ends
    <3> QED
      BY <3>1, <1>1, <1>2
  <2>5. CASE Failed(c)
    <3>1. permits' = permits \ {c} /\ (Goes(c, "rate") \/ Goes(c, "choose"))
      BY <2>5 DEF Failed
    <3> QED
      BY <3>1, <1>1
  <2>6. CASE Leaves(c)
    BY <2>6, <1>1 DEF Leaves, Ends
  <2> QED
    BY <1>4, <1>5, <2>1, <2>2, <2>3, <2>4, <2>5, <2>6 DEF Step
<1>6. CASE Tick
  BY <1>6, <1>3 DEF Tick
<1> QED
  BY <1>5, <1>6 DEF RouterNext

(* Windows end what was taken, permits and budgets are counted, and each   *)
(* call stands where its locals say.                                       *)
THEOREM RouterInvariant == RouterSpec => []RouterInv
<1>1. RouterInit => RouterInv
  <2>1. SUFFICES ASSUME RouterInit PROVE RouterInv
    OBVIOUS
  <2> USE DEF RouterInit
  <2>2. Placed
    BY <2>1, ChainIs DEF Placed, Await
  <2>3. Permitted
    <3>1. IsFiniteSet({}) /\ Cardinality({}) = 0 /\ 0 <= Permits
      BY FS_EmptySet, ChainIs
    <3> QED
      BY <3>1, <2>1 DEF Permitted
  <2>4. Cooling
    BY <2>1, ChainIs DEF Cooling, Status
  <2>5. Charged
    BY <2>1, RouterAssumption DEF Charged
  <2>6. Windows
    <3>1. <<>> \in Seq(Age) /\ Len(<<>>) = 0 /\ \A p \in Provider : Rpm[p] \in Nat
      BY RouterAssumption
    <3>2. EndOf(<<>>, <<>>)
      BY <3>1 DEF EndOf
    <3> QED
      BY <3>1, <3>2, <2>1 DEF Windows
  <2> QED
    BY <2>2, <2>3, <2>4, <2>5, <2>6 DEF RouterInv
<1>2. RouterInv /\ [RouterNext]_routerVars => RouterInv'
  <2>1. SUFFICES ASSUME RouterInv, [RouterNext]_routerVars PROVE RouterInv'
    OBVIOUS
  <2>2. CASE RouterNext
    BY <2>1, <2>2, PlacedStep, PermittedStep, CoolingStep, ChargedStep, WindowsStep DEF RouterInv
  <2>3. CASE UNCHANGED routerVars
    <3>1. UNCHANGED <<await, pos, attempt, wait, permits, status, cooling>>
          /\ UNCHANGED <<window, spent, reached, slots>>
      BY <2>3 DEF routerVars, place, providers
    <3>2. Placed' /\ Permitted' /\ Cooling' /\ Charged'
      BY <2>1, <3>1 DEF RouterInv, Placed, Permitted, Cooling, Charged
    <3>3. Windows'
      BY <2>1, <3>1 DEF RouterInv, Windows, EndOf, Age
    <3> QED
      BY <3>2, <3>3 DEF RouterInv
  <2> QED
    BY <2>1, <2>2, <2>3
<1> QED
  BY <1>1, <1>2, PTL DEF RouterSpec

(* No budget of nested callers is exceeded, and each is charged exactly    *)
(* for the calls that went out: a refusal by one budget costs the others   *)
(* nothing (reserve_llm_call of budget.py).                                *)
THEOREM BudgetsHold == RouterSpec => []BudgetsAreExact
<1>1. RouterInv => BudgetsAreExact
  BY DEF RouterInv, Charged, BudgetsAreExact
<1> QED
  BY <1>1, RouterInvariant, PTL

(* However many calls wait, sleep, retry or are cancelled, no more slots   *)
(* of a provider are taken within a minute than there are (_wait_rate).    *)
THEOREM MinutesHold == RouterSpec => []SlotsPerMinute
<1>1. RouterInv => SlotsPerMinute
  <2>1. SUFFICES ASSUME RouterInv PROVE SlotsPerMinute
    OBVIOUS
  <2>2. /\ await \in [Call -> Await]
        /\ pos \in [Call -> 1 .. Len(Chain) + 1]
        /\ attempt \in [Call -> 0 .. Retries]
        /\ wait \in [Call -> 0 .. Window + Backoff]
    BY <2>1 DEF RouterInv, Placed
  <2>3. /\ permits \subseteq {c \in Call : await[c] \in {"call", "stream"}}
        /\ Cardinality(permits) <= Permits
    BY <2>1 DEF RouterInv, Permitted
  <2>4. /\ status \in [Provider -> Status]
        /\ cooling \in [Provider -> 0 .. Cooldown]
        /\ \A p \in Provider : status[p] # "bad" => cooling[p] = 0
    BY <2>1 DEF RouterInv, Cooling
  <2>5. spent \in [Budget -> Nat] /\ reached \in [Budget -> Nat]
    BY <2>1 DEF RouterInv, Charged
  <2>6. /\ \A p \in Provider : window[p] \in Seq(Age) /\ Len(window[p]) <= Rpm[p]
        /\ slots \in [Provider -> Seq(Age)]
    BY <2>1 DEF RouterInv, Windows
  <2>7. ASSUME NEW p \in Provider
        PROVE  Cardinality({i \in DOMAIN slots[p] : slots[p][i] < Window}) <= Rpm[p]
    <3> DEFINE n == Len(slots[p])
               m == Len(window[p])
               young == {i \in DOMAIN slots[p] : slots[p][i] < Window}
    <3>1. /\ n \in Nat /\ m \in Nat /\ m <= n /\ m <= Rpm[p] /\ Rpm[p] \in Nat
          /\ DOMAIN slots[p] = 1 .. n
          /\ \A i \in 1 .. n - m : slots[p][i] = Window
      BY <2>1, RouterAssumption DEF RouterInv, Windows, EndOf
    <3> HIDE DEF n, m
    <3>2. ASSUME NEW i \in young
          PROVE  i \in n - m + 1 .. n
      <4>1. i \in 1 .. n /\ slots[p][i] < Window
        BY <3>1
      <4>2. slots[p][i] # Window
        BY <4>1, ChainIs
      <4>3. i \notin 1 .. n - m
        BY <4>2, <3>1
      <4> QED
        BY <4>1, <4>3, <3>1
    <3>3. IsFiniteSet(n - m + 1 .. n) /\ Cardinality(n - m + 1 .. n) = m
      <4> DEFINE k == n - m + 1
      <4>1. k \in Int /\ n \in Int /\ k = n - m + 1
        BY <3>1
      <4> HIDE DEF k
      <4>2. IsFiniteSet(k .. n) /\ Cardinality(k .. n) = IF k > n THEN 0 ELSE n - k + 1
        BY <4>1, FS_Interval
      <4>3. Cardinality(k .. n) = m
        BY <4>1, <4>2, <3>1
      <4> QED
        BY <4>2, <4>3 DEF k
    <3>4. IsFiniteSet(young) /\ Cardinality(young) <= m
      <4>1. young \subseteq n - m + 1 .. n
        BY <3>2
      <4> HIDE DEF young
      <4>2. IsFiniteSet(young) /\ Cardinality(young) <= Cardinality(n - m + 1 .. n)
        BY <4>1, <3>3, FS_Subset
      <4> QED
        BY <4>2, <3>3
    <3>5. Cardinality(young) \in Nat
      BY <3>4, FS_CardinalityType
    <3> HIDE DEF young
    <3>6. Cardinality(young) <= Rpm[p]
      BY <3>1, <3>4, <3>5
    <3> QED
      BY <3>6 DEF young
  <2> QED
    BY <2>2, <2>3, <2>4, <2>5, <2>6, <2>7 DEF SlotsPerMinute, RouterTypeOK
<1> QED
  BY <1>1, RouterInvariant, PTL
=============================================================================
