-------------------------- MODULE SharedQueryProofs --------------------------
(***************************************************************************)
(* Proofs about SharedQuery.tla, for any requests, sessions and limits.    *)
(***************************************************************************)
EXTENDS SharedQuery, FiniteSetTheorems, SequenceTheorems, TLAPS

Short(v) == Len(v.turns) <= MaxTurns

(* Where t stands in its lease and what its frame holds.                   *)
Frame(t) ==
    /\ step[t] = "out" <=> phase[t] = "none"
    /\ phase[t] = "returned" => step[t] = "done"
    /\ step[t] \in {"out", "read", "create"} => base[t] = 0 /\ copy[t] = Empty
    /\ step[t] \in {"commit", "done"} => base[t] # 0
    /\ Short(copy[t])

(* The revision t read is not ahead of the last one, and is one content.   *)
Knows(t) ==
    /\ base[t] <= revision
    /\ step[t] = "commit" /\ rows[session[t]] # NoRow /\ rows[session[t]].rev = base[t]
          => copy[t] = rows[session[t]].value

(* The open transaction seen by t: newer than what it read, its own one    *)
(* where it stands, and never one that prunes the session it works on.     *)
Meets(t) ==
    txn # NoTxn =>
        /\ base[t] # txn.rev
        /\ txn.task = t /\ ~txn.gone =>
              /\ step[t] \in {"create", "commit"}
              /\ session[t] = txn.session
              /\ step[t] = "create" => txn.value = Empty
        /\ phase[t] = "held" /\ step[t] \in {"commit", "done"} => session[t] \notin txn.pruned

(* What t may rely on while nothing has disturbed its session.             *)
Undisturbed(t) ==
    LET s == session[t] IN
    s \notin disturbed =>
        /\ phase[t] # "lost"
        /\ step[t] = "create" => ~Current(s)
        /\ step[t] = "commit" => rows[s] # NoRow /\ rows[s].rev = base[t]
        /\ step[t] = "done" /\ phase[t] = "held" => rows[s] # NoRow /\ rows[s].rev > base[t]

(* t is told of a conflict for a reason (ConflictMeansDisturbance).        *)
Told(t) == outcome[t] = "conflict" => session[t] \in disturbed

TaskInv(t) == Frame(t) /\ Knows(t) /\ Meets(t) /\ Undisturbed(t) /\ Told(t)

(* The open transaction has the newest revision, is left to the server     *)
(* only in a disturbed session, prunes rows that have expired, keeps to    *)
(* the bound and extends what it replaces.                                 *)
Transaction ==
    txn # NoTxn =>
        /\ txn.rev = revision
        /\ \A s \in Session : rows[s] # NoRow => rows[s].rev # txn.rev
        /\ txn.gone => txn.session \in disturbed
        /\ \A s \in txn.pruned : rows[s] # NoRow /\ rows[s].expired
        /\ Cardinality((Stored \ txn.pruned) \cup {txn.session}) <= MaxEntries
        /\ Short(txn.value)
        /\ Current(txn.session) => Extends(txn.value, rows[txn.session].value)

Table ==
    /\ \A s \in Session : rows[s] # NoRow => rows[s].rev <= revision
    /\ IsFiniteSet(Stored) /\ Cardinality(Stored) <= MaxEntries

SharedInv ==
    /\ TypeOK /\ Exclusive /\ Transaction /\ Table
    /\ \A t \in Task : TaskInv(t)

-----------------------------------------------------------------------------
(* The values that are written *)

LEMMA MinOfTwo ==
  ASSUME NEW a \in Nat, NEW b \in Nat
  PROVE  Min({a, b}) = IF a <= b THEN a ELSE b
<1>1. CASE a <= b
  BY <1>1 DEF Min
<1>2. CASE ~(a <= b)
  BY <1>2 DEF Min
<1> QED
  BY <1>1, <1>2

LEMMA LastTurnsShort ==
  ASSUME NEW h \in Seq(Revision)
  PROVE  LastTurns(h) \in Seq(Revision) /\ Len(LastTurns(h)) <= MaxTurns
<1>1. Len(h) \in Nat /\ MaxTurns \in Nat
  BY LenProperties, SharedAssumption
<1> DEFINE m == Min({Len(h), MaxTurns})
<1>2. m \in Nat /\ m <= Len(h) /\ m <= MaxTurns
  BY <1>1, MinOfTwo
<1> HIDE DEF m
<1>3. Len(h) - m + 1 \in 1 .. Len(h) + 1
  BY <1>1, <1>2
<1>4. /\ SubSeq(h, Len(h) - m + 1, Len(h)) \in Seq(Revision)
      /\ Len(SubSeq(h, Len(h) - m + 1, Len(h))) = m
  BY <1>1, <1>2, <1>3, SubSeqProperties
<1> QED
  BY <1>2, <1>4 DEF LastTurns, m

LEMMA NewValueExtends ==
  ASSUME TypeOK, NEW t \in Task, Frame(t), step[t] \in {"create", "commit"},
         NEW r \in Revision
  PROVE  /\ NewValue(t, r) \in Payload /\ Short(NewValue(t, r))
         /\ step[t] = "create" => NewValue(t, r) = Empty
         /\ step[t] = "commit" => Extends(NewValue(t, r), copy[t])
<1>1. copy[t] \in Payload /\ MaxTurns \in Nat
  BY SharedAssumption DEF TypeOK
<1>2. CASE step[t] = "create"
  BY <1>1, <1>2 DEF NewValue, Empty, Short, Payload
<1>3. CASE step[t] = "commit" /\ kind[t] = "query"
  <2>1. NewValue(t, r) = [copy[t] EXCEPT !.turns = LastTurns(Append(@, r))]
    BY <1>3 DEF NewValue
  <2>2. Append(copy[t].turns, r) \in Seq(Revision)
    BY <1>1, AppendProperties DEF Payload
  <2> QED
    BY <1>1, <1>3, <2>1, <2>2, LastTurnsShort DEF Payload, Short, Extends
<1>4. CASE step[t] = "commit" /\ kind[t] # "query"
  <2> DEFINE old == IF copy[t].versions = <<>> THEN copy[t].turns ELSE copy[t].versions
  <2>1. NewValue(t, r) = [copy[t] EXCEPT !.versions =
                             Append(IF @ = <<>> THEN copy[t].turns ELSE @, r)]
    BY <1>4 DEF NewValue
  <2>2. Append(old, r) \in Seq(Revision)
    BY <1>1, AppendProperties DEF Payload
  <2> QED
    BY <1>1, <1>4, <2>1, <2>2 DEF Payload, Short, Extends, Frame
<1> QED
  BY <1>2, <1>3, <1>4

-----------------------------------------------------------------------------
(* Steps that leave the table alone *)

(* Only t goes on; an open transaction of its own it may leave.            *)
Moves(t) ==
    /\ UNCHANGED <<rows, revision>> /\ disturbed \subseteq disturbed'
    /\ \A u \in Task \ {t} :
          /\ phase'[u] = phase[u] /\ slot'[u] = slot[u] /\ session'[u] = session[u]
          /\ outcome'[u] = outcome[u]
          /\ step'[u] = step[u] /\ copy'[u] = copy[u] /\ base'[u] = base[u]
    /\ phase'[t] = "held" =>
          \/ phase[t] = "held" /\ slot'[t] = slot[t] /\ session'[t] = session[t]
          \/ ~Taken(slot'[t], session'[t])
    /\ \/ UNCHANGED txn
       \/ /\ Writing(t) /\ txn' = [txn EXCEPT !.gone = TRUE]
          /\ session[t] \in disturbed'

LEMMA MovesInv ==
  ASSUME SharedInv, NEW t \in Task, Moves(t), TypeOK', TaskInv(t)'
  PROVE  SharedInv'
<1> USE DEF SharedInv, Moves
<1>1. txn \in Txn \cup {NoTxn} /\ txn' \in Txn \cup {NoTxn} /\ NoTxn \notin Txn
  BY SharedAssumption DEF TypeOK
<1>2. /\ txn' # NoTxn <=> txn # NoTxn
      /\ txn # NoTxn => /\ txn'.task = txn.task /\ txn'.session = txn.session
                        /\ txn'.rev = txn.rev /\ txn'.value = txn.value
                        /\ txn'.pruned = txn.pruned
                        /\ txn'.gone => txn.gone \/ (Writing(t) /\ session[t] \in disturbed')
                        /\ txn.gone => txn'.gone
  BY <1>1 DEF Writing, Txn
<1>3. Exclusive'
  BY DEF Exclusive, Taken
<1>4. Transaction'
  <2>1. ASSUME txn # NoTxn, txn'.gone PROVE txn.session \in disturbed'
    BY <1>2, <2>1 DEF Transaction, TaskInv, Meets, Writing
  <2>2. Stored' = Stored /\ (\A s \in Session : Current(s)' = Current(s))
    BY DEF Stored, Current
  <2> QED
    BY <1>2, <2>1, <2>2 DEF Transaction, Current, Short
<1>5. Table'
  BY DEF Table, Stored
<1>6. ASSUME NEW u \in Task \ {t} PROVE TaskInv(u)'
  <2>1. Frame(u)' /\ Knows(u)' /\ Told(u)'
    BY DEF TaskInv, Frame, Knows, Told, Short
  <2>2. Meets(u)'
    BY <1>2 DEF TaskInv, Meets
  <2>3. Undisturbed(u)'
    BY DEF TaskInv, Undisturbed, Current
  <2> QED
    BY <2>1, <2>2, <2>3 DEF TaskInv
<1> QED
  BY <1>3, <1>4, <1>5, <1>6

LEMMA EmptyIsShort == Empty \in Payload /\ Short(Empty)
BY SharedAssumption DEF Empty, Payload, Short

LEMMA BeginInv ==
  ASSUME SharedInv, NEW t \in Task, NEW k \in {"query", "edit"}, NEW q \in Slot,
         NEW s \in Session, Begin(t, k, q, s)
  PROVE  SharedInv'
<1> USE DEF SharedInv, Begin, Grant, storeVars
<1>1. TypeOK'
  BY DEF TypeOK, LeaseTypeOK, Phase, Outcome, Step
<1>2. Moves(t)
  BY DEF Moves, TypeOK, LeaseTypeOK, Taken
<1>3. TaskInv(t)
  OBVIOUS
<1>4. TaskInv(t)'
  BY <1>3 DEF TaskInv, Frame, Knows, Meets, Undisturbed, Told, Short, TypeOK, LeaseTypeOK
<1> QED
  BY <1>1, <1>2, <1>4, MovesInv

LEMMA RefusedInv ==
  ASSUME SharedInv, NEW t \in Task, NEW why \in {"busy", "unavailable", "cancelled"},
         Refused(t, why)
  PROVE  SharedInv'
<1> USE DEF SharedInv, Refused, Refuse, storeVars, bodyVars
<1>1. TypeOK'
  BY DEF TypeOK, LeaseTypeOK, Failure, Outcome
<1>2. Moves(t)
  BY DEF Moves, TypeOK, LeaseTypeOK
<1>3. TaskInv(t)'
  BY DEF TaskInv, Frame, Knows, Meets, Undisturbed, Told, Short, Current, TypeOK, LeaseTypeOK
<1> QED
  BY <1>1, <1>2, <1>3, MovesInv

LEMMA BodyOverTypes ==
  ASSUME TypeOK, NEW t \in Task, BodyOver(t)
  PROVE  /\ step' \in [Task -> Step] /\ kind' \in [Task -> {"query", "edit"}]
         /\ copy' \in [Task -> Payload] /\ base' \in [Task -> 0 .. MaxRevision]
<1>1. Empty \in Payload /\ 0 \in 0 .. MaxRevision
  BY EmptyIsShort, SharedAssumption
<1> QED
  BY <1>1 DEF TypeOK, BodyOver, Step

(* An exception may end a request anywhere inside its lease.               *)
LEMMA RaiseInv ==
  ASSUME SharedInv, NEW t \in Task, NEW why \in Failure, Raise(t, why),
         why = "conflict" => session[t] \in disturbed
  PROVE  SharedInv'
<1> USE DEF SharedInv, Raise, Abandon, BodyOver
<1>1. Writing(t) => txn \in Txn /\ [txn EXCEPT !.gone = TRUE] \in Txn
  BY SharedAssumption DEF TypeOK, Writing, Txn
<1>2. disturbed' \subseteq Session /\ disturbed \subseteq disturbed'
  BY DEF TypeOK, LeaseTypeOK
<1>3. TypeOK'
  <2>1. txn' \in Txn \cup {NoTxn}
    BY <1>1 DEF TypeOK
  <2>2. LeaseTypeOK'
    BY DEF TypeOK, LeaseTypeOK, Phase, Outcome
  <2> QED
    BY <1>2, <2>1, <2>2, BodyOverTypes DEF TypeOK
<1>4. Moves(t)
  BY <1>2 DEF Moves, TypeOK, LeaseTypeOK
<1>5. TaskInv(t)'
  <2>1. /\ phase'[t] = "none" /\ step'[t] = "out" /\ copy'[t] = Empty /\ base'[t] = 0
        /\ session'[t] = session[t] /\ outcome'[t] = why
    BY DEF TypeOK, LeaseTypeOK
  <2>2. Frame(t)' /\ Knows(t)' /\ Undisturbed(t)' /\ Told(t)'
    BY <1>2, <2>1, EmptyIsShort DEF Frame, Knows, Undisturbed, Told, Short, TypeOK
  <2>3. Meets(t)'
    <3>1. txn' # NoTxn => txn'.rev # 0 /\ (txn'.task = t => txn'.gone)
      BY <1>1, <1>3, SharedAssumption DEF TypeOK, Writing, Txn, Revision
    <3> QED
      BY <2>1, <3>1 DEF Meets
  <2> QED
    BY <2>2, <2>3 DEF TaskInv
<1> QED
  BY <1>3, <1>4, <1>5, MovesInv

LEMMA ReadInv ==
  ASSUME SharedInv, NEW t \in Task, Read(t)
  PROVE  SharedInv'
<1> USE DEF SharedInv, Read
<1> DEFINE s == session[t]
<1>1. /\ step[t] = "read" /\ TaskInv(t) /\ s \in Session
      /\ rows[s] # NoRow => rows[s] \in Row
  BY DEF TypeOK, LeaseTypeOK
<1>2. CASE /\ Current(s)
           /\ copy' = [copy EXCEPT ![t] = rows[s].value]
           /\ base' = [base EXCEPT ![t] = rows[s].rev]
           /\ step' = [step EXCEPT ![t] = "commit"]
           /\ UNCHANGED <<leaseVars, storeVars, kind, disturbed>>
  <2> USE DEF leaseVars, storeVars
  <2>1. rows[s] \in Row /\ rows[s].value \in Payload /\ rows[s].rev \in 1 .. MaxRevision
    BY <1>1, <1>2 DEF Current, Row, Revision
  <2>2. TypeOK'
    BY <1>2, <2>1 DEF TypeOK, LeaseTypeOK, Step
  <2>3. Moves(t)
    BY <1>2 DEF Moves, TypeOK
  <2>4. /\ step'[t] = "commit" /\ copy'[t] = rows[s].value /\ base'[t] = rows[s].rev
        /\ phase'[t] = phase[t] /\ session'[t] = s /\ outcome'[t] = outcome[t]
    BY <1>2 DEF TypeOK
  <2>5. Frame(t)' /\ Knows(t)' /\ Told(t)' /\ Undisturbed(t)'
    BY <1>1, <1>2, <2>1, <2>4
       DEF TaskInv, Frame, Knows, Told, Undisturbed, Current, Short, Table, TypeOK
  <2>6. Meets(t)'
    BY <1>1, <1>2, <2>4 DEF TaskInv, Meets, Current, Transaction
  <2> QED
    BY <2>2, <2>3, <2>5, <2>6, MovesInv DEF TaskInv
<1>3. CASE /\ ~Current(s)
           /\ step' = [step EXCEPT ![t] = "create"]
           /\ UNCHANGED <<leaseVars, storeVars, kind, copy, base, disturbed>>
  <2> USE DEF leaseVars, storeVars
  <2>1. TypeOK'
    BY <1>3 DEF TypeOK, LeaseTypeOK, Step
  <2>2. Moves(t)
    BY <1>3 DEF Moves, TypeOK
  <2>3. step'[t] = "create" /\ phase'[t] = phase[t]
    BY <1>3 DEF TypeOK
  <2>4. TaskInv(t)'
    BY <1>1, <1>3, <2>3 DEF TaskInv, Frame, Knows, Told, Undisturbed, Meets, Current, Short
  <2> QED
    BY <2>1, <2>2, <2>4, MovesInv
<1>4. CASE Raise(t, EditRefused(rows[s].value)) /\ EditRefused(rows[s].value) # "none"
  <2>1. EditRefused(rows[s].value) \in {"notFound", "versionsFull"}
    BY <1>4 DEF EditRefused
  <2> QED
    BY <1>4, <2>1, RaiseInv, SharedAssumption DEF Failure
<1>5. CASE Raise(t, "notFound")
  BY <1>5, RaiseInv, SharedAssumption DEF Failure
<1> QED
  BY <1>2, <1>3, <1>4, <1>5

LEMMA GiveBackInv ==
  ASSUME SharedInv, NEW t \in Task, GiveBack(t)
  PROVE  SharedInv'
<1> USE DEF SharedInv, GiveBack, Return, storeVars, bodyVars
<1>1. TypeOK'
  BY DEF TypeOK, LeaseTypeOK, Phase
<1>2. Moves(t)
  BY DEF Moves, TypeOK, LeaseTypeOK
<1>3. TaskInv(t)'
  BY DEF TaskInv, Frame, Knows, Meets, Undisturbed, Told, Short, Current, TypeOK, LeaseTypeOK
<1> QED
  BY <1>1, <1>2, <1>3, MovesInv

LEMMA AnsweredInv ==
  ASSUME SharedInv, NEW t \in Task, NEW how \in {"ok", "unavailable", "cancelled"},
         Answered(t, how)
  PROVE  SharedInv'
<1> USE DEF SharedInv, Answered, Report, BodyOver, storeVars
<1>1. TypeOK'
  <2>1. LeaseTypeOK'
    BY DEF TypeOK, LeaseTypeOK, Phase, Failure, Outcome
  <2> QED
    BY <2>1, BodyOverTypes DEF TypeOK
<1>2. Moves(t)
  BY DEF Moves, TypeOK, LeaseTypeOK
<1>3. /\ phase'[t] = "none" /\ step'[t] = "out" /\ copy'[t] = Empty /\ base'[t] = 0
      /\ session'[t] = session[t] /\ outcome'[t] = how /\ step[t] = "done"
  BY DEF TypeOK, LeaseTypeOK
<1>4. Frame(t)' /\ Knows(t)' /\ Undisturbed(t)' /\ Told(t)'
  BY <1>3, EmptyIsShort DEF Frame, Knows, Undisturbed, Told, Short, TypeOK
<1>5. Meets(t)'
  <2>1. TaskInv(t) /\ (txn # NoTxn => txn.rev # 0)
    BY SharedAssumption DEF TypeOK, Txn, Revision
  <2> QED
    BY <1>3, <2>1 DEF TaskInv, Meets
<1> QED
  BY <1>1, <1>2, <1>4, <1>5, MovesInv DEF TaskInv

-----------------------------------------------------------------------------
(* The server loses leases *)

LEMMA LeaseLostInv ==
  ASSUME SharedInv, NEW T \in SUBSET Task, LeaseLost(T)
  PROVE  SharedInv'
<1> USE DEF SharedInv, LeaseLost, Revoke, storeVars, bodyVars
<1>1. /\ \A t \in Task : phase'[t] = IF t \in T THEN "lost" ELSE phase[t]
      /\ \A t \in T : phase[t] = "held" /\ session[t] \in disturbed'
      /\ disturbed' \subseteq Session /\ disturbed \subseteq disturbed'
  BY DEF TypeOK, LeaseTypeOK
<1>2. TypeOK'
  BY <1>1 DEF TypeOK, LeaseTypeOK, Phase
<1>3. Exclusive'
  BY <1>1 DEF Exclusive
<1>4. Transaction' /\ Table'
  BY <1>1 DEF Transaction, Table, Stored, Current
<1>5. ASSUME NEW t \in Task PROVE TaskInv(t)'
  <2>1. TaskInv(t)
    OBVIOUS
  <2> QED
    BY <1>1, <2>1 DEF TaskInv, Frame, Knows, Meets, Undisturbed, Told, Current
<1> QED
  BY <1>2, <1>3, <1>4, <1>5

-----------------------------------------------------------------------------
(* The transaction of a write *)

(* An undisturbed request that works on a session does so alone.           *)
LEMMA AloneUndisturbed ==
  ASSUME SharedInv, NEW t \in Task, step[t] \in {"create", "commit"},
         session[t] \notin disturbed
  PROVE  /\ phase[t] = "held"
         /\ \A u \in Task \ {t} : step[u] \in {"create", "commit"} => session[u] # session[t]
         /\ \A u \in Task \ {t} : phase[u] = "held" => session[u] # session[t]
<1>1. ASSUME NEW u \in Task, step[u] \in {"create", "commit"}, session[u] = session[t]
      PROVE  phase[u] = "held"
  <2>1. phase[u] \in Phase /\ TaskInv(u)
    BY DEF SharedInv, TypeOK, LeaseTypeOK
  <2> QED
    BY <1>1, <2>1 DEF TaskInv, Frame, Undisturbed, Phase
<1> QED
  BY <1>1 DEF SharedInv, Exclusive

(* The transaction runs up to COMMIT.                                      *)
Staged(t, pruned) ==
    /\ step[t] \in {"create", "commit"} /\ txn = NoTxn
    /\ ~Conflicts(t, pruned) /\ ~Full(t, pruned)
    /\ revision < MaxRevision
    /\ revision' = revision + 1
    /\ txn' = [task |-> t, gone |-> FALSE, session |-> session[t],
               pruned |-> pruned, rev |-> revision + 1,
               value |-> NewValue(t, revision + 1)]
    /\ UNCHANGED <<leaseVars, rows, bodyVars, disturbed>>

LEMMA StagedInv ==
  ASSUME SharedInv, NEW t \in Task, NEW pruned \in SUBSET Session, Staged(t, pruned),
         \A s \in pruned : rows[s] # NoRow /\ rows[s].expired /\ ~Leased(s)
  PROVE  SharedInv'
<1> USE DEF SharedInv, Staged, leaseVars, bodyVars
<1> DEFINE s == session[t]
           r == revision + 1
<1>1. /\ TaskInv(t) /\ s \in Session /\ r \in Revision /\ revision \in Nat
      /\ rows[s] # NoRow => rows[s] \in Row
      /\ rows[s] # NoRow => rows[s].rev # 0
      /\ MaxEntries \in Nat
  BY SharedAssumption DEF TypeOK, LeaseTypeOK, Revision, Row
<1>2. /\ NewValue(t, r) \in Payload /\ Short(NewValue(t, r))
      /\ step[t] = "create" => NewValue(t, r) = Empty
      /\ step[t] = "commit" => Extends(NewValue(t, r), copy[t])
  BY <1>1, NewValueExtends DEF TaskInv
<1>3. txn' \in Txn /\ NoTxn \notin Txn
  BY <1>1, <1>2, SharedAssumption DEF Txn
<1>4. TypeOK'
  BY <1>1, <1>3 DEF TypeOK, LeaseTypeOK, Revision
<1>5. Exclusive' /\ Table'
  BY <1>1 DEF Exclusive, Table, Stored, TypeOK, Row, Revision
<1>6. Transaction'
  <2>1. Cardinality((Stored \ pruned) \cup {s}) <= MaxEntries
    <3> DEFINE kept == Stored \ pruned
    <3>1. IsFiniteSet(kept) /\ Cardinality(kept) \in Nat /\ Cardinality(kept) <= MaxEntries
      BY <1>1, FS_Subset, FS_CardinalityType DEF Table
    <3>2. s \notin kept => ~(Cardinality(kept) >= MaxEntries)
      BY DEF Full
    <3> HIDE DEF kept
    <3>3. CASE s \in kept
      <4>1. kept \cup {s} = kept
        BY <3>3
      <4> QED
        BY <3>1, <4>1 DEF kept
    <3>4. CASE s \notin kept
      <4>1. Cardinality(kept \cup {s}) = Cardinality(kept) + 1
        BY <3>1, <3>4, FS_AddElement
      <4>2. Cardinality(kept \cup {s}) <= MaxEntries
        BY <1>1, <3>1, <3>2, <3>4, <4>1
      <4> QED
        BY <4>2 DEF kept
    <3> QED
      BY <3>3, <3>4
  <2>2. ASSUME Current(s) PROVE Extends(NewValue(t, r), rows[s].value)
    <3>1. step[t] = "commit" /\ rows[s].rev = base[t]
      BY <1>1, <2>2 DEF Conflicts, Current, TaskInv, Frame
    <3> QED
      BY <1>1, <1>2, <2>2, <3>1 DEF TaskInv, Knows, Current
  <2>3. \A x \in Session : rows[x] # NoRow => rows[x].rev # r
    BY <1>1 DEF Table, TypeOK, Row, Revision
  <2> QED
    BY <1>2, <2>1, <2>2, <2>3 DEF Transaction, Stored, Current, Short
<1>7. ASSUME NEW u \in Task PROVE TaskInv(u)'
  <2>1. TaskInv(u) /\ base[u] \in Nat /\ base[u] <= revision
    BY <1>1 DEF TypeOK, TaskInv, Knows
  <2>2. Frame(u)' /\ Knows(u)' /\ Undisturbed(u)' /\ Told(u)'
    BY <1>1, <2>1 DEF TaskInv, Frame, Knows, Undisturbed, Told, Current, Short
  <2>3. Meets(u)'
    BY <1>1, <1>2, <2>1 DEF Meets, Leased
  <2> QED
    BY <2>2, <2>3 DEF TaskInv
<1> QED
  BY <1>4, <1>5, <1>6, <1>7

(* A conflict is raised only in a session that was disturbed.              *)
LEMMA ConflictInv ==
  ASSUME SharedInv, NEW t \in Task, NEW pruned \in SUBSET Session,
         step[t] \in {"create", "commit"}, Conflicts(t, pruned),
         \A s \in pruned : ~Leased(s)
  PROVE  session[t] \in disturbed
<1> SUFFICES ASSUME session[t] \notin disturbed PROVE FALSE
  OBVIOUS
<1>1. TaskInv(t) /\ phase[t] = "held"
  BY AloneUndisturbed DEF SharedInv
<1> QED
  BY <1>1 DEF TaskInv, Frame, Undisturbed, Conflicts, Current, Leased

LEMMA StageInv ==
  ASSUME SharedInv, NEW t \in Task, Stage(t)
  PROVE  SharedInv'
<1>1. PICK lingering \in SUBSET {s \in Stored : rows[s].expired} :
        \/ Conflicts(t, Prunable(lingering)) /\ Raise(t, "conflict")
        \/ Raise(t, "capacity")
        \/ Staged(t, Prunable(lingering))
  BY DEF Stage, Staged
<1> DEFINE pruned == Prunable(lingering)
<1>2. pruned \in SUBSET Session /\ \A s \in pruned : rows[s] # NoRow /\ rows[s].expired /\ ~Leased(s)
  BY DEF Prunable, Stored
<1> HIDE DEF pruned
<1>3. step[t] \in {"create", "commit"} /\ {"conflict", "capacity"} \subseteq Failure
  BY SharedAssumption DEF Stage, Failure
<1> QED
  BY <1>1, <1>2, <1>3, ConflictInv, RaiseInv, StagedInv DEF pruned

-----------------------------------------------------------------------------
(* COMMIT, confirmed or not, and the passing of time *)

(* What COMMIT makes of the table, whoever saw it.                         *)
LEMMA AppliedTable ==
  ASSUME SharedInv, txn # NoTxn
  PROVE  /\ txn \in Txn /\ txn.session \in Session
         /\ Applied \in [Session -> Row \cup {NoRow}]
         /\ Applied[txn.session] = [rev |-> txn.rev, value |-> txn.value, expired |-> FALSE]
         /\ Applied[txn.session] # NoRow
         /\ \A s \in Session \ {txn.session} :
               Applied[s] = IF s \in txn.pruned THEN NoRow ELSE rows[s]
         /\ {s \in Session : Applied[s] # NoRow} = (Stored \ txn.pruned) \cup {txn.session}
<1>1. txn \in Txn /\ txn.session \in Session
  BY DEF SharedInv, TypeOK, Txn
<1>2. [rev |-> txn.rev, value |-> txn.value, expired |-> FALSE] \in Row
  BY <1>1 DEF Txn, Row
<1>3. NoRow \notin Row /\ rows \in [Session -> Row \cup {NoRow}]
  BY SharedAssumption DEF SharedInv, TypeOK
<1>4. Applied = [s \in Session |->
         IF s = txn.session THEN [rev |-> txn.rev, value |-> txn.value, expired |-> FALSE]
         ELSE IF s \in txn.pruned THEN NoRow ELSE rows[s]]
  BY DEF Applied
<1> HIDE DEF Applied
<1>5. \A s \in Session : Applied[s] =
         IF s = txn.session THEN [rev |-> txn.rev, value |-> txn.value, expired |-> FALSE]
         ELSE IF s \in txn.pruned THEN NoRow ELSE rows[s]
  BY <1>4
<1>6. Applied \in [Session -> Row \cup {NoRow}]
  BY <1>2, <1>3, <1>4
<1>7. Applied[txn.session] = [rev |-> txn.rev, value |-> txn.value, expired |-> FALSE]
  BY <1>1, <1>5
<1>8. Applied[txn.session] # NoRow
  BY <1>2, <1>3, <1>7
<1>9. {s \in Session : Applied[s] # NoRow} = (Stored \ txn.pruned) \cup {txn.session}
  BY <1>1, <1>5, <1>8 DEF Stored
<1> QED
  BY <1>1, <1>5, <1>6, <1>7, <1>8, <1>9

(* What COMMIT leaves to a request that is not the writer.                 *)
LEMMA AppliedTask ==
  ASSUME SharedInv, txn # NoTxn, rows' = Applied, txn' = NoTxn,
         UNCHANGED <<leaseVars, revision, disturbed>>,
         NEW u \in Task, ~Writing(u),
         step'[u] = step[u] /\ copy'[u] = copy[u] /\ base'[u] = base[u]
  PROVE  TaskInv(u)'
<1> DEFINE s == session[u]
<1>1. TaskInv(u) /\ s \in Session /\ phase[u] \in Phase
  BY DEF SharedInv, TypeOK, LeaseTypeOK
<1>2. Frame(u)' /\ Meets(u)' /\ Told(u)'
  BY <1>1 DEF leaseVars, TaskInv, Frame, Meets, Told, Short
<1>3. rows'[s] = IF s = txn.session THEN [rev |-> txn.rev, value |-> txn.value, expired |-> FALSE]
                 ELSE IF s \in txn.pruned THEN NoRow ELSE rows[s]
  BY <1>1, AppliedTable
<1>4. base[u] # txn.rev
  BY <1>1 DEF TaskInv, Meets
<1>5. Knows(u)'
  BY <1>1, <1>3, <1>4 DEF leaseVars, TaskInv, Knows
<1>6. Undisturbed(u)'
  <2> SUFFICES ASSUME s \notin disturbed
               PROVE  /\ phase[u] # "lost"
                      /\ step[u] = "create" => ~Current(s)'
                      /\ step[u] = "commit" => rows'[s] # NoRow /\ rows'[s].rev = base[u]
                      /\ step[u] = "done" /\ phase[u] = "held"
                            => rows'[s] # NoRow /\ rows'[s].rev > base[u]
    BY DEF Undisturbed, leaseVars
  <2>1. phase[u] # "lost"
    BY <1>1 DEF TaskInv, Undisturbed
  <2>2. ASSUME step[u] \in {"create", "commit"} \/ (step[u] = "done" /\ phase[u] = "held")
        PROVE  s # txn.session
    <3>1. SUFFICES ASSUME s = txn.session PROVE FALSE
      OBVIOUS
    <3>2. ~txn.gone
      BY <3>1 DEF SharedInv, Transaction
    <3>3. txn.task \in Task /\ txn.task # u
      BY <3>2, AppliedTable DEF Txn, Writing
    <3>4. step[txn.task] \in {"create", "commit"} /\ session[txn.task] = s
      BY <3>1, <3>2, <3>3 DEF SharedInv, TaskInv, Meets
    <3>5. phase[u] = "held"
      BY <1>1, <2>2, <2>1, AloneUndisturbed
    <3> QED
      BY <3>3, <3>4, <3>5, AloneUndisturbed
  <2>3. step[u] = "create" => ~Current(s)'
    BY <1>1, <1>3, <2>2 DEF TaskInv, Undisturbed, Current, leaseVars
  <2>4. step[u] \in {"commit", "done"} /\ phase[u] = "held" => s \notin txn.pruned
    BY <1>1 DEF TaskInv, Meets
  <2>5. step[u] = "commit" => phase[u] = "held"
    BY AloneUndisturbed
  <2> QED
    BY <1>1, <1>3, <2>1, <2>2, <2>3, <2>4, <2>5 DEF TaskInv, Undisturbed
<1> QED
  BY <1>2, <1>5, <1>6 DEF TaskInv

LEMMA AppliedStore ==
  ASSUME SharedInv, txn # NoTxn, rows' = Applied, txn' = NoTxn,
         UNCHANGED <<leaseVars, revision, disturbed>>
  PROVE  Exclusive' /\ Transaction' /\ Table'
         /\ rows' \in [Session -> Row \cup {NoRow}]
         /\ \A s \in Session : rows'[s] # NoRow => Len(rows'[s].value.turns) <= MaxTurns
<1>1. Exclusive' /\ Transaction'
  BY DEF SharedInv, Exclusive, Transaction, leaseVars
<1>2. Stored' = (Stored \ txn.pruned) \cup {txn.session}
  BY AppliedTable DEF Stored
<1>3. IsFiniteSet(Stored')
  <2>1. IsFiniteSet(Stored \ txn.pruned)
    BY FS_Subset DEF SharedInv, Table
  <2> QED
    BY <1>2, <2>1, FS_AddElement
<1>4. Cardinality(Stored') <= MaxEntries
  BY <1>2 DEF SharedInv, Transaction
<1>5. \A s \in Session : rows'[s] # NoRow =>
         rows'[s].rev <= revision /\ Len(rows'[s].value.turns) <= MaxTurns
  <2>1. revision \in Nat /\ txn.rev = revision /\ Len(txn.value.turns) <= MaxTurns
    BY DEF SharedInv, TypeOK, Transaction, Short
  <2> QED
    BY <2>1, AppliedTable DEF SharedInv, TypeOK, Table
<1> QED
  BY <1>1, <1>3, <1>4, <1>5, AppliedTable DEF Table

LEMMA ServerFinishesInv ==
  ASSUME SharedInv, ServerFinishes
  PROVE  SharedInv'
<1> USE DEF ServerFinishes
<1>1. CASE rows' = Applied
  <2>1. TypeOK'
    BY <1>1, AppliedStore DEF SharedInv, TypeOK, LeaseTypeOK, leaseVars, bodyVars
  <2>2. ASSUME NEW u \in Task PROVE TaskInv(u)'
    BY <1>1, AppliedTask DEF Writing, bodyVars
  <2> QED
    BY <1>1, <2>1, <2>2, AppliedStore DEF SharedInv
<1>2. CASE UNCHANGED rows
  <2> USE <1>2 DEF SharedInv, leaseVars, bodyVars
  <2>1. TypeOK' /\ Exclusive' /\ Transaction' /\ Table'
    BY DEF TypeOK, LeaseTypeOK, Exclusive, Transaction, Table, Stored
  <2>2. ASSUME NEW u \in Task PROVE TaskInv(u)'
    BY DEF TaskInv, Frame, Knows, Meets, Undisturbed, Told, Short, Current
  <2> QED
    BY <2>1, <2>2
<1> QED
  BY <1>1, <1>2

LEMMA CommittedInv ==
  ASSUME SharedInv, NEW t \in Task, Committed(t)
  PROVE  SharedInv'
<1> DEFINE s == session[t]
<1>1. /\ Writing(t) /\ txn # NoTxn /\ rows' = Applied /\ txn' = NoTxn
      /\ UNCHANGED <<leaseVars, revision, kind, copy, disturbed>>
  BY DEF Committed, Writing
<1>2. /\ TaskInv(t) /\ s \in Session /\ txn.task = t /\ ~txn.gone /\ txn.session = s
      /\ txn.rev \in Revision /\ txn.rev = revision /\ base[t] <= revision /\ base[t] # txn.rev
      /\ base[t] \in Nat
  BY <1>1, AppliedTable
     DEF SharedInv, Transaction, TaskInv, Meets, Knows, Writing, TypeOK, LeaseTypeOK, Txn
<1>3. TypeOK'
  <2>1. step' \in [Task -> Step] /\ base' \in [Task -> 0 .. MaxRevision]
    BY <1>2 DEF Committed, SharedInv, TypeOK, Step, Revision
  <2> QED
    BY <1>1, <2>1, AppliedStore DEF SharedInv, TypeOK, LeaseTypeOK, leaseVars
<1>4. ASSUME NEW u \in Task \ {t} PROVE TaskInv(u)'
  <2>1. step'[u] = step[u] /\ copy'[u] = copy[u] /\ base'[u] = base[u]
    BY DEF Committed, SharedInv, TypeOK
  <2> QED
    BY <1>1, <2>1, AppliedTask DEF Writing
<1>5. rows'[s] = [rev |-> txn.rev, value |-> txn.value, expired |-> FALSE] /\ rows'[s] # NoRow
  BY <1>1, <1>2, AppliedTable
<1>6. phase'[t] = phase[t] /\ session'[t] = s /\ copy'[t] = copy[t] /\ outcome'[t] = outcome[t]
  BY <1>1 DEF leaseVars
<1>7. ASSUME step[t] = "create" PROVE TaskInv(t)'
  <2>1. step'[t] = "commit" /\ base'[t] = txn.rev
    BY <1>7 DEF Committed, SharedInv, TypeOK
  <2>2. txn.value = Empty /\ copy[t] = Empty
    BY <1>1, <1>2, <1>7 DEF TaskInv, Meets, Frame
  <2>3. Frame(t)' /\ Meets(t)' /\ Told(t)'
    BY <1>1, <1>2, <1>6, <1>7, <2>1 DEF TaskInv, Frame, Meets, Told, Short, Revision
  <2>4. Knows(t)' /\ Undisturbed(t)'
    BY <1>1, <1>2, <1>5, <1>6, <2>1, <2>2 DEF TaskInv, Knows, Undisturbed, Revision
  <2> QED
    BY <2>3, <2>4 DEF TaskInv
<1>8. ASSUME step[t] = "commit" PROVE TaskInv(t)'
  <2>1. step'[t] = "done" /\ base'[t] = base[t]
    BY <1>8 DEF Committed, SharedInv, TypeOK
  <2>2. Frame(t)' /\ Meets(t)' /\ Told(t)'
    BY <1>1, <1>2, <1>6, <1>8, <2>1 DEF TaskInv, Frame, Meets, Told, Short
  <2>3. Knows(t)' /\ Undisturbed(t)'
    BY <1>1, <1>2, <1>5, <1>6, <2>1 DEF TaskInv, Knows, Undisturbed, Revision
  <2> QED
    BY <2>2, <2>3 DEF TaskInv
<1>9. TaskInv(t)'
  BY <1>7, <1>8 DEF Committed
<1> QED
  BY <1>1, <1>3, <1>4, <1>9, AppliedStore DEF SharedInv

LEMMA ExpiresInv ==
  ASSUME SharedInv, NEW s \in Session, Expires(s)
  PROVE  SharedInv'
<1> USE DEF SharedInv, Expires, leaseVars, bodyVars
<1>1. /\ rows[s] \in Row /\ rows' = [rows EXCEPT ![s] = [rows[s] EXCEPT !.expired = TRUE]]
      /\ NoRow \notin Row
  BY SharedAssumption DEF TypeOK, Current
<1>2. [rows[s] EXCEPT !.expired = TRUE] \in Row
  BY <1>1 DEF Row
<1>3. /\ rows' \in [Session -> Row \cup {NoRow}]
      /\ \A x \in Session : x # s => rows'[x] = rows[x]
      /\ rows'[s] = [rows[s] EXCEPT !.expired = TRUE] /\ rows'[s] # NoRow
  BY <1>1, <1>2 DEF TypeOK
<1>4. /\ rows'[s].rev = rows[s].rev /\ rows'[s].value = rows[s].value /\ rows'[s].expired = TRUE
      /\ rows[s] # NoRow
  BY <1>1, <1>3 DEF Row
<1>5. \A x \in Session : /\ rows'[x] # NoRow <=> rows[x] # NoRow
                         /\ rows[x] # NoRow => /\ rows'[x].rev = rows[x].rev
                                               /\ rows'[x].value = rows[x].value
                                               /\ rows[x].expired => rows'[x].expired
  BY <1>3, <1>4
<1>6. Stored' = Stored
  BY <1>5 DEF Stored
<1>7. TypeOK'
  BY <1>3, <1>5 DEF TypeOK, LeaseTypeOK
<1>8. Exclusive' /\ Table'
  BY <1>5, <1>6 DEF Exclusive, Table
<1>9. Transaction'
  <2>1. txn # NoTxn => txn.session \in Session /\ txn.pruned \in SUBSET Session
    BY DEF TypeOK, Txn
  <2> QED
    BY <1>5, <1>6, <2>1 DEF Transaction, Current, Short
<1>10. ASSUME NEW u \in Task PROVE TaskInv(u)'
  <2>1. TaskInv(u) /\ session[u] \in Session
    BY DEF TypeOK, LeaseTypeOK
  <2> QED
    BY <1>5, <2>1 DEF TaskInv, Frame, Knows, Meets, Undisturbed, Told, Short, Current
<1> QED
  BY <1>7, <1>8, <1>9, <1>10

-----------------------------------------------------------------------------
(* The invariant *)

LEMMA SharedInitInv ==
  ASSUME Init
  PROVE  SharedInv
<1> USE DEF Init, LeaseInit
<1>1. Stored = {} /\ IsFiniteSet({}) /\ Cardinality({}) = 0
  BY FS_EmptySet DEF Stored
<1>2. TypeOK
  BY SharedAssumption, EmptyIsShort DEF TypeOK, LeaseTypeOK, Phase, Outcome, Step
<1>3. Exclusive /\ Transaction /\ Table
  BY <1>1, SharedAssumption DEF Exclusive, Transaction, Table
<1>4. ASSUME NEW t \in Task PROVE TaskInv(t)
  BY EmptyIsShort DEF TaskInv, Frame, Knows, Meets, Undisturbed, Told
<1> QED
  BY <1>2, <1>3, <1>4 DEF SharedInv

LEMMA BodyInv ==
  ASSUME SharedInv, NEW t \in Task, Body(t)
  PROVE  SharedInv'
<1>1. CASE \E k \in {"query", "edit"}, q \in Slot, s \in Session : Begin(t, k, q, s)
  BY <1>1, BeginInv
<1>2. CASE \E why \in {"busy", "unavailable", "cancelled"} : Refused(t, why)
  BY <1>2, RefusedInv
<1>3. CASE Read(t)
  BY <1>3, ReadInv
<1>4. CASE Stage(t)
  BY <1>4, StageInv
<1>5. CASE Committed(t)
  BY <1>5, CommittedInv
<1>6. CASE \E why \in {"unavailable", "cancelled", "error"} : Raise(t, why)
  BY <1>6, RaiseInv, SharedAssumption DEF Failure
<1>7. CASE GiveBack(t)
  BY <1>7, GiveBackInv
<1>8. CASE \E how \in {"ok", "unavailable", "cancelled"} : Answered(t, how)
  BY <1>8, AnsweredInv
<1> QED
  BY <1>1, <1>2, <1>3, <1>4, <1>5, <1>6, <1>7, <1>8 DEF Body

LEMMA StutterInv ==
  ASSUME SharedInv, UNCHANGED vars
  PROVE  SharedInv'
<1> USE DEF SharedInv, vars, leaseVars, storeVars, bodyVars
<1>1. TypeOK' /\ Exclusive' /\ Transaction' /\ Table'
  BY DEF TypeOK, LeaseTypeOK, Exclusive, Transaction, Table, Stored, Current
<1>2. ASSUME NEW t \in Task PROVE TaskInv(t)'
  BY DEF TaskInv, Frame, Knows, Meets, Undisturbed, Told, Current
<1> QED
  BY <1>1, <1>2

(* The inductive invariant: what every request, the open transaction and   *)
(* the table know of each other holds in every reachable state.            *)
THEOREM SharedInvariant == Spec => []SharedInv
<1>1. Init => SharedInv
  BY SharedInitInv
<1>2. SharedInv /\ [Next]_vars => SharedInv'
  <2> SUFFICES ASSUME SharedInv, [Next]_vars PROVE SharedInv'
    OBVIOUS
  <2>1. CASE \E t \in Task : Body(t)
    BY <2>1, BodyInv
  <2>2. CASE \E T \in SUBSET Task : LeaseLost(T)
    BY <2>2, LeaseLostInv
  <2>3. CASE ServerFinishes
    BY <2>3, ServerFinishesInv
  <2>4. CASE \E s \in Session : Expires(s)
    BY <2>4, ExpiresInv
  <2>5. CASE UNCHANGED vars
    BY <2>5, StutterInv
  <2> QED
    BY <2>1, <2>2, <2>3, <2>4, <2>5 DEF Next
<1> QED
  BY <1>1, <1>2, PTL DEF Spec

(* put raises SessionConflictError only when a lease of the session was    *)
(* lost or abandoned in a write, whatever the number of workers.           *)
THEOREM ConflictsAreEarned == Spec => []ConflictMeansDisturbance
<1>1. SharedInv => ConflictMeansDisturbance
  BY DEF SharedInv, TaskInv, Told, ConflictMeansDisturbance
<1> QED
  BY <1>1, SharedInvariant, PTL

(* A request that may still answer "ok" under an undisturbed lease has its *)
(* turn, or its version, in the table.                                     *)
THEOREM DoneIsStored == Spec => []DoneMeansStored
<1>1. SharedInv => DoneMeansStored
  BY DEF SharedInv, TaskInv, Undisturbed, DoneMeansStored
<1> QED
  BY <1>1, SharedInvariant, PTL

(* All workers together keep at most max_entries snapshots, each of at     *)
(* most session_max_turns turns, unconfirmed commits included.             *)
THEOREM RetentionHolds == Spec => []RetentionBound
<1>1. SharedInv => RetentionBound
  BY DEF SharedInv, Table, RetentionBound
<1> QED
  BY <1>1, SharedInvariant, PTL

-----------------------------------------------------------------------------
(* What no step does to a row *)

(* COMMIT replaces an unexpired row by an extension of it or not at all.   *)
LEMMA AppliedExtends ==
  ASSUME SharedInv, txn # NoTxn, rows' = Applied, NEW s \in Session, Current(s),
         rows'[s] # rows[s]
  PROVE  rows'[s] # NoRow /\ Extends(rows'[s].value, rows[s].value)
<1>1. s \notin txn.pruned
  BY DEF SharedInv, Transaction, Current
<1>2. s = txn.session
  BY <1>1, AppliedTable
<1> QED
  BY <1>2, AppliedTable DEF SharedInv, Transaction

(* COMMIT keeps the row of a session that a live lease works on.           *)
LEMMA AppliedKeeps ==
  ASSUME SharedInv, txn # NoTxn, rows' = Applied, NEW t \in Task,
         phase[t] = "held", step[t] = "commit", rows[session[t]] # NoRow
  PROVE  rows'[session[t]] # NoRow
<1>1. session[t] \in Session /\ session[t] \notin txn.pruned
  BY DEF SharedInv, TypeOK, LeaseTypeOK, TaskInv, Meets
<1> QED
  BY <1>1, AppliedTable

(* Only COMMIT and the passing of time change the table.                   *)
LEMMA TableSteps ==
  ASSUME [Next]_vars
  PROVE  \/ UNCHANGED rows
         \/ txn # NoTxn /\ rows' = Applied
         \/ \E s \in Session : Expires(s)
<1>1. ASSUME NEW t \in Task, Body(t)
      PROVE  UNCHANGED rows \/ (txn # NoTxn /\ rows' = Applied)
  <2>1. ASSUME NEW why, Raise(t, why) PROVE UNCHANGED rows
    BY <2>1 DEF Raise
  <2>2. CASE Read(t)
    BY <2>1, <2>2 DEF Read, storeVars
  <2>3. CASE Stage(t)
    BY <2>1, <2>3 DEF Stage
  <2>4. CASE Committed(t)
    BY <2>4 DEF Committed, Writing
  <2> QED
    BY <1>1, <2>1, <2>2, <2>3, <2>4 DEF Body, Begin, Refused, GiveBack, Answered, storeVars
<1> QED
  BY <1>1 DEF Next, LeaseLost, ServerFinishes, vars, storeVars

(* expires_at passes: the row stays, with its revision.                    *)
LEMMA ExpiresKeeps ==
  ASSUME SharedInv, NEW s \in Session, Expires(s), NEW x \in Session, rows[x] # NoRow
  PROVE  rows'[x] # NoRow /\ rows'[x].rev = rows[x].rev
<1>1. /\ rows[s] \in Row /\ rows' = [rows EXCEPT ![s] = [rows[s] EXCEPT !.expired = TRUE]]
      /\ NoRow \notin Row
  BY SharedAssumption DEF SharedInv, TypeOK, Expires, Current
<1>2. [rows[s] EXCEPT !.expired = TRUE] \in Row
  BY <1>1 DEF Row
<1>3. CASE x = s
  <2>1. rows'[x] = [rows[s] EXCEPT !.expired = TRUE]
    BY <1>1, <1>3 DEF SharedInv, TypeOK
  <2>2. rows'[x] # NoRow
    BY <1>1, <1>2, <2>1
  <2>3. [rows[s] EXCEPT !.expired = TRUE].rev = rows[s].rev
    BY <1>1 DEF Row
  <2> QED
    BY <1>3, <2>1, <2>2, <2>3
<1>4. CASE x # s
  BY <1>1, <1>4 DEF SharedInv, TypeOK
<1> QED
  BY <1>3, <1>4

(* No write is lost: a snapshot that has not expired gives way only to an  *)
(* extension of itself, whichever worker writes and however late.          *)
THEOREM NothingIsLost == Spec => NoLostUpdate
<1>1. ASSUME SharedInv, [Next]_vars, NEW s \in Session, Current(s), rows'[s] # rows[s]
      PROVE  /\ rows'[s] # NoRow
             /\ rows'[s].rev # rows[s].rev => Extends(rows'[s].value, rows[s].value)
  <2>1. CASE txn # NoTxn /\ rows' = Applied
    BY <1>1, <2>1, AppliedExtends
  <2>2. CASE \E x \in Session : Expires(x)
    BY <1>1, <2>2, ExpiresKeeps DEF Current
  <2> QED
    BY <1>1, <2>1, <2>2, TableSteps
<1>2. SharedInv /\ [Next]_vars =>
        [\A s \in Session : Current(s) /\ rows'[s] # rows[s] =>
            /\ rows'[s] # NoRow
            /\ rows'[s].rev # rows[s].rev => Extends(rows'[s].value, rows[s].value)]_vars
  BY <1>1
<1> QED
  BY <1>2, SharedInvariant, PTL DEF Spec, NoLostUpdate

(* Pruning spares the session of every request that works under a live     *)
(* lease, also when the snapshot expires before the commit.                *)
THEOREM ActiveSessionsAreKept == Spec => ActiveSessionIsKept
<1>1. ASSUME SharedInv, [Next]_vars, NEW t \in Task, phase[t] = "held", step[t] = "commit",
             rows[session[t]] # NoRow
      PROVE  rows'[session[t]] # NoRow
  <2>1. session[t] \in Session
    BY <1>1 DEF SharedInv, TypeOK, LeaseTypeOK
  <2>2. CASE txn # NoTxn /\ rows' = Applied
    BY <1>1, <2>2, AppliedKeeps
  <2>3. CASE \E x \in Session : Expires(x)
    BY <1>1, <2>1, <2>3, ExpiresKeeps
  <2> QED
    BY <1>1, <2>2, <2>3, TableSteps
<1>2. SharedInv /\ [Next]_vars =>
        [\A t \in Task : phase[t] = "held" /\ step[t] = "commit"
                            /\ rows[session[t]] # NoRow
                            /\ base[t] = rows[session[t]].rev
                            => rows'[session[t]] # NoRow]_vars
  BY <1>1
<1> QED
  BY <1>2, SharedInvariant, PTL DEF Spec, ActiveSessionIsKept

-----------------------------------------------------------------------------
(* The lease that the query path relies on *)

(* Every step of the query path is a step of the lease, or leaves it.      *)
LEMMA LeaseStep ==
  ASSUME [Next]_vars
  PROVE  [LeaseNext]_leaseVars
<1>1. ASSUME NEW t \in Task, NEW why \in Failure, Raise(t, why) PROVE LeaseNext
  BY <1>1 DEF Raise, LeaseNext
<1>2. {"busy", "unavailable", "cancelled", "conflict", "capacity", "notFound",
       "versionsFull", "error"} \subseteq Failure
  BY SharedAssumption DEF Failure
<1>3. ASSUME NEW t \in Task, Body(t) PROVE [LeaseNext]_leaseVars
  <2>1. CASE \E k \in {"query", "edit"}, q \in Slot, s \in Session : Begin(t, k, q, s)
    BY <2>1 DEF Begin, LeaseNext
  <2>2. CASE \E why \in {"busy", "unavailable", "cancelled"} : Refused(t, why)
    BY <1>2, <2>2 DEF Refused, LeaseNext
  <2>3. CASE Read(t)
    <3>1. ASSUME NEW v, EditRefused(v) # "none" PROVE EditRefused(v) \in Failure
      BY <1>2, <3>1 DEF EditRefused
    <3> QED
      BY <1>1, <1>2, <2>3, <3>1 DEF Read
  <2>4. CASE Stage(t)
    BY <1>1, <1>2, <2>4 DEF Stage
  <2>5. CASE Committed(t)
    BY <2>5 DEF Committed
  <2>6. CASE \E why \in {"unavailable", "cancelled", "error"} : Raise(t, why)
    BY <1>1, <1>2, <2>6
  <2>7. CASE GiveBack(t)
    BY <2>7 DEF GiveBack, LeaseNext
  <2>8. CASE \E how \in {"ok", "unavailable", "cancelled"} : Answered(t, how)
    <3>1. {"ok", "unavailable", "cancelled"} \subseteq Outcome \ {"none", "busy"}
      BY DEF Outcome, Failure
    <3> QED
      BY <2>8, <3>1 DEF Answered, LeaseNext
  <2> QED
    BY <1>3, <2>1, <2>2, <2>3, <2>4, <2>5, <2>6, <2>7, <2>8 DEF Body
<1>4. CASE \E T \in SUBSET Task : LeaseLost(T)
  BY <1>4 DEF LeaseLost, LeaseNext
<1> QED
  BY <1>3, <1>4 DEF Next, ServerFinishes, Expires, vars

(* The query path keeps to the protocol of the lease that                  *)
(* MySQLCoordinator.query implements (see CoordinationProofs.tla).         *)
THEOREM QueryPathKeepsTheLease == Spec => LeaseSpec
<1>1. Init => LeaseInit
  BY DEF Init
<1>2. [Next]_vars => [LeaseNext]_leaseVars
  BY LeaseStep
<1> QED
  BY <1>1, <1>2, PTL DEF Spec, LeaseSpec

(* No two live leases share a session or an admission slot in any state of *)
(* the query path.                                                         *)
THEOREM QueriesAreExclusive == Spec => []Exclusive
<1>1. SharedInv => Exclusive
  BY DEF SharedInv
<1> QED
  BY <1>1, SharedInvariant, PTL
=============================================================================
