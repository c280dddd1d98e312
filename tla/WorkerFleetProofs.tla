-------------------------- MODULE WorkerFleetProofs --------------------------
(***************************************************************************)
(* Proofs about WorkerFleet.tla and the slot transaction it extends,       *)
(* ProviderRateLimit.tla, for any number of workers, any builds, any       *)
(* limits they come with and any length of the window.                     *)
(***************************************************************************)
EXTENDS WorkerFleet, FiniteSetTheorems, TLAPS

(* The slot transaction, for itself *)

(* A task in the transaction is the one that holds the row, over a live    *)
(* connection; a live connection's holder is in the transaction.           *)
Inside == {"compare", "purge", "count", "insert", "commit"}
Locked ==
    /\ \A t \in Task : pc[t] \in Inside <=> holder = t /\ client = "there"
    /\ holder = NoTask => client = "there" /\ staged = Nothing

(* A task comes with a limit.  The open transaction has one, which is the  *)
(* committed one if there is one and the task's once it was compared.      *)
Terms ==
    /\ \A t \in Task : pc[t] # "idle" => asked[t] \in Rpm
    /\ holder # NoTask => staged.config \in Rpm /\ config \in {Unset, staged.config}
    /\ \A t \in Task : pc[t] \in Inside \ {"compare"} => staged.config = asked[t]

(* Rows are numbered as they come and are never of the future; the deleted *)
(* ones, and those about to be, are a window old.                          *)
Ages ==
    /\ IsFiniteSet(counted)
    /\ \A a \in counted : a.at <= now /\ a.id <= Cardinality(counted)
    /\ \A a \in (counted \ attempts) \cup staged.purged : a.at + Window <= now

(* What was counted is below the limit until the row is inserted, since    *)
(* nobody else can commit meanwhile.                                       *)
Room == \A t \in Task : pc[t] = "insert" => Cardinality(attempts \ staged.purged) < asked[t]

(* A row not yet committed may be admitted: it is the youngest, and the    *)
(* window that ends with it has room under the transaction's limit.        *)
Admissible(n) ==
    /\ n.id = Cardinality(counted) + 1
    /\ n.at <= now
    /\ \A a \in counted : a.at <= n.at
    /\ Cardinality(Promise!InWindow(n.at)) < staged.config

Fresh ==
    /\ staged.new # {} => \E n \in Row : staged.new = {n} /\ Admissible(n)
    /\ \A t \in Task : pc[t] \in Inside \ {"commit"} => staged.new = {}

RateInv == RateTypeOK /\ Locked /\ Terms /\ Ages /\ Room /\ Fresh

-----------------------------------------------------------------------------
(* The invariant of the transaction *)

LEMMA RateInitInv == RateInit => RateInv
<1> SUFFICES ASSUME RateInit PROVE RateInv
  OBVIOUS
<1>1. RateTypeOK
  BY RateAssumption DEF RateInit, RateTypeOK, Nothing, Pc
<1>2. Locked /\ Terms /\ Room /\ Fresh
  BY RateAssumption DEF RateInit, Locked, Terms, Room, Fresh, Inside, Nothing
<1>3. Ages
  BY FS_EmptySet DEF RateInit, Ages, Nothing
<1> QED
  BY <1>1, <1>2, <1>3 DEF RateInv

(* Steps that leave rows, clock and transaction alone keep what is about   *)
(* them, wherever the tasks go.                                            *)
LEMMA ReserveInv ==
  ASSUME RateInv, NEW t \in Task, NEW r \in Rpm, Reserve(t, r)
  PROVE  RateInv'
<1> USE DEF RateInv, Reserve, table
<1>1. RateTypeOK'
  BY DEF RateTypeOK, Pc
<1>2. Locked'
  BY DEF Locked, RateTypeOK, Inside
<1>3. Terms'
  BY DEF Terms, RateTypeOK, Inside
<1>4. Ages'
  BY DEF Ages
<1>5. Room'
  BY DEF Room, RateTypeOK
<1>6. Fresh'
  BY DEF Fresh, RateTypeOK, Inside, Admissible, Promise!InWindow
<1> QED
  BY <1>1, <1>2, <1>3, <1>4, <1>5, <1>6

LEMMA LockInv ==
  ASSUME RateInv, NEW t \in Task, Lock(t)
  PROVE  RateInv'
<1> USE DEF RateInv, Lock, table, Moves
<1>1. RateTypeOK'
  BY DEF RateTypeOK, Pc, Nothing, Terms
<1>2. Locked'
  BY RateAssumption DEF Locked, RateTypeOK, Inside
<1>3. Terms'
  BY RateAssumption DEF Terms, Locked, RateTypeOK, Inside, Nothing
<1>4. Ages'
  BY DEF Ages, Nothing
<1>5. Room'
  BY DEF Room, Locked, RateTypeOK, Inside
<1>6. Fresh'
  BY DEF Fresh, RateTypeOK, Inside, Nothing
<1> QED
  BY <1>1, <1>2, <1>3, <1>4, <1>5, <1>6

LEMMA CompareInv ==
  ASSUME RateInv, NEW t \in Task, Compare(t)
  PROVE  RateInv'
<1> USE DEF RateInv, Compare, table, At
<1>1. UNCHANGED <<now, config, attempts, counted, holder, staged>>
  BY DEF Drops, Moves, Ends
<1>2. RateTypeOK'
  BY <1>1 DEF RateTypeOK, Pc, Moves, Ends, Drops
<1>3. Locked'
  BY <1>1, RateAssumption DEF Locked, RateTypeOK, Inside, Moves, Ends, Drops
<1>4. Terms'
  BY <1>1 DEF Terms, Locked, RateTypeOK, Inside, Moves, Ends, Drops
<1>5. Ages'
  BY <1>1 DEF Ages
<1>6. Room'
  BY <1>1 DEF Room, RateTypeOK, Moves, Ends, Drops
<1>7. Fresh'
  BY <1>1 DEF Fresh, Locked, RateTypeOK, Inside, Moves, Ends, Admissible, Promise!InWindow
<1> QED
  BY <1>2, <1>3, <1>4, <1>5, <1>6, <1>7

LEMMA PurgeInv ==
  ASSUME RateInv, NEW t \in Task, Purge(t)
  PROVE  RateInv'
<1> USE DEF RateInv, Purge, table, At, Moves
<1>1. RateTypeOK'
  BY DEF RateTypeOK, Pc
<1>2. Locked'
  BY RateAssumption DEF Locked, RateTypeOK, Inside
<1>3. Terms'
  BY DEF Terms, Locked, RateTypeOK, Inside
<1>4. Ages'
  BY DEF Ages, RateTypeOK
<1>5. Room'
  BY DEF Room, Locked, RateTypeOK, Inside
<1>6. Fresh'
  BY DEF Fresh, RateTypeOK, Inside
<1> QED
  BY <1>1, <1>2, <1>3, <1>4, <1>5, <1>6

LEMMA CountInv ==
  ASSUME RateInv, NEW t \in Task, Count(t)
  PROVE  RateInv'
<1> USE DEF RateInv, Count, table, At
<1>1. UNCHANGED <<now, config, attempts, counted, holder, staged>>
  BY DEF Drops, Moves, Ends
<1>2. RateTypeOK'
  BY <1>1 DEF RateTypeOK, Pc, Moves, Ends, Drops
<1>3. Locked'
  BY <1>1, RateAssumption DEF Locked, RateTypeOK, Inside, Moves, Ends, Drops
<1>4. Terms'
  BY <1>1 DEF Terms, Locked, RateTypeOK, Inside, Moves, Ends, Drops
<1>5. Ages'
  BY <1>1 DEF Ages
<1>6. Room'
  <2>1. Cardinality(attempts \ staged.purged) \in Nat
    BY FS_Subset, FS_CardinalityType DEF Ages, RateTypeOK
  <2>2. asked[t] \in Nat
    BY RateAssumption DEF Terms
  <2> QED
    BY <1>1, <2>1, <2>2 DEF Room, RateTypeOK, Moves, Ends
<1>7. Fresh'
  BY <1>1 DEF Fresh, Locked, RateTypeOK, Inside, Moves, Ends, Admissible, Promise!InWindow
<1> QED
  BY <1>2, <1>3, <1>4, <1>5, <1>6, <1>7

(* The rows in the window of the present are among those that were counted. *)
LEMMA InsertInv ==
  ASSUME RateInv, NEW t \in Task, Insert(t)
  PROVE  RateInv'
<1> USE DEF RateInv, Insert, table, At, Moves
<1> DEFINE n == [id |-> Cardinality(counted) + 1, at |-> now]
<1>1. n \in Row /\ Cardinality(counted) \in Nat
  BY FS_CardinalityType, RateAssumption DEF Ages, RateTypeOK, Row
<1>2. RateTypeOK'
  BY <1>1 DEF RateTypeOK, Pc
<1>3. Locked'
  BY RateAssumption DEF Locked, RateTypeOK, Inside
<1>4. Terms'
  BY DEF Terms, Locked, RateTypeOK, Inside
<1>5. Ages'
  BY DEF Ages, RateTypeOK
<1>6. Room'
  BY DEF Room, Locked, RateTypeOK, Inside
<1>7. Cardinality(Promise!InWindow(now)) < staged.config
  <2>1. Promise!InWindow(now) \subseteq attempts \ staged.purged
    BY RateAssumption DEF Promise!InWindow, Ages, RateTypeOK, Row
  <2>2. IsFiniteSet(attempts \ staged.purged)
    BY FS_Subset DEF Ages, RateTypeOK
  <2>3. Cardinality(Promise!InWindow(now)) <= Cardinality(attempts \ staged.purged)
    BY <2>1, <2>2, FS_Subset
  <2>4. /\ Cardinality(Promise!InWindow(now)) \in Nat
        /\ Cardinality(attempts \ staged.purged) \in Nat
    BY <2>1, <2>2, FS_Subset, FS_CardinalityType
  <2>5. Cardinality(attempts \ staged.purged) < asked[t] /\ asked[t] = staged.config
    BY DEF Room, Terms, Inside
  <2>6. asked[t] \in Nat
    BY RateAssumption DEF Terms
  <2> QED
    BY <2>3, <2>4, <2>5, <2>6
<1>8. Fresh'
  <2>1. Admissible(n)'
    BY <1>7 DEF Admissible, Promise!InWindow, Ages, RateTypeOK
  <2>2. \A u \in Task : pc'[u] \in Inside => u = t
    BY <1>3, RateAssumption DEF Locked
  <2> QED
    BY <1>1, <2>1, <2>2 DEF Fresh, RateTypeOK, Inside
<1> QED
  BY <1>2, <1>3, <1>4, <1>5, <1>6, <1>8

(* What a commit leaves behind, whoever executes it.                       *)
LEMMA CommitAges ==
  ASSUME RateInv, Commits, staged' = Nothing, now' = now
  PROVE  Ages'
<1> USE DEF RateInv, Commits
<1>1. CASE staged.new = {}
  BY <1>1 DEF Ages, RateTypeOK, Nothing
<1>2. CASE staged.new # {}
  <2>1. PICK n \in Row : staged.new = {n} /\ Admissible(n)
    BY <1>2 DEF Fresh
  <2>2. Cardinality(counted) \in Nat
    BY FS_CardinalityType DEF Ages
  <2>3. n \notin counted
    BY <2>1, <2>2 DEF Ages, Admissible, RateTypeOK, Row
  <2>4. IsFiniteSet(counted') /\ Cardinality(counted') = Cardinality(counted) + 1
    BY <2>1, <2>3, FS_AddElement DEF Ages
  <2>5. \A a \in counted' : a.at <= now /\ a.id <= Cardinality(counted) + 1
    BY <2>1, <2>2 DEF Ages, Admissible, RateTypeOK, Row
  <2> QED
    BY <2>1, <2>4, <2>5 DEF Ages, RateTypeOK, Nothing
<1> QED
  BY <1>1, <1>2

LEMMA CommitType ==
  ASSUME RateInv, Commits
  PROVE  /\ config' \in Rpm \cup {Unset}
         /\ attempts' \subseteq counted' /\ counted' \subseteq Row
BY DEF RateInv, RateTypeOK, Commits

LEMMA ConfirmedInv ==
  ASSUME RateInv, NEW t \in Task, Confirmed(t)
  PROVE  RateInv'
<1> USE DEF RateInv, Confirmed, At, Unlocks
<1>1. RateTypeOK'
  BY CommitType DEF RateTypeOK, Pc, Ends, Nothing
<1>2. \A u \in Task : pc'[u] \notin Inside
  BY DEF Locked, RateTypeOK, Inside, Ends
<1>3. Locked'
  BY <1>2, RateAssumption DEF Locked
<1>4. Terms'
  BY <1>2 DEF Terms, RateTypeOK, Ends, Inside
<1>5. Ages'
  BY CommitAges
<1>6. Room'
  BY <1>2 DEF Room, Inside
<1>7. Fresh'
  BY <1>2 DEF Fresh, Nothing, Inside
<1> QED
  BY <1>1, <1>3, <1>4, <1>5, <1>6, <1>7

LEMMA FailsInv ==
  ASSUME RateInv, NEW t \in Task, Fails(t)
  PROVE  RateInv'
<1> USE DEF RateInv, Fails, table, Ends
<1>1. RateTypeOK'
  BY DEF RateTypeOK, Pc
<1>2. Locked'
  BY RateAssumption DEF Locked, RateTypeOK, Inside
<1>3. Terms'
  BY DEF Terms, RateTypeOK, Inside
<1>4. Ages'
  BY DEF Ages
<1>5. Room'
  BY DEF Room, RateTypeOK
<1>6. Fresh'
  BY DEF Fresh, RateTypeOK, Inside, Admissible, Promise!InWindow
<1> QED
  BY <1>1, <1>2, <1>3, <1>4, <1>5, <1>6

LEMMA ServerFinishesInv ==
  ASSUME RateInv, ServerFinishes
  PROVE  RateInv'
<1> USE DEF RateInv, ServerFinishes, Unlocks, table, call
<1>1. RateTypeOK'
  BY CommitType DEF RateTypeOK, Nothing
<1>2. \A u \in Task : pc'[u] \notin Inside
  BY DEF Locked
<1>3. Locked'
  BY <1>2, RateAssumption DEF Locked
<1>4. Terms'
  BY <1>2 DEF Terms, Inside
<1>5. Ages'
  <2>1. CASE UNCHANGED table
    BY <2>1 DEF Ages, Nothing
  <2>2. CASE Commits
    BY <2>2, CommitAges
  <2> QED
    BY <2>1, <2>2
<1>6. Room'
  BY <1>2 DEF Room, Inside
<1>7. Fresh'
  BY <1>2 DEF Fresh, Nothing, Inside
<1> QED
  BY <1>1, <1>3, <1>4, <1>5, <1>6, <1>7

LEMMA ClockTicksInv ==
  ASSUME RateInv, ClockTicks
  PROVE  RateInv'
<1> USE DEF RateInv, ClockTicks, table, call
<1>1. RateTypeOK'
  BY RateAssumption DEF RateTypeOK
<1>2. Locked' /\ Terms' /\ Room'
  BY DEF Locked, Terms, Room
<1>3. Ages'
  BY RateAssumption DEF Ages, RateTypeOK, Row
<1>4. Fresh'
  <2>1. ASSUME NEW n \in Row, Admissible(n) PROVE Admissible(n)'
    <3>1. n.at <= now'
      BY <2>1, RateAssumption DEF Admissible, RateTypeOK, Row
    <3>2. Promise!InWindow(n.at)' = Promise!InWindow(n.at)
      BY DEF Promise!InWindow
    <3> QED
      BY <2>1, <3>1, <3>2 DEF Admissible
  <2> QED
    BY <2>1 DEF Fresh
<1> QED
  BY <1>1, <1>2, <1>3, <1>4

LEMMA RateNextInv == RateInv /\ [RateNext]_rateVars => RateInv'
<1> SUFFICES ASSUME RateInv, [RateNext]_rateVars PROVE RateInv'
  OBVIOUS
<1>1. CASE UNCHANGED rateVars
  BY <1>1 DEF rateVars, RateInv, RateTypeOK, Locked, Terms, Ages, Room, Fresh, Inside,
              Admissible, Promise!InWindow
<1>2. ASSUME NEW t \in Task, NEW r \in Rpm, Reserve(t, r) PROVE RateInv'
  BY <1>2, ReserveInv
<1>3. ASSUME NEW t \in Task, Lock(t) PROVE RateInv'
  BY <1>3, LockInv
<1>4. ASSUME NEW t \in Task, Compare(t) PROVE RateInv'
  BY <1>4, CompareInv
<1>5. ASSUME NEW t \in Task, Purge(t) PROVE RateInv'
  BY <1>5, PurgeInv
<1>6. ASSUME NEW t \in Task, Count(t) PROVE RateInv'
  BY <1>6, CountInv
<1>7. ASSUME NEW t \in Task, Insert(t) PROVE RateInv'
  BY <1>7, InsertInv
<1>8. ASSUME NEW t \in Task, Confirmed(t) PROVE RateInv'
  BY <1>8, ConfirmedInv
<1>9. ASSUME NEW t \in Task, Fails(t) PROVE RateInv'
  BY <1>9, FailsInv
<1>10. CASE ServerFinishes
  BY <1>10, ServerFinishesInv
<1>11. CASE ClockTicks
  BY <1>11, ClockTicksInv
<1> QED
  BY <1>1, <1>2, <1>3, <1>4, <1>5, <1>6, <1>7, <1>8, <1>9, <1>10, <1>11 DEF RateNext

(* The transaction's invariant holds in every behaviour.                   *)
THEOREM TransactionIsSound == RateSpec => []RateInv
BY RateInitInv, RateNextInv, PTL DEF RateSpec

-----------------------------------------------------------------------------
(* The transaction implements the window *)

(* The instance has its own name for the cardinality of FiniteSets.        *)
LEMMA SameCardinality == \A S : Promise!Cardinality(S) = Cardinality(S)
BY DEF Promise!Cardinality, Cardinality

(* A commit is the admission of its new row, or only an agreement.         *)
LEMMA CommitAdmits ==
  ASSUME RateInv, holder # NoTask, Commits, now' = now
  PROVE  Promise!WindowNext
<1> USE DEF RateInv, Commits
<1>1. staged.config \in Rpm /\ config \in {Unset, staged.config}
  BY DEF Terms
<1>2. CASE staged.new = {}
  <2>1. Promise!Agree(staged.config)
    BY <1>1, <1>2 DEF Promise!Agree
  <2> QED
    BY <1>1, <2>1 DEF Promise!WindowNext
<1>3. CASE staged.new # {}
  <2>1. PICK n \in Row : staged.new = {n} /\ Admissible(n)
    BY <1>3 DEF Fresh
  <2>2. n = [id |-> n.id, at |-> n.at] /\ n.id \in 1 .. MaxRows /\ n.at \in 0 .. now
    BY <2>1, RateAssumption DEF Row, Admissible, RateTypeOK
  <2>3. \A a \in counted : a.at <= n.at /\ a.id # n.id
    <3>1. Cardinality(counted) \in Nat
      BY FS_CardinalityType DEF Ages
    <3> QED
      BY <2>1, <3>1 DEF Admissible, Ages, RateTypeOK, Row
  <2>4. Promise!Admit(staged.config, n.id, n.at)
    BY <1>1, <2>1, <2>2, <2>3, SameCardinality DEF Promise!Admit, Admissible
  <2> QED
    BY <1>1, <2>2, <2>4 DEF Promise!WindowNext
<1> QED
  BY <1>2, <1>3

LEMMA StepImplements ==
  RateInv /\ [RateNext]_rateVars => [Promise!WindowNext]_Promise!windowVars
<1> SUFFICES ASSUME RateInv, [RateNext]_rateVars
             PROVE  Promise!WindowNext \/ UNCHANGED <<config, counted, now>>
  BY DEF Promise!windowVars
<1>1. CASE UNCHANGED rateVars
  BY <1>1 DEF rateVars
<1>2. ASSUME NEW t \in Task, NEW r \in Rpm, Reserve(t, r)
      PROVE  UNCHANGED <<config, counted, now>>
  BY <1>2 DEF Reserve, table
<1>3. ASSUME NEW t \in Task, Lock(t) \/ Compare(t) \/ Purge(t) \/ Count(t) \/ Insert(t) \/ Fails(t)
      PROVE  UNCHANGED <<config, counted, now>>
  BY <1>3 DEF Lock, Compare, Purge, Count, Insert, Fails, table
<1>4. ASSUME NEW t \in Task, Confirmed(t) PROVE Promise!WindowNext
  <2>1. holder # NoTask
    BY <1>4, RateAssumption DEF Confirmed, At
  <2> QED
    BY <1>4, <2>1, CommitAdmits DEF Confirmed
<1>5. CASE ServerFinishes
  <2>1. holder # NoTask
    BY <1>5 DEF ServerFinishes, RateInv, Locked
  <2>2. CASE UNCHANGED table
    BY <1>5, <2>2 DEF ServerFinishes, table
  <2>3. CASE Commits
    BY <1>5, <2>1, <2>3, CommitAdmits DEF ServerFinishes
  <2> QED
    BY <1>5, <2>2, <2>3 DEF ServerFinishes
<1>6. CASE ClockTicks
  BY <1>6 DEF ClockTicks, table, Promise!WindowNext, Promise!Pass
<1> QED
  BY <1>1, <1>2, <1>3, <1>4, <1>5, <1>6 DEF RateNext

(* Every behaviour of reserve(), with deadlines, lost answers and deleted   *)
(* rows, is one of the window's promise.                                   *)
THEOREM ReserveImplementsWindow == RateSpec => ImplementsWindow
<1>1. RateInit => Promise!WindowInit
  BY DEF RateInit, Promise!WindowInit
<1> QED
  BY <1>1, TransactionIsSound, StepImplements, PTL DEF RateSpec, ImplementsWindow, Promise!WindowSpec

-----------------------------------------------------------------------------
(* What the promise is worth *)

(* With the promise: admissions are finitely many, never of the future,    *)
(* none without a limit, and no window holds more than the limit.          *)
WindowInv ==
    /\ config \in Rpm \cup {Unset} /\ now \in Nat
    /\ IsFiniteSet(counted) /\ \A a \in counted : a.at \in 0 .. now
    /\ config = Unset => counted = {}
    /\ config # Unset => \A t \in 0 .. now : Cardinality(Promise!InWindow(t)) <= config

LEMMA EmptyWindow ==
  ASSUME counted = {}, NEW t
  PROVE  Cardinality(Promise!InWindow(t)) = 0
<1>1. Promise!InWindow(t) = {}
  BY DEF Promise!InWindow
<1> QED
  BY <1>1, FS_EmptySet

LEMMA AdmitInv ==
  ASSUME WindowInv, NEW r \in Rpm, NEW id, NEW s \in 0 .. now, Promise!Admit(r, id, s)
  PROVE  WindowInv'
<1> DEFINE new == [id |-> id, at |-> s]
<1> USE DEF Promise!Admit
<1>1. r \in Nat /\ now \in Nat /\ Window \in Nat \ {0} /\ r # Unset
  BY RateAssumption DEF WindowInv
<1>2. IsFiniteSet(counted') /\ \A a \in counted' : a.at \in 0 .. now'
  <2>1. IsFiniteSet(counted')
    BY FS_AddElement DEF WindowInv
  <2> QED
    BY <1>1, <2>1 DEF WindowInv
<1>3. ASSUME NEW t \in 0 .. now PROVE Cardinality(Promise!InWindow(t)') <= r
  <2>1. CASE t < s
    <3>1. Promise!InWindow(t)' = Promise!InWindow(t)
      BY <1>1, <2>1 DEF Promise!InWindow
    <3>2. CASE config = Unset
      BY <1>1, <3>1, <3>2, EmptyWindow DEF WindowInv
    <3>3. CASE config # Unset
      BY <3>1, <3>3 DEF WindowInv
    <3> QED
      BY <3>2, <3>3
  <2>2. CASE s <= t
    <3>1. Promise!InWindow(t)' \subseteq Promise!InWindow(s) \cup {new}
      BY <1>1, <2>2 DEF Promise!InWindow, WindowInv
    <3>2. IsFiniteSet(Promise!InWindow(s))
      BY FS_Subset DEF WindowInv, Promise!InWindow
    <3>3. /\ IsFiniteSet(Promise!InWindow(s) \cup {new})
          /\ Cardinality(Promise!InWindow(s) \cup {new}) <= Cardinality(Promise!InWindow(s)) + 1
          /\ Cardinality(Promise!InWindow(s)) \in Nat
          /\ Cardinality(Promise!InWindow(s)) < r
      <4> HIDE DEF new
      <4>1. Cardinality(Promise!InWindow(s)) \in Nat
        BY <3>2, FS_CardinalityType
      <4>2. Cardinality(Promise!InWindow(s)) < r
        BY SameCardinality
      <4>3. /\ IsFiniteSet(Promise!InWindow(s) \cup {new})
            /\ Cardinality(Promise!InWindow(s) \cup {new})
                 \in {Cardinality(Promise!InWindow(s)), Cardinality(Promise!InWindow(s)) + 1}
        BY <3>2, FS_AddElement
      <4> QED
        BY <4>1, <4>2, <4>3
    <3>4. Cardinality(Promise!InWindow(t)') <= Cardinality(Promise!InWindow(s) \cup {new})
      BY <3>1, <3>3, FS_Subset
    <3>5. Cardinality(Promise!InWindow(t)') \in Nat /\ Cardinality(Promise!InWindow(s) \cup {new}) \in Nat
      BY <3>1, <3>3, FS_Subset, FS_CardinalityType
    <3> QED
      BY <1>1, <3>3, <3>4, <3>5
  <2> QED
    BY <1>1, <2>1, <2>2
<1> QED
  BY <1>1, <1>2, <1>3 DEF WindowInv

LEMMA PassInv ==
  ASSUME WindowInv, Promise!Pass
  PROVE  WindowInv'
<1> USE DEF Promise!Pass
<1>1. now \in Nat /\ now' = now + 1 /\ Window \in Nat
  BY RateAssumption DEF WindowInv
<1>2. \A a \in counted' : a.at \in 0 .. now'
  BY <1>1 DEF WindowInv
<1>3. ASSUME config # Unset, NEW t \in 0 .. now' PROVE Cardinality(Promise!InWindow(t)') <= config
  <2>1. Promise!InWindow(t)' = Promise!InWindow(t)
    BY DEF Promise!InWindow
  <2>2. CASE t \in 0 .. now
    BY <1>3, <2>1, <2>2 DEF WindowInv
  <2>3. CASE t = now + 1
    <3>1. Promise!InWindow(t) \subseteq Promise!InWindow(now)
      BY <1>1, <2>3 DEF Promise!InWindow, WindowInv
    <3>2. IsFiniteSet(Promise!InWindow(now))
      BY FS_Subset DEF WindowInv, Promise!InWindow
    <3>3. Cardinality(Promise!InWindow(t)) <= Cardinality(Promise!InWindow(now))
      BY <3>1, <3>2, FS_Subset
    <3>4. Cardinality(Promise!InWindow(t)) \in Nat /\ Cardinality(Promise!InWindow(now)) \in Nat
      BY <3>1, <3>2, FS_Subset, FS_CardinalityType
    <3>5. Cardinality(Promise!InWindow(now)) <= config /\ config \in Nat
      BY <1>1, <1>3, RateAssumption DEF WindowInv
    <3> QED
      BY <2>1, <3>3, <3>4, <3>5
  <2> QED
    BY <1>1, <2>2, <2>3
<1> QED
  BY <1>1, <1>2, <1>3 DEF WindowInv

LEMMA WindowNextInv == WindowInv /\ [Promise!WindowNext]_Promise!windowVars => WindowInv'
<1> SUFFICES ASSUME WindowInv, [Promise!WindowNext]_Promise!windowVars PROVE WindowInv'
  OBVIOUS
<1>1. CASE UNCHANGED Promise!windowVars
  BY <1>1 DEF Promise!windowVars, WindowInv, Promise!InWindow
<1>2. ASSUME NEW r \in Rpm, Promise!Agree(r) PROVE WindowInv'
  <2>1. CASE config = Unset
    <3>1. \A t : Cardinality(Promise!InWindow(t)') = 0
      <4>1. \A t : Promise!InWindow(t)' = {}
        BY <1>2, <2>1 DEF WindowInv, Promise!Agree, Promise!InWindow
      <4> QED
        BY <4>1, FS_EmptySet
    <3> QED
      BY <1>2, <2>1, <3>1, RateAssumption DEF WindowInv, Promise!Agree
  <2>2. CASE config # Unset
    BY <1>2, <2>2 DEF WindowInv, Promise!Agree, Promise!InWindow
  <2> QED
    BY <2>1, <2>2
<1>3. ASSUME NEW r \in Rpm, NEW id \in 1 .. MaxRows, NEW t \in 0 .. now, Promise!Admit(r, id, t)
      PROVE  WindowInv'
  BY <1>3, AdmitInv
<1>4. CASE Promise!Pass
  BY <1>4, PassInv
<1> QED
  BY <1>1, <1>2, <1>3, <1>4 DEF Promise!WindowNext

(* No minute of the server's clock, wherever it ends, holds more committed *)
(* attempts than the limit everybody came with.                            *)
THEOREM NoMinuteHoldsMore == RateSpec => []Promise!NeverMoreThanTheLimit
<1>1. Promise!WindowInit => WindowInv
  BY FS_EmptySet DEF Promise!WindowInit, WindowInv
<1>2. WindowInv => Promise!NeverMoreThanTheLimit
  BY SameCardinality DEF WindowInv, Promise!NeverMoreThanTheLimit
<1> QED
  BY <1>1, <1>2, WindowNextInv, ReserveImplementsWindow, PTL
     DEF ImplementsWindow, Promise!WindowSpec

-----------------------------------------------------------------------------
(* The fleet *)

Enrolled == {"registered", "serving", "query"}
Active   == {"serving", "query"}

(* What a process has read by the stage it is in.                          *)
Knows ==
    \A w \in Task :
        /\ stage[w] # "down" => mem[w].build \in Build
        /\ stage[w] \notin {"down", "waiting"} => mem[w].baseline \in Settings
        /\ stage[w] \in {"loaded", "released"} \cup Enrolled => mem[w].rpm \in Rpm

(* The fingerprint is there once a worker has registered, and a worker     *)
(* that serves has it.                                                     *)
Fingerprinted ==
    \A w \in Task : /\ stage[w] \in Enrolled => print # Unset
                    /\ stage[w] \in Active => print = Fingerprint(w)

(* A worker loads the limit of its baseline unless the settings are        *)
(* written between its two readings; who passes the second reading all the *)
(* same was fooled.                                                        *)
Loaded ==
    \A w \in Task :
        /\ stage[w] = "baselined" /\ w \notin written => settings.rpm = mem[w].baseline.rpm
        /\ stage[w] \in {"loaded", "released"} /\ w \notin written => mem[w].rpm = mem[w].baseline.rpm
        /\ stage[w] \in Enrolled /\ ~fooled => mem[w].rpm = mem[w].baseline.rpm

(* Model calls belong to queries and ask for the limit of their worker.    *)
Callers == \A w \in Task : pc[w] # "idle" => stage[w] = "query" /\ asked[w] = mem[w].rpm

(* The limit in use, stored or about to be, is the one of the fingerprint. *)
Printed(limit) == limit # Unset => print # Unset /\ limit = print.baseline.rpm
OneLimit == ~fooled => Printed(config) /\ Printed(staged.config)

Bootstrap == Knows /\ Fingerprinted /\ Loaded
FleetInv  == FleetTypeOK /\ RateInv /\ Bootstrap /\ Callers /\ OneLimit

-----------------------------------------------------------------------------
(* The transactions of the fleet are those of ProviderRateLimit *)

LEMMA StepIsReserve == FleetTypeOK /\ Knows /\ [FleetNext]_<<rateVars, fleetVars>> => [RateNext]_rateVars
<1> SUFFICES ASSUME FleetTypeOK, Knows, FleetNext PROVE RateNext \/ UNCHANGED rateVars
  OBVIOUS
<1>1. ASSUME NEW w \in Task, \/ Start(w) \/ EnterStartup(w) \/ Initialize(w) \/ LeaveStartup(w)
                             \/ Register(w) \/ Publish(w) \/ StartFails(w) \/ BeginQuery(w)
                             \/ EndQuery(w) \/ Stop(w)
      PROVE  UNCHANGED rateVars
  BY <1>1 DEF Start, EnterStartup, Initialize, LeaveStartup, Register, Publish, StartFails,
              BeginQuery, EndQuery, Stop
<1>2. ASSUME NEW w \in Task, CallModel(w) PROVE RateNext
  BY <1>2 DEF CallModel, Knows, Enrolled, RateNext
<1>3. ASSUME NEW w \in Task, Crash(w) PROVE RateNext \/ UNCHANGED rateVars
  BY <1>3 DEF Crash, RateNext
<1>4. CASE StartupLost \/ Alter
  BY <1>4 DEF StartupLost, Alter
<1>5. CASE Transaction
  BY <1>5 DEF Transaction, RateNext
<1> QED
  BY <1>1, <1>2, <1>3, <1>4, <1>5 DEF FleetNext

(* RateInv has the types of its variables, FleetTypeOK those of the rest.  *)
FleetOwnTypes ==
    /\ settings \in Settings
    /\ print \in Prints \cup {Unset}
    /\ startup \in Task \cup {NoTask}
    /\ stage \in [Task -> Stage]
    /\ mem \in [Task -> Memory]
    /\ written \subseteq Task
    /\ fooled \in BOOLEAN

FleetRest == FleetOwnTypes /\ Bootstrap /\ Callers /\ OneLimit

LEMMA InvParts == FleetInv <=> RateInv /\ FleetRest
BY DEF FleetInv, FleetRest, FleetTypeOK, FleetOwnTypes, RateInv

-----------------------------------------------------------------------------
(* The invariant of the fleet, action by action *)

LEMMA FleetInitInv == FleetInit => FleetInv
<1> SUFFICES ASSUME FleetInit PROVE FleetInv
  OBVIOUS
<1>1. RateInv
  BY RateInitInv DEF FleetInit
<1>2. FleetOwnTypes
  BY DEF FleetInit, FleetOwnTypes, Blank, Memory, Stage
<1>3. Bootstrap /\ Callers /\ OneLimit
  BY DEF FleetInit, RateInit, Bootstrap, Knows, Fingerprinted, Loaded, Callers, OneLimit,
         Printed, Nothing, Enrolled, Active
<1> QED
  BY <1>1, <1>2, <1>3, InvParts DEF FleetRest

LEMMA StartInv ==
  ASSUME FleetInv, NEW w \in Task, Start(w)
  PROVE  FleetRest'
<1> USE DEF FleetInv, Bootstrap, Start, Goes, Keeps
<1>1. FleetOwnTypes'
  BY DEF FleetTypeOK, FleetOwnTypes, Memory, Stage, Starting, history
<1>2. Knows'
  BY DEF FleetTypeOK, Knows, Enrolled, Memory
<1>3. Fingerprinted'
  BY DEF Fingerprinted, Enrolled, Active, Fingerprint
<1>4. Loaded'
  BY DEF Loaded, Enrolled, history
<1>5. Callers'
  BY DEF Callers, rateVars
<1>6. OneLimit'
  BY DEF OneLimit, Printed, rateVars, history
<1> QED
  BY <1>1, <1>2, <1>3, <1>4, <1>5, <1>6 DEF FleetRest

LEMMA EnterStartupInv ==
  ASSUME FleetInv, NEW w \in Task, EnterStartup(w)
  PROVE  FleetRest'
<1> USE DEF FleetInv, Bootstrap, EnterStartup, Goes, Keeps
<1>1. FleetOwnTypes'
  BY DEF FleetTypeOK, FleetOwnTypes, Memory, Stage, Starting, InStartup, history
<1>2. Knows'
  BY DEF FleetTypeOK, Knows, Enrolled, Memory
<1>3. Fingerprinted'
  BY DEF Fingerprinted, Enrolled, Active, Fingerprint
<1>4. Loaded'
  BY DEF FleetTypeOK, Loaded, Enrolled, Memory, history
<1>5. Callers'
  BY DEF Callers, rateVars
<1>6. OneLimit'
  BY DEF OneLimit, Printed, rateVars, history
<1> QED
  BY <1>1, <1>2, <1>3, <1>4, <1>5, <1>6 DEF FleetRest

LEMMA InitializeInv ==
  ASSUME FleetInv, NEW w \in Task, Initialize(w)
  PROVE  FleetRest'
<1> USE DEF FleetInv, Bootstrap, Initialize, Goes, Keeps
<1>1. FleetOwnTypes'
  <2>1. settings' \in Settings /\ settings.rpm \in Rpm
    BY DEF FleetTypeOK, Settings
  <2>2. stage' \in [Task -> Stage] /\ mem' \in [Task -> Memory]
    BY <2>1 DEF FleetTypeOK, Stage, Starting, InStartup, Memory
  <2> QED
    BY <2>1, <2>2 DEF FleetTypeOK, FleetOwnTypes, history
<1>2. Knows'
  BY DEF FleetTypeOK, Knows, Memory, Settings
<1>3. Fingerprinted'
  BY DEF Fingerprinted, Enrolled, Active, Fingerprint
<1>4. Loaded'
  BY DEF FleetTypeOK, Loaded, Enrolled, Memory, history
<1>5. Callers'
  BY DEF Callers, rateVars
<1>6. OneLimit'
  BY DEF OneLimit, Printed, rateVars, history
<1> QED
  BY <1>1, <1>2, <1>3, <1>4, <1>5, <1>6 DEF FleetRest

LEMMA LeaveStartupInv ==
  ASSUME FleetInv, NEW w \in Task, LeaveStartup(w)
  PROVE  FleetRest'
<1> USE DEF FleetInv, Bootstrap, LeaveStartup, Goes
<1>1. FleetOwnTypes'
  BY DEF FleetTypeOK, FleetOwnTypes, GivesBack, Stage, Starting, history
<1>2. Knows'
  BY DEF Knows
<1>3. Fingerprinted'
  BY DEF Fingerprinted, Enrolled, Active, Fingerprint
<1>4. Loaded'
  BY DEF Loaded, Enrolled, history
<1>5. Callers'
  BY DEF Callers, rateVars
<1>6. OneLimit'
  BY DEF OneLimit, Printed, rateVars, history
<1> QED
  BY <1>1, <1>2, <1>3, <1>4, <1>5, <1>6 DEF FleetRest

LEMMA RegisterInv ==
  ASSUME FleetInv, NEW w \in Task, Register(w)
  PROVE  FleetRest'
<1> USE DEF FleetInv, Bootstrap, Register, Goes
<1>1. FleetOwnTypes'
  BY DEF FleetTypeOK, FleetOwnTypes, Knows, Stage, Prints, Fingerprint, Starting
<1>2. Knows'
  BY DEF Knows
<1>3. Fingerprinted'
  BY FleetAssumption DEF Knows, Fingerprinted, Active, Prints, Fingerprint
<1>4. Loaded'
  BY DEF FleetTypeOK, Loaded
<1>5. Callers'
  BY DEF Callers, rateVars
<1>6. OneLimit'
  BY DEF OneLimit, Printed, rateVars
<1> QED
  BY <1>1, <1>2, <1>3, <1>4, <1>5, <1>6 DEF FleetRest

LEMMA PublishInv ==
  ASSUME FleetInv, NEW w \in Task, Publish(w)
  PROVE  FleetRest'
<1> USE DEF FleetInv, Bootstrap, Publish, Goes
<1>1. FleetOwnTypes'
  BY DEF FleetTypeOK, FleetOwnTypes, Stage, history
<1>2. Knows'
  BY DEF Knows, Enrolled
<1>3. Fingerprinted'
  BY DEF Fingerprinted, Enrolled, Fingerprint
<1>4. Loaded'
  BY DEF Loaded, Enrolled, history
<1>5. Callers'
  BY DEF Callers, rateVars
<1>6. OneLimit'
  BY DEF OneLimit, Printed, rateVars, history
<1> QED
  BY <1>1, <1>2, <1>3, <1>4, <1>5, <1>6 DEF FleetRest

LEMMA StartFailsInv ==
  ASSUME FleetInv, NEW w \in Task, StartFails(w)
  PROVE  FleetRest'
<1> USE DEF FleetInv, Bootstrap, StartFails, Forgets
<1>1. FleetOwnTypes'
  BY DEF FleetTypeOK, FleetOwnTypes, GivesBack, Memory, Stage, Blank
<1>2. Knows'
  BY DEF FleetTypeOK, Knows, Enrolled
<1>3. Fingerprinted'
  BY DEF FleetTypeOK, Fingerprinted, Enrolled, Active, Fingerprint
<1>4. Loaded'
  BY DEF FleetTypeOK, Loaded, Enrolled
<1>5. Callers'
  BY DEF Callers, rateVars, Starting, InStartup
<1>6. OneLimit'
  BY DEF OneLimit, Printed, rateVars
<1> QED
  BY <1>1, <1>2, <1>3, <1>4, <1>5, <1>6 DEF FleetRest

LEMMA BeginQueryInv ==
  ASSUME FleetInv, NEW w \in Task, BeginQuery(w)
  PROVE  FleetRest'
<1> USE DEF FleetInv, Bootstrap, BeginQuery, Goes
<1>1. FleetOwnTypes'
  BY DEF FleetTypeOK, FleetOwnTypes, Stage, history
<1>2. Knows'
  BY DEF Knows, Enrolled
<1>3. Fingerprinted'
  BY DEF Fingerprinted, Enrolled, Active, Fingerprint
<1>4. Loaded'
  BY DEF Loaded, Enrolled, history
<1>5. Callers'
  BY DEF Callers, rateVars
<1>6. OneLimit'
  BY DEF OneLimit, Printed, rateVars, history
<1> QED
  BY <1>1, <1>2, <1>3, <1>4, <1>5, <1>6 DEF FleetRest

LEMMA EndQueryInv ==
  ASSUME FleetInv, NEW w \in Task, EndQuery(w)
  PROVE  FleetRest'
<1> USE DEF FleetInv, Bootstrap, EndQuery, Goes
<1>1. FleetOwnTypes'
  BY DEF FleetTypeOK, FleetOwnTypes, Stage, history
<1>2. Knows'
  BY DEF Knows, Enrolled
<1>3. Fingerprinted'
  BY DEF Fingerprinted, Enrolled, Active, Fingerprint
<1>4. Loaded'
  BY DEF Loaded, Enrolled, history
<1>5. Callers'
  BY DEF Callers, rateVars
<1>6. OneLimit'
  BY DEF OneLimit, Printed, rateVars, history
<1> QED
  BY <1>1, <1>2, <1>3, <1>4, <1>5, <1>6 DEF FleetRest

LEMMA StopInv ==
  ASSUME FleetInv, NEW w \in Task, Stop(w)
  PROVE  FleetRest'
<1> USE DEF FleetInv, Bootstrap, Stop, Goes, Forgets
<1>1. FleetOwnTypes'
  BY DEF FleetTypeOK, FleetOwnTypes, Memory, Stage, Blank
<1>2. Knows'
  BY DEF FleetTypeOK, Knows, Enrolled
<1>3. Fingerprinted'
  BY DEF FleetTypeOK, Fingerprinted, Enrolled, Active, Fingerprint
<1>4. Loaded'
  BY DEF FleetTypeOK, Loaded, Enrolled
<1>5. Callers'
  BY DEF Callers, rateVars
<1>6. OneLimit'
  BY DEF OneLimit, Printed, rateVars
<1> QED
  BY <1>1, <1>2, <1>3, <1>4, <1>5, <1>6 DEF FleetRest

LEMMA CrashInv ==
  ASSUME FleetInv, NEW w \in Task, Crash(w)
  PROVE  FleetRest'
<1> USE DEF FleetInv, Bootstrap, Crash, Forgets
<1>1. FleetOwnTypes'
  BY DEF FleetTypeOK, FleetOwnTypes, GivesBack, Memory, Stage, Blank
<1>2. Knows'
  BY DEF FleetTypeOK, Knows, Enrolled
<1>3. Fingerprinted'
  BY DEF FleetTypeOK, Fingerprinted, Enrolled, Active, Fingerprint
<1>4. Loaded'
  BY DEF FleetTypeOK, Loaded, Enrolled
<1>5. Callers'
  BY DEF FleetTypeOK, RateTypeOK, Callers, Fails, Ends, rateVars
<1>6. OneLimit'
  BY DEF OneLimit, Printed, Fails, table, rateVars
<1> QED
  BY <1>1, <1>2, <1>3, <1>4, <1>5, <1>6 DEF FleetRest

LEMMA CallModelInv ==
  ASSUME FleetInv, NEW w \in Task, CallModel(w)
  PROVE  FleetRest'
<1> USE DEF FleetInv, Bootstrap, CallModel
<1>1. FleetOwnTypes'
  BY DEF FleetTypeOK, FleetOwnTypes, fleetVars
<1>2. Knows'
  BY DEF Knows, fleetVars
<1>3. Fingerprinted'
  BY DEF Fingerprinted, Fingerprint, fleetVars
<1>4. Loaded'
  BY DEF Loaded, fleetVars
<1>5. Callers'
  BY DEF FleetTypeOK, RateTypeOK, Callers, Reserve, fleetVars
<1>6. OneLimit'
  BY DEF OneLimit, Printed, Reserve, table, fleetVars
<1> QED
  BY <1>1, <1>2, <1>3, <1>4, <1>5, <1>6 DEF FleetRest

LEMMA StartupLostInv ==
  ASSUME FleetInv, StartupLost
  PROVE  FleetRest'
<1>1. FleetOwnTypes' /\ Bootstrap'
  BY DEF FleetInv, FleetTypeOK, FleetOwnTypes, Bootstrap, Knows, Fingerprinted, Loaded, Fingerprint,
         StartupLost, history
<1>2. Callers' /\ OneLimit'
  BY DEF FleetInv, Callers, OneLimit, Printed, StartupLost, rateVars, history
<1> QED
  BY <1>1, <1>2 DEF FleetRest

LEMMA AlterInv ==
  ASSUME FleetInv, Alter
  PROVE  FleetRest'
<1>1. FleetOwnTypes'
  BY DEF FleetInv, FleetTypeOK, FleetOwnTypes, Alter, Settings
<1>2. Knows' /\ Fingerprinted'
  BY DEF FleetInv, Bootstrap, Knows, Fingerprinted, Fingerprint, Alter
<1>3. Loaded'
  BY DEF FleetInv, Bootstrap, Loaded, Alter, InStartup
<1>4. Callers' /\ OneLimit'
  BY DEF FleetInv, Callers, OneLimit, Printed, Alter, rateVars
<1> QED
  BY <1>1, <1>2, <1>3, <1>4 DEF FleetRest, Bootstrap

(* The limit a worker asks for is, unless a worker was fooled, the one of  *)
(* the fingerprint.                                                        *)
LEMMA AsksForThePrint ==
  ASSUME FleetInv, ~fooled, NEW w \in Task, pc[w] # "idle"
  PROVE  print # Unset /\ asked[w] = print.baseline.rpm
<1>1. stage[w] = "query" /\ asked[w] = mem[w].rpm
  BY DEF FleetInv, Callers
<1>2. mem[w].rpm = mem[w].baseline.rpm
  BY <1>1 DEF FleetInv, Bootstrap, Loaded, Enrolled
<1>3. print # Unset /\ print = Fingerprint(w)
  BY <1>1 DEF FleetInv, Bootstrap, Fingerprinted, Enrolled, Active
<1> QED
  BY <1>1, <1>2, <1>3 DEF Fingerprint

LEMMA TransactionInv ==
  ASSUME FleetInv, Transaction
  PROVE  FleetRest'
<1> USE DEF Transaction, fleetVars
<1>1. FleetOwnTypes' /\ Bootstrap'
  BY DEF FleetInv, FleetTypeOK, FleetOwnTypes, Bootstrap, Knows, Fingerprinted, Loaded, Fingerprint
<1>2. \A w \in Task : pc'[w] # "idle" => pc[w] # "idle" /\ asked'[w] = asked[w]
  <2>1. pc \in [Task -> Pc] /\ asked \in [Task -> Rpm \cup {Unset}]
    BY DEF FleetInv, RateInv, RateTypeOK
  <2>2. ASSUME NEW v \in Task, Ends(v) \/ (\E to : pc[v] # "idle" /\ Moves(v, to)) \/ UNCHANGED call
        PROVE  \A w \in Task : pc'[w] # "idle" => pc[w] # "idle" /\ asked'[w] = asked[w]
    BY <2>1, <2>2 DEF Ends, Moves, call
  <2>3. ASSUME NEW v \in Task, Lock(v) \/ Compare(v) \/ Purge(v) \/ Count(v) \/ Insert(v)
        PROVE  Ends(v) \/ (\E to : pc[v] # "idle" /\ Moves(v, to))
    BY <2>3 DEF Lock, Compare, Purge, Count, Insert, At
  <2>4. ASSUME NEW v \in Task, Confirmed(v) \/ Fails(v) PROVE Ends(v)
    BY <2>4 DEF Confirmed, Fails
  <2>5. CASE ServerFinishes \/ ClockTicks
    BY <2>5 DEF ServerFinishes, ClockTicks, call
  <2> QED
    BY <2>2, <2>3, <2>4, <2>5
<1>3. Callers'
  BY <1>2 DEF FleetInv, Callers
<1>4. OneLimit'
  <2> SUFFICES ASSUME ~fooled PROVE Printed(config)' /\ Printed(staged.config)'
    BY DEF OneLimit
  <2>1. Printed(config) /\ Printed(staged.config)
    BY DEF FleetInv, OneLimit
  <2>2. ASSUME NEW w \in Task, Lock(w) PROVE config' = config /\ staged'.config \in {config, asked[w]}
    BY <2>2 DEF Lock, table
  <2>3. ASSUME NEW w \in Task, Lock(w) PROVE Printed(config)' /\ Printed(staged.config)'
    <3>1. print # Unset /\ asked[w] = print.baseline.rpm
      BY <2>3, AsksForThePrint DEF Lock
    <3> QED
      BY <2>1, <2>2, <2>3, <3>1 DEF Printed
  <2>4. ASSUME NEW w \in Task, Compare(w) \/ Purge(w) \/ Count(w) \/ Insert(w) \/ Fails(w)
        PROVE  config' = config /\ staged'.config = staged.config
    BY <2>4 DEF FleetInv, RateInv, RateTypeOK, Compare, Purge, Count, Insert, Fails, Drops, table
  <2>5. ASSUME NEW w \in Task, Confirmed(w)
        PROVE  config' = staged.config /\ staged'.config = Unset
    BY <2>5 DEF Confirmed, Commits, Unlocks, Nothing
  <2>6. CASE ServerFinishes
    <3>1. config' \in {config, staged.config} /\ staged'.config = Unset
      BY <2>6 DEF ServerFinishes, Commits, Unlocks, Nothing, table
    <3> QED
      BY <2>1, <3>1 DEF Printed
  <2>7. CASE ClockTicks
    BY <2>1, <2>7 DEF ClockTicks, table, Printed
  <2> QED
    BY <2>1, <2>3, <2>4, <2>5, <2>6, <2>7 DEF Printed
<1> QED
  BY <1>1, <1>3, <1>4 DEF FleetRest

LEMMA FleetNextInv == FleetInv /\ [FleetNext]_<<rateVars, fleetVars>> => FleetInv'
<1> SUFFICES ASSUME FleetInv, [FleetNext]_<<rateVars, fleetVars>> PROVE FleetRest'
  <2>1. ASSUME FleetInv, [FleetNext]_<<rateVars, fleetVars>> PROVE RateInv'
    BY <2>1, StepIsReserve, RateNextInv DEF FleetInv, Bootstrap
  <2>2. RateInv' /\ FleetRest' => FleetInv'
    BY InvParts, PTL
  <2> QED
    BY <2>1, <2>2
<1>1. CASE UNCHANGED <<rateVars, fleetVars>>
  BY <1>1, InvParts DEF FleetRest, FleetOwnTypes, Bootstrap, Knows, Fingerprinted, Loaded, Callers,
       OneLimit, Printed, Fingerprint, rateVars, fleetVars
<1>2. ASSUME NEW w \in Task,
             \/ Start(w) \/ EnterStartup(w) \/ Initialize(w) \/ LeaveStartup(w)
             \/ Register(w) \/ Publish(w) \/ StartFails(w)
             \/ BeginQuery(w) \/ CallModel(w) \/ EndQuery(w) \/ Stop(w) \/ Crash(w)
      PROVE  FleetRest'
  BY <1>2, StartInv, EnterStartupInv, InitializeInv, LeaveStartupInv, RegisterInv, PublishInv,
     StartFailsInv, BeginQueryInv, CallModelInv, EndQueryInv, StopInv, CrashInv
<1>3. CASE StartupLost
  BY <1>3, StartupLostInv
<1>4. CASE Alter
  BY <1>4, AlterInv
<1>5. CASE Transaction
  BY <1>5, TransactionInv
<1> QED
  BY <1>1, <1>2, <1>3, <1>4, <1>5 DEF FleetNext

LEMMA FleetIsSound == FleetSpec => []FleetInv
BY FleetInitInv, FleetNextInv, PTL DEF FleetSpec

-----------------------------------------------------------------------------
(* What the fleet keeps *)

(* Workers that serve at the same time have the release, the environment   *)
(* and the settings of one fingerprint, whatever was written meanwhile.    *)
THEOREM ServingWorkersAgree == FleetSpec => []OneConfiguration
<1>1. FleetInv => OneConfiguration
  BY DEF FleetInv, Bootstrap, OneConfiguration, Fingerprinted, Active
<1> QED
  BY <1>1, FleetIsSound, PTL

(* Unless a worker read settings that had been written and written back,   *)
(* no model call of the fleet meets another limit than its own.            *)
THEOREM CallsAgreeOnTheLimit == FleetSpec => []LimitsAgree
<1>1. ASSUME FleetInv, NEW w \in Task, At(w, "compare"), ~fooled PROVE staged.config = asked[w]
  <2>1. print # Unset /\ asked[w] = print.baseline.rpm
    BY <1>1, AsksForThePrint DEF At
  <2>2. staged.config # Unset
    BY <1>1, RateAssumption DEF FleetInv, RateInv, Terms, At
  <2> QED
    BY <1>1, <2>1, <2>2 DEF FleetInv, OneLimit, Printed
<1>2. FleetInv => LimitsAgree
  BY <1>1 DEF LimitsAgree
<1> QED
  BY <1>2, FleetIsSound, PTL

(* Whatever the fleet does, the attempts its workers make are kept within  *)
(* the window of RateWindow.                                               *)
THEOREM FleetImplementsWindow == FleetSpec => ImplementsWindow
<1>1. FleetInv /\ [FleetNext]_<<rateVars, fleetVars>> => [RateNext]_rateVars
  BY StepIsReserve DEF FleetInv, Bootstrap
<1>2. FleetInit => RateInit
  BY DEF FleetInit
<1>3. FleetSpec => RateSpec
  BY <1>1, <1>2, FleetIsSound, PTL DEF FleetSpec, RateSpec
<1> QED
  BY <1>3, ReserveImplementsWindow, PTL
=============================================================================
