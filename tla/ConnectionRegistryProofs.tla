---------------------- MODULE ConnectionRegistryProofs ----------------------
(***************************************************************************)
(* Proofs about ConnectionRegistry.tla, for any number of requests,        *)
(* databases and handles.                                                  *)
(***************************************************************************)
EXTENDS ConnectionRegistry, SequenceTheorems, FiniteSetTheorems, TLAPS

USE DEF Live

Leased    == {"read", "run", "drain", "dispose"}
Replacing == {"retire", "dispose", "discard"}

(* A request has a database, and a candidate only inside a replacement.    *)
Shape ==
    \A t \in Task : /\ ~At(t, "idle") => req[t].db \in Db
                    /\ req[t].cand # None => req[t].pc \in Replacing

(* Who works on a handle, or closes it, is the first of its lease; who has *)
(* a candidate is the first of its database's gate.                        *)
Holders ==
    \A t \in Task : /\ req[t].pc \in Leased => HoldsLease(t)
                    /\ req[t].cand # None => HoldsGate(t)

(* A handle is registered once, and not retired; neither is a candidate    *)
(* until it is discarded, and only its replacement knows it; a handle being *)
(* closed is registered no more.                                           *)
Names ==
    /\ \A d \in Db : registry[d] # None =>
          /\ handle[registry[d]] \in Live
          /\ \A e \in Db : registry[e] = registry[d] => e = d
    /\ \A t \in Task : req[t].cand # None =>
          /\ ~At(t, "discard") => handle[req[t].cand] \in Live
          /\ \A d \in Db : registry[d] # req[t].cand
          /\ \A u \in Task : /\ req[u].conn # req[t].cand
                             /\ req[u].cand = req[t].cand => u = t
    /\ \A t \in Task : At(t, "dispose") => \A d \in Db : registry[d] # req[t].conn

(* While a replacement is under way its database has the old handle or     *)
(* none; a statement runs on the registered handle; no worker's handle is  *)
(* retired.                                                                *)
Current ==
    \A t \in Task : /\ req[t].cand # None => registry[req[t].db] \in {None, req[t].conn} \/ At(t, "discard")
                    /\ At(t, "run") => IsCurrent(t)
                    /\ Working(t) => handle[req[t].conn] \in Live

(* Handles that are not closed yet are known to somebody.                  *)
Known ==
    \A h \in Handle :
        /\ handle[h] \in Live => \/ \E d \in Db : registry[d] = h
                                 \/ \E t \in Task : req[t].cand = h
        /\ handle[h] = "closing" => \E t \in Task : \/ At(t, "dispose") /\ req[t].conn = h
                                                    \/ At(t, "discard") /\ req[t].cand = h

(* The worker thread of a native handle never closes it.                   *)
NativeIntact == \A h \in Native : handle[h] # "broken"

RegistryInv == TypeOK /\ Shape /\ Holders /\ Names /\ Current /\ Known

-----------------------------------------------------------------------------
(* Queues *)

(* Who is first in a queue stays first when another leaves.                *)
LEMMA OthersStayFirst ==
  ASSUME NEW q \in Seq(Task), NEW t \in Task, t \in ToSet(q)
  PROVE  /\ RemoveAt(q, Place(q, t)) \in Seq(Task)
         /\ \A u \in Task \ {t} : First(q, u) => First(RemoveAt(q, Place(q, t)), u)
<1> DEFINE i == Place(q, t)
           a == SubSeq(q, 1, i - 1)
           b == SubSeq(q, i + 1, Len(q))
<1>1. Len(q) \in Nat /\ DOMAIN q = 1 .. Len(q) /\ \A j \in 1 .. Len(q) : q[j] \in Task
  BY LenProperties, ElementOfSeq
<1>2. i \in 1 .. Len(q) /\ q[i] = t
  BY <1>1 DEF Place, ToSet
<1> HIDE DEF i
<1>3. /\ a \in Seq(Task) /\ b \in Seq(Task) /\ Len(a) = i - 1
      /\ 1 <= i - 1 => a[1] = q[1]
  BY <1>1, <1>2, SubSeqProperties
<1> HIDE DEF a, b
<1>4. /\ a \o b \in Seq(Task)
      /\ 1 <= i - 1 => (a \o b)[1] = q[1] /\ Len(a \o b) >= 1
  <2>1. Len(b) \in Nat /\ i \in Nat \ {0}
    BY <1>1, <1>2, <1>3, LenProperties
  <2> QED
    BY <1>3, <2>1, ConcatProperties
<1>5. ASSUME NEW r \in Seq(Task), Len(r) >= 1 PROVE r # <<>> /\ Head(r) = r[1]
  BY <1>5, EmptySeq
<1>6. ASSUME NEW u \in Task \ {t}, First(q, u) PROVE First(a \o b, u)
  <2>1. q[1] = u
    BY <1>6 DEF First
  <2>2. 1 <= i - 1
    BY <1>1, <1>2, <2>1
  <2> QED
    BY <1>4, <1>5, <2>1, <2>2 DEF First
<1> QED
  BY <1>4, <1>6 DEF RemoveAt, a, b, i

(* A step from the queues q to r of the resources K by which nobody but t  *)
(* loses the head of a queue.                                              *)
KeepsFirst(q, r, K, t) ==
    /\ r \in [K -> Seq(Task)]
    /\ \A u \in Task \ {t}, k \in K : First(q[k], u) => First(r[k], u)

LEMMA WithoutQueue ==
  ASSUME NEW K, NEW q \in [K -> Seq(Task)], NEW k \in K, NEW t \in Task
  PROVE  KeepsFirst(q, Without(q, k, t), K, t)
BY OthersStayFirst DEF Without, KeepsFirst

LEMMA JoinedQueue ==
  ASSUME NEW K, NEW q \in [K -> Seq(Task)], NEW k \in K, NEW t \in Task
  PROVE  KeepsFirst(q, Joined(q, k, t), K, t)
<1>1. ASSUME NEW s \in Seq(Task), NEW u \in Task, First(s, u)
      PROVE  First(Append(s, t), u)
  <2>1. Append(s, t) \in Seq(Task) /\ Append(s, t)[1] = s[1] /\ Len(Append(s, t)) >= 1
    BY <1>1, LenProperties, EmptySeq DEF First
  <2> QED
    BY <1>1, <2>1, EmptySeq DEF First
<1> QED
  BY <1>1 DEF Joined, KeepsFirst
(* Nobody but t loses the head of a queue.                                 *)
Patient(t) == KeepsFirst(leaseQ, leaseQ', Handle, t) /\ KeepsFirst(gateQ, gateQ', Db, t)

LEMMA StillQueues ==
  ASSUME TypeOK, NEW t \in Task,
         \/ UNCHANGED leaseQ
         \/ \E h \in Handle : leaseQ' = Joined(leaseQ, h, t) \/ leaseQ' = Without(leaseQ, h, t),
         \/ UNCHANGED gateQ
         \/ \E d \in Db : gateQ' = Joined(gateQ, d, t) \/ gateQ' = Without(gateQ, d, t)
  PROVE  Patient(t)
<1>1. leaseQ \in [Handle -> Seq(Task)] /\ gateQ \in [Db -> Seq(Task)]
  BY DEF TypeOK
<1>2. KeepsFirst(leaseQ, leaseQ', Handle, t)
  <2>1. CASE UNCHANGED leaseQ
    BY <1>1, <2>1 DEF KeepsFirst
  <2> QED
    BY <1>1, <2>1, WithoutQueue, JoinedQueue
<1>3. KeepsFirst(gateQ, gateQ', Db, t)
  <2>1. CASE UNCHANGED gateQ
    BY <1>1, <2>1 DEF KeepsFirst
  <2> QED
    BY <1>1, <2>1, WithoutQueue, JoinedQueue
<1> QED
  BY <1>2, <1>3 DEF Patient

-----------------------------------------------------------------------------
(* Requests that use handles *)

(* t goes on to r; no handle is opened, retired or registered.             *)
Uses(t, r) ==
    /\ Patient(t) /\ UNCHANGED registry /\ CallEnds(t)
    /\ r \in Request /\ req' = [req EXCEPT ![t] = r]
    /\ req[t].cand = None /\ r.cand = None
    /\ req[t].pc \notin {"dispose", "discard"} /\ r.pc \notin {"dispose", "discard"}
    /\ r.pc # "idle" => r.db \in Db
    /\ IF r.conn = None THEN r.pc \in {"idle", "gate"}
       ELSE r.conn = req[t].conn \/ \E d \in Db : registry[d] = r.conn
    /\ r.pc \in Leased => First(leaseQ'[r.conn], t)
    /\ r.pc = "run" => registry[r.db] = r.conn
    /\ r.pc \in {"read", "run", "drain"} => handle'[r.conn] \in Live

LEMMA UsesInv ==
  ASSUME RegistryInv, NEW t \in Task, NEW r, Uses(t, r)
  PROVE  RegistryInv'
<1> USE DEF RegistryInv, Uses
<1>1. \A u \in Task : req'[u] = IF u = t THEN r ELSE req[u]
  BY DEF TypeOK
<1>a. /\ handle' \in [Handle -> State]
      /\ \A g \in Handle : handle'[g] = handle[g] \/ (handle[g] = "open" /\ handle'[g] = "broken")
  <2>1. handle \in [Handle -> State]
    BY DEF TypeOK
  <2>2. CASE UNCHANGED handle
    BY <2>1, <2>2
  <2>3. CASE handle' = [handle EXCEPT ![req[t].conn] = "broken"] /\ handle[req[t].conn] = "open"
    BY <2>1, <2>3 DEF State
  <2> QED
    BY <2>2, <2>3 DEF CallEnds
<1>b. /\ \A d \in Db : registry[d] \in Handle \cup {None}
      /\ \A u \in Task : req[u].cand \in Handle \cup {None} /\ (Working(u) => req[u].conn \in Handle)
  BY DEF TypeOK, Request, Working
<1>2. TypeOK'
  BY <1>a DEF TypeOK, Patient, KeepsFirst
<1>3. Shape'
  BY <1>1 DEF Shape, At
<1>4. Holders'
  <2>1. ASSUME NEW u \in Task \ {t}
        PROVE  /\ req[u].pc \in Leased => First(leaseQ'[req[u].conn], u)
               /\ req[u].cand # None => First(gateQ'[req[u].db], u)
    <3>1. req[u].pc \in Leased => req[u].conn \in Handle
      BY DEF TypeOK, Request, Leased
    <3>2. req[u].cand # None => req[u].db \in Db
      BY DEF Shape, At, Replacing
    <3> QED
      BY <3>1, <3>2 DEF Holders, HoldsLease, HoldsGate, Patient, KeepsFirst
  <2> QED
    BY <1>1, <2>1 DEF Holders, HoldsLease, HoldsGate
<1>5. Names'
  <2>1. \A u \in Task : req'[u].cand = req[u].cand
    BY <1>1
  <2>2. ASSUME NEW u \in Task, req[u].cand # None PROVE r.conn # req[u].cand
    BY <2>2 DEF Names
  <2>3. ASSUME NEW u \in Task, req'[u].cand # None
        PROVE  /\ req'[u].pc # "discard" => handle'[req'[u].cand] \in Live
               /\ \A d \in Db : registry[d] # req'[u].cand
               /\ \A v \in Task : req'[v].cand = req'[u].cand => v = u
    BY <1>1, <1>a, <1>b, <2>1, <2>3 DEF Names, At
  <2>4. ASSUME NEW u \in Task, NEW v \in Task, req'[u].cand # None
        PROVE  req'[v].conn # req'[u].cand
    BY <1>1, <2>1, <2>2, <2>4 DEF Names
  <2>5. \A u \in Task : req'[u].pc = "dispose" => \A d \in Db : registry[d] # req'[u].conn
    BY <1>1 DEF Names, At
  <2>6. \A d \in Db : registry[d] # None => handle'[registry[d]] \in Live
    BY <1>a, <1>b DEF Names
  <2> QED
    BY <2>3, <2>4, <2>5, <2>6 DEF Names, At
<1>6. Current'
  BY <1>1, <1>a, <1>b DEF Current, IsCurrent, Working, At
<1>7. Known'
  <2>1. \A u \in Task : /\ req'[u].cand = req[u].cand
                        /\ req[u].pc \in {"dispose", "discard"} => req'[u] = req[u]
    BY <1>1
  <2> QED
    BY <1>a, <2>1 DEF Known, At
<1> QED
  BY <1>2, <1>3, <1>4, <1>5, <1>6, <1>7

LEMMA RestUses ==
  ASSUME RegistryInv, NEW t \in Task, Patient(t), Rest(t), UNCHANGED registry, CallEnds(t),
         req[t].cand = None, req[t].pc \notin {"dispose", "discard"}
  PROVE  RegistryInv'
<1>1. Uses(t, Resting)
  BY DEF Uses, Rest, Resting, Request, PC, Leased
<1> QED
  BY <1>1, UsesInv

(* The actions that do so, with the case that is not a return.             *)
LEMMA StartInv ==
  ASSUME RegistryInv, NEW t \in Task, Start(t)
  PROVE  RegistryInv'
<1>1. req[t].cand = None /\ req[t] \in Request /\ At(t, "idle")
  BY DEF Start, StartCreate, StartClose, StartExtract, StartCatalogs, RegistryInv, Shape, TypeOK, At, Replacing
<1>2. ASSUME NEW d \in Db, StartCreate(t, d) PROVE RegistryInv'
  <2> DEFINE r == [req[t] EXCEPT !.pc = "gate", !.db = d]
  <2>1. r \in Request /\ r.pc = "gate" /\ r.db = d /\ r.cand = None /\ r.conn = req[t].conn
    BY <1>1 DEF Request, PC
  <2>2. req' = [req EXCEPT ![t] = r] /\ Patient(t) /\ UNCHANGED registry /\ CallEnds(t)
    BY <1>2, StillQueues DEF StartCreate, RegistryInv, CallEnds
  <2> HIDE DEF r
  <2> QED
    BY <1>1, <2>1, <2>2, UsesInv DEF Uses, Leased, At
<1>3. ASSUME NEW d \in Db, registry[d] # None, NEW to \in {"retire", "extract", "catalogs"},
             req' = [req EXCEPT ![t].pc = to, ![t].db = d, ![t].conn = registry[d]],
             Patient(t), UNCHANGED registry, CallEnds(t)
      PROVE  RegistryInv'
  <2> DEFINE r == [req[t] EXCEPT !.pc = to, !.db = d, !.conn = registry[d]]
  <2>1. r \in Request /\ r.pc = to /\ r.db = d /\ r.cand = None /\ r.conn = registry[d]
    BY <1>1, <1>3 DEF Request, PC, RegistryInv, TypeOK
  <2>2. req' = [req EXCEPT ![t] = r]
    BY <1>3
  <2> HIDE DEF r
  <2> QED
    BY <1>1, <1>3, <2>1, <2>2, UsesInv DEF Uses, Leased, At
<1>4. ASSUME NEW d \in Db, StartClose(t, d) \/ StartExtract(t, d) PROVE RegistryInv'
  <2>1. registry[d] \in Handle
    BY <1>4 DEF StartClose, StartExtract, RegistryInv, TypeOK
  <2> QED
    BY <1>3, <1>4, <2>1, StillQueues DEF StartClose, StartExtract, RegistryInv, CallEnds
<1>5. ASSUME NEW d \in Db, StartCatalogs(t, d) PROVE RegistryInv'
  BY <1>3, <1>5, StillQueues, RegistryAssumption DEF StartCatalogs, RegistryInv, CallEnds
<1> QED
  BY <1>2, <1>4, <1>5 DEF Start

(* t goes on with its handle.                                              *)
LEMMA GoesOn ==
  ASSUME RegistryInv, NEW t \in Task, req[t].cand = None, req[t].conn # None,
         req[t].pc \notin {"idle", "dispose", "discard"},
         NEW to \in {"read", "think", "execute", "run", "drain", "retire"},
         req' = [req EXCEPT ![t].pc = to],
         Patient(t), UNCHANGED registry, CallEnds(t),
         to \in Leased => First(leaseQ'[req[t].conn], t),
         to \in {"read", "run", "drain"} => handle'[req[t].conn] \in Live,
         to = "run" => IsCurrent(t)
  PROVE  RegistryInv'
<1> DEFINE r == [req[t] EXCEPT !.pc = to]
<1>1. req[t] \in Request /\ req[t].db \in Db
  BY DEF RegistryInv, TypeOK, Shape, At
<1>2. r \in Request /\ r.pc = to /\ r.db = req[t].db /\ r.cand = None /\ r.conn = req[t].conn
  BY <1>1 DEF Request, PC
<1>3. req' = [req EXCEPT ![t] = r]
  OBVIOUS
<1> HIDE DEF r
<1> QED
  BY <1>1, <1>2, <1>3, UsesInv DEF Uses, IsCurrent

LEMMA NoCandidate ==
  ASSUME RegistryInv, NEW t \in Task, req[t].pc \notin Replacing
  PROVE  /\ req[t].cand = None
         /\ req[t].pc \notin {"idle", "gate"} => req[t].conn \in Handle
BY DEF RegistryInv, Shape, TypeOK, Request, Replacing

LEMMA ExtractInv ==
  ASSUME RegistryInv, NEW t \in Task, Extract(t) \/ Extracted(t)
  PROVE  RegistryInv'
<1>1. /\ req[t].cand = None /\ req[t].conn \in Handle /\ req[t].pc \in {"extract", "read"}
      /\ UNCHANGED registry /\ CallEnds(t)
  BY NoCandidate DEF Extract, Extracted, At, Replacing, CallEnds
<1>2. Patient(t)
  BY <1>1, StillQueues DEF Extract, Extracted, RegistryInv
<1>3. CASE Rest(t)
  BY <1>1, <1>2, <1>3, RestUses
<1>4. CASE ~Rest(t) /\ Extract(t)
  BY <1>1, <1>2, <1>4, GoesOn, RegistryAssumption DEF Extract, HoldsLease
<1>5. CASE ~Rest(t) /\ Extracted(t)
  BY <1>1, <1>2, <1>5, GoesOn, RegistryAssumption DEF Extracted, Leased
<1> QED
  BY <1>3, <1>4, <1>5

LEMMA ExecuteInv ==
  ASSUME RegistryInv, NEW t \in Task, StartExecute(t) \/ Execute(t) \/ Executed(t)
  PROVE  RegistryInv'
<1>1. /\ req[t].cand = None /\ req[t].conn \in Handle /\ UNCHANGED registry /\ CallEnds(t)
      /\ req[t].pc \in {"think", "execute", "run", "drain"}
  BY NoCandidate DEF StartExecute, Execute, Executed, At, Replacing, CallEnds
<1>2. Patient(t)
  BY <1>1, StillQueues DEF StartExecute, Execute, Executed, RegistryInv
<1>3. CASE Rest(t)
  BY <1>1, <1>2, <1>3, RestUses
<1>4. CASE ~Rest(t) /\ StartExecute(t)
  BY <1>1, <1>2, <1>4, GoesOn, RegistryAssumption DEF StartExecute, Leased
<1>5. CASE ~Rest(t) /\ Execute(t)
  <2>1. /\ IsCurrent(t) /\ req' = [req EXCEPT ![t].pc = "run"] /\ UNCHANGED leaseQ /\ HoldsLease(t)
        /\ handle'[req[t].conn] \in Live
    BY <1>5 DEF Execute
  <2> QED
    BY <1>1, <1>2, <2>1, GoesOn, RegistryAssumption DEF HoldsLease
<1> QED
  BY <1>3, <1>4, <1>5 DEF Executed

LEMMA ProbedInv ==
  ASSUME RegistryInv, NEW t \in Task, Probed(t) \/ CatalogsListed(t)
  PROVE  RegistryInv'
<1>1. /\ req[t].cand = None /\ req[t].conn \in Handle /\ UNCHANGED registry /\ CallEnds(t)
      /\ req[t].pc \in {"probe", "catalogs"}
  BY NoCandidate DEF Probed, CatalogsListed, At, Replacing
<1>2. Patient(t)
  BY <1>1, StillQueues, RegistryAssumption DEF Probed, CatalogsListed, RegistryInv, TypeOK
<1>3. CASE Rest(t)
  BY <1>1, <1>2, <1>3, RestUses
<1>4. CASE ~Rest(t) /\ Probed(t)
  <2> DEFINE r == [req[t] EXCEPT !.pc = "retire", !.conn = registry[Probe]]
  <2>1. registry[Probe] \in Handle /\ req[t] \in Request /\ req[t].db \in Db
    BY <1>1, <1>4, RegistryAssumption DEF Probed, RegistryInv, TypeOK, Shape, At
  <2>2. r \in Request /\ r.pc = "retire" /\ r.db \in Db /\ r.cand = None /\ r.conn = registry[Probe]
    BY <1>1, <2>1 DEF Request, PC
  <2>3. req' = [req EXCEPT ![t] = r]
    BY <1>4 DEF Probed
  <2>4. r.conn # None /\ \E d \in Db : registry[d] = r.conn
    BY <2>1, <2>2, RegistryAssumption
  <2> HIDE DEF r
  <2> QED
    BY <1>1, <1>2, <2>2, <2>3, <2>4, UsesInv DEF Uses, Leased
<1> QED
  BY <1>3, <1>4 DEF CatalogsListed

LEMMA ConnectFailsInv ==
  ASSUME RegistryInv, NEW t \in Task, ConnectFails(t)
  PROVE  RegistryInv'
<1>1. req[t].cand = None /\ req[t].db \in Db /\ req[t].pc = "gate"
  BY NoCandidate DEF ConnectFails, At, Replacing, RegistryInv, Shape
<1>2. Patient(t)
  BY <1>1, StillQueues DEF ConnectFails, RegistryInv
<1> QED
  BY <1>1, <1>2, RestUses DEF ConnectFails, CallEnds

LEMMA CancelWaitingInv ==
  ASSUME RegistryInv, NEW t \in Task, CancelWaiting(t)
  PROVE  RegistryInv'
<1>1. /\ req[t].cand = None /\ req[t].db \in Db /\ req[t].pc \notin {"dispose", "discard"}
      /\ req[t].pc # "gate" => req[t].conn \in Handle
  BY NoCandidate DEF CancelWaiting, At, Replacing, RegistryInv, Shape
<1>2. Patient(t)
  BY <1>1, StillQueues DEF CancelWaiting, RegistryInv, At
<1> QED
  BY <1>1, <1>2, RestUses DEF CancelWaiting, CallEnds

LEMMA CancelWorkingInv ==
  ASSUME RegistryInv, NEW t \in Task, CancelWorking(t)
  PROVE  RegistryInv'
<1>1. /\ req[t].cand = None /\ req[t].conn \in Handle /\ UNCHANGED registry /\ CallEnds(t)
      /\ req[t].pc \in {"read", "run"}
  BY NoCandidate DEF CancelWorking, Replacing
<1>2. Patient(t)
  BY <1>1, StillQueues DEF CancelWorking, RegistryInv
<1>3. CASE Rest(t)
  BY <1>1, <1>2, <1>3, RestUses
<1>4. CASE ~Rest(t)
  <2>1. req' = [req EXCEPT ![t].pc = "drain"] /\ UNCHANGED leaseQ
    BY <1>4 DEF CancelWorking
  <2>2. First(leaseQ[req[t].conn], t) /\ handle'[req[t].conn] \in Live
    BY <1>1 DEF RegistryInv, Holders, HoldsLease, Leased, Current, Working, CallEnds, TypeOK, State
  <2> QED
    BY <1>1, <1>2, <2>1, <2>2, GoesOn, RegistryAssumption
<1> QED
  BY <1>3, <1>4

-----------------------------------------------------------------------------
(* Requests that register, drop or close handles *)

(* Two requests are not first in one queue.                                *)
LEMMA OneHolder ==
  ASSUME RegistryInv, NEW t \in Task, NEW u \in Task \ {t}
  PROVE  /\ HoldsGate(t) /\ req[u].cand # None => req[u].db # req[t].db
         /\ HoldsLease(t) /\ req[u].pc \in Leased => req[u].conn # req[t].conn
BY DEF RegistryInv, Holders, HoldsGate, HoldsLease, First

(* t leaves with h registered; the handle it disposed of is closed.        *)
Registers(t, h, r) ==
    /\ Patient(t) /\ HoldsGate(t) /\ req[t].db \in Db /\ registry[req[t].db] = None
    /\ registry' = [registry EXCEPT ![req[t].db] = h]
    /\ h \in Handle /\ h \notin {registry[d] : d \in Db}
    /\ \A u \in Task \ {t} : h \notin {req[u].conn, req[u].cand}
    /\ req[t].cand \in {None, h} /\ ~At(t, "discard")
    /\ handle' \in [Handle -> State] /\ handle'[h] \in Live
    /\ \A g \in Handle \ {h} :
          handle'[g] = IF At(t, "dispose") /\ g = req[t].conn THEN "closed" ELSE handle[g]
    /\ r \in Request /\ req' = [req EXCEPT ![t] = r] /\ r.cand = None
    /\ r.pc = "idle" \/ (r.pc = "probe" /\ r.db \in Db /\ r.conn = h)
    /\ r.conn \in {None, h}

LEMMA RegistersInv ==
  ASSUME RegistryInv, NEW t \in Task, NEW h, NEW r, Registers(t, h, r)
  PROVE  RegistryInv'
<1> USE DEF RegistryInv, Registers
<1> DEFINE d == req[t].db
<1>0. h # None /\ \A g \in Handle : g # None
  BY RegistryAssumption
<1>1. /\ \A u \in Task : req'[u] = IF u = t THEN r ELSE req[u]
      /\ \A e \in Db : registry'[e] = IF e = d THEN h ELSE registry[e]
      /\ \A e \in Db : registry[e] \in Handle \cup {None}
  BY DEF TypeOK
<1>2. TypeOK'
  BY <1>0 DEF TypeOK, Patient, KeepsFirst
<1>3. Shape'
  BY <1>1 DEF Shape, At
<1>4. Holders'
  <2>1. ASSUME NEW u \in Task \ {t}
        PROVE  /\ req[u].pc \in Leased => First(leaseQ'[req[u].conn], u)
               /\ req[u].cand # None => First(gateQ'[req[u].db], u)
    <3>1. req[u].pc \in Leased => req[u].conn \in Handle
      BY DEF TypeOK, Request, Leased
    <3>2. req[u].cand # None => req[u].db \in Db
      BY DEF Shape, At, Replacing
    <3> QED
      BY <3>1, <3>2 DEF Holders, HoldsLease, HoldsGate, Patient, KeepsFirst
  <2> QED
    BY <1>1, <2>1 DEF Holders, HoldsLease, HoldsGate, Leased
<1>5. Names'
  <2>1. ASSUME NEW e \in Db, registry'[e] # None
        PROVE  /\ handle'[registry'[e]] \in Live
               /\ \A f \in Db : registry'[f] = registry'[e] => f = e
    BY <1>0, <1>1, <2>1 DEF Names
  <2>2. ASSUME NEW u \in Task, req'[u].cand # None
        PROVE  /\ req'[u].pc # "discard" => handle'[req'[u].cand] \in Live
               /\ \A e \in Db : registry'[e] # req'[u].cand
               /\ \A v \in Task : /\ req'[v].conn # req'[u].cand
                                  /\ req'[v].cand = req'[u].cand => v = u
    <3>1. u # t /\ req'[u] = req[u] /\ req[u].cand # h /\ req[u].cand \in Handle
      BY <1>1, <2>2 DEF TypeOK, Request
    <3>2. /\ \A e \in Db : registry[e] # req[u].cand
          /\ \A v \in Task : req[v].conn # req[u].cand /\ (req[v].cand = req[u].cand => v = u)
          /\ req[u].pc # "discard" => handle[req[u].cand] \in Live
      BY <2>2, <3>1 DEF Names, At
    <3> QED
      BY <1>0, <1>1, <2>2, <3>1, <3>2
  <2>3. ASSUME NEW u \in Task, req'[u].pc = "dispose", NEW e \in Db PROVE registry'[e] # req'[u].conn
    BY <1>1, <2>3 DEF Names, At
  <2> QED
    BY <2>1, <2>2, <2>3 DEF Names, At
<1>6. Current'
  <2>1. ASSUME NEW u \in Task \ {t}
        PROVE  /\ req[u].cand # None => registry'[req[u].db] \in {None, req[u].conn} \/ At(u, "discard")
               /\ At(u, "run") => registry'[req[u].db] = req[u].conn
               /\ Working(u) => handle'[req[u].conn] \in Live
    <3>1. ~At(u, "idle") => req[u].db \in Db
      BY DEF Shape
    <3>2. req[u].cand # None => registry'[req[u].db] \in {None, req[u].conn} \/ At(u, "discard")
      BY <1>1, <3>1, OneHolder DEF Current, Shape, At, Replacing
    <3>3. Working(u) => req[u].conn \in Handle /\ req[u].pc \in Leased /\ ~At(u, "idle")
      BY DEF TypeOK, Request, Working, Leased, At
    <3>4. At(u, "run") => registry'[req[u].db] = req[u].conn
      BY <1>0, <1>1, <3>1, <3>3 DEF Current, IsCurrent, Working, At
    <3>5. At(t, "dispose") => HoldsLease(t)
      BY DEF Holders, Leased, At
    <3>6. Working(u) => handle'[req[u].conn] \in Live
      BY <3>3, <3>5, OneHolder DEF Current
    <3> QED
      BY <3>2, <3>4, <3>6
  <2> QED
    BY <1>1, <2>1 DEF Current, IsCurrent, Working, At
<1>7. Known'
  <2>1. ASSUME NEW g \in Handle, handle'[g] \in Live
        PROVE  (\E e \in Db : registry'[e] = g) \/ \E u \in Task : req'[u].cand = g
    <3>1. CASE g = h
      BY <1>1, <3>1
    <3>2. CASE g # h
      <4>1. handle[g] \in Live
        BY <2>1, <3>2
      <4>2. CASE \E e \in Db : registry[e] = g
        BY <1>0, <1>1, <4>2
      <4>3. CASE \E u \in Task : req[u].cand = g
        BY <1>0, <1>1, <3>2, <4>3
      <4> QED
        BY <4>1, <4>2, <4>3 DEF Known
    <3> QED
      BY <3>1, <3>2
  <2>2. ASSUME NEW g \in Handle, handle'[g] = "closing"
        PROVE  \E u \in Task : \/ req'[u].pc = "dispose" /\ req'[u].conn = g
                               \/ req'[u].pc = "discard" /\ req'[u].cand = g
    <3>1. g # h /\ handle[g] = "closing" /\ ~(At(t, "dispose") /\ g = req[t].conn)
      BY <2>2
    <3>2. PICK u \in Task : \/ At(u, "dispose") /\ req[u].conn = g
                            \/ At(u, "discard") /\ req[u].cand = g
      BY <3>1 DEF Known
    <3> QED
      BY <1>1, <3>1, <3>2 DEF At
  <2> QED
    BY <2>1, <2>2 DEF Known, At
<1> QED
  BY <1>2, <1>3, <1>4, <1>5, <1>6, <1>7

(* t leaves without a handle, or to discard its candidate; what it disposed *)
(* of is closed, its candidate is being closed or closed.                  *)
Drops(t, r) ==
    /\ Patient(t) /\ UNCHANGED registry
    /\ req[t].pc \in Replacing
    /\ handle' \in [Handle -> State]
    /\ \A g \in Handle :
          handle'[g] = CASE g = req[t].cand -> IF r.cand = g THEN "closing" ELSE "closed"
                         [] g # req[t].cand /\ At(t, "dispose") /\ g = req[t].conn -> "closed"
                         [] OTHER -> handle[g]
    /\ r \in Request /\ req' = [req EXCEPT ![t] = r] /\ r.conn = None
    /\ \/ r.pc = "idle" /\ r.cand = None
       \/ /\ r.pc = "discard" /\ r.cand = req[t].cand /\ r.cand # None
          /\ r.db = req[t].db /\ r.db \in Db /\ First(gateQ'[r.db], t)

LEMMA DropsInv ==
  ASSUME RegistryInv, NEW t \in Task, NEW r, Drops(t, r)
  PROVE  RegistryInv'
<1> USE DEF RegistryInv, Drops
<1>0. \A g \in Handle : g # None
  BY RegistryAssumption
<1>1. \A u \in Task : req'[u] = IF u = t THEN r ELSE req[u]
  BY DEF TypeOK
<1>2. TypeOK'
  BY DEF TypeOK, Patient, KeepsFirst
<1>3. Shape'
  BY <1>1 DEF Shape, At, Replacing
<1>4. Holders'
  <2>1. ASSUME NEW u \in Task \ {t}
        PROVE  /\ req[u].pc \in Leased => First(leaseQ'[req[u].conn], u)
               /\ req[u].cand # None => First(gateQ'[req[u].db], u)
    <3>1. req[u].pc \in Leased => req[u].conn \in Handle
      BY DEF TypeOK, Request, Leased
    <3>2. req[u].cand # None => req[u].db \in Db
      BY DEF Shape, At, Replacing
    <3> QED
      BY <3>1, <3>2 DEF Holders, HoldsLease, HoldsGate, Patient, KeepsFirst
  <2> QED
    BY <1>1, <2>1 DEF Holders, HoldsLease, HoldsGate, Leased
<1>5. Names'
  <2>1. ASSUME NEW e \in Db, registry[e] # None
        PROVE  /\ handle'[registry[e]] \in Live
               /\ \A f \in Db : registry[f] = registry[e] => f = e
    <3>1. registry[e] \in Handle /\ registry[e] # req[t].cand /\ handle[registry[e]] \in Live
      BY <2>1 DEF Names, TypeOK
    <3>2. ~(At(t, "dispose") /\ registry[e] = req[t].conn)
      BY DEF Names
    <3> QED
      BY <2>1, <3>1, <3>2 DEF Names
  <2>2. ASSUME NEW u \in Task, req'[u].cand # None
        PROVE  /\ req'[u].pc # "discard" => handle'[req'[u].cand] \in Live
               /\ \A e \in Db : registry[e] # req'[u].cand
               /\ \A v \in Task : /\ req'[v].conn # req'[u].cand
                                  /\ req'[v].cand = req'[u].cand => v = u
    <3>1. req'[u].cand = req[u].cand /\ (u # t => req'[u] = req[u]) /\ (u = t => req'[u].pc = "discard")
      BY <1>1, <2>2
    <3>2. /\ \A e \in Db : registry[e] # req[u].cand
          /\ \A v \in Task : req[v].conn # req[u].cand /\ (req[v].cand = req[u].cand => v = u)
          /\ req[u].pc # "discard" => handle[req[u].cand] \in Live
      BY <2>2, <3>1 DEF Names, At
    <3>3. u # t /\ req[u].pc # "discard" => handle'[req[u].cand] \in Live
      <4>1. req[u].cand \in Handle
        BY <2>2, <3>1 DEF TypeOK, Request
      <4> QED
        BY <3>2, <4>1
    <3>4. \A v \in Task : req'[v].conn \in {None, req[v].conn} /\ req'[v].cand \in {None, req[v].cand}
      BY <1>1
    <3> QED
      BY <2>2, <3>1, <3>2, <3>3, <3>4
  <2>3. ASSUME NEW u \in Task, req'[u].pc = "dispose", NEW e \in Db PROVE registry[e] # req'[u].conn
    BY <1>1, <2>3 DEF Names, At
  <2> QED
    BY <2>1, <2>2, <2>3 DEF Names, At
<1>6. Current'
  <2>1. ASSUME NEW u \in Task \ {t}, Working(u) PROVE handle'[req[u].conn] \in Live
    <3>1. req[u].conn \in Handle /\ req[u].pc \in Leased
      BY <2>1 DEF TypeOK, Request, Working, Leased
    <3>2. At(t, "dispose") => HoldsLease(t)
      BY DEF Holders, Leased, At
    <3>3. ~(At(t, "dispose") /\ req[u].conn = req[t].conn)
      BY <3>1, <3>2, OneHolder
    <3>4. req[u].conn # req[t].cand
      BY <1>0, <3>1 DEF Names
    <3> QED
      BY <2>1, <3>1, <3>3, <3>4 DEF Current
  <2> QED
    BY <1>1, <2>1 DEF Current, IsCurrent, Working, At
<1>7. Known'
  <2>1. ASSUME NEW g \in Handle, handle'[g] \in Live
        PROVE  (\E e \in Db : registry[e] = g) \/ \E u \in Task : req'[u].cand = g
    <3>1. g # req[t].cand /\ handle[g] \in Live
      BY <2>1
    <3> QED
      BY <1>1, <3>1 DEF Known
  <2>2. ASSUME NEW g \in Handle, handle'[g] = "closing"
        PROVE  \E u \in Task : \/ req'[u].pc = "dispose" /\ req'[u].conn = g
                               \/ req'[u].pc = "discard" /\ req'[u].cand = g
    <3>1. CASE g = req[t].cand
      BY <1>0, <1>1, <2>2, <3>1
    <3>2. CASE g # req[t].cand
      <4>1. handle[g] = "closing" /\ ~(At(t, "dispose") /\ g = req[t].conn)
        BY <2>2, <3>2
      <4>2. PICK u \in Task : \/ At(u, "dispose") /\ req[u].conn = g
                              \/ At(u, "discard") /\ req[u].cand = g
        BY <4>1 DEF Known
      <4> QED
        BY <1>1, <3>2, <4>1, <4>2 DEF At
    <3> QED
      BY <3>1, <3>2
  <2> QED
    BY <2>1, <2>2 DEF Known, At
<1> QED
  BY <1>2, <1>3, <1>4, <1>5, <1>6, <1>7

LEMMA ConnectedInv ==
  ASSUME RegistryInv, NEW t \in Task, NEW h \in Handle, Connected(t, h)
  PROVE  RegistryInv'
<1> DEFINE d == req[t].db
<1>1. /\ req[t].cand = None /\ d \in Db /\ req[t].pc = "gate" /\ req[t] \in Request /\ HoldsGate(t)
      /\ h # None /\ registry[d] \in Handle \cup {None}
  BY NoCandidate, RegistryAssumption DEF Connected, At, Replacing, RegistryInv, Shape, TypeOK
<1>2. /\ handle[h] = "closed" /\ \A u \in Task : h \notin {req[u].conn, req[u].cand}
      /\ \A e \in Db : registry[e] # h
  BY <1>1 DEF Connected, Unreferenced, RegistryInv, Names
<1>3. handle' = [handle EXCEPT ![h] = "open"] /\ handle' \in [Handle -> State]
  BY DEF Connected, RegistryInv, TypeOK, State
<1>4. CASE registry[d] = None
  <2> DEFINE r == IF d = Probe THEN [Resting EXCEPT !.pc = "probe", !.db = d, !.conn = h] ELSE Resting
  <2>1. Register(t, registry, h) /\ UNCHANGED leaseQ
    BY <1>4 DEF Connected
  <2>2. Patient(t)
    BY <1>1, <2>1, StillQueues DEF Register, RegistryInv
  <2>3. /\ r \in Request /\ r.cand = None /\ r.conn \in {None, h}
        /\ r.pc = "idle" \/ (r.pc = "probe" /\ r.db \in Db /\ r.conn = h)
    BY <1>1 DEF Resting, Request, PC
  <2>4. req' = [req EXCEPT ![t] = r] /\ registry' = [registry EXCEPT ![d] = h]
    BY <2>1 DEF Register
  <2> HIDE DEF r
  <2>5. Registers(t, h, r)
    BY <1>1, <1>2, <1>3, <1>4, <2>2, <2>3, <2>4 DEF Registers, At, RegistryInv, TypeOK
  <2> QED
    BY <2>5, RegistersInv
<1>5. CASE registry[d] # None
  <2> DEFINE old == registry[d]
             r == [req[t] EXCEPT !.pc = "retire", !.conn = old, !.cand = h]
  <2>1. req' = [req EXCEPT ![t] = r] /\ UNCHANGED <<registry, gateQ>> /\ old \in Handle
    BY <1>1, <1>5 DEF Connected
  <2>2. r \in Request /\ r.pc = "retire" /\ r.conn = old /\ r.cand = h /\ r.db = d
    BY <1>1, <2>1 DEF Request, PC
  <2>3. Patient(t)
    BY <1>1, <1>5, <2>1, StillQueues DEF Connected, RegistryInv
  <2> HIDE DEF r
  <2>4. \A u \in Task : req'[u] = IF u = t THEN r ELSE req[u]
    BY <2>1 DEF RegistryInv, TypeOK
  <2>5. \A g \in Handle : handle'[g] = IF g = h THEN "open" ELSE handle[g]
    BY <1>3 DEF RegistryInv, TypeOK
  <2>6. TypeOK'
    BY <1>3, <2>1, <2>2, <2>3, RegistryAssumption DEF RegistryInv, TypeOK, Patient, KeepsFirst
  <2>7. Shape'
    BY <1>1, <2>2, <2>4 DEF RegistryInv, Shape, At, Replacing
  <2>8. Holders'
    <3>1. ASSUME NEW u \in Task \ {t}
          PROVE  /\ req[u].pc \in Leased => First(leaseQ'[req[u].conn], u)
                 /\ req[u].cand # None => First(gateQ'[req[u].db], u)
      <4>1. req[u].pc \in Leased => req[u].conn \in Handle
        BY DEF RegistryInv, TypeOK, Request, Leased
      <4>2. req[u].cand # None => req[u].db \in Db
        BY DEF RegistryInv, Shape, At, Replacing
      <4> QED
        BY <2>3, <4>1, <4>2 DEF RegistryInv, Holders, HoldsLease, HoldsGate, Patient, KeepsFirst
    <3> QED
      BY <1>1, <2>1, <2>2, <2>4, <3>1 DEF Holders, HoldsLease, HoldsGate, Leased
  <2>9. Names'
    <3>1. ASSUME NEW u \in Task, req'[u].cand # None
          PROVE  /\ req'[u].pc # "discard" => handle'[req'[u].cand] \in Live
                 /\ \A e \in Db : registry[e] # req'[u].cand
                 /\ \A v \in Task : /\ req'[v].conn # req'[u].cand
                                    /\ req'[v].cand = req'[u].cand => v = u
      <4>1. CASE u = t
        <5>1. req'[u].cand = h /\ req'[u].pc = "retire" /\ handle'[h] \in Live
          BY <2>2, <2>4, <2>5, <4>1
        <5>2. ASSUME NEW v \in Task PROVE req'[v].conn # h /\ (req'[v].cand = h => v = u)
          <6>1. CASE v = t
            BY <1>1, <1>2, <2>2, <2>4, <4>1, <6>1
          <6>2. CASE v # t
            BY <1>2, <2>4, <6>2
          <6> QED
            BY <6>1, <6>2
        <5> QED
          BY <1>2, <5>1, <5>2
      <4>2. CASE u # t
        <5>1. req[u].cand \in Handle /\ req[u].cand # h /\ req'[u] = req[u]
          BY <1>2, <2>4, <3>1, <4>2 DEF RegistryInv, TypeOK, Request
        <5>2. /\ req[u].pc # "discard" => handle[req[u].cand] \in Live
              /\ \A e \in Db : registry[e] # req[u].cand
              /\ \A v \in Task : req[v].conn # req[u].cand /\ (req[v].cand = req[u].cand => v = u)
          BY <3>1, <5>1 DEF RegistryInv, Names, At
        <5> QED
          BY <1>1, <2>2, <2>4, <2>5, <5>1, <5>2
      <4> QED
        BY <4>1, <4>2
    <3>2. \A e \in Db : registry[e] # None =>
             handle'[registry[e]] \in Live /\ \A f \in Db : registry[f] = registry[e] => f = e
      BY <1>2, <2>5 DEF RegistryInv, Names, TypeOK
    <3>3. \A u \in Task : req'[u].pc = "dispose" => \A e \in Db : registry[e] # req'[u].conn
      BY <2>2, <2>4 DEF RegistryInv, Names, At
    <3> QED
      BY <2>1, <3>1, <3>2, <3>3 DEF Names, At
  <2>10. Current'
    <3>1. ASSUME NEW u \in Task, Working(u) PROVE handle'[req[u].conn] \in Live
      <4>1. req[u].conn \in Handle /\ handle[req[u].conn] \in Live
        BY <3>1 DEF RegistryInv, TypeOK, Request, Working, Current
      <4> QED
        BY <2>5, <4>1
    <3> QED
      BY <2>1, <2>2, <2>4, <3>1 DEF RegistryInv, Current, IsCurrent, Working, At
  <2>11. Known'
    <3>1. ASSUME NEW g \in Handle, handle'[g] \in Live
          PROVE  (\E e \in Db : registry[e] = g) \/ \E u \in Task : req'[u].cand = g
      <4>1. CASE g = h
        BY <2>2, <2>4, <4>1
      <4>2. CASE g # h
        <5>1. (\E e \in Db : registry[e] = g) \/ \E u \in Task : req[u].cand = g
          BY <2>5, <3>1, <4>2 DEF RegistryInv, Known
        <5> QED
          BY <1>1, <2>4, <5>1, RegistryAssumption
      <4> QED
        BY <4>1, <4>2
    <3>2. ASSUME NEW g \in Handle, handle'[g] = "closing"
          PROVE  \E u \in Task : \/ req'[u].pc = "dispose" /\ req'[u].conn = g
                                 \/ req'[u].pc = "discard" /\ req'[u].cand = g
      <4>1. handle[g] = "closing"
        BY <2>5, <3>2
      <4>2. PICK u \in Task : \/ req[u].pc = "dispose" /\ req[u].conn = g
                              \/ req[u].pc = "discard" /\ req[u].cand = g
        BY <4>1 DEF RegistryInv, Known, At
      <4> QED
        BY <1>1, <2>4, <4>2
    <3> QED
      BY <2>1, <3>1, <3>2 DEF Known, At
  <2> QED
    BY <2>6, <2>7, <2>8, <2>9, <2>10, <2>11 DEF RegistryInv
<1> QED
  BY <1>4, <1>5

(* aclose() returns to a replacement, whose database has no handle now.    *)
LEMMA ReturnsInv ==
  ASSUME RegistryInv, NEW t \in Task, AlreadyRetired(t) \/ Disposed(t)
  PROVE  RegistryInv'
<1> DEFINE d == req[t].db
           h == req[t].cand
<1>1. /\ req[t] \in Request /\ d \in Db /\ req[t].conn \in Handle /\ h \in Handle \cup {None}
      /\ req[t].pc \in {"retire", "dispose"} /\ handle \in [Handle -> State]
  BY DEF AlreadyRetired, Disposed, At, RegistryInv, Shape, TypeOK, Request
<1>2. \A g \in Handle : handle'[g] = IF At(t, "dispose") /\ g = req[t].conn THEN "closed" ELSE handle[g]
  BY <1>1 DEF AlreadyRetired, Disposed, At
<1>3. handle' \in [Handle -> State] /\ CloseReturns(t, registry)
  BY <1>1 DEF AlreadyRetired, Disposed, State
<1>4. Patient(t)
  BY <1>1, <1>3, StillQueues DEF AlreadyRetired, Disposed, CloseReturns, Register, RegistryInv
<1>5. CASE h = None
  <2>1. req' = [req EXCEPT ![t] = Resting] /\ UNCHANGED registry
    BY <1>3, <1>5 DEF CloseReturns, Rest
  <2>2. Drops(t, Resting)
    BY <1>1, <1>2, <1>3, <1>4, <1>5, <2>1, RegistryAssumption
       DEF Drops, Resting, Request, PC, Replacing
  <2> QED
    BY <2>2, DropsInv
<1>6. CASE h # None
  <2> DEFINE r == IF d = Probe THEN [Resting EXCEPT !.pc = "probe", !.db = d, !.conn = h] ELSE Resting
  <2>1. Register(t, registry, h)
    BY <1>3, <1>6 DEF CloseReturns
  <2>2. /\ r \in Request /\ r.cand = None /\ r.conn \in {None, h}
        /\ r.pc = "idle" \/ (r.pc = "probe" /\ r.db \in Db /\ r.conn = h)
    BY <1>1 DEF Resting, Request, PC
  <2>3. req' = [req EXCEPT ![t] = r] /\ registry' = [registry EXCEPT ![d] = h]
    BY <2>1 DEF Register
  <2> HIDE DEF r
  <2>4. /\ handle[h] \in Live /\ \A e \in Db : registry[e] # h
        /\ \A u \in Task : req[u].conn # h /\ (req[u].cand = h => u = t)
    BY <1>1, <1>6 DEF RegistryInv, Names, At
  <2>5. registry[d] = None
    <3>1. registry[d] \in {None, req[t].conn}
      BY <1>1, <1>6 DEF RegistryInv, Current, At
    <3>2. registry[d] # req[t].conn
      BY <1>1 DEF AlreadyRetired, Disposed, IsCurrent, RegistryInv, Names
    <3> QED
      BY <3>1, <3>2
  <2>6. HoldsGate(t)
    BY <1>6 DEF RegistryInv, Holders
  <2>7. Registers(t, h, r)
    BY <1>1, <1>2, <1>3, <1>4, <1>6, <2>2, <2>3, <2>4, <2>5, <2>6 DEF Registers, At
  <2> QED
    BY <2>7, RegistersInv
<1> QED
  BY <1>5, <1>6

LEMMA RaisesInv ==
  ASSUME RegistryInv, NEW t \in Task, DisposeRaises(t) \/ CancelRetire(t)
  PROVE  RegistryInv'
<1> DEFINE h == req[t].cand
           r == IF h = None THEN Resting
                ELSE [Resting EXCEPT !.pc = "discard", !.db = req[t].db, !.cand = h]
<1>1. /\ req[t] \in Request /\ req[t].db \in Db /\ req[t].conn \in Handle /\ h \in Handle \cup {None}
      /\ req[t].pc \in {"retire", "dispose"} /\ handle \in [Handle -> State]
  BY DEF DisposeRaises, CancelRetire, At, RegistryInv, Shape, TypeOK, Request
<1>2. CloseRaises(t) /\ UNCHANGED <<registry, gateQ>>
  BY DEF DisposeRaises, CancelRetire, CloseRaises
<1>3. Patient(t)
  BY <1>1, <1>2, StillQueues DEF DisposeRaises, CancelRetire, RegistryInv
<1>4. req' = [req EXCEPT ![t] = r]
  BY <1>2 DEF CloseRaises
<1>5. /\ r \in Request /\ r.conn = None
      /\ \/ r.pc = "idle" /\ r.cand = None /\ h = None
         \/ r.pc = "discard" /\ r.cand = h /\ h # None /\ r.db = req[t].db
  BY <1>1 DEF Resting, Request, PC
<1>6. /\ handle' \in [Handle -> State]
      /\ \A g \in Handle : handle'[g] = CASE g = h -> "closing"
                                          [] g # h /\ At(t, "dispose") /\ g = req[t].conn -> "closed"
                                          [] OTHER -> handle[g]
  <2>1. req[t].conn # h
    BY <1>1, RegistryAssumption DEF RegistryInv, Names
  <2>2. handle' = [g \in Handle |-> CASE g = h -> "closing"
                                      [] g = req[t].conn /\ At(t, "dispose") -> "closed"
                                      [] OTHER -> handle[g]]
    BY <1>2 DEF CloseRaises
  <2>3. ASSUME NEW g \in Handle
        PROVE  /\ g = h => handle'[g] = "closing"
               /\ g # h /\ At(t, "dispose") /\ g = req[t].conn => handle'[g] = "closed"
               /\ g # h /\ ~(At(t, "dispose") /\ g = req[t].conn) => handle'[g] = handle[g]
    BY <2>1, <2>2
  <2>4. \A g \in Handle : handle'[g] \in State
    BY <1>1, <2>3 DEF State
  <2>5. handle' \in [Handle -> State]
    BY <2>2, <2>4
  <2> QED
    BY <2>3, <2>5
<1>7. h # None => First(gateQ'[req[t].db], t)
  BY <1>2 DEF RegistryInv, Holders, HoldsGate
<1> HIDE DEF r
<1>8. Drops(t, r)
  BY <1>1, <1>2, <1>3, <1>4, <1>5, <1>6, <1>7, RegistryAssumption DEF Drops, Replacing
<1> QED
  BY <1>8, DropsInv

LEMMA DiscardedInv ==
  ASSUME RegistryInv, NEW t \in Task, Discarded(t)
  PROVE  RegistryInv'
<1>1. req[t].db \in Db /\ req[t].pc = "discard" /\ handle \in [Handle -> State]
  BY DEF Discarded, At, RegistryInv, Shape, TypeOK
<1>2. Patient(t)
  BY <1>1, StillQueues DEF Discarded, RegistryInv
<1>3. Drops(t, Resting)
  BY <1>1, <1>2, RegistryAssumption DEF Discarded, Rest, Drops, Resting, Request, PC, Replacing, State, At
<1> QED
  BY <1>3, DropsInv

LEMMA RetireInv ==
  ASSUME RegistryInv, NEW t \in Task, Retire(t)
  PROVE  RegistryInv'
<1> USE DEF RegistryInv
<1> DEFINE d == req[t].db
           c == req[t].conn
           r == [req[t] EXCEPT !.pc = "dispose"]
<1>1. /\ req[t] \in Request /\ d \in Db /\ c \in Handle /\ req[t].pc = "retire" /\ c # None
      /\ registry[d] = c /\ HoldsLease(t) /\ UNCHANGED <<gateQ, leaseQ>>
  BY RegistryAssumption DEF Retire, At, Shape, TypeOK, Request, IsCurrent
<1>2. /\ r \in Request /\ r.pc = "dispose" /\ r.conn = c /\ r.cand = req[t].cand /\ r.db = d
      /\ req' = [req EXCEPT ![t] = r]
  BY <1>1 DEF Request, PC, Retire
<1> HIDE DEF r
<1>3. /\ \A u \in Task : req'[u] = IF u = t THEN r ELSE req[u]
      /\ \A e \in Db : registry'[e] = IF e = d THEN None ELSE registry[e]
      /\ \A g \in Handle : handle'[g] = IF g = c THEN "closing" ELSE handle[g]
  BY <1>1, <1>2 DEF TypeOK, Retire
<1>4. TypeOK'
  BY <1>1, <1>2 DEF TypeOK, Retire, State
<1>5. Shape'
  BY <1>1, <1>2, <1>3 DEF Shape, At, Replacing
<1>6. Holders'
  BY <1>1, <1>2, <1>3 DEF Holders, HoldsLease, HoldsGate, Leased
<1>7. \A e \in Db : registry[e] = c => e = d
  BY <1>1 DEF Names
<1>8. \A u \in Task : req[u].cand # None => req[u].cand \in Handle \ {c}
  BY <1>1 DEF Names, TypeOK, Request
<1>9. Names'
  <2>1. ASSUME NEW e \in Db, registry'[e] # None
        PROVE  /\ handle'[registry'[e]] \in Live
               /\ \A f \in Db : registry'[f] = registry'[e] => f = e
    <3>1. e # d /\ registry'[e] = registry[e] /\ registry[e] \in Handle \ {c}
      BY <1>3, <1>7, <2>1 DEF TypeOK
    <3> QED
      BY <1>3, <2>1, <3>1 DEF Names
  <2>2. ASSUME NEW u \in Task, req'[u].cand # None
        PROVE  /\ req'[u].pc # "discard" => handle'[req'[u].cand] \in Live
               /\ \A e \in Db : registry'[e] # req'[u].cand
               /\ \A v \in Task : /\ req'[v].conn # req'[u].cand
                                  /\ req'[v].cand = req'[u].cand => v = u
    <3>1. /\ req'[u].cand = req[u].cand /\ (req'[u].pc # "discard" => req[u].pc # "discard")
          /\ \A v \in Task : req'[v].conn = req[v].conn /\ req'[v].cand = req[v].cand
      BY <1>1, <1>2, <1>3
    <3>2. /\ \A e \in Db : registry[e] # req[u].cand
          /\ \A v \in Task : req[v].conn # req[u].cand /\ (req[v].cand = req[u].cand => v = u)
          /\ req[u].pc # "discard" => handle[req[u].cand] \in Live
      BY <2>2, <3>1 DEF Names, At
    <3> QED
      BY <1>3, <1>8, <2>2, <3>1, <3>2
  <2>3. ASSUME NEW u \in Task, req'[u].pc = "dispose", NEW e \in Db PROVE registry'[e] # req'[u].conn
    <3>1. CASE u = t
      BY <1>1, <1>2, <1>3, <1>7, <3>1
    <3>2. CASE u # t
      <4>1. req'[u] = req[u] /\ At(u, "dispose")
        BY <1>3, <2>3, <3>2 DEF At
      <4>2. req[u].conn \in Handle /\ registry[e] # req[u].conn
        BY <4>1 DEF Names, At, TypeOK, Request
      <4> QED
        BY <1>3, <4>1, <4>2, RegistryAssumption
    <3> QED
      BY <3>1, <3>2
  <2> QED
    BY <2>1, <2>2, <2>3 DEF Names, At
<1>10. Current'
  <2>1. ASSUME NEW u \in Task \ {t}
        PROVE  /\ req[u].cand # None => registry'[req[u].db] \in {None, req[u].conn} \/ At(u, "discard")
               /\ At(u, "run") => registry'[req[u].db] = req[u].conn
               /\ Working(u) => handle'[req[u].conn] \in Live
    <3>1. ~At(u, "idle") => req[u].db \in Db
      BY DEF Shape
    <3>2. req[u].cand # None => registry'[req[u].db] \in {None, req[u].conn} \/ At(u, "discard")
      BY <1>3, <3>1 DEF Current, Shape, At, Replacing
    <3>3. req[u].pc \in Leased => req[u].conn \in Handle \ {c}
      BY <1>1, OneHolder DEF TypeOK, Request, Leased
    <3>4. At(u, "run") => registry'[req[u].db] = req[u].conn
      BY <1>1, <1>3, <3>1, <3>3 DEF Current, IsCurrent, At, Leased
    <3>5. Working(u) => handle'[req[u].conn] \in Live
      BY <1>3, <3>3 DEF Current, Working, Leased
    <3> QED
      BY <3>2, <3>4, <3>5
  <2>2. req'[t].cand # None => registry'[req'[t].db] \in {None, req'[t].conn}
    BY <1>1, <1>2, <1>3
  <2> QED
    BY <1>2, <1>3, <2>1, <2>2 DEF Current, IsCurrent, Working, At
<1>11. Known'
  <2>1. ASSUME NEW g \in Handle, handle'[g] \in Live
        PROVE  (\E e \in Db : registry'[e] = g) \/ \E u \in Task : req'[u].cand = g
    <3>1. handle[g] \in Live /\ g # c
      BY <1>3, <2>1
    <3>2. CASE \E e \in Db : registry[e] = g
      BY <1>1, <1>3, <3>1, <3>2
    <3>3. CASE \E u \in Task : req[u].cand = g
      BY <1>2, <1>3, <3>3
    <3> QED
      BY <3>1, <3>2, <3>3 DEF Known
  <2>2. ASSUME NEW g \in Handle, handle'[g] = "closing"
        PROVE  \E u \in Task : \/ req'[u].pc = "dispose" /\ req'[u].conn = g
                               \/ req'[u].pc = "discard" /\ req'[u].cand = g
    <3>1. CASE g = c
      BY <1>2, <1>3, <3>1
    <3>2. CASE g # c
      <4>1. PICK u \in Task : \/ req[u].pc = "dispose" /\ req[u].conn = g
                              \/ req[u].pc = "discard" /\ req[u].cand = g
        BY <1>3, <2>2, <3>2 DEF Known, At
      <4> QED
        BY <1>1, <1>3, <4>1
    <3> QED
      BY <3>1, <3>2
  <2> QED
    BY <2>1, <2>2 DEF Known, At
<1> QED
  BY <1>4, <1>5, <1>6, <1>9, <1>10, <1>11

LEMMA CancelDisposeInv ==
  ASSUME RegistryInv, NEW t \in Task, CancelDispose(t)
  PROVE  RegistryInv'
<1> USE DEF RegistryInv
<1>1. \A u \in Task : /\ req'[u].pc = req[u].pc /\ req'[u].db = req[u].db
                      /\ req'[u].conn = req[u].conn /\ req'[u].cand = req[u].cand
  BY DEF CancelDispose, TypeOK, Request
<1>2. req' \in [Task -> Request]
  <2>1. req[t] \in Request
    BY DEF TypeOK
  <2>2. [req[t] EXCEPT !.cut = TRUE] \in Request
    BY <2>1 DEF Request
  <2>3. req' = [req EXCEPT ![t] = [req[t] EXCEPT !.cut = TRUE]]
    BY DEF CancelDispose
  <2> QED
    BY <2>2, <2>3 DEF TypeOK
<1>3. UNCHANGED <<registry, handle, gateQ, leaseQ>>
  BY DEF CancelDispose
<1>4. TypeOK'
  BY <1>1, <1>2, <1>3 DEF TypeOK
<1>5. Shape' /\ Holders'
  BY <1>1, <1>3 DEF Shape, Holders, HoldsLease, HoldsGate, At
<1>6. Names' /\ Known'
  BY <1>1, <1>3 DEF Names, Known, At
<1>7. Current'
  BY <1>1, <1>3 DEF Current, IsCurrent, Working, At
<1> QED
  BY <1>4, <1>5, <1>6, <1>7

-----------------------------------------------------------------------------
(* The invariant, and what it gives *)

LEMMA RegistryInitInv == Init => RegistryInv
<1> SUFFICES ASSUME Init PROVE RegistryInv
  OBVIOUS
<1>1. \A k : [x \in k |-> <<>>] \in [k -> Seq(Task)]
  OBVIOUS
<1>2. TypeOK
  BY <1>1 DEF Init, TypeOK, State, Request, Resting, PC
<1>3. Shape /\ Holders /\ Names /\ Current /\ Known
  BY DEF Init, Shape, Holders, Names, Current, Known, Resting, At, Working, Leased, Replacing
<1> QED
  BY <1>2, <1>3 DEF RegistryInv

LEMMA RegistryNextInv == RegistryInv /\ [Next]_vars => RegistryInv'
<1> SUFFICES ASSUME RegistryInv, [Next]_vars PROVE RegistryInv'
  OBVIOUS
<1>1. CASE UNCHANGED vars
  BY <1>1 DEF vars, RegistryInv, TypeOK, Shape, Holders, HoldsLease, HoldsGate, Names, Current,
              IsCurrent, Working, Known, At
<1>2. ASSUME NEW t \in Task, Start(t) PROVE RegistryInv'
  BY <1>2, StartInv
<1>3. ASSUME NEW t \in Task, Continue(t) PROVE RegistryInv'
  BY <1>3, ConnectFailsInv, ConnectedInv, RetireInv, ReturnsInv, RaisesInv, DiscardedInv,
     ExtractInv, ExecuteInv, ProbedInv DEF Continue
<1>4. ASSUME NEW t \in Task, Cancel(t) PROVE RegistryInv'
  BY <1>4, CancelWaitingInv, CancelWorkingInv, RaisesInv, CancelDisposeInv DEF Cancel
<1> QED
  BY <1>1, <1>2, <1>3, <1>4 DEF Next

LEMMA NativeStaysIntact == TypeOK /\ NativeIntact /\ [Next]_vars => NativeIntact'
<1> SUFFICES ASSUME TypeOK, NativeIntact, [Next]_vars PROVE NativeIntact'
  OBVIOUS
<1>1. \A h \in Native : h \in Handle /\ h # None
  BY RegistryAssumption
<1>2. CASE UNCHANGED handle
  BY <1>2 DEF NativeIntact
<1>3. ASSUME NEW t \in Task, CallEnds(t) PROVE NativeIntact'
  BY <1>1, <1>3 DEF CallEnds, NativeIntact, TypeOK
<1>4. ASSUME NEW t \in Task, Start(t) PROVE UNCHANGED handle
  BY <1>4 DEF Start, StartCreate, StartClose, StartExtract, StartCatalogs
<1>5. ASSUME NEW t \in Task, Cancel(t) PROVE NativeIntact'
  <2>1. CASE CancelRetire(t)
    BY <1>1, <2>1 DEF CancelRetire, CloseRaises, NativeIntact
  <2> QED
    BY <1>2, <1>3, <1>5, <2>1 DEF Cancel, CancelWaiting, CancelWorking, CancelDispose
<1>6. ASSUME NEW t \in Task, Continue(t) PROVE NativeIntact'
  <2>1. CASE DisposeRaises(t)
    BY <1>1, <2>1 DEF DisposeRaises, CloseRaises, NativeIntact
  <2>2. CASE \E h \in Handle : Connected(t, h)
    BY <1>1, <2>2 DEF Connected, NativeIntact, TypeOK
  <2>3. CASE Retire(t) \/ Disposed(t) \/ Discarded(t)
    BY <1>1, <2>3 DEF Retire, Disposed, Discarded, NativeIntact, TypeOK
  <2> QED
    BY <1>2, <1>3, <1>6, <2>1, <2>2, <2>3 DEF Continue, ConnectFails, AlreadyRetired,
       Extract, Extracted, StartExecute, Execute, Executed, Probed, CatalogsListed
<1> QED
  BY <1>2, <1>3, <1>4, <1>5, <1>6 DEF Next, vars

LEMMA RegistryIsSound == Spec => [](RegistryInv /\ NativeIntact)
<1>1. Init => NativeIntact
  BY RegistryAssumption DEF Init, NativeIntact
<1>2. RegistryInv => TypeOK
  BY DEF RegistryInv
<1> QED
  BY <1>1, <1>2, RegistryInitInv, RegistryNextInv, NativeStaysIntact, PTL DEF Spec

(* Whoever replaces or disconnects the database meanwhile, a statement     *)
(* runs on the registered handle, alone; the factory closes no handle      *)
(* under a leased worker, and none while it is registered, so a native     *)
(* handle is open all that time.                                           *)
THEOREM StatementsRunOnRegistered == Spec => []RunsOnRegistered
<1>1. ASSUME RegistryInv, NEW t \in Task, At(t, "run"), NEW u \in Task \ {t}, Working(u)
      PROVE  req[u].conn # req[t].conn
  <2>1. HoldsLease(t) /\ req[u].pc \in Leased
    BY <1>1 DEF RegistryInv, Holders, Leased, At, Working
  <2> QED
    BY <1>1, <2>1, OneHolder
<1>2. ASSUME RegistryInv, NativeIntact, NEW h, handle[h] \in Live PROVE NotRetired(h)
  BY <1>2 DEF NotRetired, NativeIntact
<1>3. RegistryInv /\ NativeIntact => RunsOnRegistered
  BY <1>1, <1>2 DEF RegistryInv, RunsOnRegistered, Current, IsCurrent, Names
<1> QED
  BY <1>3, RegistryIsSound, PTL

(* Every open or broken handle has exactly one place, and every handle     *)
(* being closed a task, after any failures and cancellations.              *)
THEOREM HandlesAreKept == Spec => []NoHandleIsForgotten
<1>1. ASSUME RegistryInv, NEW h \in Handle, handle[h] \in Live
      PROVE  Cardinality({d \in Db : registry[d] = h})
               + Cardinality({t \in Task : req[t].cand = h}) = 1
  <2>0. h # None
    BY RegistryAssumption
  <2>1. CASE \E d \in Db : registry[d] = h
    <3>1. PICK d \in Db : registry[d] = h
      BY <2>1
    <3>2. {e \in Db : registry[e] = h} = {d} /\ {t \in Task : req[t].cand = h} = {}
      BY <2>0, <3>1, <1>1 DEF RegistryInv, Names
    <3>3. Cardinality({d}) = 1 /\ Cardinality({}) = 0
      BY FS_Singleton, FS_EmptySet
    <3>4. /\ Cardinality({e \in Db : registry[e] = h}) = 1
          /\ Cardinality({u \in Task : req[u].cand = h}) = 0
      BY <3>2, <3>3, Zenon
    <3> QED
      BY <3>4
  <2>2. CASE \E t \in Task : req[t].cand = h
    <3>1. PICK t \in Task : req[t].cand = h
      BY <2>2
    <3>2. {e \in Db : registry[e] = h} = {} /\ {u \in Task : req[u].cand = h} = {t}
      BY <2>0, <3>1, <1>1 DEF RegistryInv, Names
    <3>3. Cardinality({t}) = 1 /\ Cardinality({}) = 0
      BY FS_Singleton, FS_EmptySet
    <3>4. /\ Cardinality({e \in Db : registry[e] = h}) = 0
          /\ Cardinality({u \in Task : req[u].cand = h}) = 1
      BY <3>2, <3>3, Zenon
    <3> QED
      BY <3>4
  <2> QED
    BY <1>1, <2>1, <2>2 DEF RegistryInv, Known
<1>2. RegistryInv => NoHandleIsForgotten
  BY <1>1 DEF RegistryInv, NoHandleIsForgotten, Known
<1> QED
  BY <1>2, RegistryIsSound, PTL
=============================================================================
