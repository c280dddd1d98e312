------------------------- MODULE CoordinationProofs -------------------------
(***************************************************************************)
(* Proofs about Coordination.tla, for any number of tasks, sessions and    *)
(* connections and any capacity.                                           *)
(***************************************************************************)
EXTENDS Coordination, TLAPS

(* NoConn is the connection of exactly the tasks outside query(), and no   *)
(* two tasks share a connection.                                           *)
ConnUse ==
    /\ \A t \in Task : pc[t] = "idle" <=> conn[t] = NoConn
    /\ \A t, u \in Task : conn[t] = conn[u] /\ conn[t] # NoConn => t = u

(* The server gives locks only to connections it has, and a GET_LOCK       *)
(* without a client belongs to a connection that its client has closed.    *)
ServerSide ==
    /\ \A l \in Lock, c \in Conn : owner[l] = c => srv[c]
    /\ \A c \in Conn : late[c] # NoLock => srv[c] /\ ~up[c]

(* While the server's end lives, a task has every lock it believes it has. *)
KeepsLocks ==
    \A t \in Task : pc[t] # "idle" /\ srv[conn[t]] =>
        \A l \in Locks(t) : owner[l] = conn[t]

(* Another lease on a task's locks can begin only after the server's end   *)
(* of its connection has gone, which no later call survives.               *)
CrossedIsLost ==
    \A t \in Task : crossed[t] =>
        /\ pc[t] \notin {"slot", "session", "identity", "relSlot"}
        /\ Inside(t) => ~srv[conn[t]]
        /\ result[t] # "ok"

(* A task reports nothing before query() is over, and its watchdog is one  *)
(* of its own life inside query().                                         *)
InsideQuery ==
    \A t \in Task : /\ pc[t] # "idle" => result[t] = "none"
                    /\ mon[t] # "off" => pc[t] # "idle"
                    /\ how[t] = "lost" => pc[t] = "join"

IInv ==
    /\ TypeOK /\ ConnUse /\ ServerSide /\ NoOrphanLock
    /\ KeepsLocks /\ CrossedIsLost /\ InsideQuery

-----------------------------------------------------------------------------
(* The initial states *)

LEMMA IInvInit == Init => IInv
  <1> SUFFICES ASSUME Init PROVE IInv
    OBVIOUS
  <1>1. TypeOK
    BY CapacityAssumption DEF Init, TypeOK, PC, Mon, How, Result, Slot
  <1>2. ConnUse /\ ServerSide /\ NoOrphanLock
    BY ConnAssumption DEF Init, ConnUse, ServerSide, NoOrphanLock, Lock
  <1>3. KeepsLocks /\ CrossedIsLost /\ InsideQuery
    BY DEF Init, KeepsLocks, CrossedIsLost, InsideQuery
  <1> QED BY <1>1, <1>2, <1>3 DEF IInv

-----------------------------------------------------------------------------
(* MySQLCoordinator.query: admission *)

LEMMA AcquireStep ==
    ASSUME IInv, NEW t \in Task, NEW s \in Session, NEW c \in Conn, Acquire(t, s, c)
    PROVE  IInv'
  <1> USE DEF Acquire
  <1>1. TypeOK'
    BY CapacityAssumption DEF IInv, TypeOK, PC, Mon, How, Result, Slot, Lock
  <1>2. ConnUse'
    BY ConnAssumption DEF IInv, TypeOK, ConnUse, Pooled
  <1>3. ServerSide'
    BY ConnAssumption, LockAssumption DEF IInv, TypeOK, ConnUse, ServerSide, Lock
  <1>4. NoOrphanLock'
    BY LockAssumption DEF IInv, TypeOK, ConnUse, ServerSide, NoOrphanLock, Locks, Lock, Pooled
  <1>5. KeepsLocks'
    BY LockAssumption DEF IInv, TypeOK, ConnUse, KeepsLocks, Locks, Lock, Pooled
  <1>6. CrossedIsLost'
    BY DEF IInv, TypeOK, ConnUse, CrossedIsLost, InsideQuery, Inside, Pooled
  <1>7. InsideQuery'
    BY DEF IInv, TypeOK, InsideQuery
  <1> QED BY <1>1, <1>2, <1>3, <1>4, <1>5, <1>6, <1>7 DEF IInv

LEMMA AcquireFailsStep ==
    ASSUME IInv, NEW t \in Task, AcquireFails(t)
    PROVE  IInv'
  <1> USE DEF AcquireFails
  <1>1. TypeOK'
    BY CapacityAssumption DEF IInv, TypeOK, PC, Mon, How, Result, Slot, Lock
  <1>2. ConnUse'
    BY ConnAssumption DEF IInv, TypeOK, ConnUse
  <1>3. ServerSide'
    BY ConnAssumption, LockAssumption DEF IInv, TypeOK, ConnUse, ServerSide, Lock
  <1>4. NoOrphanLock'
    BY ConnAssumption, LockAssumption DEF IInv, TypeOK, ConnUse, NoOrphanLock, Locks, Lock
  <1>5. KeepsLocks'
    BY LockAssumption DEF IInv, TypeOK, ConnUse, KeepsLocks, Locks, Lock
  <1>6. CrossedIsLost'
    BY DEF IInv, TypeOK, ConnUse, CrossedIsLost, InsideQuery, Inside
  <1>7. InsideQuery'
    BY DEF IInv, TypeOK, InsideQuery
  <1> QED BY <1>1, <1>2, <1>3, <1>4, <1>5, <1>6, <1>7 DEF IInv

LEMMA GetSlotStep ==
    ASSUME IInv, NEW t \in Task, GetSlot(t)
    PROVE  IInv'
  <1> USE DEF GetSlot, LastSlot, Answers
  <1>0. conn[t] \in Conn /\ pc[t] # "idle"
    BY DEF IInv, TypeOK, ConnUse, InsideQuery
  <1>1. TypeOK'
    <2>1. slot' \in [Task -> Slot]
      BY CapacityAssumption DEF IInv, TypeOK, Slot
    <2>2. owner' \in [Lock -> Conn \cup {NoConn}] /\ pc' \in [Task -> PC]
      BY <1>0 DEF IInv, TypeOK, PC, Lock
    <2> QED BY <2>1, <2>2 DEF IInv, TypeOK
  <1>2. ConnUse'
    BY <1>0, ConnAssumption DEF IInv, TypeOK, ConnUse
  <1>3. ServerSide'
    BY <1>0, ConnAssumption, LockAssumption DEF IInv, TypeOK, ConnUse, ServerSide, Lock
  <1>4. NoOrphanLock'
    BY <1>0, ConnAssumption, LockAssumption DEF IInv, TypeOK, ConnUse, NoOrphanLock, Locks, Lock
  <1>5. KeepsLocks'
    BY <1>0, LockAssumption DEF IInv, TypeOK, ConnUse, KeepsLocks, Locks, Lock
  <1>6. CrossedIsLost'
    BY <1>0 DEF IInv, TypeOK, ConnUse, CrossedIsLost, InsideQuery, Inside
  <1>7. InsideQuery'
    BY <1>0 DEF IInv, TypeOK, InsideQuery
  <1> QED BY <1>1, <1>2, <1>3, <1>4, <1>5, <1>6, <1>7 DEF IInv

LEMMA SlotsBusyStep ==
    ASSUME IInv, NEW t \in Task, SlotsBusy(t)
    PROVE  IInv'
  <1> USE DEF SlotsBusy, Leave, Closed, serverVars, Answers
  <1>0. conn[t] \in Conn /\ pc[t] # "idle"
    BY DEF IInv, TypeOK, ConnUse, InsideQuery
  <1>1. TypeOK'
    BY <1>0, CapacityAssumption DEF IInv, TypeOK, PC, Mon, How, Result, Slot, Lock
  <1>2. ConnUse'
    BY <1>0, ConnAssumption DEF IInv, TypeOK, ConnUse
  <1>3. ServerSide'
    BY <1>0, ConnAssumption, LockAssumption DEF IInv, TypeOK, ConnUse, ServerSide, Lock
  <1>4. NoOrphanLock'
    BY <1>0, ConnAssumption, LockAssumption DEF IInv, TypeOK, ConnUse, NoOrphanLock, Locks, Lock
  <1>5. KeepsLocks'
    BY <1>0, LockAssumption DEF IInv, TypeOK, ConnUse, KeepsLocks, Locks, Lock
  <1>6. CrossedIsLost'
    BY <1>0 DEF IInv, TypeOK, ConnUse, CrossedIsLost, InsideQuery, Inside
  <1>7. InsideQuery'
    BY <1>0 DEF IInv, TypeOK, InsideQuery
  <1> QED BY <1>1, <1>2, <1>3, <1>4, <1>5, <1>6, <1>7 DEF IInv

LEMMA GetSessionStep ==
    ASSUME IInv, NEW t \in Task, GetSession(t)
    PROVE  IInv'
  <1> USE DEF GetSession, Answers
  <1>0. conn[t] \in Conn /\ pc[t] # "idle"
    BY DEF IInv, TypeOK, ConnUse, InsideQuery
  <1>1. TypeOK'
    BY <1>0, CapacityAssumption DEF IInv, TypeOK, PC, Mon, How, Result, Slot, Lock
  <1>2. ConnUse'
    BY <1>0, ConnAssumption DEF IInv, TypeOK, ConnUse
  <1>3. ServerSide'
    BY <1>0, ConnAssumption, LockAssumption DEF IInv, TypeOK, ConnUse, ServerSide, Lock
  <1>4. NoOrphanLock'
    BY <1>0, ConnAssumption, LockAssumption DEF IInv, TypeOK, ConnUse, NoOrphanLock, Locks, Lock
  <1>5. KeepsLocks'
    BY <1>0, LockAssumption DEF IInv, TypeOK, ConnUse, KeepsLocks, Locks, Lock
  <1>6. CrossedIsLost'
    BY <1>0 DEF IInv, TypeOK, ConnUse, CrossedIsLost, InsideQuery, Inside
  <1>7. InsideQuery'
    BY <1>0 DEF IInv, TypeOK, InsideQuery
  <1> QED BY <1>1, <1>2, <1>3, <1>4, <1>5, <1>6, <1>7 DEF IInv

LEMMA SessionBusyStep ==
    ASSUME IInv, NEW t \in Task, SessionBusy(t)
    PROVE  IInv'
  <1> USE DEF SessionBusy, Leave, Closed, serverVars, Answers
  <1>0. conn[t] \in Conn /\ pc[t] # "idle"
    BY DEF IInv, TypeOK, ConnUse, InsideQuery
  <1>1. TypeOK'
    BY <1>0, CapacityAssumption DEF IInv, TypeOK, PC, Mon, How, Result, Slot, Lock
  <1>2. ConnUse'
    BY <1>0, ConnAssumption DEF IInv, TypeOK, ConnUse
  <1>3. ServerSide'
    BY <1>0, ConnAssumption, LockAssumption DEF IInv, TypeOK, ConnUse, ServerSide, Lock
  <1>4. NoOrphanLock'
    BY <1>0, ConnAssumption, LockAssumption DEF IInv, TypeOK, ConnUse, NoOrphanLock, Locks, Lock
  <1>5. KeepsLocks'
    BY <1>0, LockAssumption DEF IInv, TypeOK, ConnUse, KeepsLocks, Locks, Lock
  <1>6. CrossedIsLost'
    BY <1>0 DEF IInv, TypeOK, ConnUse, CrossedIsLost, InsideQuery, Inside
  <1>7. InsideQuery'
    BY <1>0 DEF IInv, TypeOK, InsideQuery
  <1> QED BY <1>1, <1>2, <1>3, <1>4, <1>5, <1>6, <1>7 DEF IInv

LEMMA AdmissionUnconfirmedStep ==
    ASSUME IInv, NEW t \in Task, NEW why \in {"unavailable", "cancelled"}, AdmissionUnconfirmed(t, why)
    PROVE  IInv'
  <1> USE DEF AdmissionUnconfirmed, Leave, Closed
  <1>0. conn[t] \in Conn /\ pc[t] # "idle"
    BY DEF IInv, TypeOK, ConnUse, InsideQuery
  <1>1. TypeOK'
    BY <1>0, CapacityAssumption DEF IInv, TypeOK, PC, Mon, How, Result, Slot, Lock
  <1>2. ConnUse'
    BY <1>0, ConnAssumption DEF IInv, TypeOK, ConnUse
  <1>3. ServerSide'
    BY <1>0, ConnAssumption, LockAssumption DEF IInv, TypeOK, ConnUse, ServerSide, Lock
  <1>4. NoOrphanLock'
    BY <1>0, ConnAssumption, LockAssumption DEF IInv, TypeOK, ConnUse, NoOrphanLock, Locks, Lock
  <1>5. KeepsLocks'
    BY <1>0, LockAssumption DEF IInv, TypeOK, ConnUse, KeepsLocks, Locks, Lock
  <1>6. CrossedIsLost'
    BY <1>0 DEF IInv, TypeOK, ConnUse, CrossedIsLost, InsideQuery, Inside
  <1>7. InsideQuery'
    BY <1>0 DEF IInv, TypeOK, InsideQuery
  <1> QED BY <1>1, <1>2, <1>3, <1>4, <1>5, <1>6, <1>7 DEF IInv

LEMMA EnterStep ==
    ASSUME IInv, NEW t \in Task, Enter(t)
    PROVE  IInv'
  <1> USE DEF Enter, Answers
  <1>0. conn[t] \in Conn /\ pc[t] # "idle"
    BY DEF IInv, TypeOK, ConnUse, InsideQuery
  <1>1. TypeOK'
    BY <1>0, CapacityAssumption DEF IInv, TypeOK, PC, Mon, How, Result, Slot, Lock
  <1>2. ConnUse'
    BY <1>0, ConnAssumption DEF IInv, TypeOK, ConnUse
  <1>3. ServerSide'
    BY <1>0, ConnAssumption, LockAssumption DEF IInv, TypeOK, ConnUse, ServerSide, Lock
  <1>4. NoOrphanLock'
    BY <1>0, ConnAssumption, LockAssumption DEF IInv, TypeOK, ConnUse, NoOrphanLock, Locks, Lock
  <1>5. KeepsLocks'
    BY <1>0, LockAssumption DEF IInv, TypeOK, ConnUse, KeepsLocks, Locks, Lock
  <1>6. CrossedIsLost'
    <2> SUFFICES ASSUME NEW u \in Task, crossed'[u]
                  PROVE  /\ pc'[u] \notin {"slot", "session", "identity", "relSlot"}
                         /\ Inside(u)' => ~srv'[conn'[u]]
                         /\ result'[u] # "ok"
      BY DEF CrossedIsLost
    <2>1. CASE crossed[u]
      BY <2>1 DEF IInv, TypeOK, CrossedIsLost, Inside
    <2>2. CASE ~crossed[u]
      <3>1. u # t /\ Inside(u) /\ (slot[u] = slot[t] \/ session[u] = session[t])
        BY <2>2 DEF IInv, TypeOK
      <3>2. owner[slot[t]] = conn[t] /\ owner[session[t]] = conn[t]
        BY DEF IInv, KeepsLocks, Locks
      <3>3. srv[conn[u]] => owner[slot[u]] = conn[u] /\ owner[session[u]] = conn[u]
        BY <3>1 DEF IInv, KeepsLocks, Locks, Inside
      <3>4. conn[u] # conn[t]
        BY <1>0, <3>1, ConnAssumption DEF IInv, ConnUse
      <3>5. ~srv[conn[u]]
        BY <3>1, <3>2, <3>3, <3>4
      <3> QED BY <3>1, <3>5 DEF IInv, TypeOK, Inside, InsideQuery
    <2> QED BY <2>1, <2>2
  <1>7. InsideQuery'
    BY <1>0 DEF IInv, TypeOK, InsideQuery
  <1> QED BY <1>1, <1>2, <1>3, <1>4, <1>5, <1>6, <1>7 DEF IInv
-----------------------------------------------------------------------------
(* The watchdog *)

LEMMA MonitorWakesStep ==
    ASSUME IInv, NEW t \in Task, MonitorWakes(t)
    PROVE  IInv'
  <1> USE DEF MonitorWakes
  <1>0. conn[t] \in Conn /\ pc[t] # "idle"
    BY DEF IInv, TypeOK, ConnUse, InsideQuery
  <1>1. TypeOK'
    BY <1>0, CapacityAssumption DEF IInv, TypeOK, PC, Mon, How, Result, Slot, Lock
  <1>2. ConnUse'
    BY <1>0, ConnAssumption DEF IInv, TypeOK, ConnUse
  <1>3. ServerSide'
    BY <1>0, ConnAssumption, LockAssumption DEF IInv, TypeOK, ConnUse, ServerSide, Lock
  <1>4. NoOrphanLock'
    BY <1>0, ConnAssumption, LockAssumption DEF IInv, TypeOK, ConnUse, NoOrphanLock, Locks, Lock
  <1>5. KeepsLocks'
    BY <1>0, LockAssumption DEF IInv, TypeOK, ConnUse, KeepsLocks, Locks, Lock
  <1>6. CrossedIsLost'
    BY <1>0 DEF IInv, TypeOK, ConnUse, CrossedIsLost, InsideQuery, Inside
  <1>7. InsideQuery'
    BY <1>0 DEF IInv, TypeOK, InsideQuery
  <1> QED BY <1>1, <1>2, <1>3, <1>4, <1>5, <1>6, <1>7 DEF IInv

LEMMA MonitorConfirmsStep ==
    ASSUME IInv, NEW t \in Task, MonitorConfirms(t)
    PROVE  IInv'
  <1> USE DEF MonitorConfirms, Answers
  <1>0. conn[t] \in Conn /\ pc[t] # "idle"
    BY DEF IInv, TypeOK, ConnUse, InsideQuery
  <1>1. TypeOK'
    BY <1>0, CapacityAssumption DEF IInv, TypeOK, PC, Mon, How, Result, Slot, Lock
  <1>2. ConnUse'
    BY <1>0, ConnAssumption DEF IInv, TypeOK, ConnUse
  <1>3. ServerSide'
    BY <1>0, ConnAssumption, LockAssumption DEF IInv, TypeOK, ConnUse, ServerSide, Lock
  <1>4. NoOrphanLock'
    BY <1>0, ConnAssumption, LockAssumption DEF IInv, TypeOK, ConnUse, NoOrphanLock, Locks, Lock
  <1>5. KeepsLocks'
    BY <1>0, LockAssumption DEF IInv, TypeOK, ConnUse, KeepsLocks, Locks, Lock
  <1>6. CrossedIsLost'
    BY <1>0 DEF IInv, TypeOK, ConnUse, CrossedIsLost, InsideQuery, Inside
  <1>7. InsideQuery'
    BY <1>0 DEF IInv, TypeOK, InsideQuery
  <1> QED BY <1>1, <1>2, <1>3, <1>4, <1>5, <1>6, <1>7 DEF IInv

LEMMA MonitorFailsStep ==
    ASSUME IInv, NEW t \in Task, MonitorFails(t)
    PROVE  IInv'
  <1> USE DEF MonitorFails
  <1>0. conn[t] \in Conn /\ pc[t] # "idle"
    BY DEF IInv, TypeOK, ConnUse, InsideQuery
  <1>1. TypeOK'
    <2>1. up' \in [Conn -> BOOLEAN]
      BY <1>0 DEF IInv, TypeOK
    <2>2. mon' \in [Task -> Mon] /\ expired' \in [Task -> BOOLEAN] /\ how' \in [Task -> How]
      BY DEF IInv, TypeOK, Mon, How
    <2> QED BY <2>1, <2>2 DEF IInv, TypeOK
  <1>2. ConnUse'
    BY <1>0, ConnAssumption DEF IInv, TypeOK, ConnUse
  <1>3. ServerSide'
    BY <1>0, ConnAssumption, LockAssumption DEF IInv, TypeOK, ConnUse, ServerSide, Lock
  <1>4. NoOrphanLock'
    <2>1. \A c \in Conn : up'[c] => up[c]
      BY <1>0 DEF IInv, TypeOK
    <2> QED BY <2>1 DEF IInv, NoOrphanLock, Locks
  <1>5. KeepsLocks'
    BY <1>0, LockAssumption DEF IInv, TypeOK, ConnUse, KeepsLocks, Locks, Lock
  <1>6. CrossedIsLost'
    BY <1>0 DEF IInv, TypeOK, ConnUse, CrossedIsLost, InsideQuery, Inside
  <1>7. InsideQuery'
    BY <1>0 DEF IInv, TypeOK, InsideQuery
  <1> QED BY <1>1, <1>2, <1>3, <1>4, <1>5, <1>6, <1>7 DEF IInv
-----------------------------------------------------------------------------
(* The way out *)

LEMMA BodyEndsStep ==
    ASSUME IInv, NEW t \in Task, NEW h \in How, BodyEnds(t, h)
    PROVE  IInv'
  <1> USE DEF BodyEnds
  <1>0. conn[t] \in Conn /\ pc[t] # "idle"
    BY DEF IInv, TypeOK, ConnUse, InsideQuery
  <1>1. TypeOK'
    BY <1>0, CapacityAssumption DEF IInv, TypeOK, PC, Mon, How, Result, Slot, Lock
  <1>2. ConnUse'
    BY <1>0, ConnAssumption DEF IInv, TypeOK, ConnUse
  <1>3. ServerSide'
    BY <1>0, ConnAssumption, LockAssumption DEF IInv, TypeOK, ConnUse, ServerSide, Lock
  <1>4. NoOrphanLock'
    BY <1>0, ConnAssumption, LockAssumption DEF IInv, TypeOK, ConnUse, NoOrphanLock, Locks, Lock
  <1>5. KeepsLocks'
    BY <1>0, LockAssumption DEF IInv, TypeOK, ConnUse, KeepsLocks, Locks, Lock
  <1>6. CrossedIsLost'
    BY <1>0 DEF IInv, TypeOK, ConnUse, CrossedIsLost, InsideQuery, Inside
  <1>7. InsideQuery'
    BY <1>0 DEF IInv, TypeOK, InsideQuery
  <1> QED BY <1>1, <1>2, <1>3, <1>4, <1>5, <1>6, <1>7 DEF IInv

LEMMA CancelDuringExitStep ==
    ASSUME IInv, NEW t \in Task, CancelDuringExit(t)
    PROVE  IInv'
  <1> USE DEF CancelDuringExit
  <1>0. conn[t] \in Conn /\ pc[t] # "idle"
    BY DEF IInv, TypeOK, ConnUse, InsideQuery
  <1>1. TypeOK'
    BY <1>0, CapacityAssumption DEF IInv, TypeOK, PC, Mon, How, Result, Slot, Lock
  <1>2. ConnUse'
    BY <1>0, ConnAssumption DEF IInv, TypeOK, ConnUse
  <1>3. ServerSide'
    BY <1>0, ConnAssumption, LockAssumption DEF IInv, TypeOK, ConnUse, ServerSide, Lock
  <1>4. NoOrphanLock'
    BY <1>0, ConnAssumption, LockAssumption DEF IInv, TypeOK, ConnUse, NoOrphanLock, Locks, Lock
  <1>5. KeepsLocks'
    BY <1>0, LockAssumption DEF IInv, TypeOK, ConnUse, KeepsLocks, Locks, Lock
  <1>6. CrossedIsLost'
    BY <1>0 DEF IInv, TypeOK, ConnUse, CrossedIsLost, InsideQuery, Inside
  <1>7. InsideQuery'
    BY <1>0 DEF IInv, TypeOK, InsideQuery
  <1> QED BY <1>1, <1>2, <1>3, <1>4, <1>5, <1>6, <1>7 DEF IInv

LEMMA JoinedStep ==
    ASSUME IInv, NEW t \in Task, Joined(t)
    PROVE  IInv'
  <1> USE DEF Joined
  <1>0. conn[t] \in Conn /\ pc[t] # "idle"
    BY DEF IInv, TypeOK, ConnUse, InsideQuery
  <1>1. TypeOK'
    BY <1>0, CapacityAssumption DEF IInv, TypeOK, PC, Mon, How, Result, Slot, Lock
  <1>2. ConnUse'
    BY <1>0, ConnAssumption DEF IInv, TypeOK, ConnUse
  <1>3. ServerSide'
    BY <1>0, ConnAssumption, LockAssumption DEF IInv, TypeOK, ConnUse, ServerSide, Lock
  <1>4. NoOrphanLock'
    BY <1>0, ConnAssumption, LockAssumption DEF IInv, TypeOK, ConnUse, NoOrphanLock, Locks, Lock
  <1>5. KeepsLocks'
    BY <1>0, LockAssumption DEF IInv, TypeOK, ConnUse, KeepsLocks, Locks, Lock
  <1>6. CrossedIsLost'
    BY <1>0 DEF IInv, TypeOK, ConnUse, CrossedIsLost, InsideQuery, Inside
  <1>7. InsideQuery'
    BY <1>0 DEF IInv, TypeOK, InsideQuery
  <1> QED BY <1>1, <1>2, <1>3, <1>4, <1>5, <1>6, <1>7 DEF IInv

LEMMA JoinedFailedStep ==
    ASSUME IInv, NEW t \in Task, JoinedFailed(t)
    PROVE  IInv'
  <1> USE DEF JoinedFailed, Leave, Closed, serverVars
  <1>0. conn[t] \in Conn /\ pc[t] # "idle"
    BY DEF IInv, TypeOK, ConnUse, InsideQuery
  <1>1. TypeOK'
    BY <1>0, CapacityAssumption DEF IInv, TypeOK, PC, Mon, How, Result, Slot, Lock
  <1>2. ConnUse'
    BY <1>0, ConnAssumption DEF IInv, TypeOK, ConnUse
  <1>3. ServerSide'
    BY <1>0, ConnAssumption, LockAssumption DEF IInv, TypeOK, ConnUse, ServerSide, Lock
  <1>4. NoOrphanLock'
    BY <1>0, ConnAssumption, LockAssumption DEF IInv, TypeOK, ConnUse, NoOrphanLock, Locks, Lock
  <1>5. KeepsLocks'
    BY <1>0, LockAssumption DEF IInv, TypeOK, ConnUse, KeepsLocks, Locks, Lock
  <1>6. CrossedIsLost'
    BY <1>0 DEF IInv, TypeOK, ConnUse, CrossedIsLost, InsideQuery, Inside
  <1>7. InsideQuery'
    BY <1>0 DEF IInv, TypeOK, InsideQuery
  <1> QED BY <1>1, <1>2, <1>3, <1>4, <1>5, <1>6, <1>7 DEF IInv

LEMMA ReleaseSessionStep ==
    ASSUME IInv, NEW t \in Task, ReleaseSession(t)
    PROVE  IInv'
  <1> USE DEF ReleaseSession, Answers
  <1>0. conn[t] \in Conn /\ pc[t] # "idle"
    BY DEF IInv, TypeOK, ConnUse, InsideQuery
  <1>1. TypeOK'
    BY <1>0, CapacityAssumption DEF IInv, TypeOK, PC, Mon, How, Result, Slot, Lock
  <1>2. ConnUse'
    BY <1>0, ConnAssumption DEF IInv, TypeOK, ConnUse
  <1>3. ServerSide'
    BY <1>0, ConnAssumption, LockAssumption DEF IInv, TypeOK, ConnUse, ServerSide, Lock
  <1>4. NoOrphanLock'
    BY <1>0, ConnAssumption, LockAssumption DEF IInv, TypeOK, ConnUse, NoOrphanLock, Locks, Lock
  <1>5. KeepsLocks'
    BY <1>0, LockAssumption DEF IInv, TypeOK, ConnUse, KeepsLocks, Locks, Lock
  <1>6. CrossedIsLost'
    BY <1>0 DEF IInv, TypeOK, ConnUse, CrossedIsLost, InsideQuery, Inside
  <1>7. InsideQuery'
    BY <1>0 DEF IInv, TypeOK, InsideQuery
  <1> QED BY <1>1, <1>2, <1>3, <1>4, <1>5, <1>6, <1>7 DEF IInv

LEMMA ReleaseSlotStep ==
    ASSUME IInv, NEW t \in Task, ReleaseSlot(t)
    PROVE  IInv'
  <1> USE DEF ReleaseSlot, Answers
  <1>0. conn[t] \in Conn /\ pc[t] # "idle"
    BY DEF IInv, TypeOK, ConnUse, InsideQuery
  <1>1. TypeOK'
    <2>1. owner' \in [Lock -> Conn \cup {NoConn}]
      BY <1>0 DEF IInv, TypeOK, Lock
    <2>2. result' \in [Task -> Result]
      BY DEF IInv, TypeOK, How, Result, InsideQuery, ConnUse
    <2> QED BY <2>1, <2>2 DEF IInv, TypeOK, PC, Mon, How
  <1>2. ConnUse'
    BY <1>0, ConnAssumption DEF IInv, TypeOK, ConnUse
  <1>3. ServerSide'
    BY <1>0, ConnAssumption, LockAssumption DEF IInv, TypeOK, ConnUse, ServerSide, Lock
  <1>4. NoOrphanLock'
    <2> SUFFICES ASSUME NEW l \in Lock, NEW c \in Conn, owner'[l] = c, up'[c]
                  PROVE  \E u \in Task : conn'[u] = c /\ l \in Locks(u)'
      BY DEF NoOrphanLock
    <2>1. slot[t] \in Lock
      BY DEF IInv, TypeOK, Lock
    <2>2. owner[l] = c /\ l # slot[t]
      BY <2>1, ConnAssumption DEF IInv, TypeOK
    <2>3. PICK u \in Task : conn[u] = c /\ l \in Locks(u)
      BY <2>2 DEF IInv, NoOrphanLock
    <2>4. u # t
      BY <2>2, <2>3 DEF Locks
    <2> QED BY <2>3, <2>4 DEF IInv, TypeOK, Locks
  <1>5. KeepsLocks'
    BY <1>0, LockAssumption DEF IInv, TypeOK, ConnUse, KeepsLocks, Locks, Lock
  <1>6. CrossedIsLost'
    BY <1>0 DEF IInv, TypeOK, ConnUse, CrossedIsLost, InsideQuery, Inside
  <1>7. InsideQuery'
    BY <1>0 DEF IInv, TypeOK, InsideQuery
  <1> QED BY <1>1, <1>2, <1>3, <1>4, <1>5, <1>6, <1>7 DEF IInv

LEMMA ReleaseUnconfirmedStep ==
    ASSUME IInv, NEW t \in Task, ReleaseUnconfirmed(t)
    PROVE  IInv'
  <1> USE DEF ReleaseUnconfirmed, Leave, Closed
  <1>0. conn[t] \in Conn /\ pc[t] # "idle"
    BY DEF IInv, TypeOK, ConnUse, InsideQuery
  <1>1. TypeOK'
    BY <1>0, CapacityAssumption DEF IInv, TypeOK, PC, Mon, How, Result, Slot, Lock
  <1>2. ConnUse'
    BY <1>0, ConnAssumption DEF IInv, TypeOK, ConnUse
  <1>3. ServerSide'
    BY <1>0, ConnAssumption, LockAssumption DEF IInv, TypeOK, ConnUse, ServerSide, Lock
  <1>4. NoOrphanLock'
    BY <1>0, ConnAssumption, LockAssumption DEF IInv, TypeOK, ConnUse, NoOrphanLock, Locks, Lock
  <1>5. KeepsLocks'
    BY <1>0, LockAssumption DEF IInv, TypeOK, ConnUse, KeepsLocks, Locks, Lock
  <1>6. CrossedIsLost'
    BY <1>0 DEF IInv, TypeOK, ConnUse, CrossedIsLost, InsideQuery, Inside
  <1>7. InsideQuery'
    BY <1>0 DEF IInv, TypeOK, InsideQuery
  <1> QED BY <1>1, <1>2, <1>3, <1>4, <1>5, <1>6, <1>7 DEF IInv
-----------------------------------------------------------------------------
(* The MySQL server *)

LEMMA ServerEndsStep ==
    ASSUME IInv, NEW C \in SUBSET Conn, ServerEnds(C)
    PROVE  IInv'
  <1> USE DEF ServerEnds, Freed, taskVars
  <1>1. TypeOK'
    BY ConnAssumption DEF IInv, TypeOK
  <1>2. ConnUse' /\ InsideQuery'
    BY DEF IInv, ConnUse, InsideQuery
  <1>3. ServerSide'
    BY ConnAssumption DEF IInv, TypeOK, ServerSide
  <1>4. NoOrphanLock'
    BY ConnAssumption DEF IInv, TypeOK, NoOrphanLock, Locks
  <1>5. KeepsLocks'
    <2> SUFFICES ASSUME NEW t \in Task, pc[t] # "idle", srv'[conn[t]],
                        NEW l \in Locks(t)
                 PROVE  owner'[l] = conn[t]
      BY DEF KeepsLocks, Locks
    <2>1. conn[t] \in Conn /\ l \in Lock
      BY DEF IInv, TypeOK, ConnUse, Locks, Lock
    <2>2. srv[conn[t]] /\ conn[t] \notin C
      BY <2>1
    <2>3. owner[l] = conn[t]
      BY <2>2 DEF IInv, KeepsLocks
    <2> QED BY <2>1, <2>2, <2>3
  <1>6. CrossedIsLost'
    <2>1. \A t \in Task : pc[t] # "idle" => conn[t] \in Conn
      BY DEF IInv, TypeOK, ConnUse
    <2> QED BY <2>1 DEF IInv, CrossedIsLost, Inside
  <1> QED BY <1>1, <1>2, <1>3, <1>4, <1>5, <1>6 DEF IInv

LEMMA LateGetLockStep ==
    ASSUME IInv, NEW c \in Conn, LateGetLock(c)
    PROVE  IInv'
  <1> USE DEF LateGetLock, taskVars
  <1>0. late[c] \in Lock /\ srv[c] /\ ~up[c]
    BY DEF IInv, TypeOK, ServerSide
  <1>1. TypeOK'
    BY <1>0 DEF IInv, TypeOK
  <1>2. ConnUse' /\ InsideQuery' /\ CrossedIsLost'
    BY DEF IInv, ConnUse, InsideQuery, CrossedIsLost, Inside
  <1>3. ServerSide'
    BY <1>0, ConnAssumption DEF IInv, TypeOK, ServerSide
  <1>4. NoOrphanLock'
    BY <1>0, ConnAssumption DEF IInv, TypeOK, NoOrphanLock, Locks
  <1>5. KeepsLocks'
    <2> SUFFICES ASSUME NEW t \in Task, pc[t] # "idle", srv[conn[t]],
                        NEW l \in Locks(t)
                 PROVE  owner'[l] = conn[t]
      BY DEF KeepsLocks, Locks
    <2>1. conn[t] \in Conn
      BY DEF IInv, TypeOK, ConnUse
    <2>2. owner[l] = conn[t]
      BY DEF IInv, KeepsLocks
    <2> QED BY <1>0, <2>1, <2>2, ConnAssumption DEF IInv, TypeOK
  <1> QED BY <1>1, <1>2, <1>3, <1>4, <1>5 DEF IInv

-----------------------------------------------------------------------------
(* The inductive step and the theorems *)

LEMMA IInvStep == IInv /\ [Next]_vars => IInv'
  <1> SUFFICES ASSUME IInv, [Next]_vars PROVE IInv'
    OBVIOUS
  <1>1. CASE UNCHANGED vars
    BY <1>1 DEF vars, IInv, TypeOK, ConnUse, ServerSide, NoOrphanLock, KeepsLocks,
                CrossedIsLost, InsideQuery, Locks, Inside
  <1>2. CASE Server
    BY <1>2, ServerEndsStep, LateGetLockStep DEF Server, ServerDrops
  <1>3. ASSUME NEW t \in Task, Admission(t) PROVE IInv'
    BY <1>3, AcquireStep, AcquireFailsStep, GetSlotStep, SlotsBusyStep, GetSessionStep,
       SessionBusyStep, AdmissionUnconfirmedStep, EnterStep DEF Admission
  <1>4. ASSUME NEW t \in Task, Watchdog(t) PROVE IInv'
    BY <1>4, MonitorWakesStep, MonitorConfirmsStep, MonitorFailsStep DEF Watchdog
  <1>5. ASSUME NEW t \in Task, Exit(t) PROVE IInv'
    BY <1>5, BodyEndsStep, CancelDuringExitStep, JoinedStep, JoinedFailedStep,
       ReleaseSessionStep, ReleaseSlotStep, ReleaseUnconfirmedStep DEF Exit
  <1> QED BY <1>1, <1>2, <1>3, <1>4, <1>5 DEF Next

LEMMA Inductive == Spec => []IInv
  BY IInvInit, IInvStep, PTL DEF Spec

(* Every state of the coordinator, the server and the connections is well typed. *)
THEOREM TypeCorrect == Spec => []TypeOK
  <1>1. IInv => TypeOK
    BY DEF IInv
  <1> QED BY <1>1, Inductive, PTL

(* No lock outlives its task on an open connection: admission slots do not leak. *)
THEOREM SlotsDoNotLeak == Spec => []NoOrphanLock
  <1>1. IInv => NoOrphanLock
    BY DEF IInv
  <1> QED BY <1>1, Inductive, PTL

(* A recycled connection brings neither a lock nor a pending GET_LOCK along. *)
THEOREM RecycledConnectionsAreClean == Spec => []PooledConnectionsAreClean
  <1>1. IInv => PooledConnectionsAreClean
    BY DEF IInv, PooledConnectionsAreClean, NoOrphanLock, ServerSide, Pooled
  <1> QED BY <1>1, Inductive, PTL

(* A lease that ends with "ok" shared neither its slot nor its session with *)
(* a lease that began after it.                                             *)
THEOREM CleanExitsWereExclusive == Spec => []CleanExitWasExclusive
  <1>1. IInv => CleanExitWasExclusive
    BY DEF IInv, CleanExitWasExclusive, CrossedIsLost
  <1> QED BY <1>1, Inductive, PTL

-----------------------------------------------------------------------------
(* MySQLCoordinator implements the lease of QueryLease.tla: every step of  *)
(* the protocol is a step of the lease or leaves it unchanged.             *)

(* A step of the task takes or gives up locks of its own connection only.  *)
OwnLocksOnly(t) ==
    \A l \in Lock : \/ owner'[l] = owner[l]
                   \/ /\ owner[l] \in {NoConn, conn[t]}
                      /\ owner'[l] \in {NoConn, conn[t]}

(* Two leases that the server honours differ in slot and session: their    *)
(* locks belong to the connections of two tasks.                           *)
LEMMA InvExclusive == IInv => Exclusive
  <1> SUFFICES ASSUME IInv, NEW t \in Task, NEW u \in Task, t # u,
                      LeasePhase(t) = "held", LeasePhase(u) = "held"
               PROVE  slot[t] # slot[u] /\ session[t] # session[u]
    BY DEF Exclusive, Lease!Exclusive
  <1>1. Inside(t) /\ Owns(t) /\ Inside(u) /\ Owns(u)
    BY DEF LeasePhase
  <1>2. conn[t] # conn[u]
    BY <1>1 DEF IInv, ConnUse, Inside
  <1> QED BY <1>1, <1>2 DEF Owns

(* At most one live lease per session and per admission slot.              *)
THEOREM LeasesAreExclusive == Spec => []Exclusive
  BY InvExclusive, Inductive, PTL

-----------------------------------------------------------------------------
(* Initial states *)

LEMMA RefinesInit == Init => Lease!LeaseInit
  BY CapacityAssumption DEF Init, Lease!LeaseInit, LeasePhase, Inside, Slot

(* A task that gives up or takes locks of its own connection changes the   *)
(* lease of no other task.                                                 *)
LEMMA OthersUnmoved ==
    ASSUME IInv, NEW t \in Task, pc[t] # "idle",
           OwnLocksOnly(t),
           NEW u \in Task, u # t,
           pc'[u] = pc[u], conn'[u] = conn[u], slot'[u] = slot[u], session'[u] = session[u]
    PROVE  LeasePhase(u)' = LeasePhase(u)
  <1>1. CASE Inside(u)
    <2>1. conn[u] # NoConn /\ conn[u] # conn[t]
      BY <1>1 DEF IInv, ConnUse, Inside
    <2>2. slot[u] \in Lock /\ session[u] \in Lock
      BY DEF IInv, TypeOK, Lock
    <2>3. Owns(u)' <=> Owns(u)
      BY <2>1, <2>2 DEF Owns, OwnLocksOnly
    <2> QED BY <2>3 DEF LeasePhase, Inside
  <1>2. CASE ~Inside(u)
    BY <1>2 DEF LeasePhase, Inside
  <1> QED BY <1>1, <1>2

(* The phases of the lease after a step of one task.                       *)
LEMMA OnlyThisPhase ==
    ASSUME IInv, NEW t \in Task, pc[t] # "idle", NEW p,
           OwnLocksOnly(t),
           \A u \in Task \ {t} : /\ pc'[u] = pc[u] /\ conn'[u] = conn[u]
                                /\ slot'[u] = slot[u] /\ session'[u] = session[u],
           LeasePhase(t)' = p
    PROVE  [u \in Task |-> LeasePhase(u)'] =
               [[u \in Task |-> LeasePhase(u)] EXCEPT ![t] = p]
  <1>1. \A u \in Task \ {t} : LeasePhase(u)' = LeasePhase(u)
    BY OthersUnmoved
  <1> QED BY <1>1

-----------------------------------------------------------------------------
(* Admission: an attempt that is not yet, or never becomes, a lease *)

LEMMA RefinesAcquire ==
    ASSUME IInv, NEW t \in Task, NEW s \in Session, NEW c \in Conn, Acquire(t, s, c)
    PROVE  Lease!Attempt(t, 0, s)
  <1> USE DEF Acquire
  <1>1. \A u \in Task : LeasePhase(u)' = LeasePhase(u)
    <2>1. LeasePhase(t) = "none" /\ LeasePhase(t)' = "none"
      BY DEF IInv, TypeOK, LeasePhase, Inside
    <2>2. \A u \in Task \ {t} : LeasePhase(u)' = LeasePhase(u)
      BY DEF IInv, TypeOK, LeasePhase, Inside, Owns
    <2> QED BY <2>1, <2>2
  <1>2. LeasePhase(t) = "none"
    BY DEF LeasePhase, Inside
  <1> QED BY <1>1, <1>2 DEF Lease!Attempt

LEMMA RefinesAcquireFails ==
    ASSUME IInv, NEW t \in Task, AcquireFails(t)
    PROVE  Lease!Refuse(t, "unavailable")
  <1> USE DEF AcquireFails
  <1>1. \A u \in Task : LeasePhase(u)' = LeasePhase(u)
    BY DEF LeasePhase, Inside, Owns
  <1>2. LeasePhase(t) = "none"
    BY DEF LeasePhase, Inside
  <1> QED BY <1>1, <1>2 DEF Lease!Refuse

LEMMA RefinesGetSlot ==
    ASSUME IInv, NEW t \in Task, GetSlot(t)
    PROVE  \/ UNCHANGED Lease!leaseVars
           \/ Lease!Attempt(t, slot'[t], session[t])
  <1> USE DEF GetSlot
  <1>1. LeasePhase(t) = "none" /\ LeasePhase(t)' = "none"
    BY DEF IInv, TypeOK, LeasePhase, Inside
  <1>2. OwnLocksOnly(t)
    BY DEF IInv, TypeOK, OwnLocksOnly
  <1>3. \A u \in Task \ {t} : /\ pc'[u] = pc[u] /\ conn'[u] = conn[u]
                             /\ slot'[u] = slot[u] /\ session'[u] = session[u]
    BY DEF IInv, TypeOK
  <1>4. [u \in Task |-> LeasePhase(u)'] = [u \in Task |-> LeasePhase(u)]
    BY <1>1, <1>2, <1>3, OthersUnmoved
  <1>5. CASE slot' = slot
    BY <1>4, <1>5 DEF Lease!leaseVars
  <1>6. CASE slot' # slot
    <2>1. slot' = [slot EXCEPT ![t] = slot'[t]] /\ session' = [session EXCEPT ![t] = session[t]]
      BY <1>6 DEF IInv, TypeOK
    <2>2. result' = [result EXCEPT ![t] = "none"]
      BY DEF IInv, TypeOK, InsideQuery
    <2> QED BY <1>1, <1>4, <2>1, <2>2 DEF Lease!Attempt
  <1> QED BY <1>5, <1>6

LEMMA RefinesGetSession ==
    ASSUME IInv, NEW t \in Task, GetSession(t)
    PROVE  UNCHANGED Lease!leaseVars
  <1> USE DEF GetSession
  <1>1. LeasePhase(t) = "none" /\ LeasePhase(t)' = "none"
    BY DEF IInv, TypeOK, LeasePhase, Inside
  <1>2. OwnLocksOnly(t)
    BY DEF IInv, TypeOK, OwnLocksOnly
  <1>3. \A u \in Task \ {t} : pc'[u] = pc[u]
    BY DEF IInv, TypeOK
  <1> QED BY <1>1, <1>2, <1>3, OthersUnmoved DEF Lease!leaseVars

(* A refusal before the body: the closed connection takes its slot along.  *)
LEMMA RefinesRefusal ==
    ASSUME IInv, NEW t \in Task, pc[t] \in {"slot", "session", "identity"},
           NEW why, Leave(t, why), UNCHANGED <<owner, slot, session>>
    PROVE  Lease!Refuse(t, why)
  <1> USE DEF Leave, Closed
  <1>1. LeasePhase(t) = "none" /\ LeasePhase(t)' = "none"
    BY DEF IInv, TypeOK, LeasePhase, Inside
  <1>2. \A u \in Task \ {t} : pc'[u] = pc[u] /\ conn'[u] = conn[u]
    BY DEF IInv, TypeOK
  <1>3. OwnLocksOnly(t)
    BY DEF OwnLocksOnly
  <1>4. [u \in Task |-> LeasePhase(u)'] = [u \in Task |-> LeasePhase(u)]
    BY <1>1, <1>2, <1>3, OthersUnmoved
  <1> QED BY <1>1, <1>4 DEF Lease!Refuse

(* The body starts: the server honours both locks, hence nobody else's.    *)
LEMMA RefinesEnter ==
    ASSUME IInv, NEW t \in Task, Enter(t)
    PROVE  Lease!Grant(t, slot[t], session[t])
  <1> USE DEF Enter
  <1>1. Owns(t) /\ conn[t] # NoConn
    BY DEF IInv, ConnUse, KeepsLocks, Locks, Owns, Answers
  <1>2. LeasePhase(t) = "none" /\ LeasePhase(t)' = "held"
    BY <1>1 DEF IInv, TypeOK, LeasePhase, Inside, Owns
  <1>3. \A u \in Task \ {t} : pc'[u] = pc[u]
    BY DEF IInv, TypeOK
  <1>4. [u \in Task |-> LeasePhase(u)'] =
           [[u \in Task |-> LeasePhase(u)] EXCEPT ![t] = "held"]
    BY <1>2, <1>3, OnlyThisPhase DEF OwnLocksOnly
  <1>5. ~Lease!Taken(slot[t], session[t])
    <2> SUFFICES ASSUME NEW u \in Task, LeasePhase(u) = "held",
                        slot[u] = slot[t] \/ session[u] = session[t]
                 PROVE  FALSE
      BY DEF Lease!Taken
    <2>1. Inside(u) /\ Owns(u)
      BY DEF LeasePhase
    <2>2. conn[u] = conn[t]
      BY <1>1, <2>1 DEF Owns
    <2> QED BY <1>1, <2>1, <2>2 DEF IInv, ConnUse, Inside
  <1>6. slot' = [slot EXCEPT ![t] = slot[t]] /\ session' = [session EXCEPT ![t] = session[t]]
    BY DEF IInv, TypeOK
  <1>7. result' = [result EXCEPT ![t] = "none"]
    BY DEF IInv, TypeOK, InsideQuery
  <1> QED BY <1>2, <1>4, <1>5, <1>6, <1>7 DEF Lease!Grant

-----------------------------------------------------------------------------
(* Inside the lease *)

(* The watchdog and the way to the release do not change the lease.        *)
LEMMA RefinesInside ==
    ASSUME IInv, NEW t \in Task,
           \/ MonitorWakes(t) \/ MonitorConfirms(t) \/ MonitorFails(t)
           \/ CancelDuringExit(t) \/ Joined(t) \/ \E h \in How : BodyEnds(t, h)
    PROVE  UNCHANGED Lease!leaseVars
  <1>1. UNCHANGED <<owner, conn, slot, session, result>>
    BY DEF MonitorWakes, MonitorConfirms, MonitorFails, CancelDuringExit, Joined, BodyEnds
  <1>2. \A u \in Task : (Inside(u) /\ Inside(u)') \/ pc'[u] = pc[u]
    BY DEF MonitorWakes, MonitorConfirms, MonitorFails, CancelDuringExit, Joined, BodyEnds,
           Inside, IInv, TypeOK
  <1>3. \A u \in Task : LeasePhase(u)' = LeasePhase(u)
    BY <1>1, <1>2 DEF LeasePhase, Inside, Owns
  <1> QED BY <1>1, <1>3 DEF Lease!leaseVars

LEMMA RefinesReleaseSession ==
    ASSUME IInv, NEW t \in Task, ReleaseSession(t)
    PROVE  Lease!Return(t)
  <1> USE DEF ReleaseSession
  <1>1. Owns(t)
    BY DEF IInv, ConnUse, KeepsLocks, Locks, Owns, Answers
  <1>2. LeasePhase(t) = "held" /\ LeasePhase(t)' = "returned"
    BY <1>1 DEF IInv, TypeOK, LeasePhase, Inside
  <1>3. OwnLocksOnly(t)
    BY DEF IInv, TypeOK, OwnLocksOnly
  <1>4. \A u \in Task \ {t} : pc'[u] = pc[u]
    BY DEF IInv, TypeOK
  <1>5. [u \in Task |-> LeasePhase(u)'] =
           [[u \in Task |-> LeasePhase(u)] EXCEPT ![t] = "returned"]
    BY <1>2, <1>3, <1>4, OnlyThisPhase
  <1> QED BY <1>2, <1>5 DEF Lease!Return

-----------------------------------------------------------------------------
(* The end of the lease *)

LEMMA RefinesReleaseSlot ==
    ASSUME IInv, NEW t \in Task, ReleaseSlot(t)
    PROVE  Lease!Report(t, how[t]) /\ how[t] \in {"ok", "cancelled", "error"}
  <1> USE DEF ReleaseSlot
  <1>1. LeasePhase(t) = "returned" /\ LeasePhase(t)' = "none"
    BY DEF IInv, TypeOK, LeasePhase, Inside
  <1>2. OwnLocksOnly(t)
    BY DEF IInv, TypeOK, OwnLocksOnly
  <1>3. \A u \in Task \ {t} : pc'[u] = pc[u] /\ conn'[u] = conn[u]
    BY DEF IInv, TypeOK
  <1>4. [u \in Task |-> LeasePhase(u)'] =
           [[u \in Task |-> LeasePhase(u)] EXCEPT ![t] = "none"]
    BY <1>1, <1>2, <1>3, OnlyThisPhase
  <1>5. how[t] \in {"ok", "cancelled", "error"}
    BY DEF IInv, TypeOK, How, InsideQuery
  <1> QED BY <1>1, <1>4, <1>5 DEF Lease!Report

(* Leaving with a closed connection, from inside or during the release.    *)
LEMMA RefinesLeave ==
    ASSUME IInv, NEW t \in Task, NEW why \in Lease!Failure \ {"busy"},
           pc[t] \in {"join", "relSession", "relSlot"},
           Leave(t, why), OwnLocksOnly(t), UNCHANGED <<slot, session>>
    PROVE  Lease!Abandon(t, why) \/ Lease!Report(t, why)
  <1> USE DEF Leave, Closed
  <1>1. LeasePhase(t) \in {"held", "lost", "returned"} /\ LeasePhase(t)' = "none"
    BY DEF IInv, TypeOK, LeasePhase, Inside
  <1>2. \A u \in Task \ {t} : pc'[u] = pc[u] /\ conn'[u] = conn[u]
    BY DEF IInv, TypeOK
  <1>3. [u \in Task |-> LeasePhase(u)'] =
           [[u \in Task |-> LeasePhase(u)] EXCEPT ![t] = "none"]
    BY <1>1, <1>2, OnlyThisPhase
  <1> QED BY <1>1, <1>3 DEF Lease!Abandon, Lease!Report

LEMMA RefinesJoinedFailed ==
    ASSUME IInv, NEW t \in Task, JoinedFailed(t)
    PROVE  \E why \in Lease!Failure \ {"busy"} : Lease!Abandon(t, why) \/ Lease!Report(t, why)
  <1> DEFINE why == IF how[t] = "lost" THEN "unavailable" ELSE how[t]
  <1>1. why \in Lease!Failure \ {"busy"}
    BY DEF IInv, TypeOK, How, JoinedFailed, Lease!Failure
  <1>2. OwnLocksOnly(t)
    BY DEF JoinedFailed, serverVars, OwnLocksOnly
  <1> QED BY <1>1, <1>2, RefinesLeave DEF JoinedFailed

LEMMA RefinesReleaseUnconfirmed ==
    ASSUME IInv, NEW t \in Task, ReleaseUnconfirmed(t)
    PROVE  \E why \in Lease!Failure \ {"busy"} : Lease!Abandon(t, why) \/ Lease!Report(t, why)
  <1>1. "unavailable" \in Lease!Failure \ {"busy"}
    BY DEF Lease!Failure
  <1>2. OwnLocksOnly(t)
    BY DEF ReleaseUnconfirmed, OwnLocksOnly, IInv, TypeOK
  <1> QED BY <1>1, <1>2, RefinesLeave DEF ReleaseUnconfirmed

-----------------------------------------------------------------------------
(* The server *)

LEMMA RefinesServerEnds ==
    ASSUME IInv, NEW C \in SUBSET Conn, ServerEnds(C)
    PROVE  \/ UNCHANGED Lease!leaseVars
           \/ \E T \in SUBSET Task : Lease!Revoke(T)
  <1> DEFINE T == {t \in Task : LeasePhase(t) = "held" /\ conn[t] \in C}
  <1> USE DEF ServerEnds, Freed, taskVars
  <1>1. ASSUME NEW t \in Task
        PROVE  LeasePhase(t)' = IF t \in T THEN "lost" ELSE LeasePhase(t)
    <2>1. CASE Inside(t)
      <3>1. conn[t] \in Conn /\ slot[t] \in Lock /\ session[t] \in Lock
        BY <2>1 DEF IInv, TypeOK, ConnUse, Inside, Lock
      <3>2. Owns(t)' <=> Owns(t) /\ conn[t] \notin C
        BY <3>1, ConnAssumption DEF Owns, IInv, TypeOK
      <3> QED BY <2>1, <3>2 DEF LeasePhase, Inside
    <2>2. CASE ~Inside(t)
      BY <2>2 DEF LeasePhase, Inside
    <2> QED BY <2>1, <2>2
  <1>2. CASE T = {}
    BY <1>1, <1>2 DEF Lease!leaseVars
  <1>3. CASE T # {}
    <2>1. Lease!Revoke(T)
      BY <1>1, <1>3 DEF Lease!Revoke
    <2> QED BY <2>1
  <1> QED BY <1>2, <1>3

LEMMA RefinesLateGetLock ==
    ASSUME IInv, NEW c \in Conn, LateGetLock(c)
    PROVE  UNCHANGED Lease!leaseVars
  <1> USE DEF LateGetLock, taskVars
  <1>1. late[c] \in Lock /\ srv[c] /\ ~up[c]
    BY DEF IInv, TypeOK, ServerSide
  <1>2. ASSUME NEW t \in Task PROVE LeasePhase(t)' = LeasePhase(t)
    <2>1. CASE Inside(t) /\ conn[t] # c
      <3>1. conn[t] # NoConn /\ slot[t] \in Lock /\ session[t] \in Lock
        BY <2>1 DEF IInv, TypeOK, ConnUse, Inside, Lock
      <3>2. Owns(t)' <=> Owns(t)
        BY <1>1, <2>1, <3>1 DEF Owns, IInv, TypeOK
      <3> QED BY <3>2 DEF LeasePhase, Inside
    <2>2. CASE Inside(t) /\ conn[t] = c
      <3>1. Owns(t)
        BY <1>1, <2>2 DEF IInv, KeepsLocks, Locks, Owns, Inside
      <3>2. conn[t] # NoConn /\ slot[t] \in Lock /\ session[t] \in Lock
        BY <2>2 DEF IInv, TypeOK, ConnUse, Inside, Lock
      <3>3. Owns(t)'
        BY <1>1, <3>1, <3>2 DEF Owns, IInv, TypeOK
      <3> QED BY <3>1, <3>3 DEF LeasePhase, Inside
    <2>3. CASE ~Inside(t)
      BY <2>3 DEF LeasePhase, Inside
    <2> QED BY <2>1, <2>2, <2>3
  <1> QED BY <1>2 DEF Lease!leaseVars

-----------------------------------------------------------------------------
LEMMA RefinesStep == IInv /\ [Next]_vars => [Lease!LeaseNext]_(Lease!leaseVars)
  <1> SUFFICES ASSUME IInv, [Next]_vars PROVE [Lease!LeaseNext]_(Lease!leaseVars)
    OBVIOUS
  <1>1. CASE UNCHANGED vars
    BY <1>1 DEF vars, Lease!leaseVars, LeasePhase, Inside, Owns
  <1>2. CASE Server
    <2>1. ASSUME NEW C \in SUBSET Conn, ServerEnds(C)
          PROVE  [Lease!LeaseNext]_(Lease!leaseVars)
      BY <2>1, RefinesServerEnds DEF Lease!LeaseNext
    <2>2. ASSUME NEW c \in Conn, LateGetLock(c)
          PROVE  [Lease!LeaseNext]_(Lease!leaseVars)
      BY <2>2, RefinesLateGetLock
    <2> QED BY <1>2, <2>1, <2>2 DEF Server, ServerDrops
  <1>3. ASSUME NEW t \in Task, Admission(t)
        PROVE  [Lease!LeaseNext]_(Lease!leaseVars)
    <2>1. ASSUME NEW s \in Session, NEW c \in Conn, Acquire(t, s, c)
          PROVE  Lease!LeaseNext
      <3>1. 0 \in Slot
        BY CapacityAssumption DEF Slot
      <3> QED BY <2>1, <3>1, RefinesAcquire DEF Lease!LeaseNext
    <2>2. ASSUME NEW why \in Lease!Failure, Lease!Refuse(t, why)
          PROVE  Lease!LeaseNext
      BY <2>2 DEF Lease!LeaseNext
    <2>3. CASE AcquireFails(t)
      BY <2>2, <2>3, RefinesAcquireFails DEF Lease!Failure
    <2>4. CASE SlotsBusy(t) \/ SessionBusy(t)
      BY <2>2, <2>4, RefinesRefusal DEF SlotsBusy, SessionBusy, serverVars, Lease!Failure
    <2>5. ASSUME NEW why \in {"unavailable", "cancelled"}, AdmissionUnconfirmed(t, why)
          PROVE  Lease!LeaseNext
      BY <2>2, <2>5, RefinesRefusal DEF AdmissionUnconfirmed, Lease!Failure
    <2>6. CASE GetSlot(t)
      <3>1. slot'[t] \in Slot /\ session[t] \in Session
        BY <2>6, CapacityAssumption DEF GetSlot, LastSlot, IInv, TypeOK, Slot
      <3> QED BY <2>6, <3>1, RefinesGetSlot DEF Lease!LeaseNext
    <2>7. CASE GetSession(t)
      BY <2>7, RefinesGetSession
    <2>8. CASE Enter(t)
      <3>1. slot[t] \in Slot /\ session[t] \in Session
        BY DEF IInv, TypeOK
      <3> QED BY <2>8, <3>1, RefinesEnter DEF Lease!LeaseNext
    <2> QED BY <1>3, <2>1, <2>3, <2>4, <2>5, <2>6, <2>7, <2>8 DEF Admission
  <1>4. ASSUME NEW t \in Task, Watchdog(t)
        PROVE  UNCHANGED Lease!leaseVars
    BY <1>4, RefinesInside DEF Watchdog
  <1>5. ASSUME NEW t \in Task, Exit(t)
        PROVE  [Lease!LeaseNext]_(Lease!leaseVars)
    <2>1. CASE CancelDuringExit(t) \/ Joined(t) \/ \E h \in How : BodyEnds(t, h)
      BY <2>1, RefinesInside
    <2>2. ASSUME NEW why \in Lease!Failure \ {"busy"},
                 Lease!Abandon(t, why) \/ Lease!Report(t, why)
          PROVE  Lease!LeaseNext
      BY <2>2 DEF Lease!LeaseNext, Lease!Failure, Lease!Outcome
    <2>3. CASE JoinedFailed(t) \/ ReleaseUnconfirmed(t)
      BY <2>2, <2>3, RefinesJoinedFailed, RefinesReleaseUnconfirmed
    <2>4. CASE ReleaseSession(t)
      BY <2>4, RefinesReleaseSession DEF Lease!LeaseNext
    <2>5. CASE ReleaseSlot(t)
      BY <2>5, RefinesReleaseSlot DEF Lease!LeaseNext, Lease!Outcome, Lease!Failure
    <2> QED BY <1>5, <2>1, <2>3, <2>4, <2>5 DEF Exit
  <1> QED BY <1>1, <1>2, <1>3, <1>4, <1>5 DEF Next

(* The coordinator implements the abstract lease, whatever the numbers.    *)
THEOREM CoordinatorImplementsLease == Spec => ImplementsLease
  BY RefinesInit, RefinesStep, Inductive, PTL DEF Spec, ImplementsLease, Lease!LeaseSpec
=============================================================================
