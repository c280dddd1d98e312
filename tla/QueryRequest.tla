---------------------------- MODULE QueryRequest ----------------------------
(***************************************************************************)
(* A query request from its HTTP handler to its audit record, in a process *)
(* without a shared runtime: submit_query and submit_query_stream of       *)
(* app/api/query.py, run_query of app/workflow/query_service.py,           *)
(* finish_audit of query_audit.py, and audit_io and the bounded table of   *)
(* app/audit/store.py.  What the workflow does is its result.              *)
(*                                                                         *)
(* A streamed request has two tasks: the producer runs the query and puts  *)
(* events into a bounded queue, the response takes them out as fast as the *)
(* client reads.  The client may leave, the deadline may expire, and the   *)
(* record is written by a thread that cannot be interrupted.               *)
(***************************************************************************)
EXTENDS Naturals, Sequences, FiniteSets

CONSTANTS Request,
          Streamed,    \* requests to /query/stream, the others wait for JSON
          SessionOf,   \* [Request -> Session]
          Capacities,  \* the values max_concurrent_queries may have
          QueueSize,   \* 64 in the code
          MaxEvents,   \* bound of the model: events of one workflow
          Attempts,    \* _WRITE_ATTEMPTS
          MaxRecords   \* llm_audit_max_records

ASSUME RequestAssumption ==
    /\ Streamed \subseteq Request
    /\ Capacities \cup {QueueSize, Attempts, MaxRecords} \subseteq Nat \ {0}
    /\ MaxEvents \in Nat

VARIABLES
    run,       \* [Request -> Run], where run_query and its caller stand
    stop,      \* [Request -> Stop], a cancellation that is to be delivered
    result,    \* [Request -> Result], result or exception under way
    outcome,   \* [Request -> Outcome], audit.outcome
    capacity,  \* max_concurrent_queries, read when the process starts
    admitted,  \* requests that hold a permit of gate("query-admission")
    entered,   \* requests that hold the gate of their session
    emitted,   \* [Request -> Nat], events the workflow has put
    queue,     \* [Request -> Seq(Event)]
    seen,      \* [Request -> Event \cup {"nothing"}], the last the client got
    client,    \* [Request -> Client], the response's side
    thread,    \* [Request -> Nat], attempts the audit thread has left, 0: none
    persisted, \* [Request -> Persisted], what finish_audit returned
    audits,    \* rows of llm_usage_audit, oldest first
    written    \* history: the rows in the order they were committed

task    == <<run, stop, result, outcome>>
gates   == <<admitted, entered>>
stream  == <<emitted, queue, seen, client>>
audit   == <<thread, persisted, audits, written>>
work    == <<task, gates, stream, audit>>
requestVars == <<capacity, work>>

Run     == {"none", "start", "gate", "body", "warn", "audit", "reply", "end", "over"}
Stop    == {"no", "deadline", "client"}
Outcome == {"error", "completed", "failed", "cancelled"}
Result  == {"none", "completed", "failed", "raised", "timeout", "cancelled"}
\* "workflow_failed" is the event "error" with the code WORKFLOW_FAILED.
Event   == {"event", "workflow_failed", "done", "error", "_end"}
Client  == {"reading", "left", "closed"}

RequestTypeOK ==
    /\ capacity \in Capacities
    /\ run \in [Request -> Run]
    /\ stop \in [Request -> Stop]
    /\ result \in [Request -> Result]
    /\ outcome \in [Request -> Outcome]
    /\ admitted \subseteq {r \in Request : run[r] \in {"gate", "body", "warn", "audit"}}
    /\ entered \subseteq {r \in admitted : run[r] # "gate"}
    /\ Cardinality(admitted) <= capacity
    /\ \A r, s \in entered : SessionOf[r] = SessionOf[s] => r = s
    /\ emitted \in [Request -> 0 .. MaxEvents]
    /\ queue \in [Request -> Seq(Event)] /\ \A r \in Request : Len(queue[r]) <= QueueSize
    /\ seen \in [Request -> Event \cup {"nothing"}]
    /\ client \in [Request -> Client]
    /\ thread \in [Request -> 0 .. Attempts]
    /\ persisted \in [Request -> {"unknown", "persisted", "failed"}]
    /\ Len(audits) <= MaxRecords

RequestInit ==
    /\ run = [r \in Request |-> "none"]
    /\ stop = [r \in Request |-> "no"]
    /\ result = [r \in Request |-> "none"]
    /\ outcome = [r \in Request |-> "error"]
    /\ capacity \in Capacities
    /\ admitted = {} /\ entered = {}
    /\ emitted = [r \in Request |-> 0]
    /\ queue = [r \in Request |-> <<>>]
    /\ seen = [r \in Request |-> "nothing"]
    /\ client = [r \in Request |-> "reading"]
    /\ thread = [r \in Request |-> 0]
    /\ persisted = [r \in Request |-> "unknown"]
    /\ audits = <<>> /\ written = <<>>

-----------------------------------------------------------------------------
(* Helper state formulae *)

At(r, where) == run[r] = where /\ stop[r] = "no"

Goes(r, to) == run' = [run EXCEPT ![r] = to]

Puts(r, e) ==
    /\ Len(queue[r]) < QueueSize
    /\ queue' = [queue EXCEPT ![r] = Append(@, e)]

(* r leaves the gates it holds, and run_query, with this result.           *)
LeavesGates(r, res) ==
    /\ Goes(r, "reply")
    /\ result' = [result EXCEPT ![r] = res]
    /\ admitted' = admitted \ {r}
    /\ entered' = entered \ {r}

(* The workflow is over and the audit thread starts.                       *)
Finishes(r, res, how) ==
    /\ Goes(r, "audit")
    /\ result' = [result EXCEPT ![r] = res]
    /\ outcome' = [outcome EXCEPT ![r] = how]
    /\ thread' = [thread EXCEPT ![r] = Attempts]

(* How a cancellation of this cause arrives at the caller of run_query.    *)
Arrives(s) == IF s = "deadline" THEN "timeout" ELSE "cancelled"

-----------------------------------------------------------------------------
Submit(r) ==
    /\ run[r] = "none"
    /\ Goes(r, "start")
    /\ UNCHANGED <<stop, result, outcome, gates, stream, audit>>

(* A permit that is free is taken at once; else the request is refused.    *)
Admit(r) ==
    /\ At(r, "start")
    /\ IF Cardinality(admitted) < capacity
         THEN Goes(r, "gate") /\ admitted' = admitted \cup {r} /\ UNCHANGED result
         ELSE /\ Goes(r, "reply") /\ UNCHANGED admitted
              /\ result' = [result EXCEPT ![r] = "raised"]
    /\ UNCHANGED <<stop, outcome, entered, stream, audit>>

EnterSession(r) ==
    /\ At(r, "gate")
    /\ \A s \in entered : SessionOf[s] # SessionOf[r]
    /\ entered' = entered \cup {r}
    /\ Goes(r, "body")
    /\ UNCHANGED <<stop, result, outcome, admitted, stream, audit>>

(* The workflow publishes an event; a full queue makes it wait.            *)
Emit(r) ==
    /\ At(r, "body") /\ r \in Streamed
    /\ emitted[r] < MaxEvents
    /\ emitted' = [emitted EXCEPT ![r] = @ + 1]
    /\ Puts(r, "event")
    /\ UNCHANGED <<task, gates, seen, client, audit>>

(* The workflow completes, fails, or raises.                               *)
BodyEnds(r) ==
    /\ At(r, "body")
    /\ \/ Finishes(r, "completed", "completed")
       \/ Finishes(r, "raised", "error")
       \/ /\ Goes(r, "warn")
          /\ UNCHANGED <<result, outcome, thread>>
    /\ UNCHANGED <<stop, gates, stream, persisted, audits, written>>

(* A failed workflow publishes WORKFLOW_FAILED before it returns.          *)
Warn(r) ==
    /\ At(r, "warn")
    /\ Finishes(r, "failed", "failed")
    /\ IF r \in Streamed THEN Puts(r, "workflow_failed") ELSE UNCHANGED queue
    /\ UNCHANGED <<stop, gates, emitted, seen, client, persisted, audits, written>>

-----------------------------------------------------------------------------
(* Cancellation *)

(* query_timeout_seconds have passed and run_query has not returned.       *)
Deadline(r) ==
    /\ run[r] \in {"gate", "body", "warn", "audit"}
    /\ stop[r] = "no" /\ result[r] # "timeout"
    /\ stop' = [stop EXCEPT ![r] = "deadline"]
    /\ UNCHANGED <<run, result, outcome, gates, stream, audit>>

(* The client is gone: the response is closed, cancels the producer and    *)
(* waits for it.                                                           *)
Leave(r) ==
    /\ r \in Streamed /\ client[r] = "reading" /\ run[r] # "none"
    /\ client' = [client EXCEPT ![r] = "left"]
    /\ stop' = [stop EXCEPT ![r] = IF run[r] = "over" THEN "no" ELSE "client"]
    /\ UNCHANGED <<run, result, outcome, gates, emitted, queue, seen, audit>>

(* A cancellation is delivered where nothing has to be written any more.   *)
CancelledOutside(r) ==
    /\ stop[r] # "no" /\ run[r] \in {"start", "gate"}
    /\ LeavesGates(r, Arrives(stop[r]))
    /\ stop' = [stop EXCEPT ![r] = IF @ = "deadline" THEN "no" ELSE @]
    /\ UNCHANGED <<outcome, stream, audit>>

(* In the workflow: the audit is still written.                            *)
CancelledInBody(r) ==
    /\ stop[r] # "no" /\ run[r] \in {"body", "warn"}
    /\ Finishes(r, Arrives(stop[r]), "cancelled")
    /\ stop' = [stop EXCEPT ![r] = IF @ = "deadline" THEN "no" ELSE @]
    /\ UNCHANGED <<gates, stream, persisted, audits, written>>

(* Mutant: a cancelled request does not wait for the audit thread.         *)
AuditedAtOnce(r) ==
    /\ run[r] = "audit" /\ (thread[r] = 0 \/ stop[r] # "no")
    /\ LeavesGates(r, IF stop[r] = "no" THEN result[r] ELSE Arrives(stop[r]))
    /\ stop' = [stop EXCEPT ![r] = IF @ = "deadline" THEN "no" ELSE @]
    /\ UNCHANGED <<outcome, stream, audit>>

(* The audit thread is done: the gates are left, with the cancellation     *)
(* that arrived meanwhile if there was one.                                *)
Audited(r) ==
    /\ run[r] = "audit" /\ thread[r] = 0
    /\ LeavesGates(r, IF stop[r] = "no" THEN result[r] ELSE Arrives(stop[r]))
    /\ stop' = [stop EXCEPT ![r] = IF @ = "deadline" THEN "no" ELSE @]
    /\ UNCHANGED <<outcome, stream, audit>>

-----------------------------------------------------------------------------
(* The audit thread *)

Record(r) == [query |-> r, outcome |-> outcome[r]]

Newest(s) == SubSeq(s, IF Len(s) > MaxRecords THEN Len(s) - MaxRecords + 1 ELSE 1, Len(s))

(* One transaction inserts the record and keeps the newest ones.           *)
Store(r) ==
    /\ thread[r] > 0
    /\ audits' = Newest(Append(audits, Record(r)))
    /\ written' = Append(written, Record(r))
    /\ thread' = [thread EXCEPT ![r] = 0]
    /\ persisted' = [persisted EXCEPT ![r] = "persisted"]
    /\ UNCHANGED <<task, gates, stream>>

(* The database is locked: nothing is stored and the thread tries again,   *)
(* or gives up.                                                            *)
StoreFails(r) ==
    /\ thread[r] > 0
    /\ \E n \in {0, thread[r] - 1} :
          /\ thread' = [thread EXCEPT ![r] = n]
          /\ persisted' = [persisted EXCEPT ![r] = IF n = 0 THEN "failed" ELSE @]
    /\ UNCHANGED <<task, gates, stream, audits, written>>

-----------------------------------------------------------------------------
(* The answer *)

(* Mutant: the deadline covers the answer as well and may strike after it. *)
ReplyUnderDeadline(r) ==
    /\ run[r] = "reply"
    /\ IF r \notin Streamed \/ result[r] = "cancelled" \/ stop[r] = "client"
         THEN Goes(r, "over") /\ UNCHANGED <<queue, result>>
         ELSE /\ Puts(r, IF result[r] \in {"completed", "failed"} THEN "done" ELSE "error")
              /\ \/ Goes(r, "end") /\ UNCHANGED result
                 \/ /\ result[r] \in {"completed", "failed"} /\ UNCHANGED run
                    /\ result' = [result EXCEPT ![r] = "timeout"]
    /\ UNCHANGED <<stop, outcome, gates, emitted, seen, client, audit>>

(* The verdict goes to the client: the result, or the error.  A producer   *)
(* that was cancelled says nothing.                                        *)
Reply(r) ==
    /\ run[r] = "reply"
    /\ IF r \notin Streamed \/ result[r] = "cancelled" \/ stop[r] = "client"
         THEN Goes(r, "over") /\ UNCHANGED queue
         ELSE /\ Goes(r, "end")
              /\ Puts(r, IF result[r] \in {"completed", "failed"} THEN "done" ELSE "error")
    /\ UNCHANGED <<stop, result, outcome, gates, emitted, seen, client, audit>>

(* Mutant: the end is announced only after a result.                       *)
EndAfterDone(r) ==
    /\ run[r] = "end"
    /\ Goes(r, "over")
    /\ IF stop[r] = "client" \/ result[r] \notin {"completed", "failed"}
         THEN UNCHANGED queue ELSE Puts(r, "_end")
    /\ UNCHANGED <<stop, result, outcome, gates, emitted, seen, client, audit>>

AnnounceEnd(r) ==
    /\ run[r] = "end"
    /\ Goes(r, "over")
    /\ IF stop[r] = "client" THEN UNCHANGED queue ELSE Puts(r, "_end")
    /\ UNCHANGED <<stop, result, outcome, gates, emitted, seen, client, audit>>

Read(r) ==
    /\ client[r] = "reading" /\ queue[r] # <<>>
    /\ seen' = [seen EXCEPT ![r] = Head(queue[r])]
    /\ queue' = [queue EXCEPT ![r] = Tail(@)]
    /\ client' = [client EXCEPT ![r] = IF Head(queue[r]) = "_end" THEN "closed" ELSE @]
    /\ UNCHANGED <<task, gates, emitted, audit>>

(* The closed response has waited for its producer.                        *)
Close(r) ==
    /\ client[r] = "left" /\ run[r] = "over"
    /\ client' = [client EXCEPT ![r] = "closed"]
    /\ UNCHANGED <<task, gates, emitted, queue, seen, audit>>

Producer(r) ==
    \/ Admit(r) \/ EnterSession(r) \/ Emit(r) \/ BodyEnds(r) \/ Warn(r)
    \/ CancelledOutside(r) \/ CancelledInBody(r) \/ Audited(r) \/ Reply(r) \/ AnnounceEnd(r)

RequestNext ==
    /\ UNCHANGED capacity
    /\ \E r \in Request :
          Submit(r) \/ Producer(r) \/ Deadline(r) \/ Leave(r) \/ Store(r) \/ StoreFails(r)
          \/ Read(r) \/ Close(r)

RequestSpec == RequestInit /\ [][RequestNext]_requestVars

(* Tasks that are ready run, a thread ends, a deadline expires.  Workflows *)
(* need not end by themselves, and clients need neither read nor leave.    *)
FairSpec ==
    /\ RequestSpec
    /\ \A r \in Request :
          /\ WF_work(Admit(r)) /\ WF_work(CancelledOutside(r) \/ CancelledInBody(r))
          /\ WF_work(Audited(r)) /\ WF_work(Reply(r)) /\ WF_work(AnnounceEnd(r)) /\ WF_work(Close(r))
          /\ WF_work(Store(r) \/ StoreFails(r)) /\ WF_work(Deadline(r))

-----------------------------------------------------------------------------
(* Properties *)

Rank(e) == CASE e \in {"nothing", "event"} -> 0 [] e = "workflow_failed" -> 1
             [] e \in {"done", "error"} -> 2 [] OTHER -> 3

(* What the client has got and will get from the queue comes in order: the *)
(* workflow's events, its failure, one verdict, the end; a request that    *)
(* was cut off at any point never gets two verdicts or one after the end.  *)
OneVerdict == \A r \in Request :
    LET s == <<seen[r]>> \o queue[r]
    IN  \A i \in 1 .. Len(s) - 1 :
           \/ Rank(s[i]) < Rank(s[i + 1])
           \/ Rank(s[i]) = 0 /\ Rank(s[i + 1]) = 0

(* The table holds the newest records, one for each query that came into   *)
(* its session; a query that is told that its record is persisted has one, *)
(* with the status it is told, unless later ones have pushed it out.       *)
(* Nobody who is through has left an audit thread behind, or a permit.     *)
(* (And every variable has its type.)                                      *)
AuditIsHonest ==
    /\ RequestTypeOK
    /\ audits = Newest(written)
    /\ \A i, j \in DOMAIN written : written[i].query = written[j].query => i = j
    /\ \A r \in Request : /\ result[r] \in {"completed", "failed"}
                          /\ persisted[r] = "persisted"
                          => \E i \in DOMAIN written : written[i] = [query |-> r, outcome |-> result[r]]
    /\ \A r \in Request : run[r] \in {"reply", "end", "over"} =>
                              thread[r] = 0 /\ r \notin admitted \cup entered

(* However slowly a client reads, the permits and the session come free,   *)
(* and a client that leaves is let go: neither a full queue nor a thread   *)
(* that writes holds a request for ever.  A client that keeps reading      *)
(* reaches the end of its stream.                                          *)
RequestsLetGo ==
    /\ \A r \in Request : r \in admitted ~> r \notin admitted
    /\ \A r \in Request : client[r] = "left" ~> client[r] = "closed"
    /\ (\A r \in Streamed : WF_work(Read(r))) =>
           \A r \in Streamed : run[r] = "start" ~> client[r] = "closed"
=============================================================================
