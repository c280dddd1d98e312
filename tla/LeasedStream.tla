---------------------------- MODULE LeasedStream ----------------------------
(***************************************************************************)
(* A streamed model call of a worker with a shared runtime: leased_stream  *)
(* of app/harness/shared_model_stream.py around the local limit and the    *)
(* deadline of app/llm/router.py.                                          *)
(*                                                                         *)
(* Two tasks share a call.  The producer owns the model lease, the local   *)
(* permit and the provider's stream, and hands the chunks over a queue of  *)
(* one.  The consumer waits for the stream to open, takes the chunks at    *)
(* its own pace and joins the producer when it is done with it, whatever   *)
(* the reason.  A lease is here taken and given back in one step each      *)
(* (Coordination.tla shows what that stands for); what may go wrong with   *)
(* it - busy, lost, a release nobody confirms - is kept.                   *)
(***************************************************************************)
EXTENDS Naturals, Sequences, FiniteSets

CONSTANTS Call,      \* the streamed calls of the worker's queries
          Slots,     \* capacity of the model coordinator
          Permits,   \* RouterConfig.max_concurrency
          MaxChunks, \* bound of the model: chunks of one stream
          Done,      \* the object done, queued at the end of the stream
          Failed     \* an exception, queued as (False, exc)

ASSUME StreamAssumption ==
    /\ {Slots, Permits, MaxChunks} \subseteq Nat \ {0}
    /\ Done # Failed /\ Done \notin 1 .. MaxChunks /\ Failed \notin 1 .. MaxChunks

VARIABLES
    producer,  \* [Call -> Producer], where produce() stands
    exc,       \* [Call -> Exc], the exception that travels through it
    cancelled, \* the calls whose producer has a cancellation to receive
    ready,     \* [Call -> Ready], the future the opening is announced on
    queue,     \* [Call -> Seq(Item)]
    sent,      \* [Call -> Nat], chunks the provider has produced
    consumer,  \* [Call -> Consumer]
    got,       \* [Call -> Nat], chunks the consumer has taken
    result,    \* [Call -> Result], what the consumer came away with
    leases,    \* calls that hold the model lease
    permits,   \* calls that hold a permit of gate("llm-calls")
    struck     \* history: [Call -> SUBSET Fault]

prodVars == <<producer, exc, sent, leases, permits>>
consVars == <<consumer, got, result>>
vars == <<producer, exc, cancelled, ready, queue, sent, consumer, got, result,
          leases, permits, struck>>

Producer == {"none", "lease", "permit", "open", "read", "put", "aclose", "release",
             "report", "end"}
Exc      == {"none", "error", "cancelled"}
Ready    == {"pending", "set", "failed", "cancelled"}
Consumer == {"idle", "ready", "busy", "get", "close", "over"}
Result   == {"none", "complete", "error", "left"}
Item     == (1 .. MaxChunks) \cup {Done, Failed}

(* Two accidents the liveness properties speak of: the deadline of the     *)
(* call expired in a blocked put(); a cancellation was swallowed by a      *)
(* release that failed.                                                    *)
Fault == {"deadline", "swallowed"}

TypeOK ==
    /\ producer \in [Call -> Producer]
    /\ exc \in [Call -> Exc]
    /\ cancelled \subseteq Call
    /\ ready \in [Call -> Ready]
    /\ queue \in [Call -> Seq(Item)] /\ \A c \in Call : Len(queue[c]) <= 1
    /\ sent \in [Call -> 0 .. MaxChunks]
    /\ consumer \in [Call -> Consumer]
    /\ got \in [Call -> 0 .. MaxChunks]
    /\ result \in [Call -> Result]
    /\ leases \subseteq Call /\ Cardinality(leases) <= Slots
    /\ permits \subseteq Call /\ Cardinality(permits) <= Permits
    /\ struck \in [Call -> SUBSET Fault]

Init ==
    /\ producer = [c \in Call |-> "none"]
    /\ exc = [c \in Call |-> "none"]
    /\ cancelled = {}
    /\ ready = [c \in Call |-> "pending"]
    /\ queue = [c \in Call |-> <<>>]
    /\ sent = [c \in Call |-> 0]
    /\ consumer = [c \in Call |-> "idle"]
    /\ got = [c \in Call |-> 0]
    /\ result = [c \in Call |-> "none"]
    /\ leases = {}
    /\ permits = {}
    /\ struck = [c \in Call |-> {}]

-----------------------------------------------------------------------------
(* Helper state formulae *)

(* The producer leaves the body of the scope with exception e.             *)
Leaves(c, where, e) ==
    /\ producer' = [producer EXCEPT ![c] = where]
    /\ exc' = [exc EXCEPT ![c] = e]

(* The producer goes on from where it waits: task.cancel() is delivered at  *)
(* the very next step of the task, before anything else it waited for.     *)
Resumes(c, where) == producer[c] = where /\ c \notin cancelled

(* close() up to its join: the producer is cancelled unless it has ended.  *)
Closes(c, r) ==
    /\ consumer' = [consumer EXCEPT ![c] = "close"]
    /\ result' = [result EXCEPT ![c] = r]
    /\ cancelled' = IF producer[c] = "end" THEN cancelled ELSE cancelled \cup {c}

-----------------------------------------------------------------------------
(* The producer *)

(* shared_model_scope: the lease is granted, or the capacity is reached,   *)
(* or the coordinator is unavailable.                                      *)
GetLease(c) ==
    /\ Resumes(c, "lease")
    /\ \/ /\ Cardinality(leases) < Slots
          /\ leases' = leases \cup {c}
          /\ producer' = [producer EXCEPT ![c] = "permit"]
          /\ UNCHANGED exc
       \/ /\ Leaves(c, "report", "error")
          /\ UNCHANGED leases
    /\ UNCHANGED <<cancelled, ready, queue, sent, consVars, permits, struck>>

GetPermit(c) ==
    /\ Resumes(c, "permit")
    /\ Cardinality(permits) < Permits
    /\ permits' = permits \cup {c}
    /\ producer' = [producer EXCEPT ![c] = "open"]
    /\ UNCHANGED <<exc, cancelled, ready, queue, sent, consVars, leases, struck>>

(* Mutant: the permit counts as handed over when the call fails.           *)
RefusedKeeps(c) ==
    /\ Resumes(c, "open")
    /\ Leaves(c, "release", "error")
    /\ UNCHANGED <<cancelled, ready, queue, sent, consVars, leases, permits, struck>>

(* The guard, the budget or the provider refuses the call, or it times     *)
(* out before the stream is open.                                          *)
Refused(c) ==
    /\ Resumes(c, "open")
    /\ permits' = permits \ {c}
    /\ Leaves(c, "release", "error")
    /\ UNCHANGED <<cancelled, ready, queue, sent, consVars, leases, struck>>

Opened(c) ==
    /\ Resumes(c, "open")
    /\ producer' = [producer EXCEPT ![c] = "read"]
    /\ ready' = [ready EXCEPT ![c] = IF @ = "pending" THEN "set" ELSE @]
    /\ UNCHANGED <<exc, cancelled, queue, sent, consVars, leases, permits, struck>>

(* The provider sends a chunk; put() waits only when the queue is full.    *)
Chunk(c) ==
    /\ Resumes(c, "read")
    /\ sent[c] < MaxChunks
    /\ sent' = [sent EXCEPT ![c] = @ + 1]
    /\ IF queue[c] = <<>>
       THEN queue' = [queue EXCEPT ![c] = <<sent'[c]>>] /\ UNCHANGED producer
       ELSE producer' = [producer EXCEPT ![c] = "put"] /\ UNCHANGED queue
    /\ UNCHANGED <<exc, cancelled, ready, consVars, leases, permits, struck>>

(* The stream ends, fails, or the deadline expires while it is read: the   *)
(* timeout is raised inside the generator and becomes an error.            *)
StreamEnds(c) ==
    /\ Resumes(c, "read")
    /\ \E e \in {"none", "error"} : Leaves(c, "aclose", e)
    /\ UNCHANGED <<cancelled, ready, queue, sent, consVars, leases, permits, struck>>

Put(c) ==
    /\ Resumes(c, "put")
    /\ queue[c] = <<>>
    /\ queue' = [queue EXCEPT ![c] = <<sent[c]>>]
    /\ producer' = [producer EXCEPT ![c] = "read"]
    /\ UNCHANGED <<exc, cancelled, ready, sent, consVars, leases, permits, struck>>

(* The deadline of observed_stream cancels the task that entered it, which *)
(* waits in put(), outside the generator: nothing turns the cancellation   *)
(* into a TimeoutError.                                                    *)
DeadlineInPut(c) ==
    /\ Resumes(c, "put")
    /\ queue[c] # <<>>
    /\ Leaves(c, "aclose", "cancelled")
    /\ struck' = [struck EXCEPT ![c] = @ \cup {"deadline"}]
    /\ UNCHANGED <<cancelled, ready, queue, sent, consVars, leases, permits>>

(* The watchdog of the lease finds it lost; its own timeout becomes        *)
(* CoordinationUnavailableError on the way out.                            *)
LeaseLost(c) ==
    /\ producer[c] \in {"permit", "open", "read", "put"} /\ c \notin cancelled
    /\ IF producer[c] \in {"read", "put"}
       THEN Leaves(c, "aclose", "error") /\ UNCHANGED permits
       ELSE Leaves(c, "release", "error") /\ permits' = permits \ {c}
    /\ UNCHANGED <<cancelled, ready, queue, sent, consVars, leases, struck>>

(* close() cancelled the producer, which receives it where it waits.       *)
Cancelled(c) ==
    /\ c \in cancelled
    /\ \/ producer[c] = "lease" /\ Leaves(c, "end", "cancelled") /\ UNCHANGED permits
       \/ producer[c] \in {"permit", "open", "aclose"} /\ Leaves(c, "release", "cancelled")
          /\ permits' = permits \ {c}
       \/ producer[c] \in {"read", "put"} /\ Leaves(c, "aclose", "cancelled")
          /\ UNCHANGED permits
       \/ producer[c] = "report" /\ Leaves(c, "end", "cancelled") /\ UNCHANGED permits
    /\ cancelled' = cancelled \ {c}
    /\ UNCHANGED <<ready, queue, sent, consVars, leases, struck>>

(* stream.aclose(): the generators give the permit back and close the      *)
(* response.                                                               *)
Aclose(c) ==
    /\ Resumes(c, "aclose")
    /\ permits' = permits \ {c}
    /\ producer' = [producer EXCEPT ![c] = "release"]
    /\ UNCHANGED <<exc, cancelled, ready, queue, sent, consVars, leases, struck>>

(* The scope is left and its release joined.  A cancellation that arrives  *)
(* meanwhile is raised when the release is confirmed, and forgotten when   *)
(* the release fails - which it always does, unheard, on the connection an *)
(* earlier failure has closed.                                             *)
Release(c) ==
    /\ producer[c] = "release"
    /\ leases' = leases \ {c}
    /\ \/ exc[c] = "none"
          /\ Leaves(c, "report", IF c \in cancelled THEN "cancelled" ELSE "none")
          /\ UNCHANGED struck
       \/ exc[c] = "none"
          /\ Leaves(c, "report", "error")
          /\ struck' = [struck EXCEPT ![c] = IF c \in cancelled THEN @ \cup {"swallowed"} ELSE @]
       \/ exc[c] # "none"
          /\ Leaves(c, "report", exc[c])
          /\ struck' = [struck EXCEPT ![c] =
                 IF c \in cancelled /\ exc[c] = "error" THEN @ \cup {"swallowed"} ELSE @]
       \/ exc[c] # "none" /\ c \in cancelled
          /\ Leaves(c, "report", "cancelled")
          /\ UNCHANGED struck
    /\ cancelled' = cancelled \ {c}
    /\ UNCHANGED <<ready, queue, sent, consVars, permits>>

(* Mutant: an error after the opening is not handed to the consumer.       *)
ReportOnlyDone(c) ==
    /\ Resumes(c, "report")
    /\ \/ exc[c] # "none" /\ ready[c] = "pending"
          /\ ready' = [ready EXCEPT ![c] = "failed"] /\ UNCHANGED queue
       \/ exc[c] # "none" /\ ready[c] # "pending" /\ UNCHANGED <<ready, queue>>
       \/ exc[c] = "none" /\ queue[c] = <<>>
          /\ queue' = [queue EXCEPT ![c] = <<Done>>] /\ UNCHANGED ready
    /\ producer' = [producer EXCEPT ![c] = "end"]
    /\ UNCHANGED <<exc, cancelled, sent, consVars, leases, permits, struck>>

(* Mutant: the end of the stream is announced whatever ended it.           *)
ReportDone(c) ==
    /\ Resumes(c, "report")
    /\ \/ exc[c] # "none" /\ ready[c] = "pending"
          /\ ready' = [ready EXCEPT ![c] = "failed"] /\ UNCHANGED queue
       \/ (exc[c] = "none" \/ ready[c] # "pending") /\ queue[c] = <<>>
          /\ queue' = [queue EXCEPT ![c] = <<Done>>] /\ UNCHANGED ready
    /\ producer' = [producer EXCEPT ![c] = "end"]
    /\ UNCHANGED <<exc, cancelled, sent, consVars, leases, permits, struck>>

(* The end of produce(): the outcome is announced on ready or through the  *)
(* queue, a cancellation is not announced at all.                          *)
Report(c) ==
    /\ Resumes(c, "report")
    /\ \/ exc[c] # "none" /\ ready[c] = "pending"
          /\ ready' = [ready EXCEPT ![c] = "failed"] /\ UNCHANGED queue
       \/ exc[c] = "cancelled" /\ ready[c] # "pending" /\ UNCHANGED <<ready, queue>>
       \/ exc[c] = "error" /\ ready[c] # "pending" /\ queue[c] = <<>>
          /\ queue' = [queue EXCEPT ![c] = <<Failed>>] /\ UNCHANGED ready
       \/ exc[c] = "none" /\ queue[c] = <<>>
          /\ queue' = [queue EXCEPT ![c] = <<Done>>] /\ UNCHANGED ready
    /\ producer' = [producer EXCEPT ![c] = "end"]
    /\ UNCHANGED <<exc, cancelled, sent, consVars, leases, permits, struck>>

-----------------------------------------------------------------------------
(* The consumer *)

Start(c) ==
    /\ consumer[c] = "idle"
    /\ consumer' = [consumer EXCEPT ![c] = "ready"]
    /\ producer' = [producer EXCEPT ![c] = "lease"]
    /\ UNCHANGED <<exc, cancelled, ready, queue, sent, got, result, leases, permits, struck>>

(* await ready returns or raises.                                          *)
Readied(c) ==
    /\ consumer[c] = "ready"
    /\ \/ ready[c] = "set" /\ consumer' = [consumer EXCEPT ![c] = "busy"]
          /\ UNCHANGED <<result, cancelled>>
       \/ ready[c] = "failed" /\ Closes(c, "error")
    /\ UNCHANGED <<prodVars, ready, queue, got, struck>>

Ask(c) ==
    /\ consumer[c] = "busy"
    /\ consumer' = [consumer EXCEPT ![c] = "get"]
    /\ UNCHANGED <<prodVars, cancelled, ready, queue, got, result, struck>>

(* __anext__ takes what is in the queue.                                   *)
Take(c) ==
    /\ consumer[c] = "get"
    /\ queue[c] # <<>>
    /\ queue' = [queue EXCEPT ![c] = <<>>]
    /\ LET item == Head(queue[c])
       IN  \/ item = Done /\ Closes(c, "complete") /\ UNCHANGED got
           \/ item = Failed /\ Closes(c, "error") /\ UNCHANGED got
           \/ item \notin {Done, Failed}
              /\ got' = [got EXCEPT ![c] = @ + 1]
              /\ consumer' = [consumer EXCEPT ![c] = "busy"]
              /\ UNCHANGED <<result, cancelled>>
    /\ UNCHANGED <<prodVars, ready, struck>>

(* The consumer is cancelled, wherever it waits, or closes the stream      *)
(* early; a cancelled wait for ready cancels the future.                   *)
Leave(c) ==
    /\ consumer[c] \in {"ready", "busy", "get"}
    /\ Closes(c, "left")
    /\ ready' = [ready EXCEPT ![c] =
           IF consumer[c] = "ready" /\ @ = "pending" THEN "cancelled" ELSE @]
    /\ UNCHANGED <<prodVars, queue, got, struck>>

(* Mutant: close() cancels the producer and does not join it.              *)
JoinedAtOnce(c) ==
    /\ consumer[c] = "close"
    /\ consumer' = [consumer EXCEPT ![c] = "over"]
    /\ cancelled' = cancelled \ {c}
    /\ UNCHANGED <<prodVars, ready, queue, got, result, struck>>

(* The join of close() returns; a cancellation of the consumer while it    *)
(* joins is raised only then and changes nothing here.                     *)
Joined(c) ==
    /\ consumer[c] = "close"
    /\ producer[c] = "end"
    /\ consumer' = [consumer EXCEPT ![c] = "over"]
    /\ cancelled' = cancelled \ {c}
    /\ UNCHANGED <<prodVars, ready, queue, got, result, struck>>

(* The next call of the same place.                                        *)
Again(c) ==
    /\ consumer[c] = "over"
    /\ consumer' = [consumer EXCEPT ![c] = "idle"]
    /\ producer' = [producer EXCEPT ![c] = "none"]
    /\ exc' = [exc EXCEPT ![c] = "none"]
    /\ ready' = [ready EXCEPT ![c] = "pending"]
    /\ queue' = [queue EXCEPT ![c] = <<>>]
    /\ sent' = [sent EXCEPT ![c] = 0]
    /\ got' = [got EXCEPT ![c] = 0]
    /\ result' = [result EXCEPT ![c] = "none"]
    /\ struck' = [struck EXCEPT ![c] = {}]
    /\ UNCHANGED <<cancelled, leases, permits>>

-----------------------------------------------------------------------------
Produce(c) ==
    \/ GetLease(c) \/ Refused(c) \/ Opened(c) \/ Chunk(c) \/ StreamEnds(c) \/ Put(c)
    \/ Cancelled(c) \/ Aclose(c) \/ Release(c) \/ Report(c)

Next ==
    \E c \in Call :
        \/ Produce(c) \/ GetPermit(c) \/ DeadlineInPut(c) \/ LeaseLost(c)
        \/ Start(c) \/ Readied(c) \/ Ask(c) \/ Take(c) \/ Leave(c) \/ Joined(c) \/ Again(c)

Spec == Init /\ [][Next]_vars

(* A task that can run does run; the provider answers or its deadline      *)
(* expires, and the deadline expires for a put() that stays blocked;       *)
(* asyncio.Semaphore serves its waiters in order, so a permit that is      *)
(* freed again and again reaches every one of them.  Nothing makes a       *)
(* consumer ask for the next chunk.                                        *)
Fairness ==
    \A c \in Call :
        /\ WF_vars(Produce(c)) /\ WF_vars(DeadlineInPut(c))
        /\ SF_vars(GetPermit(c))
        /\ WF_vars(Readied(c)) /\ WF_vars(Take(c)) /\ WF_vars(Joined(c))

FairSpec == Spec /\ Fairness

-----------------------------------------------------------------------------
(* Correctness *)

(* The provider is called under the model lease only: the permit, which    *)
(* covers the open transport, lies within the lease whatever happens to    *)
(* either task.                                                            *)
CallsAreLeased == permits \subseteq leases

(* When the consumer has its call behind it, neither the lease nor the     *)
(* permit is left with the producer (and every variable has its type).     *)
NothingIsLeft ==
    TypeOK /\ \A c \in Call : consumer[c] \in {"idle", "over"} => c \notin leases \cup permits

(* A stream the consumer saw to its end was seen whole: every chunk of the *)
(* provider, in order, before the announcement of the end.                 *)
CompleteIsWhole ==
    \A c \in Call :
        /\ result[c] = "complete" => got[c] = sent[c] /\ exc[c] = "none"
        /\ queue[c] # <<>> /\ Head(queue[c]) \notin {Done, Failed} => Head(queue[c]) = got[c] + 1

(* Every wait of the consumer ends - for the opening, for the next chunk,  *)
(* for the producer to join - but for the two accidents.  After a deadline *)
(* in a blocked put() the producer ends without a word; a cancellation     *)
(* swallowed by a failing release leaves it blocked in its last put().     *)
WaitsEnd ==
    \A c \in Call :
        /\ consumer[c] = "ready" ~> consumer[c] # "ready"
        /\ consumer[c] = "get" ~> (consumer[c] # "get" \/ "deadline" \in struck[c])
        /\ consumer[c] = "close" ~> (consumer[c] # "close" \/ "swallowed" \in struck[c])
=============================================================================
