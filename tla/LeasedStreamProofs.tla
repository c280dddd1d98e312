------------------------- MODULE LeasedStreamProofs -------------------------
(***************************************************************************)
(* Proofs about LeasedStream.tla, for any streams, capacities and numbers  *)
(* of chunks.                                                              *)
(***************************************************************************)
EXTENDS LeasedStream, FiniteSetTheorems, TLAPS

Leased    == {"permit", "open", "read", "put", "aclose", "release"}
Permitted == {"open", "read", "put", "aclose"}
Sending   == {"none", "lease", "permit", "open", "read", "put"}

Waiting(c) == IF \E i \in 1 .. MaxChunks : queue[c] = <<i>> THEN 1 ELSE 0
InHand(c)  == IF producer[c] = "put" THEN 1 ELSE 0

(* The lease and the permit are the producer's, by the await it stands at; *)
(* a reader that has joined it finds it at its end.                        *)
Owned(c) ==
    /\ c \in leases <=> producer[c] \in Leased
    /\ c \in permits <=> producer[c] \in Permitted
    /\ consumer[c] = "idle" => producer[c] = "none"
    /\ consumer[c] = "over" => producer[c] = "end"

(* As long as nothing has gone wrong every chunk sent is taken, in the     *)
(* queue or in the producer's hands; what is in the queue comes next; and  *)
(* the end is announced by a producer that has ended well.                 *)
Flows(c) ==
    /\ producer[c] \in Sending => exc[c] = "none"
    /\ queue[c] = <<>> \/ \E x \in Item : queue[c] = <<x>>
    /\ exc[c] = "none" => sent[c] = got[c] + Waiting(c) + InHand(c)
    /\ \A i \in 1 .. MaxChunks : queue[c] = <<i>> => i = got[c] + 1
    /\ queue[c] = <<Done>> => producer[c] = "end" /\ exc[c] = "none"
    /\ result[c] = "complete" =>
          /\ consumer[c] \in {"close", "over"} /\ producer[c] = "end" /\ exc[c] = "none"
          /\ queue[c] = <<>>

Typed ==
    /\ producer \in [Call -> Producer]
    /\ exc \in [Call -> Exc]
    /\ cancelled \subseteq Call
    /\ ready \in [Call -> Ready]
    /\ queue \in [Call -> Seq(Item)]
    /\ sent \in [Call -> 0 .. MaxChunks]
    /\ consumer \in [Call -> Consumer]
    /\ got \in [Call -> 0 .. MaxChunks]
    /\ result \in [Call -> Result]
    /\ leases \subseteq Call /\ permits \subseteq Call
    /\ struck \in [Call -> SUBSET Fault]

Counted ==
    /\ IsFiniteSet(leases) /\ Cardinality(leases) <= Slots
    /\ IsFiniteSet(permits) /\ Cardinality(permits) <= Permits

StreamInv == Typed /\ Counted /\ \A c \in Call : Owned(c) /\ Flows(c)

-----------------------------------------------------------------------------
(* One step, one call *)

(* A step of c leaves the other calls alone.                               *)
OthersKept(c) ==
    \A d \in Call \ {c} :
        /\ producer'[d] = producer[d] /\ exc'[d] = exc[d]
        /\ queue'[d] = queue[d] /\ sent'[d] = sent[d]
        /\ consumer'[d] = consumer[d] /\ got'[d] = got[d] /\ result'[d] = result[d]
        /\ d \in leases' <=> d \in leases
        /\ d \in permits' <=> d \in permits

LEMMA OnlyOneCall ==
  ASSUME StreamInv, NEW c \in Call, Typed', Counted', OthersKept(c), Owned(c)', Flows(c)'
  PROVE  StreamInv'
<1>1. ASSUME NEW d \in Call \ {c} PROVE Owned(d)' /\ Flows(d)'
  <2>1. Owned(d) /\ Flows(d)
    BY DEF StreamInv
  <2>2. /\ producer'[d] = producer[d] /\ exc'[d] = exc[d]
        /\ queue'[d] = queue[d] /\ sent'[d] = sent[d]
        /\ consumer'[d] = consumer[d] /\ got'[d] = got[d] /\ result'[d] = result[d]
        /\ d \in leases' <=> d \in leases
        /\ d \in permits' <=> d \in permits
    BY DEF OthersKept
  <2> QED
    BY <2>1, <2>2 DEF Owned, Flows, Waiting, InHand
<1> QED
  BY <1>1 DEF StreamInv

LEMMA SameCounts ==
  ASSUME Counted, leases' \subseteq leases, permits' \subseteq permits
  PROVE  Counted'
BY FS_Subset, FS_CardinalityType, StreamAssumption DEF Counted

LEMMA OneMoreCount ==
  ASSUME NEW S, NEW c, NEW n \in Nat, IsFiniteSet(S), Cardinality(S) < n
  PROVE  IsFiniteSet(S \cup {c}) /\ Cardinality(S \cup {c}) <= n
<1>1. /\ IsFiniteSet(S \cup {c}) /\ Cardinality(S) \in Nat
      /\ Cardinality(S \cup {c}) = IF c \in S THEN Cardinality(S) ELSE Cardinality(S) + 1
  BY FS_AddElement, FS_CardinalityType
<1> QED
  BY <1>1

(* Items are told apart.                                                   *)
LEMMA Items ==
  /\ Done \in Item /\ Failed \in Item /\ Done # Failed
  /\ \A i \in 1 .. MaxChunks : i \in Item /\ i # Done /\ i # Failed
  /\ \A x \in Item : x \in 1 .. MaxChunks \/ x = Done \/ x = Failed
  /\ \A x, y : <<x>> = <<y>> => x = y
  /\ \A x : <<x>> # <<>> /\ Head(<<x>>) = x
  /\ \A x \in Item : <<x>> \in Seq(Item)
  /\ <<>> \in Seq(Item) /\ MaxChunks \in Nat
BY StreamAssumption DEF Item

-----------------------------------------------------------------------------
(* The producer *)

LEMMA GetLeaseInv ==
  ASSUME StreamInv, NEW c \in Call, GetLease(c)
  PROVE  StreamInv'
<1> USE DEF StreamInv
<1>1. Owned(c) /\ Flows(c)
  OBVIOUS
<1>2. Typed' /\ OthersKept(c) /\ Owned(c)' /\ Flows(c)'
  BY <1>1 DEF GetLease, Resumes, Leaves, consVars, Typed, OthersKept, Owned, Flows, Waiting,
     InHand, Leased, Permitted, Sending, Producer, Exc
<1>3. Counted'
  <2>1. CASE Cardinality(leases) < Slots /\ leases' = leases \cup {c}
    BY <2>1, OneMoreCount, StreamAssumption DEF GetLease, Counted
  <2>2. CASE UNCHANGED leases
    BY <2>2 DEF GetLease, Counted
  <2> QED
    BY <2>1, <2>2 DEF GetLease
<1> QED
  BY <1>2, <1>3, OnlyOneCall

LEMMA GetPermitInv ==
  ASSUME StreamInv, NEW c \in Call, GetPermit(c)
  PROVE  StreamInv'
<1> USE DEF StreamInv
<1>1. Owned(c) /\ Flows(c)
  OBVIOUS
<1>2. Typed' /\ OthersKept(c) /\ Owned(c)' /\ Flows(c)'
  BY <1>1 DEF GetPermit, Resumes, consVars, Typed, OthersKept, Owned, Flows, Waiting,
     InHand, Leased, Permitted, Sending, Producer
<1>3. Counted'
  BY OneMoreCount, StreamAssumption DEF GetPermit, Counted
<1> QED
  BY <1>2, <1>3, OnlyOneCall

(* The producer goes on to another await and gives its lease or permit     *)
(* back; the queue and the reader are left as they are.                    *)
Moves(c) ==
    /\ producer' = [producer EXCEPT ![c] = producer'[c]] /\ producer'[c] \in Producer
    /\ exc' = [exc EXCEPT ![c] = exc'[c]] /\ exc'[c] \in Exc
    /\ cancelled' \subseteq cancelled
    /\ struck' \in [Call -> SUBSET Fault] /\ ready' \in [Call -> Ready]
    /\ leases' \in {leases, leases \ {c}} /\ permits' \in {permits, permits \ {c}}
    /\ UNCHANGED <<queue, sent, consVars>>

LEMMA MovesInv ==
  ASSUME StreamInv, NEW c \in Call, Moves(c),
         producer[c] \in Leased \cup {"lease", "report"},
         c \in leases' <=> producer'[c] \in Leased,
         c \in permits' <=> producer'[c] \in Permitted,
         producer'[c] # "none",
         exc'[c] = "none" => exc[c] = "none" /\ InHand(c)' = InHand(c),
         producer'[c] \in Sending => exc'[c] = "none"
  PROVE  StreamInv'
<1> USE DEF StreamInv
<1>1. Owned(c) /\ Flows(c) /\ producer[c] # "end" /\ producer[c] # "none"
  BY DEF Leased
<1>2. Typed' /\ OthersKept(c)
  BY DEF Moves, consVars, Typed, OthersKept
<1>3. Owned(c)'
  BY <1>1 DEF Owned, Moves, consVars
<1>4. Flows(c)'
  BY <1>1 DEF Flows, Waiting, Moves, consVars
<1>5. Counted'
  BY SameCounts DEF Moves
<1> QED
  BY <1>2, <1>3, <1>4, <1>5, OnlyOneCall

(* The producer leaves for a reason: for the end if it had no lease any     *)
(* more, or for its release, by way of aclose() while it has the permit.   *)
LEMMA LeavesInv ==
  ASSUME StreamInv, NEW c \in Call,
         NEW where \in {"aclose", "release", "end"}, NEW e \in {"error", "cancelled"},
         Leaves(c, where, e),
         where = "aclose" => producer[c] \in Permitted /\ permits' = permits,
         where = "release" => producer[c] \in Leased /\ permits' = permits \ {c},
         where = "end" => producer[c] \in {"lease", "report"} /\ permits' = permits,
         cancelled' \subseteq cancelled, struck' \in [Call -> SUBSET Fault],
         ready' \in [Call -> Ready], UNCHANGED <<queue, sent, consVars, leases>>
  PROVE  StreamInv'
<1>1. /\ producer' = [producer EXCEPT ![c] = where] /\ producer'[c] = where
      /\ exc' = [exc EXCEPT ![c] = e] /\ exc'[c] = e
  BY DEF StreamInv, Typed, Leaves
<1>2. where \in Producer /\ e \in Exc /\ where \notin Sending /\ where # "none"
  BY DEF Producer, Exc, Sending
<1>3. producer[c] \in Leased \cup {"lease", "report"}
  BY DEF Leased, Permitted
<1>4. Moves(c)
  BY <1>1, <1>2 DEF Moves
<1>5. (c \in leases <=> producer[c] \in Leased) /\ (c \in permits <=> producer[c] \in Permitted)
  BY DEF StreamInv, Owned
<1>6. c \in leases' <=> producer'[c] \in Leased
  BY <1>1, <1>5 DEF Leased, Permitted
<1>7. c \in permits' <=> producer'[c] \in Permitted
  BY <1>1, <1>5 DEF Permitted
<1> QED
  BY <1>1, <1>2, <1>3, <1>4, <1>6, <1>7, MovesInv

LEMMA MovingInv ==
  ASSUME StreamInv, NEW c \in Call,
         \/ Refused(c) \/ Opened(c) \/ StreamEnds(c) \/ DeadlineInPut(c) \/ LeaseLost(c)
         \/ Cancelled(c) \/ Aclose(c) \/ Release(c)
  PROVE  StreamInv'
<1> USE DEF StreamInv
<1>1. Owned(c) /\ Flows(c)
  OBVIOUS
<1>2. CASE Refused(c)
  <2>1. /\ producer[c] = "open" /\ Leaves(c, "release", "error") /\ permits' = permits \ {c}
        /\ UNCHANGED <<cancelled, ready, queue, sent, consVars, leases, struck>>
    BY <1>2 DEF Refused, Resumes
  <2> QED
    BY <2>1, LeavesInv DEF Leased, Typed
<1>3. CASE Opened(c)
  <2>1. /\ producer[c] = "open" /\ producer' = [producer EXCEPT ![c] = "read"] /\ exc[c] = "none"
        /\ UNCHANGED <<exc, cancelled, queue, sent, consVars, leases, permits, struck>>
        /\ ready' \in [Call -> Ready]
    BY <1>1, <1>3 DEF Opened, Resumes, Typed, Flows, Sending, Ready
  <2> QED
    BY <1>1, <2>1, MovesInv DEF Moves, Typed, Owned, Leased, Permitted, InHand, Producer, Exc, consVars
<1>4. CASE StreamEnds(c)
  <2>1. /\ producer[c] = "read" /\ producer' = [producer EXCEPT ![c] = "aclose"] /\ exc[c] = "none"
        /\ UNCHANGED <<cancelled, ready, queue, sent, consVars, leases, permits, struck>>
    BY <1>1, <1>4 DEF StreamEnds, Resumes, Leaves, Flows, Sending
  <2>2. exc' = [exc EXCEPT ![c] = exc'[c]] /\ exc'[c] \in Exc
    BY <1>4 DEF StreamEnds, Leaves, Typed, Exc
  <2>3. producer'[c] = "aclose"
    BY <2>1 DEF Typed
  <2> QED
    BY <1>1, <2>1, <2>2, <2>3, MovesInv DEF Moves, Typed, Owned, Leased, Permitted, Sending,
       InHand, Producer, consVars
<1>5. CASE DeadlineInPut(c)
  <2>1. /\ producer[c] = "put" /\ Leaves(c, "aclose", "cancelled")
        /\ UNCHANGED <<cancelled, ready, queue, sent, consVars, leases, permits>>
    BY <1>5 DEF DeadlineInPut, Resumes
  <2>2. struck' \in [Call -> SUBSET Fault]
    BY <1>5 DEF DeadlineInPut, Typed, Fault
  <2> QED
    BY <2>1, <2>2, LeavesInv DEF Permitted, Typed
<1>6. CASE LeaseLost(c)
  <2>1. \/ /\ producer[c] \in {"read", "put"} /\ permits' = permits
           /\ Leaves(c, "aclose", "error")
        \/ /\ producer[c] \in {"permit", "open"} /\ permits' = permits \ {c}
           /\ Leaves(c, "release", "error")
    BY <1>6 DEF LeaseLost
  <2>2. UNCHANGED <<cancelled, ready, queue, sent, consVars, leases, struck>>
    BY <1>6 DEF LeaseLost
  <2> QED
    BY <2>1, <2>2, LeavesInv DEF Leased, Permitted, Typed
<1>7. CASE Cancelled(c)
  <2>1. \/ /\ producer[c] \in {"read", "put"} /\ permits' = permits
           /\ Leaves(c, "aclose", "cancelled")
        \/ /\ producer[c] \in {"permit", "open", "aclose"} /\ permits' = permits \ {c}
           /\ Leaves(c, "release", "cancelled")
        \/ /\ producer[c] \in {"lease", "report"} /\ permits' = permits
           /\ Leaves(c, "end", "cancelled")
    BY <1>7 DEF Cancelled
  <2>2. /\ cancelled' = cancelled \ {c}
        /\ UNCHANGED <<ready, queue, sent, consVars, leases, struck>>
    BY <1>7 DEF Cancelled
  <2> QED
    BY <2>1, <2>2, LeavesInv DEF Leased, Permitted, Typed
<1>8. CASE Aclose(c)
  BY <1>1, <1>8, MovesInv DEF Aclose, Resumes, Moves, Typed, Owned, Leased,
     Permitted, Sending, InHand, Producer, consVars
<1>9. CASE Release(c)
  <2>1. /\ producer[c] = "release" /\ producer' = [producer EXCEPT ![c] = "report"]
        /\ cancelled' = cancelled \ {c} /\ leases' = leases \ {c}
        /\ UNCHANGED <<ready, queue, sent, consVars, permits>>
    BY <1>9 DEF Release, Leaves
  <2>2. /\ exc' = [exc EXCEPT ![c] = exc'[c]] /\ exc'[c] \in Exc
        /\ exc'[c] = "none" => exc[c] = "none"
    BY <1>9 DEF Release, Leaves, Typed, Exc
  <2>3. struck' \in [Call -> SUBSET Fault]
    <3>1. \E f \in {struck[c], struck[c] \cup {"swallowed"}} : struck' = [struck EXCEPT ![c] = f]
      BY <1>9 DEF Release, Typed
    <3> QED
      BY <3>1 DEF Typed, Fault
  <2> QED
    BY <1>1, <2>1, <2>2, <2>3, MovesInv DEF Moves, Typed, Owned, Leased, Permitted, Sending,
       InHand, Producer, consVars
<1> QED
  BY <1>2, <1>3, <1>4, <1>5, <1>6, <1>7, <1>8, <1>9

LEMMA ChunkInv ==
  ASSUME StreamInv, NEW c \in Call, Chunk(c)
  PROVE  StreamInv'
<1> USE DEF StreamInv
<1>1. /\ Owned(c) /\ Flows(c) /\ producer[c] = "read" /\ exc[c] = "none"
      /\ sent' = [sent EXCEPT ![c] = sent[c] + 1] /\ sent[c] + 1 \in 1 .. MaxChunks
      /\ sent[c] \in Nat /\ got[c] \in Nat
      /\ UNCHANGED <<exc, cancelled, ready, consVars, leases, permits, struck>>
  BY StreamAssumption DEF Chunk, Resumes, Typed, Flows, Sending
<1>2. CASE queue[c] = <<>>
  <2>1. queue' = [queue EXCEPT ![c] = <<sent[c] + 1>>] /\ UNCHANGED producer
    BY <1>1, <1>2 DEF Chunk, Typed
  <2>2. Typed' /\ OthersKept(c) /\ Owned(c)'
    BY <1>1, <2>1, Items DEF Typed, OthersKept, Owned, consVars
  <2>3. Waiting(c) = 0 /\ InHand(c) = 0
    BY <1>1, <1>2, Items DEF Waiting, InHand
  <2>4. queue'[c] = <<sent[c] + 1>> /\ Waiting(c)' = 1 /\ InHand(c)' = 0
    BY <1>1, <2>1 DEF Waiting, InHand, Typed
  <2>5. Flows(c)'
    BY <1>1, <2>1, <2>3, <2>4, Items DEF Flows, Typed, consVars
  <2> QED
    BY <1>1, <2>2, <2>5, SameCounts, OnlyOneCall
<1>3. CASE queue[c] # <<>>
  <2>1. UNCHANGED queue /\ producer' = [producer EXCEPT ![c] = "put"]
    BY <1>1, <1>3 DEF Chunk
  <2>2. Typed' /\ OthersKept(c) /\ Owned(c)'
    BY <1>1, <2>1 DEF Typed, OthersKept, Owned, consVars, Producer, Leased, Permitted
  <2>3. Flows(c)'
    BY <1>1, <2>1 DEF Flows, Waiting, InHand, Typed, Sending, consVars
  <2> QED
    BY <1>1, <2>2, <2>3, SameCounts, OnlyOneCall
<1> QED
  BY <1>2, <1>3

LEMMA PutInv ==
  ASSUME StreamInv, NEW c \in Call, Put(c)
  PROVE  StreamInv'
<1> USE DEF StreamInv
<1>1. /\ Owned(c) /\ Flows(c) /\ producer[c] = "put" /\ exc[c] = "none" /\ queue[c] = <<>>
      /\ queue' = [queue EXCEPT ![c] = <<sent[c]>>]
      /\ producer' = [producer EXCEPT ![c] = "read"]
      /\ sent[c] \in 0 .. MaxChunks /\ got[c] \in 0 .. MaxChunks
      /\ UNCHANGED <<exc, cancelled, ready, sent, consVars, leases, permits, struck>>
  BY DEF Put, Resumes, Typed, Flows, Sending
<1>2. Waiting(c) = 0 /\ InHand(c) = 1
  BY <1>1, Items DEF Waiting, InHand
<1>3. sent[c] = got[c] + 1 /\ sent[c] \in 1 .. MaxChunks
  BY <1>1, <1>2, Items DEF Flows
<1>4. Typed' /\ OthersKept(c) /\ Owned(c)'
  BY <1>1, <1>3, Items DEF Typed, OthersKept, Owned, consVars, Producer, Leased, Permitted
<1>5. queue'[c] = <<sent[c]>> /\ Waiting(c)' = 1 /\ InHand(c)' = 0 /\ producer'[c] = "read"
  BY <1>1, <1>3 DEF Waiting, InHand, Typed
<1>6. Flows(c)'
  BY <1>1, <1>3, <1>5, Items DEF Flows, Typed, consVars
<1> QED
  BY <1>1, <1>4, <1>6, SameCounts, OnlyOneCall

LEMMA ReportInv ==
  ASSUME StreamInv, NEW c \in Call, Report(c)
  PROVE  StreamInv'
<1> USE DEF StreamInv
<1>1. /\ Owned(c) /\ Flows(c) /\ producer[c] = "report"
      /\ producer' = [producer EXCEPT ![c] = "end"]
      /\ UNCHANGED <<exc, cancelled, sent, consVars, leases, permits, struck>>
      /\ exc[c] \in Exc /\ ready' \in [Call -> Ready]
  BY DEF Report, Resumes, Typed, Ready
<1>2. PICK q \in {queue[c], <<Done>>, <<Failed>>} :
         /\ queue' = [queue EXCEPT ![c] = q]
         /\ q # queue[c] => queue[c] = <<>>
         /\ q = <<Done>> => exc[c] = "none" \/ q = queue[c]
  BY <1>1, Items DEF Report, Typed, Exc
<1>3. queue[c] # <<Done>>
  BY <1>1 DEF Flows
<1>4. Typed' /\ OthersKept(c) /\ Owned(c)'
  BY <1>1, <1>2, Items DEF Typed, OthersKept, Owned, consVars, Producer, Leased, Permitted
<1>5. queue'[c] = q /\ producer'[c] = "end" /\ Waiting(c)' = Waiting(c)
  BY <1>1, <1>2, Items DEF Waiting, Typed
<1>6. Flows(c)'
  BY <1>1, <1>2, <1>3, <1>5, Items DEF Flows, InHand, Typed, consVars, Sending
<1> QED
  BY <1>1, <1>4, <1>6, SameCounts, OnlyOneCall

-----------------------------------------------------------------------------
(* The reader *)

(* A step of the reader that ends no stream.                               *)
LEMMA ReadsInv ==
  ASSUME StreamInv, NEW c \in Call, NEW where \in {"busy", "get", "close"},
         consumer[c] \notin {"idle", "close", "over"},
         consumer' = [consumer EXCEPT ![c] = where],
         result' = [result EXCEPT ![c] = result'[c]], result'[c] \in Result \ {"complete"},
         cancelled' \in {cancelled, cancelled \cup {c}}, ready' \in [Call -> Ready],
         UNCHANGED <<prodVars, queue, got, struck>>
  PROVE  StreamInv'
<1> USE DEF StreamInv
<1>1. Owned(c) /\ Flows(c)
  OBVIOUS
<1>2. Typed' /\ OthersKept(c) /\ Owned(c)' /\ Flows(c)'
  BY <1>1 DEF Typed, OthersKept, Owned, Flows, Waiting, InHand, prodVars, Consumer
<1>3. Counted'
  BY SameCounts DEF prodVars
<1> QED
  BY <1>2, <1>3, OnlyOneCall

LEMMA ReadingInv ==
  ASSUME StreamInv, NEW c \in Call, Readied(c) \/ Ask(c) \/ Leave(c)
  PROVE  StreamInv'
<1> USE DEF StreamInv
<1>1. Owned(c) /\ Flows(c) /\ (result[c] # "complete" \/ consumer[c] \in {"close", "over"})
  BY DEF Flows
<1>2. CASE Readied(c)
  BY <1>1, <1>2, ReadsInv DEF Readied, Closes, Typed, Result
<1>3. CASE Ask(c)
  BY <1>1, <1>3, ReadsInv DEF Ask, Typed, Result
<1>4. CASE Leave(c)
  <2>1. ready' \in [Call -> Ready]
    BY <1>4 DEF Leave, Typed, Ready
  <2> QED
    BY <1>1, <1>4, <2>1, ReadsInv DEF Leave, Closes, Typed, Result
<1> QED
  BY <1>2, <1>3, <1>4

LEMMA TakeInv ==
  ASSUME StreamInv, NEW c \in Call, Take(c)
  PROVE  StreamInv'
<1> USE DEF StreamInv
<1>1. /\ Owned(c) /\ Flows(c) /\ consumer[c] = "get" /\ queue[c] # <<>>
      /\ queue' = [queue EXCEPT ![c] = <<>>] /\ result[c] # "complete"
      /\ UNCHANGED <<prodVars, ready, struck>>
      /\ got[c] \in 0 .. MaxChunks /\ sent[c] \in 0 .. MaxChunks
  BY DEF Take, Flows, Typed
<1>2. PICK x \in Item : queue[c] = <<x>> /\ Head(queue[c]) = x
  BY <1>1, Items DEF Flows
<1>3. Counted' /\ queue'[c] = <<>> /\ Waiting(c)' = 0 /\ InHand(c)' = InHand(c)
  BY <1>1, Items, SameCounts DEF prodVars, Waiting, InHand, Typed
<1>4. CASE x \in 1 .. MaxChunks
  <2>1. /\ got' = [got EXCEPT ![c] = @ + 1] /\ consumer' = [consumer EXCEPT ![c] = "busy"]
        /\ UNCHANGED <<result, cancelled>>
    BY <1>2, <1>4, Items DEF Take
  <2>2. x = got[c] + 1 /\ Waiting(c) = 1
    BY <1>1, <1>2, <1>4 DEF Flows, Waiting
  <2>3. Typed' /\ OthersKept(c) /\ Owned(c)'
    BY <1>1, <1>4, <2>1, <2>2, Items DEF Typed, OthersKept, Owned, prodVars, Consumer
  <2>4. Flows(c)'
    BY <1>1, <1>3, <2>1, <2>2, Items DEF Flows, prodVars, Typed
  <2> QED
    BY <1>3, <2>3, <2>4, OnlyOneCall
<1>5. CASE x \in {Done, Failed}
  <2>1. /\ consumer' = [consumer EXCEPT ![c] = "close"]
        /\ result' = [result EXCEPT ![c] = IF x = Done THEN "complete" ELSE "error"]
        /\ cancelled' \in {cancelled, cancelled \cup {c}} /\ UNCHANGED got
    BY <1>2, <1>5, Items DEF Take, Closes
  <2>2. Waiting(c) = 0 /\ (x = Done => producer[c] = "end" /\ exc[c] = "none")
    BY <1>1, <1>2, <1>5, Items DEF Flows, Waiting
  <2>3. Typed' /\ OthersKept(c) /\ Owned(c)'
    BY <1>1, <2>1, Items DEF Typed, OthersKept, Owned, prodVars, Consumer, Result
  <2>4. Flows(c)'
    BY <1>1, <1>3, <2>1, <2>2, Items DEF Flows, prodVars, Typed
  <2> QED
    BY <1>3, <2>3, <2>4, OnlyOneCall
<1> QED
  BY <1>4, <1>5, Items

LEMMA StartInv ==
  ASSUME StreamInv, NEW c \in Call, Start(c)
  PROVE  StreamInv'
<1> USE DEF StreamInv
<1>1. Owned(c) /\ Flows(c)
  OBVIOUS
<1>2. Typed' /\ OthersKept(c) /\ Owned(c)' /\ Flows(c)'
  BY <1>1 DEF Start, Typed, OthersKept, Owned, Flows, Waiting, InHand, Consumer, Producer,
     Leased, Permitted, Sending
<1>3. Counted'
  BY SameCounts DEF Start
<1> QED
  BY <1>2, <1>3, OnlyOneCall

LEMMA JoinedInv ==
  ASSUME StreamInv, NEW c \in Call, Joined(c)
  PROVE  StreamInv'
<1> USE DEF StreamInv
<1>1. Owned(c) /\ Flows(c)
  OBVIOUS
<1>2. Typed' /\ OthersKept(c) /\ Owned(c)' /\ Flows(c)'
  BY <1>1 DEF Joined, Typed, OthersKept, Owned, Flows, Waiting, InHand, Consumer, prodVars
<1>3. Counted'
  BY SameCounts DEF Joined, prodVars
<1> QED
  BY <1>2, <1>3, OnlyOneCall

LEMMA AgainInv ==
  ASSUME StreamInv, NEW c \in Call, Again(c)
  PROVE  StreamInv'
<1> USE DEF StreamInv
<1>1. Owned(c) /\ c \notin leases /\ c \notin permits
  BY DEF Again, Owned, Leased, Permitted
<1>2. Typed' /\ OthersKept(c)
  BY Items DEF Again, Typed, OthersKept, Producer, Exc, Ready, Consumer, Result, Fault
<1>3. /\ producer'[c] = "none" /\ exc'[c] = "none" /\ queue'[c] = <<>> /\ sent'[c] = 0
      /\ got'[c] = 0 /\ result'[c] = "none" /\ consumer'[c] = "idle"
      /\ UNCHANGED <<leases, permits>>
  BY DEF Again, Typed
<1>4. Owned(c)' /\ Flows(c)'
  BY <1>1, <1>3, Items DEF Owned, Flows, Waiting, InHand, Leased, Permitted
<1>5. Counted'
  BY SameCounts DEF Again
<1> QED
  BY <1>2, <1>4, <1>5, OnlyOneCall

-----------------------------------------------------------------------------
(* All streams together *)

LEMMA StreamInitInv == Init => StreamInv
<1> SUFFICES ASSUME Init PROVE StreamInv
  OBVIOUS
<1>1. Typed
  BY Items DEF Init, Typed, Producer, Exc, Ready, Consumer, Result, Fault
<1>2. Counted
  BY FS_EmptySet, StreamAssumption DEF Init, Counted
<1>3. ASSUME NEW c \in Call PROVE Owned(c) /\ Flows(c)
  BY Items DEF Init, Owned, Flows, Waiting, InHand, Leased, Permitted
<1> QED
  BY <1>1, <1>2, <1>3 DEF StreamInv

LEMMA StreamStepInv == StreamInv /\ [Next]_vars => StreamInv'
<1>1. CASE UNCHANGED vars
  BY <1>1 DEF vars, StreamInv, Typed, Counted, Owned, Flows, Waiting, InHand
<1>2. ASSUME StreamInv, NEW c \in Call,
             \/ Produce(c) \/ GetPermit(c) \/ DeadlineInPut(c) \/ LeaseLost(c)
             \/ Start(c) \/ Readied(c) \/ Ask(c) \/ Take(c) \/ Leave(c) \/ Joined(c) \/ Again(c)
      PROVE  StreamInv'
  BY <1>2, GetLeaseInv, GetPermitInv, MovingInv, ChunkInv, PutInv, ReportInv, StartInv,
     ReadingInv, TakeInv, JoinedInv, AgainInv DEF Produce
<1> QED
  BY <1>1, <1>2 DEF Next

(* What the tasks of a stream hold by the awaits they stand at, and where  *)
(* its chunks are.                                                         *)
THEOREM StreamInvariant == Spec => []StreamInv
BY StreamInitInv, StreamStepInv, PTL DEF Spec

(* Whatever is lost, cancelled or late, no transport is open and no        *)
(* provider is called outside the model lease.                             *)
THEOREM PermitsLieWithinLeases == Spec => []CallsAreLeased
<1>1. StreamInv => CallsAreLeased
  BY DEF StreamInv, Typed, Owned, CallsAreLeased, Leased, Permitted
<1> QED
  BY <1>1, StreamInvariant, PTL

(* A reader that is done with its call leaves neither a lease nor a permit *)
(* behind, whichever side ended it; and every variable has its type.       *)
THEOREM EveryCallGivesBack == Spec => []NothingIsLeft
<1>1. StreamInv => NothingIsLeft
  <2> SUFFICES ASSUME StreamInv PROVE NothingIsLeft
    OBVIOUS
  <2>1. \A c \in Call : Len(queue[c]) <= 1
    <3>1. Len(<<>>) = 0 /\ \A x : Len(<<x>>) = 1
      OBVIOUS
    <3>2. \A c \in Call : queue[c] = <<>> \/ \E x \in Item : queue[c] = <<x>>
      BY DEF StreamInv, Flows
    <3>3. ASSUME NEW c \in Call PROVE Len(queue[c]) <= 1
      <4>1. CASE queue[c] = <<>>
        BY <3>1, <4>1
      <4>2. ASSUME NEW x \in Item, queue[c] = <<x>> PROVE Len(queue[c]) <= 1
        BY <3>1, <4>2
      <4> QED
        BY <3>2, <4>1, <4>2
    <3> QED
      BY <3>3
  <2>2. TypeOK
    BY <2>1 DEF StreamInv, Typed, Counted, TypeOK
  <2>3. \A c \in Call : consumer[c] \in {"idle", "over"} => c \notin leases \cup permits
    BY DEF StreamInv, Owned, Leased, Permitted
  <2> QED
    BY <2>2, <2>3 DEF NothingIsLeft
<1> QED
  BY <1>1, StreamInvariant, PTL

(* A reader that is told the stream is complete has every chunk of it, and *)
(* the chunks come in order.                                               *)
THEOREM CompleteStreamsAreWhole == Spec => []CompleteIsWhole
<1>1. StreamInv => CompleteIsWhole
  <2> SUFFICES ASSUME StreamInv, NEW c \in Call
               PROVE  /\ result[c] = "complete" => got[c] = sent[c] /\ exc[c] = "none"
                      /\ queue[c] # <<>> /\ Head(queue[c]) \notin {Done, Failed}
                           => Head(queue[c]) = got[c] + 1
    BY DEF CompleteIsWhole
  <2>1. Flows(c) /\ got[c] \in Nat /\ sent[c] \in Nat
    BY Items DEF StreamInv, Typed
  <2>2. ASSUME result[c] = "complete" PROVE got[c] = sent[c] /\ exc[c] = "none"
    <3>1. Waiting(c) = 0 /\ InHand(c) = 0
      BY <2>1, <2>2, Items DEF Flows, Waiting, InHand
    <3> QED
      BY <2>1, <2>2, <3>1 DEF Flows
  <2>3. ASSUME queue[c] # <<>>, Head(queue[c]) \notin {Done, Failed}
        PROVE  Head(queue[c]) = got[c] + 1
    <3>1. PICK x \in Item : queue[c] = <<x>> /\ Head(queue[c]) = x
      BY <2>1, <2>3, Items DEF Flows
    <3> QED
      BY <2>1, <2>3, <3>1, Items DEF Flows
  <2> QED
    BY <2>2, <2>3
<1> QED
  BY <1>1, StreamInvariant, PTL
=============================================================================
