--------------------------- MODULE RequestProofs ---------------------------
(***************************************************************************)
(* Proofs about a query request (QueryRequest.tla), for any requests,      *)
(* sessions and limits, and about the run of its plan                      *)
(* (WorkflowRunner.tla), for any registry, any limits and any plans that   *)
(* keep to PlanAssumption.                                                 *)
(***************************************************************************)
EXTENDS QueryRequest, WorkflowRunner, SequenceTheorems, FiniteSetTheorems, TLAPS

-----------------------------------------------------------------------------
(* The run of a plan *)

Entry == [id : Ids(plan), verdict : Verdict]

Started == status # "new" /\ reason # "plan"

(* The last attempt of node k ended with v.                                *)
Last(k, v) ==
    \E i \in Entries(Nodes[k].id) :
        trace[i].verdict = v /\ \A j \in Entries(Nodes[k].id) : j <= i

Untried(k) == Entries(Nodes[k].id) = {}

Accepted(k) == Last(k, "pass") \/ (Last(k, "fail") /\ Nodes[k].onFailure = "skip")

(* A revision jumped over node j.                                          *)
JumpedOver(j) == back # 0 /\ back < j /\ \E r \in Revise : j < r /\ r <= index

Typed ==
    /\ plan \in Plans /\ status \in Status /\ reason \in Reason
    /\ trace \in Seq(Entry)
    /\ iterations = Len(trace) /\ iterations <= plan.maxIterations
    /\ attempt \in 0 .. Retries
    /\ Started => Valid(plan) /\ index \in 1 .. Len(Nodes)
    /\ ~Started => /\ trace = <<>> /\ attempt = 0 /\ index = 1 /\ back = 0
                   /\ status \in {"new", "failed"}
    /\ status \in {"new", "running", "completed"} => reason = "none"

(* Only an accepted reflection leads back.                                 *)
Back == back # 0 => /\ back \in DOMAIN Nodes /\ Nodes[back].id = "reflect"
                    /\ Revise # {} /\ Reflects(plan)

(* The attempts of this node that failed are the last ones.                *)
Repeated ==
    /\ status = "running" =>
          /\ attempt <= Len(trace)
          /\ \A i \in Len(trace) - attempt + 1 .. Len(trace) :
                trace[i] = [id |-> Here.id, verdict |-> "fail"]
    /\ reason = "node" =>
          /\ Len(trace) > Retries
          /\ \A i \in Len(trace) - Retries .. Len(trace) :
                trace[i] = [id |-> Here.id, verdict |-> "fail"]

(* What was tried was accepted, is being tried again, or is the reflection *)
(* that waits for the revision.                                            *)
Settled ==
    /\ status = "running" => \A k \in DOMAIN Nodes :
          Untried(k) \/ Accepted(k) \/ (k = index /\ attempt > 0) \/ (k = back /\ Last(k, "revise"))
    /\ status = "completed" => \A k \in DOMAIN Nodes : Untried(k) \/ Accepted(k)

(* What is before the present node was tried, or jumped over.              *)
Reached == status = "running" => \A j \in 1 .. index - 1 : ~Untried(j) \/ JumpedOver(j)

RunInv == Typed /\ Back /\ Repeated /\ Settled /\ Reached /\ DependenciesRanBefore

USE DEF Nodes, Here

-----------------------------------------------------------------------------
(* Lemmas about plans *)

(* In a valid plan an id names one node, and dependencies look back.       *)
LEMMA ValidPlan ==
    ASSUME Typed, Started
    PROVE  /\ plan.nodes \in Seq({plan.nodes[i] : i \in DOMAIN plan.nodes})
           /\ Len(Nodes) \in Nat /\ DOMAIN Nodes = 1 .. Len(Nodes)
           /\ index \in DOMAIN Nodes
           /\ \A i, j \in DOMAIN Nodes : Nodes[i].id = Nodes[j].id => i = j
           /\ \A i \in DOMAIN Nodes : \A d \in Nodes[i].deps :
                 \E j \in 1 .. i - 1 : Nodes[j].id = d
<1>1. /\ plan.nodes \in Seq({plan.nodes[i] : i \in DOMAIN plan.nodes})
      /\ Valid(plan) /\ index \in 1 .. Len(Nodes)
  BY PlanAssumption DEF Typed
<1>2. Len(Nodes) \in Nat /\ DOMAIN Nodes = 1 .. Len(Nodes)
  BY <1>1
<1>3. ASSUME NEW i \in DOMAIN Nodes, NEW j \in DOMAIN Nodes, Nodes[i].id = Nodes[j].id, i < j
      PROVE  FALSE
  <2>1. i \in 1 .. j - 1
    BY <1>2, <1>3
  <2> QED
    BY <1>1, <1>3, <2>1 DEF Valid
<1>4. ASSUME NEW i \in DOMAIN Nodes, NEW j \in DOMAIN Nodes, Nodes[i].id = Nodes[j].id
      PROVE  i = j
  <2>1. i < j \/ j < i \/ i = j
    BY <1>2
  <2> QED
    BY <2>1, <1>3, <1>4
<1>5. ASSUME NEW i \in DOMAIN Nodes, NEW d \in Nodes[i].deps
      PROVE  \E j \in 1 .. i - 1 : Nodes[j].id = d
  <2>1. Nodes[i].deps \subseteq {Nodes[j].id : j \in 1 .. i - 1}
    BY <1>1 DEF Valid
  <2> QED
    BY <2>1, <1>5
<1> QED
  BY <1>1, <1>2, <1>4, <1>5

(* Where a reflection may be heard of, the plan keeps to the assumption.   *)
LEMMA ReflectingPlan ==
    ASSUME Typed, Reflects(plan)
    PROVE  KeepsReflection(plan)
  BY PlanAssumption DEF Typed

LEMMA RetriesAreCounted ==
    ASSUME Typed
    PROVE  Retries \in Nat
  BY PlanAssumption DEF Typed, Retries

-----------------------------------------------------------------------------
(* Lemmas about one more attempt *)

LEMMA TriedTrace ==
    ASSUME Typed, NEW v \in Verdict, Tried(v)
    PROVE  /\ plan' = plan /\ Started
           /\ trace' = Append(trace, [id |-> Here.id, verdict |-> v])
           /\ trace' \in Seq(Entry)
           /\ Len(trace) \in Nat /\ Len(trace') = Len(trace) + 1
           /\ DOMAIN trace = 1 .. Len(trace) /\ DOMAIN trace' = 1 .. Len(trace')
           /\ \A i \in DOMAIN trace : trace'[i] = trace[i]
           /\ trace'[Len(trace) + 1] = [id |-> Here.id, verdict |-> v]
           /\ iterations' = Len(trace') /\ iterations' <= plan.maxIterations
<1> DEFINE e == [id |-> Here.id, verdict |-> v]
<1>1. status = "running" /\ Started /\ plan' = plan /\ trace' = Append(trace, e)
  BY DEF Tried, Started, Typed
<1>2. trace \in Seq(Entry) /\ index \in DOMAIN Nodes
  BY <1>1, ValidPlan DEF Typed
<1>3. e \in Entry
  BY <1>2 DEF Entry, Ids
<1>4. plan.maxIterations \in Nat /\ iterations = Len(trace) /\ iterations < plan.maxIterations
  BY PlanAssumption DEF Typed, Tried
<1>5. Len(trace) \in Nat /\ iterations' = iterations + 1
  BY <1>2 DEF Tried
<1> HIDE DEF e
<1>6. /\ trace' \in Seq(Entry) /\ Len(trace') = Len(trace) + 1
      /\ \A i \in DOMAIN trace : trace'[i] = trace[i]
      /\ trace'[Len(trace) + 1] = e
  BY <1>1, <1>2, <1>3
<1>7. DOMAIN trace = 1 .. Len(trace) /\ DOMAIN trace' = 1 .. Len(trace')
  BY <1>2, <1>6
<1> QED
  BY <1>1, <1>4, <1>5, <1>6, <1>7 DEF e

(* It is the last attempt of this node, and no other node's attempts       *)
(* change.                                                                 *)
LEMMA TriedNode ==
    ASSUME Typed, NEW v \in Verdict, Tried(v), NEW k \in DOMAIN Nodes
    PROVE  /\ k = index => Last(k, v)' /\ ~Untried(k)'
           /\ k # index => /\ Untried(k)' <=> Untried(k)
                           /\ \A w : Last(k, w)' <=> Last(k, w)
<1>1. /\ plan' = plan /\ Started
      /\ Len(trace) \in Nat /\ Len(trace') = Len(trace) + 1
      /\ DOMAIN trace = 1 .. Len(trace) /\ DOMAIN trace' = 1 .. Len(trace')
      /\ \A i \in DOMAIN trace : trace'[i] = trace[i]
      /\ trace'[Len(trace) + 1] = [id |-> Here.id, verdict |-> v]
  BY TriedTrace
<1>2. \A i, j \in DOMAIN Nodes : Nodes[i].id = Nodes[j].id => i = j
  BY <1>1, ValidPlan
<1>3. index \in DOMAIN Nodes
  BY <1>1, ValidPlan
<1>4. CASE k = index
  <2>1. Len(trace) + 1 \in Entries(Nodes[k].id)'
    BY <1>1, <1>4 DEF Entries
  <2>2. \A j \in Entries(Nodes[k].id)' : j <= Len(trace) + 1
    BY <1>1 DEF Entries
  <2>3. trace'[Len(trace) + 1].verdict = v
    BY <1>1
  <2> QED
    BY <1>1, <1>4, <2>1, <2>2, <2>3 DEF Last, Untried
<1>5. CASE k # index
  <2>1. Nodes[k].id # Here.id
    BY <1>2, <1>3, <1>5
  <2>2. Entries(Nodes[k].id)' = Entries(Nodes[k].id)
    BY <1>1, <2>1 DEF Entries
  <2>3. \A i \in Entries(Nodes[k].id) : trace'[i] = trace[i]
    BY <1>1 DEF Entries
  <2> QED
    BY <1>1, <1>5, <2>2, <2>3 DEF Last, Untried
<1> QED
  BY <1>4, <1>5

(* A node that could be tried has its dependencies behind it.              *)
LEMMA TriedInOrder ==
    ASSUME Typed, Back, Reached, DependenciesRanBefore, NEW v \in Verdict, Tried(v)
    PROVE  DependenciesRanBefore'
<1>1. /\ plan' = plan /\ Started /\ status = "running"
      /\ Len(trace) \in Nat /\ Len(trace') = Len(trace) + 1
      /\ DOMAIN trace = 1 .. Len(trace) /\ DOMAIN trace' = 1 .. Len(trace')
      /\ \A i \in DOMAIN trace : trace'[i] = trace[i]
      /\ trace'[Len(trace) + 1] = [id |-> Here.id, verdict |-> v]
  BY TriedTrace DEF Tried
<1>2. /\ index \in DOMAIN Nodes /\ Len(Nodes) \in Nat /\ DOMAIN Nodes = 1 .. Len(Nodes)
      /\ \A i, j \in DOMAIN Nodes : Nodes[i].id = Nodes[j].id => i = j
      /\ \A i \in DOMAIN Nodes : \A d \in Nodes[i].deps :
            \E j \in 1 .. i - 1 : Nodes[j].id = d
  BY <1>1, ValidPlan
<1>3. ASSUME NEW i \in DOMAIN trace', NEW k \in DOMAIN Nodes, trace'[i].id = Nodes[k].id,
             NEW d \in Nodes[k].deps
      PROVE  \E j \in 1 .. i - 1 : trace'[j].id = d
  <2>1. CASE i \in DOMAIN trace
    <3>1. PICK j \in 1 .. i - 1 : trace[j].id = d
      BY <1>1, <1>3, <2>1 DEF DependenciesRanBefore
    <3>2. j \in DOMAIN trace
      BY <1>1, <2>1
    <3> QED
      BY <1>1, <3>1, <3>2
  <2>2. CASE i \notin DOMAIN trace
    <3>1. i = Len(trace) + 1
      BY <1>1, <2>2
    <3>2. k = index
      BY <1>1, <1>2, <1>3, <3>1
    <3>3. PICK j \in 1 .. index - 1 : Nodes[j].id = d
      BY <1>2, <1>3, <3>2
    <3>4. ~JumpedOver(j)
      <4>1. SUFFICES ASSUME JumpedOver(j) PROVE FALSE
        OBVIOUS
      <4>2. PICK r \in Revise : back < j /\ j < r /\ r <= index /\ back # 0
        BY <4>1 DEF JumpedOver
      <4>3. back \in DOMAIN Nodes /\ Nodes[back].id = "reflect" /\ KeepsReflection(plan)
        BY <4>2, ReflectingPlan DEF Back
      <4>4. r \in DOMAIN Nodes /\ Nodes[r].id = "revise"
        BY DEF Revise
      <4>5. j \in back + 1 .. r - 1
        BY <1>2, <4>2, <4>3, <4>4
      <4>6. Nodes[j].id \notin Nodes[index].deps
        BY <1>2, <4>2, <4>3, <4>4, <4>5 DEF KeepsReflection
      <4> QED
        BY <3>2, <3>3, <4>6
    <3>5. ~Untried(j)
      BY <1>1, <3>4 DEF Reached
    <3>6. PICK m \in DOMAIN trace : trace[m].id = d
      BY <3>3, <3>5 DEF Untried, Entries
    <3> QED
      BY <1>1, <3>1, <3>6
  <2> QED
    BY <2>1, <2>2
<1> QED
  BY <1>1, <1>3 DEF DependenciesRanBefore

(* The other nodes stay as they are settled.                               *)
LEMMA OthersStaySettled ==
    ASSUME Typed, Settled, NEW v \in Verdict, Tried(v), NEW k \in DOMAIN Nodes, k # index
    PROVE  Untried(k)' \/ Accepted(k)' \/ (k = back /\ Last(k, "revise")')
<1>1. plan' = plan /\ status = "running"
  BY TriedTrace DEF Tried
<1>2. Untried(k) \/ Accepted(k) \/ (k = back /\ Last(k, "revise"))
  BY <1>1 DEF Settled
<1>3. (Untried(k)' <=> Untried(k)) /\ \A w : Last(k, w)' <=> Last(k, w)
  BY TriedNode
<1> QED
  BY <1>1, <1>2, <1>3 DEF Accepted

(* What was reached stays reached while back stays.                        *)
LEMMA ReachedStays ==
    ASSUME Typed, Reached, NEW v \in Verdict, Tried(v), NEW j \in 1 .. index - 1
    PROVE  ~Untried(j)' \/ JumpedOver(j)
<1>1. Started /\ status = "running"
  BY TriedTrace DEF Tried
<1>2. j \in DOMAIN Nodes /\ j # index
  BY <1>1, ValidPlan
<1> QED
  BY <1>1, <1>2, TriedNode DEF Reached

(* There is one reflection that leads back.                                *)
LEMMA OneReflection ==
    ASSUME Typed, Back, Started, back # 0, Here.id = "reflect"
    PROVE  index = back
  BY ValidPlan DEF Back

-----------------------------------------------------------------------------
(* The inductive invariant *)

LEMMA InitRun ==
    ASSUME Init
    PROVE  RunInv
<1>1. Retries \in Nat
  BY PlanAssumption DEF Init, Retries
<1>2. plan.maxIterations \in Nat
  BY PlanAssumption DEF Init
<1>3. Typed
  BY <1>1, <1>2 DEF Init, Typed, Status, Reason, Started
<1>4. Back /\ Repeated /\ Settled /\ Reached
  BY DEF Init, Back, Repeated, Settled, Reached
<1>5. DependenciesRanBefore
  BY DEF Init, DependenciesRanBefore
<1> QED
  BY <1>3, <1>4, <1>5 DEF RunInv

LEMMA BeginKeeps ==
    ASSUME RunInv, Begin
    PROVE  RunInv'
<1> USE DEF RunInv
<1>1. /\ plan' = plan /\ iterations' = iterations /\ back' = back /\ trace' = trace
      /\ status = "new" /\ index' = index /\ attempt' = attempt
      /\ \/ Valid(plan) /\ status' = "running" /\ reason' = reason
         \/ ~Valid(plan) /\ status' = "failed" /\ reason' = "plan"
  BY DEF Begin, Finish
<1>2. ~Started /\ trace = <<>> /\ attempt = 0 /\ index = 1 /\ back = 0
  BY <1>1 DEF Typed, Started
<1>3. Retries' = Retries
  BY <1>1 DEF Retries
<1>4. Valid(plan) => index \in 1 .. Len(Nodes)
  <2>1. plan.nodes \in Seq({plan.nodes[i] : i \in DOMAIN plan.nodes})
    BY PlanAssumption DEF Typed
  <2> QED
    BY <1>2, <2>1 DEF Valid
<1>5. Typed'
  <2>1. Valid(plan)' = Valid(plan) /\ Entry' = Entry
    BY <1>1 DEF Valid, Entry, Ids
  <2> QED
    BY <1>1, <1>2, <1>3, <1>4, <2>1 DEF Typed, Started, Status, Reason
<1>6. Back' /\ Reached'
  BY <1>1, <1>2 DEF Back, Reached
<1>7. Repeated'
  <2>1. Len(trace) = 0 /\ Len(trace) - attempt + 1 .. Len(trace) = {}
    BY <1>2
  <2>2. reason' # "node"
    BY <1>1 DEF Typed
  <2> QED
    BY <1>1, <1>2, <2>1, <2>2 DEF Repeated
<1>8. Settled'
  <2>1. \A k \in DOMAIN Nodes : Untried(k)'
    BY <1>1, <1>2 DEF Untried, Entries
  <2> QED
    BY <1>1, <2>1 DEF Settled
<1>9. DependenciesRanBefore'
  BY <1>1, <1>2 DEF DependenciesRanBefore
<1> QED
  BY <1>5, <1>6, <1>7, <1>8, <1>9

LEMMA ExhaustedKeeps ==
    ASSUME RunInv, Exhausted
    PROVE  RunInv'
<1> USE DEF RunInv
<1>1. /\ plan' = plan /\ iterations' = iterations /\ back' = back /\ trace' = trace
      /\ status = "running" /\ index' = index /\ attempt' = attempt
      /\ status' = "aborted" /\ reason' = "exhausted"
  BY DEF Exhausted, Finish
<1>2. Started /\ Started' /\ Retries' = Retries
  BY <1>1 DEF Typed, Started, Retries
<1>3. Typed'
  <2>1. Valid(plan)' = Valid(plan) /\ Entry' = Entry
    BY <1>1 DEF Valid, Entry, Ids
  <2> QED
    BY <1>1, <1>2, <2>1 DEF Typed, Status, Reason
<1>4. Back' /\ Repeated' /\ Settled' /\ Reached'
  BY <1>1 DEF Back, Revise, Repeated, Settled, Reached
<1>5. DependenciesRanBefore'
  BY <1>1 DEF DependenciesRanBefore
<1> QED
  BY <1>3, <1>4, <1>5

(* The type of the state after one more attempt.                           *)
LEMMA TriedTyped ==
    ASSUME Typed, NEW v \in Verdict, Tried(v),
           status' \in Status, reason' \in Reason \ {"plan"}, status' # "new",
           status' \in {"running", "completed"} => reason' = "none",
           index' \in DOMAIN Nodes, attempt' \in 0 .. Retries
    PROVE  Typed'
<1>1. /\ plan' = plan /\ Started /\ trace' \in Seq(Entry)
      /\ iterations' = Len(trace') /\ iterations' <= plan.maxIterations
  BY TriedTrace
<1>2. Valid(plan)' /\ Entry' = Entry /\ Retries' = Retries
  <2>1. Valid(plan)
    BY <1>1 DEF Typed
  <2>2. Valid(plan)' = Valid(plan)
    BY <1>1 DEF Valid
  <2> QED
    BY <1>1, <2>1, <2>2 DEF Entry, Ids, Retries
<1>3. index' \in 1 .. Len(Nodes')
  BY <1>1, ValidPlan
<1>4. Started'
  BY DEF Started
<1> QED
  BY <1>1, <1>2, <1>3, <1>4 DEF Typed

LEMMA CutOffKeeps ==
    ASSUME RunInv, NEW why \in {"unavailable", "cancelled"}, IsCutOff(why)
    PROVE  RunInv'
<1> USE DEF RunInv
<1>1. PICK v \in Verdict : Tried(v)
  BY DEF IsCutOff
<1>2. /\ status' = "aborted" /\ reason' = why /\ index' = index /\ attempt' = attempt
      /\ back' = back
  BY DEF IsCutOff, Finish
<1>3. plan' = plan /\ Started
  BY <1>1, TriedTrace
<1>4. Typed'
  <2>1. index' \in DOMAIN Nodes /\ attempt' \in 0 .. Retries
    BY <1>2, <1>3, ValidPlan DEF Typed
  <2> QED
    BY <1>1, <1>2, <2>1, TriedTyped DEF Status, Reason
<1>5. Back' /\ Repeated' /\ Settled' /\ Reached'
  BY <1>2, <1>3 DEF Back, Revise, Repeated, Settled, Reached
<1>6. DependenciesRanBefore'
  BY <1>1, TriedInOrder
<1> QED
  BY <1>4, <1>5, <1>6

LEMMA FailsKeeps ==
    ASSUME RunInv, Fails
    PROVE  RunInv'
<1> USE DEF RunInv
<1>1. Tried("fail") /\ "fail" \in Verdict /\ back' = back
  BY DEF Fails, Verdict
<1>2. /\ plan' = plan /\ Started /\ status = "running" /\ reason # "plan"
      /\ trace \in Seq(Entry)
      /\ Len(trace) \in Nat /\ Len(trace') = Len(trace) + 1
      /\ DOMAIN trace = 1 .. Len(trace)
      /\ \A i \in DOMAIN trace : trace'[i] = trace[i]
      /\ trace'[Len(trace) + 1] = [id |-> Here.id, verdict |-> "fail"]
  BY <1>1, TriedTrace DEF Tried, Started, Typed
<1>3. /\ Len(Nodes) \in Nat /\ DOMAIN Nodes = 1 .. Len(Nodes) /\ index \in DOMAIN Nodes
  BY <1>2, ValidPlan
<1>4. Retries \in Nat /\ attempt \in 0 .. Retries /\ Retries' = Retries /\ reason \in Reason
  BY <1>2, RetriesAreCounted DEF Typed, Retries
<1>5. DependenciesRanBefore'
  BY <1>1, TriedInOrder
<1>6. Back'
  BY <1>1, <1>2 DEF Back, Revise
<1>7. \A i \in Len(trace') - attempt .. Len(trace') :
         trace'[i] = [id |-> Here.id, verdict |-> "fail"]
  <2>1. SUFFICES ASSUME NEW i \in Len(trace') - attempt .. Len(trace')
                 PROVE  trace'[i] = [id |-> Here.id, verdict |-> "fail"]
    OBVIOUS
  <2>2. attempt <= Len(trace)
    BY <1>2 DEF Repeated
  <2>3. CASE i = Len(trace) + 1
    BY <1>2, <2>3
  <2>4. CASE i # Len(trace) + 1
    <3>1. i \in Len(trace) - attempt + 1 .. Len(trace) /\ i \in DOMAIN trace
      BY <1>2, <1>4, <2>2, <2>4
    <3> QED
      BY <1>2, <3>1 DEF Repeated
  <2> QED
    BY <2>3, <2>4
<1>8. reason = "none"
  BY <1>2 DEF Typed
<1>9. CASE RetriesLeft
  <2>1. attempt' = attempt + 1 /\ status' = status /\ reason' = reason /\ index' = index
    BY <1>9 DEF Fails
  <2>2. Typed'
    <3>1. attempt + 1 \in 0 .. Retries
      BY <1>4, <1>9 DEF RetriesLeft
    <3> QED
      BY <1>1, <1>2, <1>3, <1>8, <2>1, <3>1, TriedTyped DEF Status, Reason
  <2>3. Repeated'
    <3>1. attempt <= Len(trace)
      BY <1>2 DEF Repeated
    <3>2. Len(trace') - attempt' + 1 = Len(trace') - attempt /\ attempt' <= Len(trace')
      BY <1>2, <1>4, <2>1, <3>1
    <3> QED
      BY <1>2, <1>7, <1>8, <2>1, <3>2 DEF Repeated
  <2>4. Settled'
    <3>1. attempt' > 0
      BY <1>4, <2>1
    <3> QED
      BY <1>1, <1>2, <2>1, <3>1, OthersStaySettled DEF Settled
  <2>5. Reached'
    BY <1>1, <1>2, <2>1, ReachedStays DEF Reached, JumpedOver, Revise
  <2> QED
    BY <1>5, <1>6, <2>2, <2>3, <2>4, <2>5
<1>10. CASE ~RetriesLeft /\ Here.onFailure = "skip"
  <2>1. Goto(index + 1)
    BY <1>10 DEF Fails
  <2>2. /\ attempt' = 0 /\ reason' = reason
        /\ \/ index = Len(Nodes) /\ status' = "completed" /\ index' = index
           \/ index # Len(Nodes) /\ status' = status /\ index' = index + 1
    BY <1>3, <2>1 DEF Goto, End
  <2>3. Typed'
    BY <1>1, <1>2, <1>3, <1>4, <1>8, <2>2, TriedTyped DEF Status, Reason
  <2>4. Repeated'
    BY <1>2, <1>8, <2>2 DEF Repeated
  <2>5. \A k \in DOMAIN Nodes : k = index => Accepted(k)'
    BY <1>1, <1>2, <1>10, TriedNode DEF Accepted
  <2>6. \A k \in DOMAIN Nodes :
           Untried(k)' \/ Accepted(k)' \/ (k = back /\ Last(k, "revise")')
    BY <1>1, <2>5, OthersStaySettled
  <2>7. status' = "completed" => back = 0
    <3>1. SUFFICES ASSUME back # 0, index = Len(Nodes) PROVE FALSE
      BY <1>2, <2>2
    <3>2. KeepsReflection(plan)
      BY <3>1, ReflectingPlan DEF Back
    <3> QED
      BY <1>10, <3>1, <3>2 DEF KeepsReflection
  <2>8. Settled'
    BY <1>1, <1>2, <1>3, <2>6, <2>7 DEF Settled
  <2>9. Reached'
    BY <1>1, <1>2, <1>3, <2>2, TriedNode, ReachedStays DEF Reached, JumpedOver, Revise
  <2> QED
    BY <1>5, <1>6, <2>3, <2>4, <2>8, <2>9
<1>11. CASE ~RetriesLeft /\ Here.onFailure # "skip"
  <2>1. status' = "failed" /\ reason' = "node" /\ index' = index /\ attempt' = attempt
    BY <1>11 DEF Fails, Finish
  <2>2. attempt = Retries
    BY <1>4, <1>11 DEF RetriesLeft
  <2>3. Typed'
    BY <1>1, <1>2, <1>3, <1>4, <2>1, TriedTyped DEF Status, Reason
  <2>4. Repeated'
    <3>1. attempt <= Len(trace)
      BY <1>2 DEF Repeated
    <3>2. Len(trace') > Retries
      BY <1>2, <1>4, <2>2, <3>1
    <3> QED
      BY <1>2, <1>4, <1>7, <2>1, <2>2, <3>2 DEF Repeated
  <2>5. Settled' /\ Reached'
    BY <2>1 DEF Settled, Reached
  <2> QED
    BY <1>5, <1>6, <2>3, <2>4, <2>5
<1> QED
  BY <1>9, <1>10, <1>11

(* Where the runner goes when nothing is asked for.                        *)
LEMMA NextNode ==
    ASSUME Typed, Started, Back, Goto(Successor(FALSE))
    PROVE  /\ attempt' = 0 /\ reason' = reason
           /\ \/ /\ Here.onPass = "output" \/ index = back \/ back = 0
                 /\ status' = "completed" /\ index' = index
              \/ back # 0 /\ index = Len(Nodes) /\ status' = status /\ index' = back
              \/ index # Len(Nodes) /\ status' = status /\ index' = index + 1
<1>1. Len(Nodes) \in Nat /\ DOMAIN Nodes = 1 .. Len(Nodes) /\ index \in DOMAIN Nodes
  BY ValidPlan
<1>2. back # 0 => back \in DOMAIN Nodes
  BY DEF Back
<1> DEFINE s == Successor(FALSE)
<1>3. \/ s = End /\ (Here.onPass = "output" \/ index = back)
      \/ s = back /\ back # 0 /\ index = Len(Nodes)
      \/ s = index + 1 /\ (back = 0 \/ index # Len(Nodes))
  BY DEF Successor
<1>4. attempt' = 0 /\ reason' = reason
      /\ \/ s = End /\ status' = "completed" /\ index' = index
         \/ s # End /\ status' = status /\ index' = s
  BY DEF Goto
<1> HIDE DEF s
<1> QED
  BY <1>1, <1>2, <1>3, <1>4 DEF End

LEMMA PassesKeeps ==
    ASSUME RunInv, Passes
    PROVE  RunInv'
<1> USE DEF RunInv
<1>1. Tried("pass") /\ "pass" \in Verdict /\ back' = back
  BY DEF Passes, Verdict
<1>2. plan' = plan /\ Started /\ status = "running" /\ reason = "none"
  BY <1>1, TriedTrace DEF Tried, Typed
<1>3. Len(Nodes) \in Nat /\ DOMAIN Nodes = 1 .. Len(Nodes) /\ index \in DOMAIN Nodes
  BY <1>2, ValidPlan
<1>4. back # 0 => back \in DOMAIN Nodes
  BY DEF Back
<1>5. /\ attempt' = 0 /\ reason' = reason
      /\ \/ /\ Here.onPass = "output" \/ index = back \/ back = 0
            /\ status' = "completed" /\ index' = index
         \/ back # 0 /\ index = Len(Nodes) /\ status' = status /\ index' = back
         \/ index # Len(Nodes) /\ status' = status /\ index' = index + 1
  BY <1>2, NextNode DEF Passes
<1>6. Typed'
  BY <1>1, <1>2, <1>3, <1>4, <1>5, TriedTyped, RetriesAreCounted DEF Status, Reason
<1>7. Back' /\ Repeated'
  <2>1. Back'
    BY <1>1, <1>2 DEF Back, Revise
  <2>2. Len(trace') \in Nat
    <3>1. Len(trace) \in Nat /\ Len(trace') = Len(trace) + 1
      BY <1>1, TriedTrace
    <3> QED
      BY <3>1
  <2>3. Repeated'
    BY <1>2, <1>5, <2>2 DEF Repeated
  <2> QED
    BY <2>1, <2>3
<1>8. \A k \in DOMAIN Nodes : k = index => Accepted(k)'
  BY <1>1, TriedNode DEF Accepted
<1>9. \A k \in DOMAIN Nodes :
         Untried(k)' \/ Accepted(k)' \/ (k # index /\ k = back /\ Last(k, "revise")')
  BY <1>1, <1>8, OthersStaySettled
(* A run completes with no revision under way: output is the reflection's. *)
<1>10. status' = "completed" => back \in {0, index}
  <2>1. SUFFICES ASSUME back # 0, Here.onPass = "output" PROVE index = back
    BY <1>2, <1>5
  <2>2. Nodes[index].id = "reflect"
    BY <1>3, <2>1, ReflectingPlan DEF Back, KeepsReflection
  <2> QED
    BY <1>2, <2>1, <2>2, OneReflection
<1>11. Settled'
  BY <1>1, <1>2, <1>3, <1>9, <1>10 DEF Settled
<1>12. Reached'
  <2>1. \A j \in 1 .. index - 1 : ~Untried(j)' \/ JumpedOver(j)
    BY <1>1, ReachedStays
  <2>2. \A j \in DOMAIN Nodes : j = index => ~Untried(j)'
    BY <1>1, TriedNode
  <2>3. CASE back # 0 /\ index = Len(Nodes) /\ status' = status /\ index' = back
    <3>1. SUFFICES ASSUME NEW j \in 1 .. back - 1 PROVE ~Untried(j)'
      BY <2>3 DEF Reached
    <3>2. j \in 1 .. index - 1 \/ j = index
      BY <1>3, <1>4, <2>3
    <3> QED
      BY <1>3, <1>4, <2>1, <2>2, <2>3, <3>2 DEF JumpedOver
  <2>4. CASE index # Len(Nodes) /\ status' = status /\ index' = index + 1
    <3>1. \A j \in 1 .. index : ~Untried(j)' \/ JumpedOver(j)
      BY <1>3, <2>1, <2>2
    <3>2. \A j : JumpedOver(j) => JumpedOver(j)'
      BY <1>1, <1>2, <1>3, <2>4 DEF JumpedOver, Revise
    <3> QED
      BY <1>3, <2>4, <3>1, <3>2 DEF Reached
  <2> QED
    BY <1>5, <2>3, <2>4 DEF Reached
<1>13. DependenciesRanBefore'
  BY <1>1, TriedInOrder
<1> QED
  BY <1>6, <1>7, <1>11, <1>12, <1>13

LEMMA AskKeeps ==
    ASSUME RunInv, AsksForRevision
    PROVE  RunInv'
<1> USE DEF RunInv
<1>1. Tried("revise") /\ "revise" \in Verdict
  BY DEF AsksForRevision, Verdict
<1>2. plan' = plan /\ Started /\ status = "running" /\ reason = "none"
  BY <1>1, TriedTrace DEF Tried, Typed
<1>3. Len(Nodes) \in Nat /\ DOMAIN Nodes = 1 .. Len(Nodes) /\ index \in DOMAIN Nodes
  BY <1>2, ValidPlan
(* The node is the reflection of the plan, and there is a revision.        *)
<1>4. /\ Reflects(plan) /\ Here.id = "reflect" /\ Revise # {}
  <2>1. Here.node = "reflection" /\ plan.evaluated
    BY DEF AsksForRevision, MayAsk
  <2>2. Reflects(plan)
    BY <1>3, <2>1 DEF Reflects
  <2> QED
    BY <1>3, <2>1, <2>2, ReflectingPlan DEF KeepsReflection, Revise
<1>5. back # 0 => back = index
  BY <1>2, <1>4, OneReflection
<1> DEFINE r == CHOOSE i \in Revise : TRUE
<1>6. r \in Revise /\ r \in DOMAIN Nodes
  BY <1>4 DEF Revise
<1>7. Successor(TRUE) = r
  BY <1>4 DEF Successor
<1> HIDE DEF r
<1>8. /\ attempt' = 0 /\ reason' = reason /\ status' = status
      /\ index' = r /\ back' = index
  <2>1. r # End
    BY <1>3, <1>6 DEF End
  <2>2. Goto(r)
    BY <1>7 DEF AsksForRevision
  <2>3. back' = index
    BY <1>4 DEF AsksForRevision
  <2> QED
    BY <2>1, <2>2, <2>3 DEF Goto
<1>9. Typed'
  BY <1>1, <1>2, <1>6, <1>8, TriedTyped, RetriesAreCounted DEF Status, Reason
<1>10. Back' /\ Repeated'
  <2>1. Back'
    BY <1>2, <1>3, <1>4, <1>8 DEF Back, Revise
  <2>2. Len(trace') \in Nat
    <3>1. Len(trace) \in Nat /\ Len(trace') = Len(trace) + 1
      BY <1>1, TriedTrace
    <3> QED
      BY <3>1
  <2>3. Repeated'
    BY <1>2, <1>8, <2>2 DEF Repeated
  <2> QED
    BY <2>1, <2>3
<1>11. Settled'
  <2>1. \A k \in DOMAIN Nodes : k = index => k = back' /\ Last(k, "revise")'
    BY <1>1, <1>8, TriedNode
  <2>2. \A k \in DOMAIN Nodes : k # index => Untried(k)' \/ Accepted(k)'
    BY <1>1, <1>3, <1>5, OthersStaySettled
  <2> QED
    BY <1>2, <1>8, <2>1, <2>2 DEF Settled
<1>12. Reached'
  <2>1. SUFFICES ASSUME NEW j \in 1 .. r - 1 PROVE ~Untried(j)' \/ JumpedOver(j)'
    BY <1>8 DEF Reached
  <2>2. CASE j < index
    <3>1. ~Untried(j)' \/ JumpedOver(j)
      BY <1>1, <1>3, <1>6, <2>2, ReachedStays
    <3>2. ~JumpedOver(j)
      BY <1>3, <1>5, <1>6, <2>2 DEF JumpedOver
    <3> QED
      BY <3>1, <3>2
  <2>3. CASE j = index
    BY <1>1, <1>3, <2>3, TriedNode
  <2>4. CASE index < j
    <3>1. r \in Revise'
      BY <1>2, <1>6 DEF Revise
    <3> QED
      BY <1>3, <1>6, <1>8, <2>4, <3>1 DEF JumpedOver
  <2> QED
    BY <1>3, <1>6, <2>2, <2>3, <2>4
<1>13. DependenciesRanBefore'
  BY <1>1, TriedInOrder
<1> QED
  BY <1>9, <1>10, <1>11, <1>12, <1>13

LEMMA StutterKeeps ==
    ASSUME RunInv, UNCHANGED vars
    PROVE  RunInv'
<1>1. /\ plan' = plan /\ status' = status /\ reason' = reason /\ index' = index
      /\ attempt' = attempt /\ iterations' = iterations /\ back' = back /\ trace' = trace
  BY DEF vars
<1>2. Typed'
  BY <1>1 DEF RunInv, Typed, Started, Entry, Ids, Retries, Valid
<1>3. Back' /\ Reached' /\ DependenciesRanBefore'
  BY <1>1 DEF RunInv, Back, Revise, Reached, Untried, JumpedOver, Entries, DependenciesRanBefore
<1>4. Repeated'
  BY <1>1 DEF RunInv, Repeated, Retries
<1>5. Settled'
  BY <1>1 DEF RunInv, Settled, Untried, Accepted, Last, Entries
<1> QED
  BY <1>2, <1>3, <1>4, <1>5 DEF RunInv

LEMMA StepKeeps ==
    ASSUME RunInv, [Next]_vars
    PROVE  RunInv'
<1>1. CASE Begin
  BY <1>1, BeginKeeps
<1>2. CASE Exhausted
  BY <1>2, ExhaustedKeeps
<1>3. CASE Passes
  BY <1>3, PassesKeeps
<1>4. CASE AsksForRevision
  BY <1>4, AskKeeps
<1>5. CASE Fails
  BY <1>5, FailsKeeps
<1>6. ASSUME NEW why \in {"unavailable", "cancelled"}, IsCutOff(why)
      PROVE  RunInv'
  BY <1>6, CutOffKeeps
<1>7. CASE UNCHANGED vars
  BY <1>7, StutterKeeps
<1> QED
  BY <1>1, <1>2, <1>3, <1>4, <1>5, <1>6, <1>7 DEF Next

-----------------------------------------------------------------------------
(* Theorems *)

(* In every reachable state of _run the variables have their types, a      *)
(* reflection leads back only after it asked, what failed in a row failed  *)
(* on the present node, and every node before it was tried or jumped over  *)
(* by a revision.                                                          *)
THEOREM RunInvariant == Spec => []RunInv
<1>1. Init => RunInv
  BY InitRun
<1>2. RunInv /\ [Next]_vars => RunInv'
  BY StepKeeps
<1> QED
  BY <1>1, <1>2, PTL DEF Spec

LEMMA LastIsLast ==
    ASSUME NEW k \in DOMAIN Nodes, NEW v, Last(k, v), trace \in Seq(Entry)
    PROVE  trace[LastOf(Entries(Nodes[k].id))].verdict = v
<1> DEFINE S == Entries(Nodes[k].id)
<1>1. PICK i \in S : trace[i].verdict = v /\ \A j \in S : j <= i
  BY DEF Last
<1>2. S \subseteq Nat
  BY DEF Entries
<1> HIDE DEF S
<1>3. LastOf(S) \in S /\ \A j \in S : j <= LastOf(S)
  BY <1>1 DEF LastOf
<1>4. LastOf(S) <= i /\ i <= LastOf(S) /\ LastOf(S) \in Nat /\ i \in Nat
  BY <1>1, <1>2, <1>3
<1>5. LastOf(S) = i
  BY <1>4
<1> QED
  BY <1>1, <1>5 DEF S

LEMMA InvariantType ==
    ASSUME RunInv
    PROVE  TypeOK
<1>1. /\ plan \in Plans /\ status \in Status /\ reason \in Reason
      /\ iterations = Len(trace) /\ iterations <= plan.maxIterations
  BY DEF RunInv, Typed
<1>2. index \in 1 .. Len(Nodes) \/ (index = 1 /\ status \in {"new", "failed"})
  BY DEF RunInv, Typed
<1>3. attempt \in 0 .. plan.maxRetries
  <2>1. plan.maxRetries \in Nat /\ MaxNodeRetries \in Nat /\ attempt \in 0 .. Retries
    BY PlanAssumption DEF RunInv, Typed
  <2> QED
    BY <2>1 DEF Retries
<1>4. back \in 0 .. Len(Nodes)
  <2>1. CASE Started
    BY <2>1, ValidPlan DEF RunInv, Back, Typed
  <2>2. CASE ~Started
    <3>1. plan.nodes \in Seq({plan.nodes[i] : i \in DOMAIN plan.nodes}) /\ back = 0
      BY <2>2, PlanAssumption DEF RunInv, Typed
    <3>2. Len(Nodes) \in Nat
      BY <3>1
    <3> QED
      BY <3>1, <3>2
  <2> QED
    BY <2>1, <2>2
<1>5. \A i \in DOMAIN trace : trace[i].id \in Ids(plan) /\ trace[i].verdict \in Verdict
  <2>1. trace \in Seq(Entry)
    BY DEF RunInv, Typed
  <2>2. \A i \in DOMAIN trace : trace[i] \in Entry
    BY <2>1
  <2> QED
    BY <2>2 DEF Entry
<1> QED
  BY <1>1, <1>2, <1>3, <1>4, <1>5 DEF TypeOK

(* A run completes only on an accepted answer: what may not be skipped     *)
(* passed the last time it was tried, and a reflection that asked for a    *)
(* revision was heard again; it fails on a node only after all retries of  *)
(* that node, in a row (WorkflowRunner._run).                              *)
THEOREM VerdictsAreEarned == Spec => []VerdictIsEarned
<1>1. RunInv => VerdictIsEarned
  <2>1. SUFFICES ASSUME RunInv PROVE VerdictIsEarned
    OBVIOUS
  <2>2. ASSUME status = "completed", NEW k \in DOMAIN Nodes,
               Entries(Nodes[k].id) # {}
        PROVE  \/ trace[LastOf(Entries(Nodes[k].id))].verdict = "pass"
               \/ /\ trace[LastOf(Entries(Nodes[k].id))].verdict = "fail"
                  /\ Nodes[k].onFailure = "skip"
    <3>1. Last(k, "pass") \/ (Last(k, "fail") /\ Nodes[k].onFailure = "skip")
      BY <2>1, <2>2 DEF RunInv, Settled, Untried, Accepted
    <3>2. trace \in Seq(Entry)
      BY <2>1 DEF RunInv, Typed
    <3> QED
      BY <3>1, <3>2, LastIsLast
  <2>3. reason = "node" =>
          /\ Len(trace) > Retries
          /\ \A i \in Len(trace) - Retries .. Len(trace) :
                trace[i] = [id |-> Here.id, verdict |-> "fail"]
    BY <2>1 DEF RunInv, Repeated
  <2> QED
    BY <2>1, <2>2, <2>3, InvariantType DEF VerdictIsEarned
<1> QED
  BY <1>1, RunInvariant, PTL

(* No node is attempted before the nodes it depends on, although _run      *)
(* checks the dependencies once and a revision jumps over nodes.           *)
THEOREM DependenciesComeFirst == Spec => []DependenciesRanBefore
<1>1. RunInv => DependenciesRanBefore
  BY DEF RunInv
<1> QED
  BY <1>1, RunInvariant, PTL

-----------------------------------------------------------------------------
(* A query request *)

AuditRecord == [query : Request, outcome : Outcome]

(* The workflow of a request is over.                                      *)
Through(r) == run[r] \in {"audit", "reply", "end", "over"}

(* A status is the record's outcome, and a thread works for its request.   *)
Statuses == \A r \in Request :
    /\ thread[r] > 0 => run[r] = "audit"
    /\ result[r] \in {"completed", "failed"} => Through(r) /\ outcome[r] = result[r]

Records ==
    /\ audits = Newest(written)
    /\ \A i \in DOMAIN written :
          /\ Through(written[i].query) /\ thread[written[i].query] = 0
          /\ written[i] = Record(written[i].query)
    /\ \A i, j \in DOMAIN written : written[i].query = written[j].query => i = j
    /\ \A r \in Request : persisted[r] = "persisted" =>
          \E i \in DOMAIN written : written[i] = Record(r)

(* The highest rank that a request at this place has told.                 *)
Told(place) ==
    CASE place \in {"audit", "reply"} -> 1 [] place = "end" -> 2 [] place = "over" -> 3
      [] OTHER -> 0

Rises(e, f) == Rank(e) < Rank(f) \/ (Rank(e) = 0 /\ Rank(f) = 0)

InOrder(q, e, place) ==
    /\ Rank(e) <= Told(place)
    /\ \A i \in DOMAIN q : Rank(q[i]) <= Told(place)
    /\ q # <<>> => Rises(e, q[1])
    /\ \A i \in 1 .. Len(q) - 1 : Rises(q[i], q[i + 1])

Verdicts == \A r \in Request : InOrder(queue[r], seen[r], run[r])

-----------------------------------------------------------------------------

LEMMA SomeStep ==
    ASSUME RequestNext
    PROVE  capacity' = capacity /\ \E r \in Request :
             \/ Submit(r) \/ Admit(r) \/ EnterSession(r) \/ Emit(r) \/ BodyEnds(r) \/ Warn(r)
             \/ CancelledOutside(r) \/ CancelledInBody(r) \/ Audited(r) \/ Reply(r)
             \/ AnnounceEnd(r) \/ Deadline(r) \/ Leave(r) \/ Store(r) \/ StoreFails(r)
             \/ Read(r) \/ Close(r)
BY DEF RequestNext, Producer

(* A queue grows by one event at its end, within its bound.                *)
LEMMA PutsEvent ==
    ASSUME queue \in [Request -> Seq(Event)], NEW r \in Request, NEW e \in Event, Puts(r, e)
    PROVE  /\ queue' \in [Request -> Seq(Event)]
           /\ queue'[r] = Append(queue[r], e)
           /\ Len(queue'[r]) = Len(queue[r]) + 1 /\ Len(queue'[r]) <= QueueSize
           /\ \A s \in Request \ {r} : queue'[s] = queue[s]
<1>1. QueueSize \in Nat /\ queue[r] \in Seq(Event) /\ Len(queue[r]) < QueueSize
  BY RequestAssumption DEF Puts
<1>2. Append(queue[r], e) \in Seq(Event) /\ Len(Append(queue[r], e)) = Len(queue[r]) + 1
  BY <1>1
<1>3. Len(queue[r]) \in Nat
  BY <1>1
<1> QED
  BY <1>1, <1>2, <1>3 DEF Puts

(* Where a request holds its permit.                                       *)
Inside == {"gate", "body", "warn", "audit"}

(* The permits and the sessions' gates.                                    *)
GatesTyped ==
    /\ capacity \in Capacities /\ capacity \in Nat /\ IsFiniteSet(admitted)
    /\ admitted = {r \in Request : run[r] \in Inside}
    /\ entered \subseteq {r \in admitted : run[r] # "gate"}
    /\ Cardinality(admitted) <= capacity
    /\ \A r, s \in entered : SessionOf[r] = SessionOf[s] => r = s

TaskTyped ==
    /\ run \in [Request -> Run]
    /\ stop \in [Request -> Stop]
    /\ result \in [Request -> Result]
    /\ outcome \in [Request -> Outcome]

StreamTyped ==
    /\ emitted \in [Request -> 0 .. MaxEvents]
    /\ queue \in [Request -> Seq(Event)] /\ \A r \in Request : Len(queue[r]) <= QueueSize
    /\ seen \in [Request -> Event \cup {"nothing"}]
    /\ client \in [Request -> Client]

AuditTyped ==
    /\ thread \in [Request -> 0 .. Attempts]
    /\ persisted \in [Request -> {"unknown", "persisted", "failed"}]
    /\ audits \in Seq(AuditRecord) /\ written \in Seq(AuditRecord)
    /\ Len(audits) <= MaxRecords

LEMMA TaskStep ==
    ASSUME TaskTyped, RequestNext
    PROVE  TaskTyped'
<1> USE DEF Run, Stop, Result, Outcome
<1>1. PICK r \in Request :
             \/ Submit(r) \/ Admit(r) \/ EnterSession(r) \/ Emit(r) \/ BodyEnds(r) \/ Warn(r)
             \/ CancelledOutside(r) \/ CancelledInBody(r) \/ Audited(r) \/ Reply(r)
             \/ AnnounceEnd(r) \/ Deadline(r) \/ Leave(r) \/ Store(r) \/ StoreFails(r)
             \/ Read(r) \/ Close(r)
  BY SomeStep
<1>2. CASE Submit(r)
  BY <1>2 DEF TaskTyped, Submit, Goes
<1>3. CASE Admit(r)
  BY <1>3 DEF TaskTyped, Admit, Goes
<1>4. CASE EnterSession(r)
  BY <1>4 DEF TaskTyped, EnterSession, Goes
<1>5. CASE Emit(r) \/ Store(r) \/ StoreFails(r) \/ Read(r) \/ Close(r)
  BY <1>5 DEF TaskTyped, task, Emit, Store, StoreFails, Read, Close
<1>6. CASE BodyEnds(r)
  BY <1>6 DEF TaskTyped, BodyEnds, Finishes, Goes
<1>7. CASE Warn(r)
  BY <1>7 DEF TaskTyped, Warn, Finishes, Goes
<1>8. CASE CancelledOutside(r)
  BY <1>8 DEF TaskTyped, CancelledOutside, LeavesGates, Goes, Arrives
<1>9. CASE CancelledInBody(r)
  BY <1>9 DEF TaskTyped, CancelledInBody, Finishes, Goes, Arrives
<1>10. CASE Audited(r)
  BY <1>10 DEF TaskTyped, Audited, LeavesGates, Goes, Arrives
<1>11. CASE Reply(r) \/ AnnounceEnd(r)
  BY <1>11 DEF TaskTyped, Reply, AnnounceEnd, Goes
<1>12. CASE Deadline(r) \/ Leave(r)
  BY <1>12 DEF TaskTyped, Deadline, Leave
<1> QED
  BY <1>1, <1>2, <1>3, <1>4, <1>5, <1>6, <1>7, <1>8, <1>9, <1>10, <1>11, <1>12

(* A permit is taken only while there are fewer holders than capacity.     *)
LEMMA GatesStep ==
    ASSUME TaskTyped, GatesTyped, RequestNext
    PROVE  GatesTyped'
<1> USE DEF Inside
<1>1. PICK r \in Request :
             \/ Submit(r) \/ Admit(r) \/ EnterSession(r) \/ Emit(r) \/ BodyEnds(r) \/ Warn(r)
             \/ CancelledOutside(r) \/ CancelledInBody(r) \/ Audited(r) \/ Reply(r)
             \/ AnnounceEnd(r) \/ Deadline(r) \/ Leave(r) \/ Store(r) \/ StoreFails(r)
             \/ Read(r) \/ Close(r)
  BY SomeStep
<1>2. Cardinality(admitted) \in Nat /\ capacity' = capacity
  BY SomeStep, FS_CardinalityType DEF GatesTyped
<1>3. ASSUME admitted' = admitted, entered' = entered, run' = [run EXCEPT ![r] = run'[r]],
             r \in admitted <=> run'[r] \in Inside,
             run'[r] # "gate" \/ r \notin admitted
      PROVE  GatesTyped'
  BY <1>3, <1>2 DEF GatesTyped, TaskTyped
<1>4. ASSUME admitted' = admitted \ {r}, entered' = entered \ {r}, Goes(r, "reply")
      PROVE  GatesTyped'
  <2>1. IsFiniteSet(admitted') /\ Cardinality(admitted') <= capacity
    <3>1. IsFiniteSet(admitted) /\ Cardinality(admitted) <= capacity /\ capacity \in Nat
      BY DEF GatesTyped
    <3>2. /\ IsFiniteSet(admitted \ {r})
          /\ Cardinality(admitted \ {r}) = IF r \in admitted THEN Cardinality(admitted) - 1
                                                         ELSE Cardinality(admitted)
      BY <3>1, FS_RemoveElement
    <3> QED
      BY <3>1, <3>2, <1>2, <1>4
  <2>2. admitted' = {s \in Request : run'[s] \in Inside}
    BY <1>4 DEF GatesTyped, TaskTyped, Goes
  <2>3. entered' \subseteq {s \in admitted' : run'[s] # "gate"}
    BY <1>4 DEF GatesTyped, TaskTyped, Goes
  <2> QED
    BY <1>4, <2>1, <2>2, <2>3, <1>2 DEF GatesTyped
<1>5. CASE Submit(r)
  BY <1>5, <1>3 DEF GatesTyped, TaskTyped, Submit, Goes, gates
<1>6. CASE Admit(r)
  <2>1. CASE Cardinality(admitted) < capacity
    <3>1. admitted' = admitted \cup {r} /\ entered' = entered /\ Goes(r, "gate")
          /\ run[r] = "start" /\ r \notin admitted
      BY <2>1, <1>6 DEF Admit, At, GatesTyped
    <3>2. IsFiniteSet(admitted') /\ Cardinality(admitted') <= capacity
      <4>1. IsFiniteSet(admitted) /\ capacity \in Nat
        BY DEF GatesTyped
      <4>2. IsFiniteSet(admitted \cup {r})
            /\ Cardinality(admitted \cup {r}) = Cardinality(admitted) + 1
        BY <4>1, <3>1, FS_AddElement
      <4> QED
        BY <4>1, <4>2, <3>1, <2>1, <1>2
    <3>3. admitted' = {s \in Request : run'[s] \in Inside}
      BY <3>1 DEF GatesTyped, TaskTyped, Goes
    <3>4. entered' \subseteq {s \in admitted' : run'[s] # "gate"}
      BY <3>1 DEF GatesTyped, TaskTyped, Goes
    <3> QED
      BY <3>1, <3>2, <3>3, <3>4, <1>2 DEF GatesTyped
  <2>2. CASE ~(Cardinality(admitted) < capacity)
    BY <2>2, <1>6, <1>3 DEF Admit, At, Goes, GatesTyped, TaskTyped
  <2> QED
    BY <2>1, <2>2
<1>7. CASE EnterSession(r)
  <2>1. /\ run[r] = "gate" /\ Goes(r, "body") /\ admitted' = admitted
        /\ entered' = entered \cup {r}
        /\ \A s \in entered : SessionOf[s] # SessionOf[r]
    BY <1>7 DEF EnterSession, At
  <2>2. \A s, t \in entered' : SessionOf[s] = SessionOf[t] => s = t
    BY <2>1 DEF GatesTyped
  <2>3. admitted' = {s \in Request : run'[s] \in Inside}
    BY <2>1 DEF GatesTyped, TaskTyped, Goes
  <2>4. entered' \subseteq {s \in admitted' : run'[s] # "gate"}
    BY <2>1 DEF GatesTyped, TaskTyped, Goes
  <2> QED
    BY <2>1, <2>2, <2>3, <2>4, <1>2 DEF GatesTyped
<1>8. CASE Emit(r) \/ Deadline(r) \/ Leave(r) \/ Store(r) \/ StoreFails(r) \/ Read(r) \/ Close(r)
  <2>1. UNCHANGED <<run, admitted, entered>>
    BY <1>8 DEF Emit, Deadline, Leave, Store, StoreFails, Read, Close, task, gates
  <2> QED
    BY <2>1, <1>2 DEF GatesTyped
<1>9. CASE BodyEnds(r)
  <2>1. UNCHANGED gates /\ run[r] = "body" /\ (Goes(r, "audit") \/ Goes(r, "warn"))
    BY <1>9 DEF BodyEnds, At, Finishes
  <2> QED
    BY <2>1, <1>3 DEF Goes, GatesTyped, TaskTyped, gates
<1>10. CASE Warn(r) \/ CancelledInBody(r)
  <2>1. UNCHANGED gates /\ run[r] \in {"body", "warn"} /\ Goes(r, "audit")
    BY <1>10 DEF Warn, CancelledInBody, At, Finishes
  <2> QED
    BY <2>1, <1>3 DEF Goes, GatesTyped, TaskTyped, gates
<1>12. CASE CancelledOutside(r) \/ Audited(r)
  <2>1. admitted' = admitted \ {r} /\ entered' = entered \ {r} /\ Goes(r, "reply")
    BY <1>12 DEF CancelledOutside, Audited, LeavesGates
  <2> QED
    BY <2>1, <1>4
<1>13. CASE Reply(r) \/ AnnounceEnd(r)
  <2>1. UNCHANGED gates /\ r \notin admitted /\ (Goes(r, "end") \/ Goes(r, "over"))
    BY <1>13 DEF Reply, AnnounceEnd, GatesTyped
  <2> QED
    BY <2>1, <1>3 DEF Goes, TaskTyped, gates
<1> QED
  BY <1>1, <1>5, <1>6, <1>7, <1>8, <1>9, <1>10, <1>12, <1>13

LEMMA StreamStep ==
    ASSUME StreamTyped, RequestNext
    PROVE  StreamTyped'
<1> USE DEF Event, Client
<1>1. PICK r \in Request :
             \/ Submit(r) \/ Admit(r) \/ EnterSession(r) \/ Emit(r) \/ BodyEnds(r) \/ Warn(r)
             \/ CancelledOutside(r) \/ CancelledInBody(r) \/ Audited(r) \/ Reply(r)
             \/ AnnounceEnd(r) \/ Deadline(r) \/ Leave(r) \/ Store(r) \/ StoreFails(r)
             \/ Read(r) \/ Close(r)
  BY SomeStep
<1>2. ASSUME NEW e \in Event, Puts(r, e)
      PROVE  queue' \in [Request -> Seq(Event)] /\ \A s \in Request : Len(queue'[s]) <= QueueSize
  <2>1. queue \in [Request -> Seq(Event)]
    BY DEF StreamTyped
  <2>2. /\ queue' \in [Request -> Seq(Event)] /\ Len(queue'[r]) <= QueueSize
        /\ \A s \in Request \ {r} : queue'[s] = queue[s]
    BY <2>1, <1>2, PutsEvent
  <2> QED
    BY <2>2 DEF StreamTyped
<1>3. ASSUME UNCHANGED <<emitted, seen, client>>,
             UNCHANGED queue \/ \E e \in Event : Puts(r, e)
      PROVE  StreamTyped'
  BY <1>3, <1>2 DEF StreamTyped
<1>4. CASE Submit(r) \/ Admit(r) \/ EnterSession(r) \/ BodyEnds(r) \/ CancelledOutside(r)
           \/ CancelledInBody(r) \/ Audited(r) \/ Deadline(r) \/ Store(r) \/ StoreFails(r)
  <2>1. UNCHANGED stream
    BY <1>4 DEF Submit, Admit, EnterSession, BodyEnds, CancelledOutside, CancelledInBody,
                Audited, Deadline, Store, StoreFails
  <2> QED
    BY <2>1, <1>3 DEF stream
<1>5. CASE Emit(r)
  <2>1. emitted' \in [Request -> 0 .. MaxEvents]
    BY <1>5, RequestAssumption DEF Emit, StreamTyped
  <2> QED
    BY <2>1, <1>5, <1>2 DEF Emit, StreamTyped
<1>6. CASE Warn(r)
  BY <1>6, <1>3 DEF Warn
<1>7. CASE Reply(r)
  BY <1>7, <1>3 DEF Reply
<1>8. CASE AnnounceEnd(r)
  BY <1>8, <1>3 DEF AnnounceEnd
<1>9. CASE Leave(r) \/ Close(r)
  BY <1>9 DEF Leave, Close, StreamTyped
<1>10. CASE Read(r)
  <2>1. queue[r] \in Seq(Event) /\ queue[r] # <<>>
    BY <1>10 DEF Read, StreamTyped
  <2>2. Head(queue[r]) \in Event /\ Tail(queue[r]) \in Seq(Event)
        /\ Len(Tail(queue[r])) = Len(queue[r]) - 1
    BY <2>1, HeadTailProperties
  <2>3. queue' \in [Request -> Seq(Event)] /\ seen' \in [Request -> Event \cup {"nothing"}]
        /\ client' \in [Request -> Client] /\ emitted' = emitted
    BY <1>10, <2>2 DEF Read, StreamTyped
  <2>4. Len(queue[r]) \in Nat /\ Len(queue[r]) <= QueueSize
    BY <2>1 DEF StreamTyped
  <2>5. \A s \in Request : Len(queue'[s]) <= QueueSize
    <3>1. QueueSize \in Nat /\ Len(queue[r]) - 1 <= QueueSize
      BY <2>4, RequestAssumption
    <3> QED
      BY <3>1, <1>10, <2>2 DEF Read, StreamTyped
  <2> QED
    BY <2>3, <2>5 DEF StreamTyped
<1> QED
  BY <1>1, <1>4, <1>5, <1>6, <1>7, <1>8, <1>9, <1>10

LEMMA NewestIs ==
    ASSUME NEW S, NEW w \in Seq(S)
    PROVE  /\ Newest(w) \in Seq(S)
           /\ Len(Newest(w)) = IF Len(w) > MaxRecords THEN MaxRecords ELSE Len(w)
           /\ \A i \in 1 .. Len(Newest(w)) : Newest(w)[i] =
                 IF Len(w) > MaxRecords THEN w[Len(w) - MaxRecords + i] ELSE w[i]
<1> DEFINE m == IF Len(w) > MaxRecords THEN Len(w) - MaxRecords + 1 ELSE 1
<1>1. MaxRecords \in Nat \ {0} /\ Len(w) \in Nat
  BY RequestAssumption
<1>2. m \in 1 .. Len(w) + 1 /\ Len(w) \in Int /\ m \in Int
  BY <1>1
<1>3. \A i \in m .. Len(w) : w[i] \in S
  BY <1>2, ElementOfSeq
<1>4. Newest(w) = SubSeq(w, m, Len(w))
  BY DEF Newest
<1> HIDE DEF m
<1>5. /\ Newest(w) \in Seq(S)
      /\ Len(Newest(w)) = IF m <= Len(w) THEN Len(w) - m + 1 ELSE 0
      /\ \A i \in 1 .. Len(w) - m + 1 : Newest(w)[i] = w[m + i - 1]
  BY <1>2, <1>3, <1>4, SubSeqProperties
<1>6. CASE Len(w) > MaxRecords
  <2>1. m = Len(w) - MaxRecords + 1
    BY <1>6 DEF m
  <2>2. Len(Newest(w)) = MaxRecords /\ Len(w) - m + 1 = MaxRecords
    BY <2>1, <1>1, <1>5, <1>6
  <2>3. \A i \in 1 .. MaxRecords : m + i - 1 = Len(w) - MaxRecords + i
    BY <2>1, <1>1
  <2> QED
    BY <2>2, <2>3, <1>5, <1>6
<1>7. CASE ~(Len(w) > MaxRecords)
  <2>1. m = 1
    BY <1>7 DEF m
  <2>2. Len(Newest(w)) = Len(w) /\ Len(w) - m + 1 = Len(w)
    BY <2>1, <1>1, <1>5, <1>7
  <2>3. \A i \in 1 .. Len(w) : m + i - 1 = i
    BY <2>1, <1>1
  <2> QED
    BY <2>2, <2>3, <1>5, <1>7
<1> QED
  BY <1>6, <1>7

(* To keep the newest of what was kept and one more is to keep the newest  *)
(* of all: retention at every record never loses one too many.             *)
LEMMA NewestOfNewest ==
    ASSUME NEW S, NEW w \in Seq(S), NEW x \in S
    PROVE  Newest(Append(Newest(w), x)) = Newest(Append(w, x))
<1> DEFINE k == Newest(w)
           l == Append(k, x)
           n == Append(w, x)
<1>1. MaxRecords \in Nat \ {0} /\ Len(w) \in Nat
  BY RequestAssumption
<1>2. /\ k \in Seq(S)
      /\ Len(k) = IF Len(w) > MaxRecords THEN MaxRecords ELSE Len(w)
      /\ \A i \in 1 .. Len(k) : k[i] = IF Len(w) > MaxRecords THEN w[Len(w) - MaxRecords + i]
                                                              ELSE w[i]
  BY NewestIs
<1> HIDE DEF k
<1>3. /\ l \in Seq(S) /\ Len(l) = Len(k) + 1 /\ l[Len(k) + 1] = x
      /\ \A i \in 1 .. Len(k) : l[i] = k[i]
  BY <1>2
<1>4. /\ n \in Seq(S) /\ Len(n) = Len(w) + 1 /\ n[Len(w) + 1] = x
      /\ \A i \in 1 .. Len(w) : n[i] = w[i]
  OBVIOUS
<1> HIDE DEF l, n
<1>5. /\ Newest(l) \in Seq(S)
      /\ Len(Newest(l)) = IF Len(l) > MaxRecords THEN MaxRecords ELSE Len(l)
      /\ \A i \in 1 .. Len(Newest(l)) : Newest(l)[i] =
            IF Len(l) > MaxRecords THEN l[Len(l) - MaxRecords + i] ELSE l[i]
  BY <1>3, NewestIs
<1>6. /\ Newest(n) \in Seq(S)
      /\ Len(Newest(n)) = IF Len(n) > MaxRecords THEN MaxRecords ELSE Len(n)
      /\ \A i \in 1 .. Len(Newest(n)) : Newest(n)[i] =
            IF Len(n) > MaxRecords THEN n[Len(n) - MaxRecords + i] ELSE n[i]
  BY <1>4, NewestIs
<1>7. CASE Len(w) >= MaxRecords
  <2>1. Len(k) = MaxRecords /\ Len(l) = MaxRecords + 1
    BY <1>1, <1>2, <1>3, <1>7
  <2>2. Len(Newest(l)) = MaxRecords /\ Len(Newest(n)) = MaxRecords
    BY <2>1, <1>1, <1>4, <1>5, <1>6, <1>7
  <2>3. ASSUME NEW i \in 1 .. MaxRecords
        PROVE  Newest(l)[i] = Newest(n)[i]
    <3>1. Newest(l)[i] = l[1 + i]
      <4>1. Len(l) - MaxRecords + i = 1 + i /\ Len(l) > MaxRecords /\ i \in 1 .. Len(Newest(l))
        BY <2>1, <2>2, <1>1
      <4> QED
        BY <4>1, <1>5
    <3>2. Newest(n)[i] = n[Len(w) + 1 - MaxRecords + i]
      <4>1. /\ Len(n) - MaxRecords + i = Len(w) + 1 - MaxRecords + i
            /\ Len(n) > MaxRecords /\ i \in 1 .. Len(Newest(n))
        BY <2>2, <1>1, <1>4, <1>7
      <4> QED
        BY <4>1, <1>6
    <3>3. CASE i = MaxRecords
      <4>1. 1 + i = Len(k) + 1 /\ Len(w) + 1 - MaxRecords + i = Len(w) + 1
        BY <3>3, <2>1, <1>1
      <4> QED
        BY <4>1, <3>1, <3>2, <1>3, <1>4
    <3>4. CASE i # MaxRecords
      <4>1. 1 + i \in 1 .. Len(k) /\ Len(w) + 1 - MaxRecords + i \in 1 .. Len(w)
        BY <3>4, <2>1, <1>1, <1>7
      <4>2. l[1 + i] = k[1 + i] /\ n[Len(w) + 1 - MaxRecords + i] = w[Len(w) + 1 - MaxRecords + i]
        BY <4>1, <1>3, <1>4
      <4>3. k[1 + i] = w[Len(w) - MaxRecords + (1 + i)]
        <5>1. CASE Len(w) > MaxRecords
          BY <5>1, <4>1, <1>2
        <5>2. CASE Len(w) = MaxRecords
          <6>1. k[1 + i] = w[1 + i]
            BY <5>2, <4>1, <1>1, <1>2
          <6>2. Len(w) - MaxRecords + (1 + i) = 1 + i
            BY <5>2, <1>1
          <6> QED
            BY <6>1, <6>2
        <5> QED
          BY <5>1, <5>2, <1>1, <1>7
      <4>4. Len(w) - MaxRecords + (1 + i) = Len(w) + 1 - MaxRecords + i
        BY <1>1
      <4> QED
        BY <4>2, <4>3, <4>4, <3>1, <3>2
    <3> QED
      BY <3>3, <3>4
  <2>4. Newest(l) = Newest(n)
    BY <2>2, <2>3, <1>5, <1>6, SeqEqual
  <2> QED
    BY <2>4 DEF l, n, k
<1>8. CASE ~(Len(w) >= MaxRecords)
  <2>1. Len(k) = Len(w) /\ \A i \in 1 .. Len(w) : k[i] = w[i]
    BY <1>1, <1>2, <1>8
  <2>2. k = w
    BY <2>1, <1>2, SeqEqual
  <2> QED
    BY <2>2 DEF l, n, k
<1> QED
  BY <1>1, <1>7, <1>8

LEMMA AuditStep ==
    ASSUME AuditTyped, outcome \in [Request -> Outcome], RequestNext
    PROVE  AuditTyped'
<1>1. PICK r \in Request :
             \/ Submit(r) \/ Admit(r) \/ EnterSession(r) \/ Emit(r) \/ BodyEnds(r) \/ Warn(r)
             \/ CancelledOutside(r) \/ CancelledInBody(r) \/ Audited(r) \/ Reply(r)
             \/ AnnounceEnd(r) \/ Deadline(r) \/ Leave(r) \/ Store(r) \/ StoreFails(r)
             \/ Read(r) \/ Close(r)
  BY SomeStep
<1>2. CASE UNCHANGED <<persisted, audits, written>>
           /\ (UNCHANGED thread \/ thread' = [thread EXCEPT ![r] = Attempts])
  BY <1>2, RequestAssumption DEF AuditTyped
<1>3. CASE Submit(r) \/ Admit(r) \/ EnterSession(r) \/ Emit(r) \/ CancelledOutside(r)
           \/ Audited(r) \/ Reply(r) \/ AnnounceEnd(r) \/ Deadline(r) \/ Leave(r)
           \/ Read(r) \/ Close(r)
  <2>1. UNCHANGED audit
    BY <1>3 DEF Submit, Admit, EnterSession, Emit, CancelledOutside, Audited, Reply,
                AnnounceEnd, Deadline, Leave, Read, Close
  <2> QED
    BY <2>1, <1>2 DEF audit
<1>4. CASE BodyEnds(r) \/ Warn(r) \/ CancelledInBody(r)
  BY <1>4, <1>2 DEF BodyEnds, Warn, CancelledInBody, Finishes
<1>5. CASE Store(r)
  <2>1. Record(r) \in AuditRecord
    BY DEF Record, AuditRecord
  <2>2. Append(written, Record(r)) \in Seq(AuditRecord)
        /\ Append(audits, Record(r)) \in Seq(AuditRecord)
    BY <2>1 DEF AuditTyped
  <2>3. Newest(Append(audits, Record(r))) \in Seq(AuditRecord)
        /\ Len(Newest(Append(audits, Record(r)))) <= MaxRecords
    <3> DEFINE w == Append(audits, Record(r))
    <3>1. MaxRecords \in Nat /\ w \in Seq(AuditRecord)
      BY <2>2, RequestAssumption
    <3> HIDE DEF w
    <3>2. /\ Len(w) \in Nat /\ Newest(w) \in Seq(AuditRecord)
          /\ Len(Newest(w)) = IF Len(w) > MaxRecords THEN MaxRecords ELSE Len(w)
      BY <3>1, NewestIs
    <3>3. Len(Newest(w)) <= MaxRecords
      BY <3>1, <3>2
    <3> QED
      BY <3>2, <3>3 DEF w
  <2>4. thread' \in [Request -> 0 .. Attempts]
        /\ persisted' \in [Request -> {"unknown", "persisted", "failed"}]
    BY <1>5, RequestAssumption DEF Store, AuditTyped
  <2> QED
    BY <2>2, <2>3, <2>4, <1>5 DEF Store, AuditTyped
<1>6. CASE StoreFails(r)
  <2>1. PICK n \in {0, thread[r] - 1} :
          /\ thread' = [thread EXCEPT ![r] = n]
          /\ persisted' = [persisted EXCEPT ![r] = IF n = 0 THEN "failed" ELSE @]
    BY <1>6 DEF StoreFails
  <2>2. n \in 0 .. Attempts
    <3>1. thread[r] \in 0 .. Attempts /\ Attempts \in Nat /\ thread[r] > 0
      BY <1>6, RequestAssumption DEF StoreFails, AuditTyped
    <3> QED
      BY <3>1
  <2>3. thread' \in [Request -> 0 .. Attempts]
        /\ persisted' \in [Request -> {"unknown", "persisted", "failed"}]
    BY <2>1, <2>2 DEF AuditTyped
  <2> QED
    BY <2>3, <1>6 DEF StoreFails, AuditTyped
<1> QED
  BY <1>1, <1>3, <1>4, <1>5, <1>6

LEMMA StatusesStep ==
    ASSUME TaskTyped, AuditTyped, Statuses, RequestNext
    PROVE  Statuses'
<1> USE DEF TaskTyped, AuditTyped, Statuses, Through, Goes
<1>1. PICK r \in Request :
             \/ Submit(r) \/ Admit(r) \/ EnterSession(r) \/ Emit(r) \/ BodyEnds(r) \/ Warn(r)
             \/ CancelledOutside(r) \/ CancelledInBody(r) \/ Audited(r) \/ Reply(r)
             \/ AnnounceEnd(r) \/ Deadline(r) \/ Leave(r) \/ Store(r) \/ StoreFails(r)
             \/ Read(r) \/ Close(r)
  BY SomeStep
<1>2. CASE Submit(r)
  BY <1>2 DEF Submit, audit
<1>3. CASE Admit(r)
  BY <1>3 DEF Admit, At, audit
<1>4. CASE EnterSession(r)
  BY <1>4 DEF EnterSession, At, audit
<1>5. CASE Emit(r) \/ Read(r) \/ Close(r)
  BY <1>5 DEF Emit, Read, Close, task, audit
<1>6. CASE Deadline(r) \/ Leave(r)
  BY <1>6 DEF Deadline, Leave, audit
<1>7. CASE BodyEnds(r)
  BY <1>7 DEF BodyEnds, Finishes, At
<1>8. CASE Warn(r)
  BY <1>8 DEF Warn, Finishes, At
<1>9. CASE CancelledInBody(r)
  BY <1>9 DEF CancelledInBody, Finishes, Arrives
<1>10. CASE CancelledOutside(r)
  BY <1>10 DEF CancelledOutside, LeavesGates, Arrives, audit
<1>11. CASE Audited(r)
  BY <1>11 DEF Audited, LeavesGates, Arrives, audit
<1>12. CASE Reply(r) \/ AnnounceEnd(r)
  BY <1>12 DEF Reply, AnnounceEnd, audit
<1>13. CASE Store(r)
  BY <1>13 DEF Store, task
<1>14. CASE StoreFails(r)
  BY <1>14 DEF StoreFails, task
<1> QED
  BY <1>1, <1>2, <1>3, <1>4, <1>5, <1>6, <1>7, <1>8, <1>9, <1>10, <1>11, <1>12, <1>13, <1>14

(* What a workflow came to is settled when it is over, and so is its       *)
(* record when the thread is done.                                         *)
LEMMA ThroughStays ==
    ASSUME TaskTyped, AuditTyped, RequestNext, NEW q \in Request, Through(q)
    PROVE  /\ Through(q)' /\ outcome'[q] = outcome[q]
           /\ thread[q] = 0 => thread'[q] = 0
<1> USE DEF TaskTyped, AuditTyped, Through, Goes
<1>1. PICK r \in Request :
             \/ Submit(r) \/ Admit(r) \/ EnterSession(r) \/ Emit(r) \/ BodyEnds(r) \/ Warn(r)
             \/ CancelledOutside(r) \/ CancelledInBody(r) \/ Audited(r) \/ Reply(r)
             \/ AnnounceEnd(r) \/ Deadline(r) \/ Leave(r) \/ Store(r) \/ StoreFails(r)
             \/ Read(r) \/ Close(r)
  BY SomeStep
<1>2. CASE Submit(r) \/ Admit(r) \/ EnterSession(r)
  BY <1>2 DEF Submit, Admit, EnterSession, At, audit
<1>3. CASE Emit(r) \/ Read(r) \/ Close(r)
  BY <1>3 DEF Emit, Read, Close, task, audit
<1>4. CASE Deadline(r) \/ Leave(r)
  BY <1>4 DEF Deadline, Leave, audit
<1>5. CASE BodyEnds(r) \/ Warn(r) \/ CancelledInBody(r)
  BY <1>5 DEF BodyEnds, Warn, CancelledInBody, Finishes, At
<1>6. CASE CancelledOutside(r) \/ Audited(r)
  BY <1>6 DEF CancelledOutside, Audited, LeavesGates, audit
<1>7. CASE Reply(r) \/ AnnounceEnd(r)
  BY <1>7 DEF Reply, AnnounceEnd, audit
<1>8. CASE Store(r)
  BY <1>8 DEF Store, task
<1>9. CASE StoreFails(r)
  BY <1>9 DEF StoreFails, task
<1> QED
  BY <1>1, <1>2, <1>3, <1>4, <1>5, <1>6, <1>7, <1>8, <1>9

(* Only Store writes a record, or tells that one is persisted.             *)
LEMMA OnlyStoreWrites ==
    ASSUME AuditTyped, RequestNext, ~(\E r \in Request : Store(r))
    PROVE  /\ UNCHANGED <<audits, written>>
           /\ \A q \in Request : persisted'[q] = "persisted" => persisted[q] = "persisted"
<1>1. PICK r \in Request :
             \/ Submit(r) \/ Admit(r) \/ EnterSession(r) \/ Emit(r) \/ BodyEnds(r) \/ Warn(r)
             \/ CancelledOutside(r) \/ CancelledInBody(r) \/ Audited(r) \/ Reply(r)
             \/ AnnounceEnd(r) \/ Deadline(r) \/ Leave(r) \/ StoreFails(r)
             \/ Read(r) \/ Close(r)
  BY SomeStep
<1>2. CASE StoreFails(r)
  BY <1>2 DEF StoreFails, AuditTyped
<1>3. CASE ~StoreFails(r)
  <2>1. UNCHANGED <<persisted, audits, written>>
    BY <1>1, <1>3 DEF audit, Submit, Admit, EnterSession, Emit, BodyEnds, Warn,
       CancelledOutside, CancelledInBody, Audited, Reply, AnnounceEnd, Deadline, Leave,
       Read, Close
  <2> QED
    BY <2>1
<1> QED
  BY <1>2, <1>3

LEMMA RecordsStep ==
    ASSUME TaskTyped, AuditTyped, Statuses, Records, RequestNext
    PROVE  Records'
<1>1. \A i \in DOMAIN written : written[i] \in AuditRecord /\ written[i].query \in Request
  <2>1. \A i \in DOMAIN written : written[i] \in AuditRecord
    BY DEF AuditTyped
  <2> QED
    BY <2>1 DEF AuditRecord
<1>2. ASSUME NEW i \in DOMAIN written, NEW q \in Request, written[i].query = q
      PROVE  Through(q)' /\ thread'[q] = 0 /\ written[i] = Record(q)'
  <2>1. Through(q) /\ thread[q] = 0 /\ written[i] = Record(q)
    BY <1>2 DEF Records
  <2>2. Through(q)' /\ outcome'[q] = outcome[q] /\ thread'[q] = 0
    BY <2>1, ThroughStays
  <2> QED
    BY <2>1, <2>2 DEF Record
<1>3. ASSUME NEW q \in Request, persisted[q] = "persisted"
      PROVE  \E i \in DOMAIN written : written[i] = Record(q)'
  <2>1. PICK i \in DOMAIN written : written[i] = Record(q)
    BY <1>3 DEF Records
  <2>2. written[i].query = q
    BY <2>1 DEF Record
  <2>3. written[i] = Record(q)'
    BY <2>2, <1>2
  <2> QED
    BY <2>3
<1>4. CASE \E r \in Request : Store(r)
  <2>1. PICK r \in Request : Store(r)
    BY <1>4
  <2> DEFINE x == Record(r)
             n == Len(written) + 1
  <2>2. /\ thread[r] > 0 /\ thread'[r] = 0 /\ audits' = Newest(Append(audits, x))
        /\ written' = Append(written, x) /\ UNCHANGED <<run, outcome>>
        /\ persisted' = [persisted EXCEPT ![r] = "persisted"]
    BY <2>1 DEF Store, task, AuditTyped
  <2>3. x \in AuditRecord /\ x.query = r /\ x = Record(r)'
    BY <2>2 DEF Record, AuditRecord, TaskTyped
  <2>4. written \in Seq(AuditRecord) /\ Len(written) \in Nat /\ DOMAIN written = 1 .. Len(written)
    BY DEF AuditTyped
  <2> HIDE DEF x
  <2>5. /\ DOMAIN written' = 1 .. n /\ n \in DOMAIN written' /\ written'[n] = x
        /\ \A i \in DOMAIN written : i \in DOMAIN written' /\ written'[i] = written[i]
        /\ \A i \in DOMAIN written' : i = n \/ i \in DOMAIN written
    BY <2>2, <2>3, <2>4
  <2> HIDE DEF n
  <2>6. audits' = Newest(written)'
    <3>1. Newest(Append(Newest(written), x)) = Newest(Append(written, x))
      BY <2>3, <2>4, NewestOfNewest
    <3>2. audits = Newest(written) /\ Newest(written)' = Newest(written')
      BY DEF Records, Newest
    <3> QED
      BY <3>1, <3>2, <2>2
  <2>7. Through(r)'
    BY <2>2 DEF Statuses, Through
  <2>8. ASSUME NEW i \in DOMAIN written', NEW q \in Request, written'[i].query = q
        PROVE  Through(q)' /\ thread'[q] = 0 /\ written'[i] = Record(q)'
    <3>1. CASE i = n
      <4>1. q = r /\ written'[i] = x
        BY <3>1, <2>5, <2>3, <2>8
      <4> QED
        BY <4>1, <2>3, <2>7, <2>2
    <3>2. CASE i \in DOMAIN written
      <4>1. written[i].query = q /\ written'[i] = written[i]
        BY <3>2, <2>5, <2>8
      <4> QED
        BY <4>1, <3>2, <1>2
    <3> QED
      BY <3>1, <3>2, <2>5
  <2>9. \A i \in DOMAIN written : written[i].query # r
    BY <2>2 DEF Records
  <2>10. \A i, j \in DOMAIN written' : written'[i].query = written'[j].query => i = j
    BY <2>3, <2>5, <2>9 DEF Records
  <2>11. ASSUME NEW q \in Request, persisted'[q] = "persisted"
         PROVE  \E i \in DOMAIN written' : written'[i] = Record(q)'
    <3>1. CASE q = r
      BY <3>1, <2>5, <2>3
    <3>2. CASE q # r
      <4>1. persisted[q] = "persisted"
        BY <3>2, <2>11, <2>2 DEF AuditTyped
      <4> QED
        BY <4>1, <1>3, <2>5
    <3> QED
      BY <3>1, <3>2
  <2>12. \A i \in DOMAIN written' : written'[i].query \in Request
    BY <2>3, <2>5, <1>1 DEF AuditRecord
  <2> QED
    BY <2>6, <2>8, <2>10, <2>11, <2>12 DEF Records, Through, Record
<1>5. CASE ~(\E r \in Request : Store(r))
  <2>1. /\ audits' = audits /\ written' = written
        /\ \A q \in Request : persisted'[q] = "persisted" => persisted[q] = "persisted"
    BY <1>5, OnlyStoreWrites
  <2>2. audits' = Newest(written)'
    BY <2>1 DEF Records, Newest
  <2>3. \A i, j \in DOMAIN written' : written'[i].query = written'[j].query => i = j
    BY <2>1 DEF Records
  <2> QED
    BY <2>1, <2>2, <2>3, <1>1, <1>2, <1>3 DEF Records, Through, Record
<1> QED
  BY <1>4, <1>5

LEMMA RankIs ==
    /\ \A e \in Event \cup {"nothing"} : Rank(e) \in 0 .. 3
    /\ Rank("nothing") = 0 /\ Rank("event") = 0 /\ Rank("workflow_failed") = 1
    /\ Rank("done") = 2 /\ Rank("error") = 2 /\ Rank("_end") = 3
BY DEF Rank, Event

LEMMA ToldIs ==
    /\ \A p \in Run : Told(p) \in 0 .. 3
    /\ \A p \in {"none", "start", "gate", "body", "warn"} : Told(p) = 0
    /\ Told("audit") = 1 /\ Told("reply") = 1 /\ Told("end") = 2 /\ Told("over") = 3
BY DEF Told, Run

(* A place from which more may be told keeps the order.                    *)
LEMMA InOrderLater ==
    ASSUME NEW q \in Seq(Event), NEW e \in Event \cup {"nothing"},
           NEW p \in Run, NEW to \in Run, InOrder(q, e, p), Told(p) <= Told(to)
    PROVE  InOrder(q, e, to)
<1>1. Told(p) \in Int /\ Told(to) \in Int /\ Rank(e) \in Int
  BY RankIs, ToldIs
<1>2. \A i \in DOMAIN q : Rank(q[i]) \in Int
  BY RankIs
<1> QED
  BY <1>1, <1>2 DEF InOrder

(* An event may be put behind those that have been told when it ranks      *)
(* higher, or when nothing but the workflow's events has been told.        *)
LEMMA InOrderPut ==
    ASSUME NEW q \in Seq(Event), NEW e \in Event \cup {"nothing"}, NEW f \in Event,
           NEW p \in Run, NEW to \in Run, InOrder(q, e, p), Rank(f) = Told(to),
           Told(p) < Told(to) \/ (Told(p) = 0 /\ Told(to) = 0)
    PROVE  InOrder(Append(q, f), e, to)
<1> DEFINE s == Append(q, f)
<1>1. Told(p) \in 0 .. 3 /\ Told(to) \in 0 .. 3 /\ Rank(e) \in 0 .. 3 /\ Rank(f) \in 0 .. 3
  BY RankIs, ToldIs
<1>2. \A i \in DOMAIN q : Rank(q[i]) \in 0 .. 3
  BY RankIs
<1>3. /\ Len(q) \in Nat /\ Len(s) = Len(q) + 1 /\ DOMAIN s = 1 .. Len(q) + 1
      /\ DOMAIN q = 1 .. Len(q) /\ s[Len(q) + 1] = f /\ \A i \in 1 .. Len(q) : s[i] = q[i]
  OBVIOUS
<1> HIDE DEF s
<1>4. Rises(e, f) /\ \A i \in DOMAIN q : Rises(q[i], f)
  BY <1>1, <1>2 DEF Rises, InOrder
<1>5. Rank(e) <= Told(to) /\ \A i \in DOMAIN s : Rank(s[i]) <= Told(to)
  <2>1. Rank(e) <= Told(to) /\ \A i \in DOMAIN q : Rank(q[i]) <= Told(to)
    BY <1>1, <1>2 DEF InOrder
  <2>2. Rank(f) <= Told(to)
    BY <1>1
  <2>3. \A i \in DOMAIN s : i = Len(q) + 1 \/ i \in DOMAIN q
    BY <1>3
  <2> QED
    BY <2>1, <2>2, <2>3, <1>3
<1>6. s # <<>> => Rises(e, s[1])
  <2>1. CASE q = <<>>
    BY <2>1, <1>3, <1>4
  <2>2. CASE q # <<>>
    <3>1. 1 \in 1 .. Len(q) /\ Rises(e, q[1])
      BY <2>2, <1>3 DEF InOrder
    <3> QED
      BY <3>1, <1>3
  <2> QED
    BY <2>1, <2>2
<1>7. ASSUME NEW i \in 1 .. Len(s) - 1
      PROVE  Rises(s[i], s[i + 1])
  <2>1. CASE i = Len(q)
    BY <2>1, <1>3, <1>4, <1>7
  <2>2. CASE i # Len(q)
    <3>1. i \in 1 .. Len(q) - 1 /\ i \in 1 .. Len(q) /\ i + 1 \in 1 .. Len(q)
      <4> DEFINE n == Len(q)
      <4>1. n \in Nat /\ Len(s) = n + 1 /\ i # n
        BY <2>2, <1>3
      <4> HIDE DEF n
      <4>2. i \in 1 .. n - 1 /\ i \in 1 .. n /\ i + 1 \in 1 .. n
        BY <4>1, <1>7
      <4> QED
        BY <4>2 DEF n
    <3> QED
      BY <3>1, <1>3 DEF InOrder
  <2> QED
    BY <2>1, <2>2
<1>8. InOrder(s, e, to)
  BY <1>5, <1>6, <1>7 DEF InOrder
<1> QED
  BY <1>8 DEF s

LEMMA InOrderTake ==
    ASSUME NEW q \in Seq(Event), NEW e \in Event \cup {"nothing"}, NEW p \in Run,
           InOrder(q, e, p), q # <<>>
    PROVE  InOrder(Tail(q), Head(q), p)
<1> DEFINE s == Tail(q)
<1>1. /\ s \in Seq(Event) /\ Len(s) = Len(q) - 1 /\ Head(q) = q[1]
      /\ \A i \in 1 .. Len(s) : s[i] = q[i + 1]
  BY HeadTailProperties
<1>2. Len(q) \in Nat /\ Len(q) # 0 /\ DOMAIN q = 1 .. Len(q) /\ DOMAIN s = 1 .. Len(s)
  BY <1>1
<1> HIDE DEF s
<1>3. Rank(Head(q)) <= Told(p) /\ \A i \in DOMAIN s : Rank(s[i]) <= Told(p)
  <2>1. 1 \in DOMAIN q /\ \A i \in DOMAIN s : i + 1 \in DOMAIN q
    BY <1>1, <1>2
  <2> QED
    BY <2>1, <1>1, <1>2 DEF InOrder
<1>4. s # <<>> => Rises(Head(q), s[1])
  <2>1. SUFFICES ASSUME s # <<>> PROVE Rises(Head(q), s[1])
    OBVIOUS
  <2>2. Len(s) # 0 /\ Len(s) \in Nat
    BY <2>1, <1>1
  <2>3. 1 \in 1 .. Len(s) /\ 1 \in 1 .. Len(q) - 1 /\ s[1] = q[1 + 1]
    BY <2>2, <1>1, <1>2
  <2> QED
    BY <2>3, <1>1 DEF InOrder
<1>5. ASSUME NEW i \in 1 .. Len(s) - 1
      PROVE  Rises(s[i], s[i + 1])
  <2>1. i + 1 \in 1 .. Len(q) - 1 /\ s[i] = q[i + 1] /\ s[i + 1] = q[(i + 1) + 1]
    BY <1>1, <1>2, <1>5
  <2> QED
    BY <2>1 DEF InOrder
<1>6. InOrder(s, Head(q), p)
  BY <1>3, <1>4, <1>5 DEF InOrder
<1> QED
  BY <1>6 DEF s

LEMMA VerdictsStep ==
    ASSUME TaskTyped, StreamTyped, Verdicts, RequestNext
    PROVE  Verdicts'
<1>1. PICK r \in Request :
             \/ Submit(r) \/ Admit(r) \/ EnterSession(r) \/ Emit(r) \/ BodyEnds(r) \/ Warn(r)
             \/ CancelledOutside(r) \/ CancelledInBody(r) \/ Audited(r) \/ Reply(r)
             \/ AnnounceEnd(r) \/ Deadline(r) \/ Leave(r) \/ Store(r) \/ StoreFails(r)
             \/ Read(r) \/ Close(r)
  BY SomeStep
<1>2. \A s \in Request : /\ queue[s] \in Seq(Event) /\ seen[s] \in Event \cup {"nothing"}
                         /\ run[s] \in Run /\ InOrder(queue[s], seen[s], run[s])
  BY DEF TaskTyped, StreamTyped, Verdicts
<1>3. ASSUME UNCHANGED <<queue, seen>>, NEW to \in Run, Goes(r, to), Told(run[r]) <= Told(to)
      PROVE  Verdicts'
  <2>1. InOrder(queue[r], seen[r], to)
    BY <1>2, <1>3, InOrderLater
  <2>2. run'[r] = to /\ \A s \in Request \ {r} : run'[s] = run[s]
    BY <1>3 DEF Goes, TaskTyped
  <2>3. \A s \in Request : InOrder(queue[s], seen[s], run'[s])
    BY <2>1, <2>2, <1>2
  <2> QED
    BY <2>3, <1>3 DEF Verdicts
<1>4. ASSUME seen' = seen, NEW e \in Event, Puts(r, e), NEW to \in Run, run' = [run EXCEPT ![r] = to],
             Rank(e) = Told(to), Told(run[r]) < Told(to) \/ (Told(run[r]) = 0 /\ Told(to) = 0)
      PROVE  Verdicts'
  <2>1. InOrder(Append(queue[r], e), seen[r], to)
    BY <1>2, <1>4, InOrderPut
  <2>2. queue'[r] = Append(queue[r], e) /\ \A s \in Request \ {r} : queue'[s] = queue[s]
    BY <1>4, PutsEvent DEF StreamTyped
  <2>3. run'[r] = to /\ \A s \in Request \ {r} : run'[s] = run[s]
    BY <1>4 DEF TaskTyped
  <2>4. \A s \in Request : InOrder(queue'[s], seen[s], run'[s])
    BY <2>1, <2>2, <2>3, <1>2
  <2> QED
    BY <2>4, <1>4 DEF Verdicts
<1>5. CASE UNCHANGED <<run, queue, seen>>
  BY <1>5, <1>2 DEF Verdicts
<1>6. CASE Submit(r)
  BY <1>6, <1>3, ToldIs DEF Submit, stream, Run
<1>7. CASE Admit(r)
  <2>1. run[r] = "start" /\ UNCHANGED <<queue, seen>> /\ (Goes(r, "gate") \/ Goes(r, "reply"))
    BY <1>7 DEF Admit, At, stream
  <2> QED
    BY <2>1, <1>3, ToldIs DEF Run
<1>8. CASE EnterSession(r)
  <2>1. run[r] = "gate" /\ UNCHANGED <<queue, seen>> /\ Goes(r, "body")
    BY <1>8 DEF EnterSession, At, stream
  <2> QED
    BY <2>1, <1>3, ToldIs DEF Run
<1>9. CASE Emit(r)
  <2>1. run[r] = "body" /\ UNCHANGED <<run, seen>> /\ Puts(r, "event")
    BY <1>9 DEF Emit, At, task
  <2>2. run' = [run EXCEPT ![r] = "body"]
    BY <2>1 DEF TaskTyped
  <2> QED
    BY <2>1, <2>2, <1>4, RankIs, ToldIs DEF Run, Event
<1>10. CASE BodyEnds(r)
  <2>1. run[r] = "body" /\ UNCHANGED <<queue, seen>> /\ (Goes(r, "audit") \/ Goes(r, "warn"))
    BY <1>10 DEF BodyEnds, At, Finishes, stream
  <2> QED
    BY <2>1, <1>3, ToldIs DEF Run
<1>11. CASE Warn(r)
  <2>1. /\ run[r] = "warn" /\ seen' = seen /\ Goes(r, "audit")
        /\ Puts(r, "workflow_failed") \/ queue' = queue
    BY <1>11 DEF Warn, At, Finishes
  <2> QED
    BY <2>1, <1>3, <1>4, RankIs, ToldIs DEF Run, Event, Goes
<1>12. CASE CancelledOutside(r) \/ Audited(r)
  <2>1. /\ run[r] \in {"start", "gate", "audit"} /\ UNCHANGED <<queue, seen>>
        /\ Goes(r, "reply")
    BY <1>12 DEF CancelledOutside, Audited, LeavesGates, stream
  <2> QED
    BY <2>1, <1>3, ToldIs DEF Run
<1>13. CASE CancelledInBody(r)
  <2>1. run[r] \in {"body", "warn"} /\ UNCHANGED <<queue, seen>> /\ Goes(r, "audit")
    BY <1>13 DEF CancelledInBody, Finishes, stream
  <2> QED
    BY <2>1, <1>3, ToldIs DEF Run
<1>14. CASE Reply(r)
  <2>1. /\ run[r] = "reply" /\ seen' = seen
        /\ \/ Goes(r, "over") /\ queue' = queue
           \/ Goes(r, "end") /\ (Puts(r, "done") \/ Puts(r, "error"))
    BY <1>14 DEF Reply
  <2> QED
    BY <2>1, <1>3, <1>4, RankIs, ToldIs DEF Run, Event, Goes
<1>15. CASE AnnounceEnd(r)
  <2>1. /\ run[r] = "end" /\ seen' = seen /\ Goes(r, "over")
        /\ queue' = queue \/ Puts(r, "_end")
    BY <1>15 DEF AnnounceEnd
  <2> QED
    BY <2>1, <1>3, <1>4, RankIs, ToldIs DEF Run, Event, Goes
<1>16. CASE Deadline(r) \/ Leave(r) \/ Store(r) \/ StoreFails(r) \/ Close(r)
  BY <1>16, <1>5 DEF Deadline, Leave, Store, StoreFails, Close, task, stream
<1>17. CASE Read(r)
  <2>1. /\ queue[r] # <<>> /\ run' = run
        /\ queue' = [queue EXCEPT ![r] = Tail(queue[r])]
        /\ seen' = [seen EXCEPT ![r] = Head(queue[r])]
    BY <1>17 DEF Read, task
  <2>2. InOrder(Tail(queue[r]), Head(queue[r]), run[r])
    BY <2>1, <1>2, InOrderTake
  <2>3. /\ queue'[r] = Tail(queue[r]) /\ seen'[r] = Head(queue[r])
        /\ \A s \in Request \ {r} : queue'[s] = queue[s] /\ seen'[s] = seen[s]
    BY <2>1 DEF StreamTyped
  <2>4. \A s \in Request : InOrder(queue'[s], seen'[s], run[s])
    BY <2>2, <2>3, <1>2
  <2> QED
    BY <2>1, <2>4 DEF Verdicts
<1> QED
  BY <1>1, <1>6, <1>7, <1>8, <1>9, <1>10, <1>11, <1>12, <1>13, <1>14, <1>15, <1>16, <1>17

RequestTyped ==
    /\ TaskTyped /\ GatesTyped /\ StreamTyped /\ AuditTyped

RequestInv == RequestTyped /\ Statuses /\ Records /\ Verdicts

(* A client was told no more than its request's place allows, statuses are *)
(* outcomes, and records are of queries that are through.                  *)
THEOREM RequestInvariant == RequestSpec => []RequestInv
<1>1. RequestInit => RequestInv
  <2>1. SUFFICES ASSUME RequestInit PROVE RequestInv
    OBVIOUS
  <2> USE DEF RequestInit
  <2>2. TaskTyped
    BY <2>1 DEF TaskTyped, Run, Stop, Result, Outcome
  <2>3. GatesTyped
    <3>1. capacity \in Nat \ {0} /\ IsFiniteSet({}) /\ Cardinality({}) = 0
      BY <2>1, RequestAssumption, FS_EmptySet
    <3> QED
      BY <2>1, <3>1 DEF GatesTyped, Inside
  <2>4. StreamTyped
    <3>1. MaxEvents \in Nat /\ QueueSize \in Nat /\ <<>> \in Seq(Event) /\ Len(<<>>) = 0
      BY RequestAssumption
    <3> QED
      BY <2>1, <3>1 DEF StreamTyped, Client
  <2>5. AuditTyped
    <3>1. Attempts \in Nat /\ MaxRecords \in Nat /\ <<>> \in Seq(AuditRecord) /\ Len(<<>>) = 0
      BY RequestAssumption
    <3> QED
      BY <2>1, <3>1 DEF AuditTyped
  <2>6. Statuses
    BY <2>1 DEF Statuses
  <2>7. Records
    <3>1. written \in Seq(AuditRecord) /\ Len(written) = 0 /\ MaxRecords \in Nat
      BY <2>1, RequestAssumption
    <3>2. /\ Newest(written) \in Seq(AuditRecord)
          /\ Len(Newest(written)) = IF Len(written) > MaxRecords THEN MaxRecords
                                                               ELSE Len(written)
      BY <3>1, NewestIs
    <3> HIDE DEF RequestInit
    <3>3. Len(Newest(written)) = 0
      BY <3>1, <3>2
    <3>4. Newest(written) = <<>>
      BY <3>2, <3>3
    <3> QED
      BY <2>1, <3>4 DEF Records, RequestInit
  <2>8. Verdicts
    BY <2>1, RankIs, ToldIs DEF Verdicts, InOrder
  <2> QED
    BY <2>2, <2>3, <2>4, <2>5, <2>6, <2>7, <2>8 DEF RequestInv, RequestTyped
<1>2. RequestInv /\ [RequestNext]_requestVars => RequestInv'
  <2>1. SUFFICES ASSUME RequestInv, [RequestNext]_requestVars PROVE RequestInv'
    OBVIOUS
  <2>2. CASE RequestNext
    <3>1. TaskTyped' /\ GatesTyped' /\ StreamTyped'
      BY <2>1, <2>2, TaskStep, GatesStep, StreamStep DEF RequestInv, RequestTyped
    <3>2. outcome \in [Request -> Outcome]
      BY <2>1 DEF RequestInv, RequestTyped, TaskTyped
    <3>3. AuditTyped'
      BY <3>2, <2>1, <2>2, AuditStep DEF RequestInv, RequestTyped
    <3>4. Statuses' /\ Records' /\ Verdicts'
      BY <2>1, <2>2, StatusesStep, RecordsStep, VerdictsStep DEF RequestInv, RequestTyped
    <3> QED
      BY <3>1, <3>3, <3>4 DEF RequestInv, RequestTyped
  <2>3. CASE UNCHANGED requestVars
    <3>1. UNCHANGED <<capacity, run, stop, result, outcome, admitted, entered>>
      BY <2>3 DEF requestVars, work, task, gates
    <3>2. UNCHANGED <<emitted, queue, seen, client, thread, persisted, audits, written>>
      BY <2>3 DEF requestVars, work, stream, audit
    <3>3. TaskTyped' /\ GatesTyped' /\ StreamTyped' /\ AuditTyped'
      BY <2>1, <3>1, <3>2
      DEF RequestInv, RequestTyped, TaskTyped, GatesTyped, StreamTyped, AuditTyped
    <3>4. Statuses' /\ Records' /\ Verdicts'
      BY <2>1, <3>1, <3>2
      DEF RequestInv, Statuses, Records, Verdicts, Through, Record, Newest
    <3> QED
      BY <3>3, <3>4 DEF RequestInv, RequestTyped
  <2> QED
    BY <2>1, <2>2, <2>3
<1> QED
  BY <1>1, <1>2, PTL DEF RequestSpec

(* Whatever cuts a streamed request off and however slowly its client      *)
(* reads, what the client got and will get is in order: events, at most    *)
(* one failure, at most one verdict, the end (event_stream of query.py).   *)
THEOREM VerdictsAreSingle == RequestSpec => []OneVerdict
<1>1. RequestInv => OneVerdict
  <2>1. SUFFICES ASSUME RequestInv PROVE OneVerdict
    OBVIOUS
  <2>2. ASSUME NEW r \in Request
        PROVE  LET s == <<seen[r]>> \o queue[r]
               IN  \A i \in 1 .. Len(s) - 1 : Rises(s[i], s[i + 1])
    <3> DEFINE T == Event \cup {"nothing"}
               q == queue[r]
               s == <<seen[r]>> \o q
    <3>1. q \in Seq(T) /\ seen[r] \in T /\ InOrder(q, seen[r], run[r])
      <4>1. q \in Seq(Event)
        BY <2>1 DEF RequestInv, RequestTyped, StreamTyped
      <4>2. q \in Seq(T)
        BY <4>1, SeqMonotonic
      <4> QED
        BY <4>2, <2>1 DEF RequestInv, RequestTyped, StreamTyped, Verdicts
    <3>2. /\ <<seen[r]>> \in Seq(T) /\ Len(<<seen[r]>>) = 1 /\ <<seen[r]>>[1] = seen[r]
          /\ Len(q) \in Nat
      BY <3>1
    <3>3. /\ Len(s) = 1 + Len(q)
          /\ \A i \in 1 .. 1 + Len(q) : s[i] = IF i <= 1 THEN <<seen[r]>>[i] ELSE q[i - 1]
      BY <3>1, <3>2, ConcatProperties
    <3> HIDE DEF s, q
    <3>4. ASSUME NEW i \in 1 .. Len(s) - 1
          PROVE  Rises(s[i], s[i + 1])
      <4>1. /\ i \in 1 .. Len(q) /\ i \in 1 .. 1 + Len(q) /\ i + 1 \in 1 .. 1 + Len(q)
            /\ ~(i + 1 <= 1) /\ (i + 1) - 1 = i
        BY <3>2, <3>3, <3>4
      <4>2. s[i + 1] = q[i]
        BY <4>1, <3>3
      <4>3. CASE i = 1
        <5>1. s[i] = seen[r]
          BY <4>1, <4>3, <3>2, <3>3
        <5>2. q # <<>>
          BY <4>1, <4>3, <3>1
        <5> QED
          BY <5>1, <5>2, <4>2, <4>3, <3>1 DEF InOrder
      <4>4. CASE i # 1
        <5>1. s[i] = q[i - 1] /\ i - 1 \in 1 .. Len(q) - 1 /\ (i - 1) + 1 = i
          BY <4>1, <4>4, <3>2, <3>3
        <5> QED
          BY <5>1, <4>2, <3>1 DEF InOrder
      <4> QED
        BY <4>3, <4>4
    <3>5. \A i \in 1 .. Len(s) - 1 : Rises(s[i], s[i + 1])
      BY <3>4
    <3> QED
      BY <3>5 DEF s, q
  <2> QED
    BY <2>2 DEF OneVerdict, Rises
<1> QED
  BY <1>1, RequestInvariant, PTL

(* The audit table keeps the newest records, one for each query, a query   *)
(* that is told its record is persisted has one with the status it is      *)
(* told, and a request that is through has left no thread and no permit    *)
(* behind (finish_audit, the gates of run_query).                          *)
THEOREM AuditsAreHonest == RequestSpec => []AuditIsHonest
<1>1. RequestInv => AuditIsHonest
  <2>1. SUFFICES ASSUME RequestInv PROVE AuditIsHonest
    OBVIOUS
  <2>2. RequestTypeOK
    BY <2>1 DEF RequestInv, RequestTyped, TaskTyped, GatesTyped, StreamTyped, AuditTyped,
                RequestTypeOK, Inside
  <2>3. ASSUME NEW r \in Request, result[r] \in {"completed", "failed"},
               persisted[r] = "persisted"
        PROVE  \E i \in DOMAIN written : written[i] = [query |-> r, outcome |-> result[r]]
    <3>1. outcome[r] = result[r] /\ \E i \in DOMAIN written : written[i] = Record(r)
      BY <2>1, <2>3 DEF RequestInv, Statuses, Records
    <3> QED
      BY <3>1 DEF Record
  <2>4. ASSUME NEW r \in Request, run[r] \in {"reply", "end", "over"}
        PROVE  thread[r] = 0 /\ r \notin admitted \cup entered
    <3>1. thread[r] \in Nat /\ ~(thread[r] > 0)
      <4>1. thread[r] \in 0 .. Attempts /\ Attempts \in Nat
        BY <2>1, RequestAssumption DEF RequestInv, RequestTyped, AuditTyped
      <4> QED
        BY <4>1, <2>1, <2>4 DEF RequestInv, Statuses
    <3>2. r \notin admitted \cup entered
      BY <2>1, <2>4 DEF RequestInv, RequestTyped, GatesTyped, Inside
    <3> QED
      BY <3>1, <3>2
  <2>5. audits = Newest(written)
        /\ \A i, j \in DOMAIN written : written[i].query = written[j].query => i = j
    <3>1. Records
      BY <2>1 DEF RequestInv
    <3> QED
      BY <3>1 DEF Records
  <2> QED
    BY <2>2, <2>3, <2>4, <2>5 DEF AuditIsHonest
<1> QED
  BY <1>1, RequestInvariant, PTL
=============================================================================
