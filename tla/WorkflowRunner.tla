--------------------------- MODULE WorkflowRunner ---------------------------
(***************************************************************************)
(* WorkflowRunner._run of app/harness/runner.py: one run of a fixed plan.  *)
(* The plan alone decides which node comes next; a node either passes its  *)
(* evaluation, passes and asks for a revision, fails, or the run is cut    *)
(* off while the node is awaited.  What a node computes is left open.      *)
(***************************************************************************)
EXTENDS Naturals, Sequences

CONSTANTS Plans,          \* the plans the loader may hand over
          Registry,       \* the node names that are registered
          MaxNodeRetries  \* constraints.limits.max_node_retries

(* A reflection can be heard of.                                           *)
Reflects(p) == p.evaluated /\ \E i \in DOMAIN p.nodes : p.nodes[i].node = "reflection"

(* What the runner does not check and the plans of the repository keep to. *)
(* The runner knows a reflection by its id; only it ends a run early; the  *)
(* last node after a revision may not be skipped; and a revision does not  *)
(* jump over a node that the later ones depend on.                         *)
KeepsReflection(p) ==
    /\ \A i \in DOMAIN p.nodes : p.nodes[i].node = "reflection" => p.nodes[i].id = "reflect"
    /\ \E i \in DOMAIN p.nodes : p.nodes[i].id = "revise"
    /\ \A i \in DOMAIN p.nodes : p.nodes[i].onPass = "output" => p.nodes[i].id = "reflect"
    /\ p.nodes[Len(p.nodes)].onFailure # "skip"
    /\ \A f, r, k \in DOMAIN p.nodes :
          p.nodes[f].id = "reflect" /\ p.nodes[r].id = "revise" /\ r <= k =>
             \A j \in f + 1 .. r - 1 : p.nodes[j].id \notin p.nodes[k].deps

ASSUME PlanAssumption ==
    /\ MaxNodeRetries \in Nat
    /\ \A p \in Plans :
          /\ p.nodes \in Seq({p.nodes[i] : i \in DOMAIN p.nodes})
          /\ p.maxRetries \in Nat /\ p.maxIterations \in Nat
          /\ Reflects(p) => KeepsReflection(p)

VARIABLES
    plan,       \* the plan of this run
    status,     \* trace.status
    reason,     \* trace.error, by its kind
    index,      \* position in plan.nodes, from 1
    attempt,    \* attempts of this node that failed
    iterations,
    back,       \* reflection_index, 0 for None
    trace       \* trace.nodes: which node was attempted and how it ended

vars == <<plan, status, reason, index, attempt, iterations, back, trace>>

Status  == {"new", "running", "completed", "failed", "aborted"}
Reason  == {"none", "plan", "node", "exhausted", "unavailable", "cancelled"}
Verdict == {"pass", "revise", "fail", "cut"}

Nodes  == plan.nodes
Here   == Nodes[index]
Ids(p) == {p.nodes[i].id : i \in DOMAIN p.nodes}

TypeOK ==
    /\ plan \in Plans
    /\ status \in Status
    /\ reason \in Reason
    /\ index \in 1 .. Len(Nodes) \/ (index = 1 /\ status \in {"new", "failed"})
    /\ attempt \in 0 .. plan.maxRetries
    /\ iterations = Len(trace) /\ iterations <= plan.maxIterations
    /\ back \in 0 .. Len(Nodes)
    /\ \A i \in DOMAIN trace : trace[i].id \in Ids(plan) /\ trace[i].verdict \in Verdict

Init ==
    /\ plan \in Plans
    /\ status = "new"
    /\ reason = "none"
    /\ index = 1
    /\ attempt = 0
    /\ iterations = 0
    /\ back = 0
    /\ trace = <<>>

-----------------------------------------------------------------------------
(* Helpers *)

(* Mutant: depends_on is not looked at.                                    *)
ValidUnordered(p) ==
    /\ p.nodes # <<>> /\ p.metricsKnown
    /\ \A i \in DOMAIN p.nodes : p.nodes[i].node \in Registry

(* The checks before the first node: known metrics, registered nodes,      *)
(* distinct ids, dependencies on earlier nodes.                            *)
Valid(p) ==
    /\ p.nodes # <<>> /\ p.metricsKnown
    /\ \A i \in DOMAIN p.nodes :
          /\ p.nodes[i].node \in Registry
          /\ \A j \in 1 .. i - 1 : p.nodes[j].id # p.nodes[i].id
          /\ p.nodes[i].deps \subseteq {p.nodes[j].id : j \in 1 .. i - 1}

Retries == IF plan.maxRetries < MaxNodeRetries THEN plan.maxRetries ELSE MaxNodeRetries

RetriesLeft == attempt < Retries

Revise == {i \in DOMAIN Nodes : Nodes[i].id = "revise"}

End == Len(Nodes) + 1

(* Mutant: the last node after a revision ends the run.                    *)
NoSecondReflection(needsRevision) ==
    IF ~needsRevision /\ (Here.onPass = "output" \/ index = back) THEN End
    ELSE IF needsRevision /\ Here.id = "reflect" /\ Revise # {} THEN CHOOSE i \in Revise : TRUE
    ELSE index + 1

(* The node after one that passed; End completes the run.                  *)
Successor(needsRevision) ==
    IF ~needsRevision /\ (Here.onPass = "output" \/ index = back) THEN End
    ELSE IF needsRevision /\ Here.id = "reflect" /\ Revise # {} THEN CHOOSE i \in Revise : TRUE
    ELSE IF back # 0 /\ index = Len(Nodes) THEN back
    ELSE index + 1

Goto(i) ==
    /\ attempt' = 0
    /\ IF i = End THEN status' = "completed" /\ UNCHANGED <<index, reason>>
       ELSE index' = i /\ UNCHANGED <<status, reason>>

Finish(how, why) == status' = how /\ reason' = why /\ UNCHANGED <<index, attempt>>

(* One more attempt of the present node goes into the trace.               *)
Tried(verdict) ==
    /\ status = "running" /\ iterations < plan.maxIterations
    /\ iterations' = iterations + 1
    /\ trace' = Append(trace, [id |-> Here.id, verdict |-> verdict])
    /\ UNCHANGED plan

-----------------------------------------------------------------------------
(* Actions *)

Begin ==
    /\ status = "new"
    /\ \/ Valid(plan) /\ status' = "running" /\ UNCHANGED <<reason, index, attempt>>
       \/ ~Valid(plan) /\ Finish("failed", "plan")
    /\ UNCHANGED <<plan, iterations, back, trace>>

Exhausted ==
    /\ status = "running" /\ iterations >= plan.maxIterations
    /\ Finish("aborted", "exhausted")
    /\ UNCHANGED <<plan, iterations, back, trace>>

(* The node's output passes every metric.                                  *)
Passes ==
    /\ Tried("pass")
    /\ Goto(Successor(FALSE))
    /\ UNCHANGED back

(* Only the reflection node asks for a revision; without evaluation nobody *)
(* hears of it.                                                            *)
MayAsk == Here.node = "reflection" /\ plan.evaluated

(* The node passes and asks for a revision.                                *)
AsksForRevision ==
    /\ Tried("revise") /\ MayAsk
    /\ Goto(Successor(TRUE))
    /\ back' = IF Here.id = "reflect" /\ Revise # {} THEN index ELSE back

(* It raises, reports errors, lacks a permission or fails a metric.        *)
Fails ==
    /\ Tried("fail")
    /\ \/ RetriesLeft /\ attempt' = attempt + 1 /\ UNCHANGED <<status, reason, index>>
       \/ ~RetriesLeft /\ Here.onFailure = "skip" /\ Goto(index + 1)
       \/ ~RetriesLeft /\ Here.onFailure # "skip" /\ Finish("failed", "node")
    /\ UNCHANGED back

(* Capacity or coordination is gone, or the request is cancelled: the      *)
(* trace is closed and the exception goes on.  An attempt that was over    *)
(* when its event was cut off keeps its own verdict.                       *)
IsCutOff(why) ==
    /\ \E verdict \in Verdict : Tried(verdict) /\ (verdict = "revise" => MayAsk)
    /\ Finish("aborted", why)
    /\ UNCHANGED back

Next ==
    \/ Begin \/ Exhausted
    \/ Passes \/ AsksForRevision \/ Fails
    \/ \E why \in {"unavailable", "cancelled"} : IsCutOff(why)

Spec == Init /\ [][Next]_vars

-----------------------------------------------------------------------------
(* Properties *)

Entries(id) == {i \in DOMAIN trace : trace[i].id = id}
LastOf(S)   == CHOOSE i \in S : \A j \in S : j <= i

(* A run's verdict is earned.  It completes on an answer that was accepted: *)
(* the last attempt of every node that may not be skipped passed, and a    *)
(* reflection that asked for a revision was asked again and was content;   *)
(* and it fails on a node only after all of the node's retries, in a row.  *)
(* (And every variable has its type.)                                      *)
VerdictIsEarned ==
    /\ TypeOK
    /\ status = "completed" =>
          \A k \in DOMAIN Nodes :
              LET S == Entries(Nodes[k].id)
              IN  S # {} => \/ trace[LastOf(S)].verdict = "pass"
                            \/ trace[LastOf(S)].verdict = "fail" /\ Nodes[k].onFailure = "skip"
    /\ reason = "node" =>
          /\ Len(trace) > Retries
          /\ \A i \in Len(trace) - Retries .. Len(trace) :
                trace[i] = [id |-> Here.id, verdict |-> "fail"]

(* A node is attempted only after the nodes it depends on, although the    *)
(* dependencies are checked once and the run jumps back and forth.         *)
DependenciesRanBefore ==
    \A i \in DOMAIN trace, k \in DOMAIN Nodes :
        trace[i].id = Nodes[k].id =>
            \A d \in Nodes[k].deps : \E j \in 1 .. i - 1 : trace[j].id = d
=============================================================================
