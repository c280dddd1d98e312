-------------------------- MODULE MCWorkflowRunner --------------------------
(* Instances of WorkflowRunner.tla for TLC: plans of app/workflow/plans,   *)
(* of SPEC.md and of the runner's tests, as PlanLoader parses them.        *)
EXTENDS WorkflowRunner

Node(id, node, deps) ==
    [id |-> id, node |-> node, deps |-> deps, onFailure |-> "abort", onPass |-> ""]

Skip(nd)   == [nd EXCEPT !.onFailure = "skip"]
Output(nd) == [nd EXCEPT !.onPass = "output"]

Plan(nodes, maxRetries, maxIterations, evaluated) ==
    [nodes |-> nodes, maxRetries |-> maxRetries, maxIterations |-> maxIterations,
     evaluated |-> evaluated, metricsKnown |-> TRUE]

Link == Node("link", "schema_linking", {})
Gen  == Node("gen", "generate_sql", {"link"})
Exec == Node("exec", "execute_sql", {"gen"})

(* workflow/plans/request_query.yml, the plan of every query request *)
RequestQuery ==
    Plan(<<Node("parse", "parse_nl", {}), Node("link", "schema_linking", {"parse"}), Gen,
           Node("validate", "validate_sql", {"gen"}), Node("exec", "execute_sql", {"validate"})>>,
         0, 5, TRUE)

(* workflow/plans/explore.yml *)
Explore ==
    Plan(<<Node("parse", "parse_nl", {}), Node("search", "hybrid_search", {"parse"}),
           Node("format", "format_sql", {"search"})>>,
         1, 3, FALSE)

(* workflow/plans/reflection.yml *)
Reflection ==
    Plan(<<Link, Gen, Exec,
           Output(Node("reflect", "reflection", {"exec"})),
           Node("revise", "generate_sql", {"reflect"}),
           Node("exec2", "execute_sql", {"revise"})>>,
         3, 10, TRUE)

(* SPEC.md 3.4.2, the template with a skipped execution *)
SpecReflection ==
    Plan(<<Link, Gen, Skip(Exec),
           Output(Node("reflect", "reflection", {"gen", "exec"})),
           Node("revise", "generate_sql", {"reflect"})>>,
         1, 7, TRUE)

(* tests/test_harness/test_runner_evaluation.py *)
Tested ==
    {Plan(<<Node("revise", "generate_sql", {}), Node("reflect", "reflection", {})>>,
          1, 6, TRUE),
     Plan(<<Node("gen", "generate_sql", {}), Node("reflect", "reflection", {}),
            Node("revise", "generate_sql", {}), Node("output", "respond", {})>>,
          1, 8, TRUE)}

(* Plans the runner has to refuse. *)
Refused ==
    {Plan(<<>>, 1, 3, TRUE),
     Plan(<<Link, Link>>, 1, 3, TRUE),
     Plan(<<Gen, Link>>, 1, 3, TRUE),
     Plan(<<Node("n", "missing", {})>>, 1, 3, TRUE)}

ThePlans == {RequestQuery, Explore, Reflection, SpecReflection} \cup Tested \cup Refused

TheRegistry ==
    {"parse_nl", "schema_linking", "generate_sql", "validate_sql", "execute_sql",
     "hybrid_search", "format_sql", "reflection", "respond"}
=============================================================================
