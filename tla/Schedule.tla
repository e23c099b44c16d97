------------------------------ MODULE Schedule ------------------------------
(***************************************************************************)
(* The pure decisions of a Run: which Nodes PlanSchedule starts or skips,  *)
(* how a condition is evaluated, and what aggregateRunState makes of the   *)
(* Node snapshots.  The workflow is a parameter; the snapshots of its      *)
(* Nodes are a function from Node to record.                               *)
(***************************************************************************)
EXTENDS Integers, Sequences, FiniteSets

CONSTANTS Node,          \* the nodes of the normalized workflow
          Agent,         \* those of type agent; the others are approvals
          Order,         \* TopologicalOrder
          Deps,          \* dependsOn
          When,          \* the condition of a node, or NoCondition
          NoCondition,
          MaxConcurrency, \* execution.maxConcurrency of the workflow
          BackendLimit   \* maxConcurrentAgents of the Backend, 0 if undeclared

\* The empty string of a snapshot is "none".
NodePhases == {"pending", "ready", "running", "waiting", "completed", "skipped"}
Conclusions == {"none", "succeeded", "failed", "indeterminate", "cancelled", "rejected"}
Reasons == {"none", "approval_required", "agent_waiting_input", "completion_missing",
            "cancel_failed", "upstream_failed", "condition_false", "failure_policy",
            "workflow_cancelled", "controller_detached", "user_requested"}

\* What a node's Result says, as far as conditions and actions tell apart: a
\* decision, the outcome of an Agent, or its questions.
Results == {"none", "approved", "rejected", "ok", "bad", "questions"}

\* A condition is one comparison, or a group of comparisons.
Comparisons == [node : Node, is : Results \ {"none"}]
Conditions == [op : {"all", "any", "not"}, leaves : Seq(Comparisons)]

ASSUME WorkflowAssumption ==
    /\ IsFiniteSet(Node)
    /\ Agent \subseteq Node
    /\ Order \in [1..Cardinality(Node) -> Node]
    /\ \A n \in Node : \E i \in DOMAIN Order : Order[i] = n
    /\ Deps \in [Node -> SUBSET Node]
    /\ \A i, j \in DOMAIN Order : Order[i] \in Deps[Order[j]] => i < j
    /\ DOMAIN When = Node
    /\ \A n \in Node : When[n] # NoCondition => When[n] \in Conditions
    /\ MaxConcurrency \in Nat \ {0}
    /\ BackendLimit \in Nat

NodeSnapshot == [phase : NodePhases, concl : Conclusions, reason : Reasons,
                 att : Nat, result : Results]

\* The nodes of S in topological order.
InOrder(S) ==
    LET upTo[i \in 0..Len(Order)] ==
          IF i = 0 THEN <<>>
          ELSE IF Order[i] \in S THEN Append(upTo[i - 1], Order[i]) ELSE upTo[i - 1]
    IN  upTo[Len(Order)]

\* n comes before m in the topological order.
Before(n, m) ==
    \E i, j \in DOMAIN Order : i < j /\ Order[i] = n /\ Order[j] = m

-----------------------------------------------------------------------------
FishyumeSafetyConcurrencyCeiling == 8

\* The smaller of the workflow's limit, the ceiling and a declared Backend
\* limit.
EffectiveConcurrency ==
    LET limits == {FishyumeSafetyConcurrencyCeiling, MaxConcurrency} \cup
                  (IF BackendLimit > 0 THEN {BackendLimit} ELSE {})
    IN  CHOOSE l \in limits : \A k \in limits : l <= k

Terminal(nd) == nd.phase \in {"completed", "skipped"}

Unstarted(nd) == nd.phase \in {"pending", "ready"}

\* The conclusions that stop scheduling.
Failing == {"failed", "indeterminate", "cancelled"}

\* A completed node failed.
HasFailure(nodes) ==
    \E n \in Node : nodes[n].phase = "completed" /\ nodes[n].concl \in Failing

\* Mutant of Active: an Agent that waits occupies no slot.
ActiveRunning(n, nodes) ==
    /\ n \in Agent
    /\ nodes[n].phase = "running"
    /\ nodes[n].att > 0

\* An Agent node that occupies a slot: findActiveAttempts and PlanSchedule
\* count the same nodes.
Active(n, nodes) ==
    /\ n \in Agent
    /\ nodes[n].phase \in {"running", "waiting"}
    /\ nodes[n].att > 0

findActiveAttempts(nodes) == {n \in Node : Active(n, nodes)}

-----------------------------------------------------------------------------
Missing(leaf, nodes) == nodes[leaf.node].result = "none"

Holds(leaf, nodes) == nodes[leaf.node].result = leaf.is

\* The first comparison that settles the group: a missing result is an error,
\* all stops at a false one, any at a true one.
Evaluate(cond, nodes) ==
    LET leaves == cond.leaves
        Settles(i) == \/ Missing(leaves[i], nodes)
                      \/ cond.op = "not"
                      \/ Holds(leaves[i], nodes) = (cond.op = "any")
        settling == {i \in DOMAIN leaves : Settles(i)}
        first == CHOOSE i \in settling : \A j \in settling : i <= j
        value == IF settling = {} THEN cond.op = "all"
                 ELSE Holds(leaves[first], nodes) # (cond.op = "not")
    IN  IF settling # {} /\ Missing(leaves[first], nodes)
        THEN "error" ELSE IF value THEN "true" ELSE "false"

\* Some comparison of the condition, reached or not, has no result.
conditionResultMissing(cond, nodes) ==
    \E i \in DOMAIN cond.leaves : Missing(cond.leaves[i], nodes)

\* The condition compares a decision with rejected.
mentionsRejected(cond) ==
    \E i \in DOMAIN cond.leaves : cond.leaves[i].is = "rejected"

-----------------------------------------------------------------------------
\* Mutant of Stable: one dependency that has ended is enough.
StableSoon(n, nodes) == Deps[n] = {} \/ \E d \in Deps[n] : Terminal(nodes[d])

\* Every dependency has ended.
Stable(n, nodes) == \A d \in Deps[n] : Terminal(nodes[d])

\* Some dependency failed, or was itself skipped because of one that did.
UpstreamFailed(n, nodes) ==
    \E d \in Deps[n] : \/ nodes[d].concl \in Failing
                       \/ nodes[d].reason = "upstream_failed"

\* The condition's value; a node without one passes.
Passes(n, nodes) ==
    IF When[n] = NoCondition THEN "true" ELSE Evaluate(When[n], nodes)

\* What PlanSchedule does with node n when stop says that scheduling is
\* stopped.
Verdict(n, nodes, stop) ==
    IF stop /\ n \notin Agent /\ nodes[n].phase = "waiting" THEN "skip_failure_policy"
    ELSE IF ~Unstarted(nodes[n]) \/ ~Stable(n, nodes) THEN "none"
    ELSE IF When[n] = NoCondition /\ UpstreamFailed(n, nodes) THEN "skip_upstream"
    ELSE IF Passes(n, nodes) = "error"
         THEN IF UpstreamFailed(n, nodes) /\ conditionResultMissing(When[n], nodes)
              THEN "skip_upstream" ELSE "error"
    ELSE IF Passes(n, nodes) = "false" THEN "skip_condition"
    ELSE IF stop /\ ~UpstreamFailed(n, nodes) THEN "skip_failure_policy"
    ELSE "eligible"

\* The decision: the nodes of every kind, in topological order.  The agents
\* are the first eligible ones that fit into the free slots.
PlanSchedule(run, nodes) ==
    LET stop == run.concl \in Failing \/ HasFailure(nodes)
        Which(v) == {n \in Node : Verdict(n, nodes, stop) = v}
        eligible == Which("eligible")
        free == EffectiveConcurrency - Cardinality(findActiveAttempts(nodes))
        Earlier(n) == {m \in eligible \cap Agent : Before(m, n)}
    IN  [error |-> Which("error") # {},
         skipUpstream |-> InOrder(Which("skip_upstream")),
         skipConditions |-> InOrder(Which("skip_condition")),
         skipFailurePolicy |-> InOrder(Which("skip_failure_policy")),
         readyApprovals |-> InOrder(eligible \ Agent),
         readyAgents |-> InOrder({n \in eligible \cap Agent :
                                    Cardinality(Earlier(n)) < free})]

-----------------------------------------------------------------------------
\* A rejection counts as handled when a node with a condition on a rejection
\* was not skipped by that condition.
hasEligibleRejectedBranch(nodes) ==
    \E n \in Node : /\ When[n] # NoCondition
                    /\ mentionsRejected(When[n])
                    /\ nodes[n].reason # "condition_false"

\* Conclusion and reason of a Run whose nodes have all ended.
aggregateConclusion(nodes) ==
    LET Some(c) == \E n \in Node : nodes[n].concl = c
    IN  IF Some("failed") THEN [concl |-> "failed", reason |-> "upstream_failed"]
        ELSE IF Some("indeterminate") THEN [concl |-> "indeterminate", reason |-> "none"]
        ELSE IF Some("rejected") /\ ~hasEligibleRejectedBranch(nodes)
             THEN [concl |-> "rejected", reason |-> "none"]
        ELSE [concl |-> "succeeded", reason |-> "none"]

\* The Run after aggregation: active agents keep it running, then waiting
\* agents, then waiting approvals make it wait, then unstarted nodes keep it
\* running; otherwise it completes.
aggregateRunState(run, nodes) ==
    LET Phase(p) == {n \in Node : nodes[n].phase = p}
        waiting == InOrder(Phase("waiting") \cap Agent)
        As(p, c, r) == [run EXCEPT !.phase = p, !.concl = c, !.reason = r]
        end == aggregateConclusion(nodes)
    IN  IF Phase("running") \cap Agent # {} THEN As("running", "none", "none")
        ELSE IF waiting # <<>> THEN As("waiting", "none", nodes[waiting[1]].reason)
        ELSE IF Phase("waiting") # {} THEN As("waiting", "none", "approval_required")
        ELSE IF Phase("pending") \cup Phase("ready") # {} THEN As("running", "none", "none")
        ELSE As("completed", end.concl, end.reason)

\* The controller stops after it has aggregated to one of these phases.
shouldStop(run) == run.phase \in {"waiting", "completed"}
=============================================================================
