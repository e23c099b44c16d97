--------------------------- MODULE MCWorkflowRun ---------------------------
(***************************************************************************)
(* The workflows on which WorkflowRun is checked.                          *)
(***************************************************************************)
EXTENDS WorkflowRun, TLC

CONSTANTS a, b, c, p

NoConditions(S) == [n \in S |-> NoCondition]

\* Two independent Agents that may run side by side.
PairNode == {a, b}
PairAgent == {a, b}
PairOrder == <<a, b>>
PairDeps == [n \in PairNode |-> {}]
PairWhen == NoConditions(PairNode)

\* An Agent, an approval of its result, and a branch for each decision; the
\* Agent of the first branch also needs the first Agent.
ReviewNode == {a, p, b, c}
ReviewAgent == {a, b, c}
ReviewOrder == <<a, p, b, c>>
ReviewDeps == (a :> {}) @@ (p :> {a}) @@ (b :> {a, p}) @@ (c :> {p})
ReviewWhen == (a :> NoCondition) @@ (p :> NoCondition) @@ (b :> NoCondition)
              @@ (c :> [op |-> "any", leaves |-> <<[node |-> p, is |-> "rejected"]>>])
=============================================================================
