-------------------------- MODULE RoutedAttempts ---------------------------
(***************************************************************************)
(* How the Run service routes the Attempts of a Node (internal/run         *)
(* /routing.go), over the routing service: resolve against the active      *)
(* catalog, pass the availability gate (which may probe), pin the route of *)
(* an accepted retry or answer, pass the gate again, and reserve the cost. *)
(* A launch does it in the controller; a retry or an answer does it first  *)
(* as a preview, inside the host's request.  Both run beside the host's    *)
(* configuration requests and beside each other.                           *)
(***************************************************************************)
EXTENDS TeamRoutes

CONSTANTS
    Nodes,          \* Agent Nodes of different Runs
    Requirements,   \* what their Workflows ask for
    ProbeTries,     \* resolutions of one call, 3 in the code
    MaxAttempts     \* bound: Attempts of a Node

ASSUME AttemptAssumption == Requirements \subseteq RequirementRecords /\ ProbeTries \in Nat

VARIABLES
    requirement,    \* per Node its routing requirement
    attempts,       \* per Node its Attempts: decision, usage and outcome
    pending,        \* per Node the route bound by an accepted action
    phase,          \* per Node "ready", "running" or "ended"
    call,           \* per Node the prepareAttemptRouting in progress
    focus           \* bound: whether Workflow or Team routes are used in this behaviour

nodeVars == <<requirement, attempts, pending, phase, call>>
vars     == <<configVars, teamVars, nodeVars, focus>>

(* How an Attempt ended: "unavailable" is a failure classified as model      *)
(* unavailability before execution, with evidence of no side effect;        *)
(* "failed" is any other failure, or one without that evidence.             *)
Failures == {"unavailable", "failed"}
Outcomes == Failures \cup {"running", "input", "succeeded"}

UsageRecords   == [cost : Nat, total : Nat, index : Nat]
AttemptRecords == [decision : DecisionRecords, usage : UsageRecords, outcome : Outcomes]
Steps          == {"idle", "resolve", "gate", "ask", "asked", "reread", "pin", "reserve", "refused"}
CallRecords ==
    [step : Steps, kind : {None, "launch", "retry", "answer"}, target : Routes \cup {None}, tries : Nat,
     pinned : BOOLEAN, decision : DecisionRecords, index : Nat, probe : SUBSET Routes, calm : BOOLEAN]

NoCall == [step |-> "idle", kind |-> None, target |-> None, tries |-> 0, pinned |-> FALSE,
           decision |-> NoDecision, index |-> 0, probe |-> {}, calm |-> FALSE]

Calling(n)   == call[n].step # "idle"
Latest(n)    == attempts[n][Len(attempts[n])]
CallIs(n, c) == call' = [call EXCEPT ![n] = c]

(* A call is calm if the active catalog was up to date when it began, until  *)
(* another actor does something.                                            *)
Disturbed(c) == IF c.step = "idle" THEN c ELSE [c EXCEPT !.calm = FALSE]
Disturb      == call' = [n \in Nodes |-> Disturbed(call[n])]

NewCall(kind, target) ==
    [NoCall EXCEPT !.step = "resolve", !.kind = kind, !.target = target,
                   !.calm = mu = Free /\ registry.active = Effective]

(* The controller launches a ready Node.                                    *)
Launch(n) ==
    /\ engine = "up" /\ phase[n] = "ready" /\ ~Calling(n)
    /\ CallIs(n, NewCall("launch", pending[n]))
    /\ UNCHANGED <<configVars, teamVars, requirement, attempts, pending, phase>>

(* Mutant of pendingRoutingTarget: any failure moves on to the next route.   *)
pendingAnyFailure(n, allowFallback) ==
    LET previous == Latest(n)
        next     == AdvanceFallbackV1(previous.decision)
    IN IF allowFallback /\ previous.outcome \in Failures /\ next # NoDecision
       THEN next.selected ELSE previous.decision.selected

(* pendingRoutingTarget: the route of the last Attempt, or the next of its   *)
(* chain when a retry follows a classified failure without side effects.    *)
pendingRoutingTarget(n, allowFallback) ==
    LET previous == Latest(n)
        next     == AdvanceFallbackV1(previous.decision)
    IN IF allowFallback /\ previous.outcome = "unavailable" /\ next # NoDecision
       THEN next.selected ELSE previous.decision.selected

(* A retry or an answer of the host previews the route before it is accepted. *)
Action(n, kind, outcomes, allowFallback) ==
    /\ engine = "up" /\ host = Idle /\ ~Calling(n)
    /\ phase[n] = "ended" /\ Latest(n).outcome \in outcomes
    /\ Len(attempts[n]) < MaxAttempts
    /\ host' = [op |-> "action", node |-> n]
    /\ CallIs(n, NewCall(kind, pendingRoutingTarget(n, allowFallback)))
    /\ UNCHANGED <<engine, config, discovered, available, registry, disk, mu, accepted, refused,
                   works, events, teamVars, requirement, attempts, pending, phase>>

Retry(n)  == Action(n, "retry", Failures \cup {"input"}, TRUE)
Answer(n) == Action(n, "answer", {"input"}, FALSE)

-----------------------------------------------------------------------------
(* prepareAttemptRouting                                                    *)

Refused(c) == [c EXCEPT !.step = "refused", !.decision = NoDecision, !.pinned = FALSE, !.index = 0]

(* Mutant of TryFailed: one try too few.                                    *)
TryFailedEarly(c) ==
    IF c.pinned \/ c.tries + 2 = ProbeTries THEN Refused(c)
    ELSE [c EXCEPT !.step = "resolve", !.tries = @ + 1, !.decision = NoDecision]

(* A try failed: resolve again, up to the last try; the pinned route has one *)
(* try only.                                                                *)
TryFailed(c) ==
    IF c.pinned \/ c.tries + 1 = ProbeTries THEN Refused(c)
    ELSE [c EXCEPT !.step = "resolve", !.tries = @ + 1, !.decision = NoDecision]

TryPassed(c) == [c EXCEPT !.step = IF c.pinned THEN "reserve" ELSE "pin"]

(* The resolver reads the active catalog under the registry's lock only.    *)
Resolve(n) ==
    LET decision == ResolveV1(registry.active, requirement[n]) IN
    /\ call[n].step = "resolve"
    /\ CallIs(n, IF decision = NoDecision THEN Refused(call[n])
                 ELSE [call[n] EXCEPT !.step = "gate", !.decision = decision])
    /\ UNCHANGED <<configVars, teamVars, requirement, attempts, pending, phase>>

(* Mutant of EnsureTargetAvailable: the gate does not take the mutex.        *)
EnsureUnlocked(n) ==
    LET r == call[n].decision.selected IN
    /\ call[n].step = "gate"
    /\ CallIs(n, IF \/ r \notin config.enabled
                    \/ ~Discovered(r, discovered)
                    \/ available[r] = "unavailable" THEN TryFailed(call[n])
                 ELSE IF available[r] = "available" THEN TryPassed(call[n])
                 ELSE [call[n] EXCEPT !.step = "ask"])
    /\ UNCHANGED <<configVars, teamVars, requirement, attempts, pending, phase>>

(* EnsureTargetAvailable, its first section: what is known of the route.    *)
EnsureTargetAvailable(n) ==
    LET r == call[n].decision.selected IN
    /\ call[n].step = "gate" /\ mu = Free
    /\ CallIs(n, IF \/ r \notin config.enabled
                    \/ ~Discovered(r, discovered)
                    \/ available[r] = "unavailable" THEN TryFailed(call[n])
                 ELSE IF available[r] = "available" THEN TryPassed(call[n])
                 ELSE [call[n] EXCEPT !.step = "ask"])
    /\ UNCHANGED <<configVars, teamVars, requirement, attempts, pending, phase>>

(* The gate probes an unknown route: the profile is selected under the       *)
(* mutex, the inspector asks upstream outside it.                           *)
Ask(n) ==
    LET r == call[n].decision.selected IN
    /\ call[n].step = "ask" /\ mu = Free
    /\ CallIs(n, IF selectedProfiles({r})
                 THEN [call[n] EXCEPT !.step = "asked", !.probe = {r} \cap works]
                 ELSE [call[n] EXCEPT !.step = "reread"])
    /\ UNCHANGED <<configVars, teamVars, requirement, attempts, pending, phase>>

Recorded(c, fails) == [c EXCEPT !.step = "reread", !.probe = {}, !.calm = @ /\ ~fails]

(* The probe's result is recorded like the host's.                          *)
Asked(n, fails) ==
    /\ call[n].step = "asked"
    /\ Events(Cost(fails))
    /\ Probed([routes |-> {call[n].decision.selected}, ok |-> call[n].probe], n, fails)
    /\ call' = [m \in Nodes |->
                   IF m # n THEN Disturbed(call[m])
                   ELSE Recorded(call[n], fails)]
    /\ UNCHANGED <<engine, config, discovered, host, accepted, refused, works,
                   teamVars, requirement, attempts, pending, phase>>

(* EnsureTargetAvailable, its second section: whatever is known by now.     *)
Reread(n) ==
    /\ call[n].step = "reread" /\ mu = Free
    /\ CallIs(n, IF available[call[n].decision.selected] = "available"
                 THEN TryPassed(call[n]) ELSE TryFailed(call[n]))
    /\ UNCHANGED <<configVars, teamVars, requirement, attempts, pending, phase>>

(* The route an accepted action was bound to replaces the fresh decision:    *)
(* the last decision itself, or the next of its chain.                      *)
Pinned(n) ==
    LET previous == Latest(n)
        next     == AdvanceFallbackV1(previous.decision)
    IN IF call[n].target = None THEN [decision |-> call[n].decision, index |-> 0]
       ELSE IF previous.decision.selected = call[n].target
            THEN [decision |-> previous.decision, index |-> previous.usage.index]
       ELSE [decision |-> next, index |-> previous.usage.index + 1]

PinnedTo(c, decision, index) ==
    [c EXCEPT !.step = "gate", !.pinned = TRUE, !.decision = decision, !.index = index]

Pin(n) ==
    /\ call[n].step = "pin"
    /\ CallIs(n, IF call[n].target \in {None, Pinned(n).decision.selected}
                 THEN PinnedTo(call[n], Pinned(n).decision, Pinned(n).index)
                 ELSE Refused(call[n]))
    /\ UNCHANGED <<configVars, teamVars, requirement, attempts, pending, phase>>

(* routingCostBeforeAttempt: every earlier Attempt counts, whatever its      *)
(* outcome; its catalog must be known.                                      *)
CostUpTo(history) ==
    LET sum[i \in 0 .. Len(history)] == IF i = 0 THEN 0 ELSE sum[i - 1] + history[i].usage.cost
    IN sum

routingCostBeforeAttempt(n) == CostUpTo(attempts[n])[Len(attempts[n])]

HistoryKnown(n) == \A i \in DOMAIN attempts[n] : attempts[n][i].decision.catalog \in registry.known

(* The cost is reserved; a launch persists the Attempt and spends the        *)
(* pending route, an action binds the route to the Node.                    *)
Reserve(n) ==
    LET c     == call[n]
        usage == ReserveRoutingUsageV1(c.decision, routingCostBeforeAttempt(n), c.index)
    IN
    /\ c.step = "reserve"
    /\ IF ~HistoryKnown(n) \/ c.decision.catalog \notin registry.known \/ usage.cost = 0
       THEN CallIs(n, Refused(c)) /\ UNCHANGED <<host, attempts, pending, phase>>
       ELSE /\ CallIs(n, NoCall)
            /\ IF c.kind = "launch"
               THEN /\ attempts' = [attempts EXCEPT ![n] = Append(@,
                          [decision |-> c.decision, usage |-> usage, outcome |-> "running"])]
                    /\ pending' = [pending EXCEPT ![n] = None]
                    /\ phase' = [phase EXCEPT ![n] = "running"]
                    /\ UNCHANGED host
               ELSE /\ pending' = [pending EXCEPT ![n] = c.decision.selected]
                    /\ phase' = [phase EXCEPT ![n] = "ready"]
                    /\ host' = Idle
                    /\ UNCHANGED attempts
    /\ UNCHANGED <<engine, config, discovered, available, registry, disk, mu, accepted, refused,
                   works, events, teamVars, requirement>>

(* A refusal is answered, or ends the controller; the Node stays as it is    *)
(* and may be tried again.                                                  *)
Refuse(n) ==
    /\ call[n].step = "refused"
    /\ CallIs(n, NoCall)
    /\ host' = IF call[n].kind = "launch" THEN host ELSE Idle
    /\ UNCHANGED <<engine, config, discovered, available, registry, disk, mu, accepted, refused,
                   works, events, teamVars, requirement, attempts, pending, phase>>

(* The Agent's outcome, with the Driver's evidence of side effects.         *)
Conclude(n, outcome) ==
    /\ engine = "up" /\ phase[n] = "running"
    /\ attempts' = [attempts EXCEPT ![n][Len(attempts[n])].outcome = outcome]
    /\ phase' = [phase EXCEPT ![n] = "ended"]
    /\ UNCHANGED <<configVars, teamVars, requirement, pending, call>>

-----------------------------------------------------------------------------
(* The two halves share the files' root, the mutex and the start of the      *)
(* engine, and no state: a behaviour uses one of them.                      *)
Init ==
    /\ InitConfig /\ InitTeamRoutes
    /\ \/ focus = "workflow" /\ installed = {}
       \/ focus = "team" /\ works = Routes
    /\ requirement \in [Nodes -> Requirements]
    /\ attempts = [n \in Nodes |-> << >>] /\ pending = [n \in Nodes |-> None]
    /\ phase = [n \in Nodes |-> "ready"] /\ call = [n \in Nodes |-> NoCall]

Crash ==
    /\ StopConfig
    /\ call' = [n \in Nodes |-> NoCall]
    /\ UNCHANGED <<teamVars, requirement, attempts, pending, phase>>

Start == NewService /\ StartTeamRoutes /\ UNCHANGED nodeVars

NodeStep(n) ==
    \/ Launch(n) \/ Retry(n) \/ Answer(n)
    \/ Resolve(n) \/ EnsureTargetAvailable(n) \/ Ask(n) \/ Reread(n) \/ Pin(n) \/ Reserve(n) \/ Refuse(n)
    \/ \E fails \in BOOLEAN : Asked(n, fails)
    \/ \E outcome \in Outcomes \ {"running"} : Conclude(n, outcome)

Next ==
    /\ UNCHANGED focus
    /\ \/ /\ focus = "workflow"
          /\ \/ /\ (HostStep \/ WorldStep) /\ Disturb
                /\ UNCHANGED <<teamVars, requirement, attempts, pending, phase>>
             \/ ServiceStep /\ UNCHANGED <<teamVars, nodeVars>>
             \/ \E n \in Nodes : NodeStep(n)
       \/ focus = "team" /\ TeamStep /\ UNCHANGED nodeVars
       \/ Crash
       \/ Start

Spec == Init /\ [][Next]_vars

-----------------------------------------------------------------------------
TypeOK ==
    /\ ConfigTypeOK /\ TeamTypeOK
    /\ requirement \in [Nodes -> Requirements] /\ attempts \in [Nodes -> Seq(AttemptRecords)]
    /\ pending \in [Nodes -> Routes \cup {None}] /\ phase \in [Nodes -> {"ready", "running", "ended"}]
    /\ call \in [Nodes -> CallRecords]

(* The catalog every Attempt was decided on, and the one every Team was      *)
(* started with, can be resolved by its hash at any later time and after any *)
(* restart, although a catalog is active before it is on disk: the gate      *)
(* waits for the mutex that covers the write (rebuildActiveCatalog,          *)
(* EnsureTargetAvailable, SetCatalog, TeamCatalogHistory).                  *)
HistoryResolvable ==
    engine = "up" => (\A n \in Nodes : HistoryKnown(n)) /\ teams \subseteq live.known

(* The Attempts of a Node together cost no more than its requirement allows, *)
(* over retries, answers, fallbacks, catalogs that changed in between and    *)
(* crashes (routingCostBeforeAttempt, ReserveRoutingUsageV1).               *)
BudgetKept == \A n \in Nodes : routingCostBeforeAttempt(n) <= requirement[n].maxCost

(* A Node changes its route only to the next route of the persisted chain,   *)
(* on the same catalog, and only after a failure that was classified as      *)
(* unavailability before execution with no side effect; whatever became of   *)
(* the active catalog between the failure, the accepted retry and the launch. *)
RouteChangesSafely ==
    \A n \in Nodes : \A i \in 2 .. Len(attempts[n]) :
        LET previous == attempts[n][i - 1]
            next     == attempts[n][i]
        IN next.decision # previous.decision =>
              /\ previous.outcome = "unavailable"
              /\ next.decision = AdvanceFallbackV1(previous.decision)

(* A first launch is not refused while some route would do: one that is      *)
(* enabled, discovered, not known to be unavailable, fits the requirement    *)
(* and works upstream; if the active catalog was up to date when the call    *)
(* began and nobody interfered.  The tries are enough to get past every      *)
(* route that fails its probe (prepareAttemptRouting).                      *)
UsableRouteFound ==
    \A n \in Nodes :
        call[n].step = "refused" /\ call[n].calm /\ attempts[n] = << >> =>
            Eligible(Effective, requirement[n]) \cap works = {}
=============================================================================
