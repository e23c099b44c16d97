------------------------------ MODULE Routing ------------------------------
(***************************************************************************)
(* The pure part of model routing (internal/routing): the product catalog, *)
(* the resolver that ranks its models for a requirement, the fallback chain*)
(* of a decision and the cost a decision reserves.  A catalog is the set of*)
(* its route identifiers: the capabilities of a route never change, so the *)
(* set stands for the content hash too.                                    *)
(***************************************************************************)
EXTENDS Integers, FiniteSets, Sequences, SequencesExt

(* The product family of BuiltinCodexCatalogV2.  `id` is the place of the   *)
(* identifier in the order of strings; limits are in KiB.                   *)
Routes == {"sol", "terra", "luna"}

Capability ==
    [sol   |-> [id |-> 2, quality |-> 2, cost |-> 10,  latency |-> 1, context |-> 256, output |-> 64],
     terra |-> [id |-> 3, quality |-> 2, cost |-> 100, latency |-> 2, context |-> 256, output |-> 64],
     luna  |-> [id |-> 1, quality |-> 0, cost |-> 1,   latency |-> 0, context |-> 128, output |-> 32]]

None == "none"

(* A requirement names its candidates in order (none: any), the least       *)
(* quality its complexity admits, the quality and latency it would like, and *)
(* what it may cost.                                                        *)
Distance(a, b) == IF a < b THEN b - a ELSE a - b

(* ApplyCodexProductPreference: without candidates of its own a requirement *)
(* prefers Sol, Terra, Luna, in this order, when Sol is in the catalog.     *)
ApplyCodexProductPreference(catalog, req) ==
    IF req.candidates # << >> \/ "sol" \notin catalog THEN req
    ELSE [req EXCEPT !.candidates =
             SelectSeq(<<"sol", "terra", "luna">>, LAMBDA r : r \in catalog)]

CandidateRank(req, r) ==
    IF req.candidates = << >> THEN 1 ELSE CHOOSE i \in DOMAIN req.candidates : req.candidates[i] = r

Score(req, r) ==
    <<CandidateRank(req, r), Distance(Capability[r].quality, req.quality),
      Distance(Capability[r].latency, req.latency), Capability[r].cost, Capability[r].id>>

Less(s, t) == \E i \in DOMAIN s : s[i] < t[i] /\ \A j \in 1 .. i - 1 : s[j] = t[j]

(* eligibleModels: inside the candidates, above the quality floor, within   *)
(* the budget and large enough.                                             *)
Eligible(catalog, req) ==
    {r \in catalog : /\ req.candidates = << >> \/ r \in Range(req.candidates)
                     /\ Capability[r].quality >= req.floor
                     /\ Capability[r].cost <= req.maxCost
                     /\ Capability[r].context >= req.context
                     /\ Capability[r].output >= req.output}

RequirementRecords ==
    [candidates : Seq(Routes), floor : Nat, quality : Nat, latency : Nat, maxCost : Nat,
     context : Nat, output : Nat, fallback : BOOLEAN]

DecisionRecords ==
    [catalog : SUBSET Routes, selected : Routes \cup {None}, fallback : Seq(Routes), maxCost : Nat]

NoDecision == [catalog |-> {}, selected |-> None, fallback |-> << >>, maxCost |-> 0]

(* The eligible models by score.                                            *)
Ranked(catalog, req) ==
    SetToSortSeq(Eligible(catalog, req), LAMBDA a, b : Less(Score(req, a), Score(req, b)))

(* ValidateDecision: a route is selected, and not named again in the chain. *)
ValidateDecision(decision) ==
    decision.selected \in Routes /\ decision.fallback \in Seq(Routes \ {decision.selected})

(* ResolveV1: the first of the ranked models is selected, the others are    *)
(* the fallback chain if the requirement allows one.                        *)
ResolveV1(catalog, requirement) ==
    LET req      == ApplyCodexProductPreference(catalog, requirement)
        ranked   == Ranked(catalog, req)
        decision == [catalog  |-> catalog, selected |-> Head(ranked), maxCost |-> req.maxCost,
                     fallback |-> IF req.fallback THEN Tail(ranked) ELSE << >>]
    IN IF ranked = << >> THEN NoDecision ELSE IF ValidateDecision(decision) THEN decision ELSE NoDecision

(* AdvanceFallbackV1: the next decision of the chain, never resolved anew.  *)
AdvanceFallbackV1(decision) ==
    IF decision.fallback = << >> THEN NoDecision
    ELSE [decision EXCEPT !.selected = Head(decision.fallback), !.fallback = Tail(decision.fallback)]

(* Mutant of ReserveRoutingUsageV1: the cost of earlier Attempts is         *)
(* forgotten when the budget is compared.                                   *)
ReserveAlone(decision, prior, index) ==
    LET cost == Capability[decision.selected].cost IN
    IF cost > decision.maxCost THEN [cost |-> 0, total |-> 0, index |-> 0]
    ELSE [cost |-> cost, total |-> prior + cost, index |-> index]

(* ReserveRoutingUsageV1: what the Attempt costs on top of all earlier ones, *)
(* refused (cost 0) beyond the budget of the decision.                      *)
ReserveRoutingUsageV1(decision, prior, index) ==
    LET cost == Capability[decision.selected].cost IN
    IF prior + cost > decision.maxCost THEN [cost |-> 0, total |-> 0, index |-> 0]
    ELSE [cost |-> cost, total |-> prior + cost, index |-> index]
=============================================================================
