----------------------------- MODULE MCRouting -----------------------------
(* Instances of RoutedAttempts: the routing service beside launching Nodes. *)
EXTENDS RoutedAttempts

(* A simple task that allows fallback, whose budget ends inside the chain    *)
(* Sol (10), Terra (100), Luna (1); and one with candidates of its own.      *)
MCRequirements ==
    {[candidates |-> << >>, floor |-> 0, quality |-> 1, latency |-> 1, maxCost |-> 105,
      context |-> 128, output |-> 32, fallback |-> TRUE],
     [candidates |-> <<"luna", "terra">>, floor |-> 0, quality |-> 2, latency |-> 0, maxCost |-> 101,
      context |-> 128, output |-> 32, fallback |-> TRUE]}

MCReports       == {Models, {"sol", Unprofiled}}
MCUpstream      == {Routes, {"terra"}}
MCInstallations == {{}, {"codex"}, {"codex", "claude"}}

MCSymmetry      == Permutations(MutationIDs)

MCDriverOf == [architect |-> "codex", reviewer |-> "codex", claude |-> "claude"]
=============================================================================
