-------------------------- MODULE ContextCompiler --------------------------
(***************************************************************************)
(* One compilation of a Context Envelope, CompileContextV2 in              *)
(* contextcompiler/compiler_v2.go: the sources the registry resolved, the  *)
(* two contracts the engine adds to them, the allocation of the three      *)
(* tiers, and the validation of its own envelope                           *)
(* (ValidateContextEnvelopeV2), whose refusal fails the Attempt.  An       *)
(* identity, a hash or a provenance that is malformed is left out.         *)
(***************************************************************************)
EXTENDS Integers, AttentionBudget

CONSTANTS
  Compilation,               \* inputs: sources, omissions, contracts, budget
  MaxContextComponents,
  MaxContextOmissions,
  MaxSelectedMemoryRecords

ASSUME LimitAssumption ==
  {MaxContextComponents, MaxContextOmissions, MaxSelectedMemoryRecords} \subseteq Nat

VARIABLES
  input,      \* the compilation asked for
  envelope    \* its envelope; error "waiting" until it is compiled

compilerVars == <<input, envelope>>

Refusal(code) == [NoEnvelope EXCEPT !.error = code]

Waiting == Refusal("waiting")

SourceCount(sources) ==
  Len(sources.required) + Len(sources.important) + Len(sources.optional)

\* What ContextSourceRegistryV2.Resolve returns: a Node task, and counts
\* within the limits; only selected Memory records are omitted there.
Resolved(c) ==
  /\ c.sources.required # <<>>
  /\ SourceCount(c.sources) <= MaxContextComponents
  /\ c.omitted <= MaxContextOmissions
  /\ Len(c.sources.optional) + c.omitted <= MaxSelectedMemoryRecords

\* The sources with the engine's execution and output contract, the first
\* and the last of the required tier in canonical order.
WithContracts(sources, contracts) ==
  [sources EXCEPT
     !.required = <<contracts.execution>> \o sources.required \o <<contracts.output>>]

\* The important sources of which nothing is included.
Emptied(e) == {i \in DOMAIN e.important : e.important[i] = <<>>}

ComponentCount(e) ==
  Len(e.required) + Len(e.important) - Cardinality(Emptied(e)) + Cardinality(e.optional)

\* Omissions of the registry and of the allocation.
OmissionCount(e, c) ==
  c.omitted + Cardinality(Emptied(e)) + Len(c.sources.optional) - Cardinality(e.optional)

\* ValidateContextEnvelopeV2: the counts, then the usage of the tiers.
ValidateContextEnvelopeV2(e, c) ==
  IF \/ ComponentCount(e) \notin 1..MaxContextComponents
     \/ OmissionCount(e, c) > MaxContextOmissions
  THEN "context_invalid_component"
  ELSE IF \/ Cardinality(e.optional) > MaxSelectedMemoryRecords
          \/ sumBytes(e.required) > c.budget.required
          \/ sumBytes(e.important) > c.budget.important
          \/ FoldSet(LAMBDA i, sum : Bytes(c.sources.optional[i]) + sum, 0, e.optional)
               > c.budget.optional
       THEN "context_budget_unsatisfiable"
       ELSE "none"

\* The envelope, or the refusal, of one input.
Compiled(c) ==
  LET e == allocateV2(WithContracts(c.sources, c.contracts), c.budget)
      verdict == ValidateContextEnvelopeV2(e, c)
  IN  IF \/ SourceCount(c.sources) > MaxContextComponents
         \/ c.omitted > MaxContextOmissions
      THEN Refusal("context_invalid_component")
      ELSE IF e.error # "none" THEN e
      ELSE IF OmissionCount(e, c) > MaxContextOmissions
      THEN Refusal("context_invalid_component")
      ELSE IF verdict # "none" THEN Refusal(verdict) ELSE e

CompileContextV2 ==
  /\ envelope = Waiting
  /\ envelope' = Compiled(input)
  /\ UNCHANGED input

CompilerInit ==
  /\ input \in {c \in Compilation : Resolved(c)}
  /\ envelope = Waiting
-----------------------------------------------------------------------------
\* A max-min fair division: nothing of the budget is left while a source is
\* cut, and no source has more than a byte above one that is cut.
MaxMinFair(alloc, sizes, budget) ==
  /\ Total(alloc) = Least(Total(sizes), budget)
  /\ \A i, j \in DOMAIN sizes :
       alloc[i] < sizes[i] => alloc[j] <= alloc[i] + 1

\* What the registry resolved is refused for a budget exactly when the
\* required sources and the engine's contracts exceed their tier, never
\* because of the bytes of its own envelope; it is refused for a count only
\* when the contracts take the components beyond their limit, or when what
\* may be omitted is more than its limit.  Otherwise the important sources
\* share their tier max-min fairly, and each keeps the longest tail of whole
\* runes its share holds (CompileContextV2, ValidateContextEnvelopeV2,
\* balancedAlloc, validTail).
FairShare ==
  envelope # Waiting =>
    LET tier == input.sources.important
        sizes == [i \in DOMAIN tier |-> Bytes(tier[i])]
        Tails(i) == {SubSeq(tier[i], k, Len(tier[i])) : k \in 1..(Len(tier[i]) + 1)}
        Longest(i, bytes) ==
          /\ envelope.important[i] \in Tails(i)
          /\ Bytes(envelope.important[i]) <= bytes
          /\ \A t \in Tails(i) :
               Bytes(t) <= bytes => Len(t) <= Len(envelope.important[i])
        requiredBytes == sumBytes(input.sources.required)
                           + Bytes(input.contracts.execution)
                           + Bytes(input.contracts.output)
    IN  IF requiredBytes > input.budget.required
        THEN envelope.error = "context_budget_unsatisfiable"
        ELSE \/ /\ envelope.error = "context_invalid_component"
                /\ \/ SourceCount(input.sources) + 2 > MaxContextComponents
                   \/ input.omitted + Len(tier) + Len(input.sources.optional)
                        > MaxContextOmissions
             \/ /\ envelope.error = "none"
                /\ \E alloc \in [DOMAIN tier -> 0..Max(Range(sizes) \union {0})] :
                     /\ MaxMinFair(alloc, sizes, input.budget.important)
                     /\ \A i \in DOMAIN tier : Longest(i, alloc[i])

\* Sources that the registry resolved and whose required tier fits compile.
\* This is not so: the registry and CompileContextV2 admit
\* MaxContextComponents sources, and the validation counts the two contracts
\* too, so the last two of these sizes are refused.
AdmittedCompiles ==
  envelope.error # "context_invalid_component"
=============================================================================
