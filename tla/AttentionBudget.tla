-------------------------- MODULE AttentionBudget --------------------------
(***************************************************************************)
(* The allocation of a Context Envelope: contextcompiler/compiler_v2.go.   *)
(*                                                                         *)
(* The sources of an Attempt fall in three tiers with a byte budget each.  *)
(* Required sources are taken whole or the compilation fails; important    *)
(* ones share their budget max-min fairly and keep the tail of what does   *)
(* not fit; optional ones (Memory records) are taken whole, in the order   *)
(* of their identities, or left out.                                       *)
(*                                                                         *)
(* A content is the sequence of the widths of its runes, the only thing a  *)
(* byte budget tells apart.  A tier is a sequence of contents in canonical *)
(* order (kind rank, then identity).                                       *)
(***************************************************************************)
EXTENDS Naturals, Sequences, SequencesExt, FiniteSetsExt

\* len([]byte(content)).
Bytes(content) == FoldSeq(+, 0, content)

\* sumBytes: the bytes of a tier.
sumBytes(tier) == FoldSeq(LAMBDA content, sum : Bytes(content) + sum, 0, tier)

Total(alloc) == FoldSeq(+, 0, alloc)

Least(x, y) == IF x < y THEN x ELSE y

\* The bytes of a tier when no source takes more than a level.
Capped(sizes, level) == [i \in DOMAIN sizes |-> Least(sizes[i], level)]

\* The binary search for the largest common level whose sum fits.
Level(sizes, budget) ==
  LET search[lo \in 0..Max(Range(sizes)), hi \in 0..Max(Range(sizes))] ==
        IF lo >= hi THEN lo
        ELSE LET mid == (lo + hi + 1) \div 2
             IN  IF Total(Capped(sizes, mid)) <= budget
                 THEN search[mid, hi]
                 ELSE search[lo, mid - 1]
  IN  search[0, Max(Range(sizes))]

\* Sources that did not get all their bytes, and how many come before one.
Short(sizes, alloc) == {i \in DOMAIN sizes : alloc[i] < sizes[i]}
Before(i, set) == Cardinality({j \in set : j < i})

\* One round of handing out what is left: an equal share each, the remainder
\* one byte at a time in canonical order, no source above its size.
Round(sizes, alloc, left) ==
  LET short == Short(sizes, alloc)
      share == left \div Cardinality(short)
      extra == left % Cardinality(short)
  IN  [i \in DOMAIN sizes |->
         IF i \notin short THEN alloc[i]
         ELSE Least(sizes[i],
                    alloc[i] + share + (IF Before(i, short) < extra
                                        THEN 1 ELSE 0))]

\* Mutant of Leftover: the remainder of the division is not handed out.
LeftoverLost(sizes, alloc, budget) == alloc

\* The loop that hands out the rest of the budget.
Leftover(sizes, alloc, budget) ==
  LET loop[n \in 0..Len(sizes)] ==
        IF n = 0 THEN alloc
        ELSE LET a == loop[n - 1]
                 left == budget - Total(a)
             IN  IF left <= 0 \/ Short(sizes, a) = {}
                 THEN a ELSE Round(sizes, a, left)
  IN  loop[Len(sizes)]

\* balancedAlloc: how many bytes each important source may keep.
balancedAlloc(sizes, budget) ==
  IF sizes = <<>> \/ budget = 0 THEN [i \in DOMAIN sizes |-> 0]
  ELSE Leftover(sizes, Capped(sizes, Level(sizes, budget)), budget)

\* validTail: the longest suffix of whole runes within a number of bytes.
validTail(content, max) ==
  LET starts == {k \in 1..(Len(content) + 1) :
                   Bytes(SubSeq(content, k, Len(content))) <= max}
  IN  SubSeq(content, Min(starts), Len(content))

\* The part of each important source that is included; an empty part is an
\* omission (a source has at least one byte, resolvedComponentV2).
Important(tier, budget) ==
  LET alloc == balancedAlloc([i \in DOMAIN tier |-> Bytes(tier[i])], budget)
  IN  [i \in DOMAIN tier |-> validTail(tier[i], alloc[i])]

\* The optional sources that are included: each one that fits what is left.
Optional(tier, budget) ==
  LET kept[n \in 0..Len(tier)] ==
        IF n = 0 THEN [in |-> {}, left |-> budget]
        ELSE LET k == kept[n - 1]
             IN  IF Bytes(tier[n]) <= k.left
                 THEN [in |-> k.in \union {n}, left |-> k.left - Bytes(tier[n])]
                 ELSE k
  IN  kept[Len(tier)].in

NoEnvelope == [error |-> "none", required |-> <<>>, important |-> <<>>,
               optional |-> {}]

\* allocateV2: the envelope of the three tiers, or the refusal.
allocateV2(sources, budget) ==
  IF sumBytes(sources.required) > budget.required
  THEN [NoEnvelope EXCEPT !.error = "context_budget_unsatisfiable"]
  ELSE [error |-> "none", required |-> sources.required,
        important |-> Important(sources.important, budget.important),
        optional |-> Optional(sources.optional, budget.optional)]
=============================================================================
