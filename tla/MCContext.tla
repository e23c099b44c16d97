----------------------------- MODULE MCContext -----------------------------
(***************************************************************************)
(* A ledger of a few records and two Attempts, of two Runs, bound to them; *)
(* and, in behaviours of their own, single compilations over all inputs of *)
(* up to three important sources and three records.                        *)
(***************************************************************************)
EXTENDS ContextAssembly, ContextCompiler

CONSTANTS n1, n2

create(m, bytes, maxUses, expires) ==
  [operation |-> "create", mutation |-> <<m>>, bytes |-> bytes,
   maxUses |-> maxUses, expires |-> expires]
supersede(m, targets) ==
  [operation |-> "supersede", mutation |-> <<m>>, targets |-> targets,
   bytes |-> 1, maxUses |-> 0, expires |-> Never]
delete(m, target) == [operation |-> "delete", mutation |-> <<m>>, target |-> target]

\* Records 1 (a single use) and 3 (expires), a record 6 or 8 that replaces
\* them, a deletion, and a mutation whose identity names two requests.
MCRequest == {create(1, 1, 1, Never), create(2, 2, 0, 1),
              supersede(3, {1}), supersede(4, {1}), supersede(4, {1, 3}),
              delete(4, 3)}
MCMemoryByNode == [a \in Attempt |-> IF a = n1 THEN {1, 3} ELSE {1}]

\* Rune widths are 1 to 4; the widths 1 and 3 tell a cut inside a rune apart.
MCContent == {<<1>>, <<3>>, <<1, 3>>, <<3, 1>>, <<1, 1, 3>>}
UpTo(n, S) == UNION {[1..k -> S] : k \in 0..n}

Compiling(required, important, optional, omitted, r, i, o) ==
  [sources |-> [required |-> required, important |-> important,
                optional |-> optional],
   omitted |-> omitted,
   contracts |-> [execution |-> <<1>>, output |-> <<1>>],
   budget |-> [required |-> r, important |-> i, optional |-> o]]

\* The required tier at its budget; important sources of all shapes;
\* Memory records; and the counts of components and omissions at their
\* limits, one below and one above.
MCCompilation ==
  {Compiling(<<<<1>>, <<3>>>>, <<>>, <<>>, 0, r, 1, 1) : r \in 3..7}
  \union {Compiling(<<<<1>>>>, tier, <<>>, 0, 3, i, 1) :
            tier \in UpTo(3, MCContent), i \in 0..8}
  \union {Compiling(<<<<1>>>>, <<<<1>>>>, tier, omitted, 3, 0, o) :
            tier \in UpTo(3, {<<1>>, <<2>>, <<3>>}), omitted \in 0..1, o \in 0..6}
  \union {Compiling(<<<<1>>>>, tier, records, omitted, 3, i, o) :
            tier \in UpTo(3, {<<1>>, <<3>>}), records \in UpTo(2, {<<1>>}),
            omitted \in 0..2, i \in 0..4, o \in 0..2}

NoCompilation == Compiling(<<>>, <<>>, <<>>, 0, 2, 0, 0)

\* A behaviour either uses the ledger or compiles once.
MCInit == /\ Init
          /\ CompilerInit \/ (input = NoCompilation /\ envelope = NoEnvelope)

MCNext == \/ input = NoCompilation /\ Next /\ UNCHANGED compilerVars
          \/ input # NoCompilation /\ CompileContextV2 /\ UNCHANGED vars

MCSpec == MCInit /\ [][MCNext]_<<vars, compilerVars>>
=============================================================================
