-------------------------- MODULE ContextAssembly --------------------------
(***************************************************************************)
(* The preparation of an Attempt's context: run/context_assembly.go, the   *)
(* Memory part of contextcompiler/source_registry_v2.go, and the calls of  *)
(* advance and prepareParallelLaunches around them.                        *)
(*                                                                         *)
(* The controller of a Run reads the records bound to a Node one by one,   *)
(* compiles the context, reserves a use of every record the context        *)
(* includes and writes the Attempt.  Controllers of other Runs, users and  *)
(* host Agents work on the same ledger between any two of these steps, and *)
(* the controller may fail or die at each: it then prepares the same       *)
(* Attempt again from the start.                                           *)
(***************************************************************************)
EXTENDS MemoryCatalog, AttentionBudget

CONSTANTS
  Attempt,         \* identities of Attempts: Run, Node and number
  MemoryByNode,    \* the records bound to the Node of each
  OptionalBytes,   \* the optional tier of the attention budget
  MaxRevision, MaxClock

VARIABLES
  prep,      \* the preparation in the controller's memory
  written,   \* the records in the context of the Attempt on disk
  ledger     \* every use ever counted, as pairs of Attempt and records

vars == <<memoryVars, prep, written, ledger>>

NotPrepared == [step |-> "idle", read |-> <<>>, in |-> {}, out |-> <<>>]

Failing(a) == prep' = [prep EXCEPT ![a] = NotPrepared]

\* The next record of the binding, in the order of identities.
Unread(a) == MemoryByNode[a] \ DOMAIN prep[a].read

\* compileRunContext, first part: GetMemory of the next bound record.
ReadMemory(a) ==
  /\ prep[a].step = "idle"
  /\ written[a] = {}
  /\ Unread(a) # {}
  /\ LET id == Min(Unread(a))
     IN  IF id \in DOMAIN catalog.records
         THEN prep' = [prep EXCEPT ![a].read = Extended(@, id, catalog.records[id])]
         ELSE Failing(a)
  /\ temps' = {}
  /\ UNCHANGED <<catalog, clock, replies, listing, written, ledger>>

\* Resolve: why a selected record is left out of the context, or "no".
Omission(record, now) ==
  CASE record.state = "deleted"                      -> "unavailable"
    [] record.state = "superseded"                   -> "superseded"
    [] Spent(record) \/ Expired(record, now)         -> "expired"
    [] OTHER                                         -> "no"

\* CompileContextV2, the optional tier: the records that fit, the others
\* with the reason they are left out.
Compile(a) ==
  LET read == prep[a].read
      eligible == {r \in DOMAIN read : Omission(read[r], clock) = "no"}
      order == SetToSortSeq(eligible, <)
      fit == {order[i] : i \in Optional([i \in DOMAIN order |->
                                           <<read[order[i]].bytes>>],
                                        OptionalBytes)}
  IN  /\ prep[a].step = "idle"
      /\ written[a] = {}
      /\ Unread(a) = {}
      /\ prep' = [prep EXCEPT ![a].step = "compiled", ![a].in = fit,
                    ![a].out = [r \in DOMAIN read \ fit |->
                                  IF r \in eligible THEN "budget_exhausted"
                                  ELSE Omission(read[r], clock)]]
      /\ UNCHANGED <<memoryVars, written, ledger>>

\* The mutation identity of consumeCompiledMemory: the Attempt and the hash
\* of its envelope, which holds what is included and what is left out.
UseOf(a) == [operation |-> "consume", mutation |-> <<a, prep[a].in, prep[a].out>>,
             ids |-> prep[a].in]

\* Mutant of Reserve: the context is used whatever the ledger answers.
ReserveAnyway(a) ==
  LET outcome == mutateMemory(catalog, UseOf(a), clock)
  IN  /\ prep[a].step = "compiled"
      /\ prep[a].in # {}
      /\ writeMemoryCatalog(outcome)
      /\ prep' = [prep EXCEPT ![a].step = "reserved"]
      /\ ledger' = IF catalog' # catalog
                   THEN Append(ledger, [attempt |-> a, ids |-> prep[a].in])
                   ELSE ledger
      /\ UNCHANGED <<clock, replies, listing, written>>

\* consumeCompiledMemory; the call may fail although the uses are counted.
Reserve(a) ==
  LET outcome == mutateMemory(catalog, UseOf(a), clock)
  IN  /\ prep[a].step = "compiled"
      /\ prep[a].in # {}
      /\ writeMemoryCatalog(outcome)
      /\ \/ Failing(a)
         \/ Answered(outcome) /\ prep' = [prep EXCEPT ![a].step = "reserved"]
      /\ ledger' = IF catalog' # catalog
                   THEN Append(ledger, [attempt |-> a, ids |-> prep[a].in])
                   ELSE ledger
      /\ UNCHANGED <<clock, replies, listing, written>>

\* writeAttempt with the usage receipt; a failure or the end of the process
\* leaves the Attempt to be prepared again.
WriteAttempt(a) ==
  /\ \/ prep[a].step = "reserved"
     \/ prep[a].step = "compiled" /\ prep[a].in = {}
  /\ written' \in {written, [written EXCEPT ![a] = {prep[a].in}]}
  /\ Failing(a)
  /\ UNCHANGED <<memoryVars, ledger>>

\* The controller's process dies.
Die(a) == /\ prep[a] # NotPrepared
          /\ Failing(a)
          /\ UNCHANGED <<memoryVars, written, ledger>>

Init == /\ MemoryInit
        /\ prep = [a \in Attempt |-> NotPrepared]
        /\ written = [a \in Attempt |-> {}]
        /\ ledger = <<>>

Next == \/ /\ \/ \E request \in Request :
                    Mutate(request) /\ catalog'.revision <= MaxRevision
              \/ \E filter \in Filter : ListMemory(filter)
              \/ clock < MaxClock /\ Tick
           /\ UNCHANGED <<prep, written, ledger>>
        \/ \E a \in Attempt : \/ ReadMemory(a) \/ Compile(a)
                              \/ Reserve(a) \/ WriteAttempt(a) \/ Die(a)

Spec == Init /\ [][Next]_vars
-----------------------------------------------------------------------------
\* The shape of the state; a compiled context accounts for every record
\* bound to the Node, as included or with the reason it is left out.
TypeOK ==
  /\ catalog.revision \in Nat
  /\ \A r \in DOMAIN catalog.records :
       catalog.records[r].state \in {"active", "superseded", "deleted"}
  /\ \A a \in Attempt :
       /\ prep[a].step \in {"idle", "compiled", "reserved"}
       /\ prep[a].step # "idle" =>
            /\ prep[a].in \union DOMAIN prep[a].out = MemoryByNode[a]
            /\ prep[a].in \intersect DOMAIN prep[a].out = {}

Contexts(r) == {a \in Attempt : \E in \in written[a] : r \in in}

\* Every Attempt on disk whose context includes a record has had a use of it
\* counted, and no record is used more often than its retention allows,
\* whatever controllers race for it and wherever they die
\* (ConsumeMemory, consumeCompiledMemory).
UsesArePaid ==
  \A r \in DOMAIN catalog.records :
    /\ Cardinality(Contexts(r)) <= catalog.records[r].uses
    /\ catalog.records[r].maxUses > 0 =>
         catalog.records[r].uses <= catalog.records[r].maxUses

\* What the engine wrote it can go on with: no operation is answered that
\* the catalog is corrupt (mutateMemory validates its own proposal and
\* readMemoryCatalog what it finds).
NeverCorrupt ==
  /\ validateMemoryCatalog(catalog)
  /\ \A request \in Request :
       mutateMemory(catalog, request, clock).error # "corrupt"

\* The answers to one request, its repetitions after a lost answer included,
\* name one revision and one record, even when its receipt was dropped long
\* ago; and until the first receipt is dropped, so do all the answers under
\* one mutation identity, whatever it asks for (mutateMemory).
AnswersAgree ==
  \A x, y \in replies :
    /\ x.mutation = y.mutation
    /\ x.request = y.request \/ catalog.revision <= MaxReceipts
    => x = y

\* Once a deletion is answered, the content is neither in the catalog nor in
\* a temporary file of a process that died (DeleteMemory,
\* cleanupMemoryTemps).
ErasedEverywhere ==
  \A reply \in replies :
    reply.request.operation = "delete" =>
      \A c \in temps \union {catalog} :
        reply.id \in DOMAIN c.records => c.records[reply.id].bytes = 0

\* A listing gone through to its end shows the records of its revision, each
\* of them, whatever was written between its pages (ListMemory).
ListsWhole ==
  listing.done /\ listing.revision = catalog.revision =>
    listing.seen = Matching(catalog, listing.filter)

\* An Attempt pays for a record once: preparing it again after a crash
\* replays the reservation (consumeCompiledMemory).
UsedOnce ==
  \A a \in Attempt, r \in DOMAIN catalog.records :
    Cardinality({i \in DOMAIN ledger :
                   ledger[i].attempt = a /\ r \in ledger[i].ids}) <= 1
=============================================================================
