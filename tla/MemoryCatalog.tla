--------------------------- MODULE MemoryCatalog ---------------------------
(***************************************************************************)
(* The project Memory ledger: store/memory_catalog.go, and the calls of    *)
(* application/memory.go that reach it.                                    *)
(*                                                                         *)
(* One JSON file holds the records, a revision and the receipts of the     *)
(* mutations.  Every operation runs under an exclusive file lock, from the *)
(* read of the catalog to its replacement, so operations of different      *)
(* processes do not interleave; a process can die, or an error can be      *)
(* answered, on either side of the replacement.                            *)
(*                                                                         *)
(* A record is what its eligibility depends on: its state, the bytes of    *)
(* its content (0 once deleted), its uses and its retention.  Record       *)
(* identities are a hash of the operation and the mutation: numbers here,  *)
(* because listings and allocations go through them in order.  A request   *)
(* stands for its own canonical hash.                                      *)
(***************************************************************************)
EXTENDS Naturals, Sequences, FiniteSets, SequencesExt, FiniteSetsExt, Functions

CONSTANTS
  Request,       \* the requests of users and host Agents
  MaxRecords,    \* MaxProjectMemoryRecords
  MaxReceipts,   \* MaxMemoryReceipts
  Never,         \* no expiry
  Filter         \* the filters of listings: a state, or "any"

\* A mutation identity of a user or a host Agent, and what every new record
\* states of itself.
Mutation == [1..1 -> Nat \ {0}]
Expiry == Nat \union {Never}

CreateRequest ==
  [operation : {"create"}, mutation : Mutation, bytes : Nat, maxUses : Nat,
   expires : Expiry]
SupersedeRequest ==
  [operation : {"supersede"}, mutation : Mutation, targets : (SUBSET Nat) \ {{}},
   bytes : Nat, maxUses : Nat, expires : Expiry]
DeleteRequest == [operation : {"delete"}, mutation : Mutation, target : Nat]

\* Users and host Agents create, supersede and delete; only the engine
\* consumes.  A receipt is kept at least until the next mutation.
ASSUME MemoryAssumption ==
  /\ Request \subseteq CreateRequest \union SupersedeRequest
                        \union DeleteRequest
  /\ MaxRecords \in Nat
  /\ MaxReceipts \in Nat \ {0}

VARIABLES
  catalog,   \* catalog-v1.json
  temps,     \* the catalogs in temporary files that lie beside it
  clock,     \* the wall clock
  replies,   \* the successful answers users and host Agents received
  listing    \* the listing a client goes through page by page

memoryVars == <<catalog, temps, clock, replies, listing>>

\* A function with one more argument.
Extended(f, key, value) ==
  [x \in DOMAIN f \union {key} |-> IF x = key THEN value ELSE f[x]]

NoCatalog == [revision |-> 0, records |-> <<>>, receipts |-> <<>>]

\* memoryRecordID: one identity for each operation and mutation.
memoryRecordID(operation, mutation) ==
  2 * mutation[1] - (IF operation = "create" THEN 1 ELSE 0)

\* buildMemoryRecord.
buildMemoryRecord(request, supersedes, now) ==
  [state |-> "active", bytes |-> request.bytes, uses |-> 0,
   maxUses |-> request.maxUses, expires |-> request.expires,
   created |-> now, supersedes |-> supersedes]

\* ValidateMemoryRecordV1, as far as the operations can make it fail while
\* the wall clock does not go back.
ValidateMemoryRecordV1(record) ==
  /\ record.state = "deleted" <=> record.bytes = 0
  /\ record.maxUses > 0 => record.uses <= record.maxUses
  /\ record.expires # Never => record.expires > record.created

Refused(error) == [error |-> error]
Applied(records, id, affected) ==
  [error |-> "none", records |-> records, id |-> id, affected |-> affected]

\* CreateMemory: the change it makes to the records.
CreateMemory(c, request, now) ==
  LET id == memoryRecordID("create", request.mutation)
      record == buildMemoryRecord(request, {}, now)
  IN  IF \/ Cardinality(DOMAIN c.records) >= MaxRecords
         \/ id \in DOMAIN c.records
      THEN Refused("conflict")
      ELSE IF ~ValidateMemoryRecordV1(record) THEN Refused("invalid")
      ELSE Applied(Extended(c.records, id, record), id, {})

\* SupersedeMemory: one new record takes the place of all its targets.
SupersedeMemory(c, request, now) ==
  LET id == memoryRecordID("supersede", request.mutation)
      record == buildMemoryRecord(request, request.targets, now)
  IN  IF Cardinality(DOMAIN c.records) >= MaxRecords THEN Refused("conflict")
      ELSE IF request.targets \ DOMAIN c.records # {} THEN Refused("not_found")
      ELSE IF \/ \E r \in request.targets : c.records[r].state # "active"
              \/ id \in DOMAIN c.records
      THEN Refused("conflict")
      ELSE IF ~ValidateMemoryRecordV1(record) THEN Refused("invalid")
      ELSE LET replaced == [r \in DOMAIN c.records |->
                              IF r \in request.targets
                              THEN [c.records[r] EXCEPT !.state = "superseded"]
                              ELSE c.records[r]]
           IN  Applied(Extended(replaced, id, record), id, request.targets)

\* DeleteMemory: the content goes, a tombstone stays.
DeleteMemory(c, request, now) ==
  IF request.target \notin DOMAIN c.records THEN Refused("not_found")
  ELSE IF c.records[request.target].state = "deleted" THEN Refused("conflict")
  ELSE Applied([c.records EXCEPT ![request.target] =
                  [@ EXCEPT !.state = "deleted", !.bytes = 0]],
               request.target, {request.target})

\* Whether a record may not be used: its uses are spent or its time is over.
Spent(record) == record.maxUses > 0 /\ record.uses >= record.maxUses
Expired(record, now) == record.expires # Never /\ record.expires <= now

\* ConsumeMemory: one use of every record of a compiled context, or of none.
ConsumeMemory(c, request, now) ==
  IF request.ids \ DOMAIN c.records # {} THEN Refused("not_found")
  ELSE IF \E r \in request.ids : \/ c.records[r].state # "active"
                                 \/ Expired(c.records[r], now)
                                 \/ Spent(c.records[r])
  THEN Refused("conflict")
  ELSE Applied([r \in DOMAIN c.records |->
                  IF r \in request.ids
                  THEN [c.records[r] EXCEPT !.uses = @ + 1]
                  ELSE c.records[r]],
               Min(request.ids), request.ids \ {Min(request.ids)})

Apply(c, request, now) ==
  CASE request.operation = "create"    -> CreateMemory(c, request, now)
    [] request.operation = "supersede" -> SupersedeMemory(c, request, now)
    [] request.operation = "delete"    -> DeleteMemory(c, request, now)
    [] request.operation = "consume"   -> ConsumeMemory(c, request, now)
-----------------------------------------------------------------------------
(* The mutation protocol.                                                  *)

\* validateMemoryCatalog, of one receipt: the records it names, as its
\* operation must have left them.
validateReceipt(records, receipt) ==
  /\ {receipt.id} \union receipt.affected \subseteq DOMAIN records
  /\ receipt.request.operation = "create" => receipt.affected = {}
  /\ receipt.request.operation = "supersede" =>
       /\ receipt.affected # {}
       /\ receipt.affected = records[receipt.id].supersedes
  /\ receipt.request.operation = "delete" => receipt.affected = {receipt.id}
  /\ receipt.request.operation = "consume" =>
       \A a \in receipt.affected : receipt.id < a

\* validateMemoryCatalog: what is checked of a catalog at every read and
\* before every write.
validateMemoryCatalog(c) ==
  /\ Cardinality(DOMAIN c.records) <= MaxRecords
  /\ Len(c.receipts) <= MaxReceipts
  /\ \A r \in DOMAIN c.records : ValidateMemoryRecordV1(c.records[r])
  /\ \A i \in DOMAIN c.receipts :
       LET receipt == c.receipts[i]
       IN  /\ receipt.revision \in 1..c.revision
           /\ i > 1 => c.receipts[i - 1].revision < receipt.revision
           /\ \A j \in DOMAIN c.receipts :
                c.receipts[j].mutation = receipt.mutation => i = j
           /\ validateReceipt(c.records, receipt)
  /\ IF c.revision = 0 THEN c.records = <<>> /\ c.receipts = <<>>
     ELSE c.receipts # <<>> /\ Last(c.receipts).revision = c.revision

\* findMemoryReceipt.
findMemoryReceipt(c, mutation) ==
  {c.receipts[i] : i \in {j \in DOMAIN c.receipts :
                            c.receipts[j].mutation = mutation}}

Outcome(error, c, receipt) ==
  [error |-> error, catalog |-> c,
   reply |-> [mutation |-> receipt.mutation, request |-> receipt.request,
              revision |-> receipt.revision, id |-> receipt.id]]

Failed(error, c, request) ==
  Outcome(error, c, [mutation |-> request.mutation, request |-> request,
                     revision |-> 0, id |-> 0])

\* Mutant of Receipted: the oldest receipts are kept instead of the newest.
ReceiptedOldest(c, receipt) ==
  IF Len(c.receipts) = MaxReceipts THEN c.receipts
  ELSE Append(c.receipts, receipt)

\* The receipts with a new one; at the limit the oldest is dropped.
Receipted(c, receipt) ==
  LET all == Append(c.receipts, receipt)
  IN  IF Len(all) > MaxReceipts
      THEN SubSeq(all, Len(all) - MaxReceipts + 1, Len(all)) ELSE all

\* Mutant of Replayed: the answer names the revision the catalog has now.
ReplayedNow(c, receipt) == Outcome("none", c, [receipt EXCEPT !.revision = c.revision])

\* The answer of a mutation that was made before.
Replayed(c, receipt) == Outcome("none", c, receipt)

\* mutateMemory: the answer of a receipt that is there already, or the
\* change, with its receipt, of a catalog that is still valid.
mutateMemory(c, request, now) ==
  LET seen == findMemoryReceipt(c, request.mutation)
  IN  IF seen # {}
      THEN LET receipt == CHOOSE r \in seen : TRUE
           IN  IF receipt.request = request THEN Replayed(c, receipt)
               ELSE Failed("conflict", c, request)
      ELSE LET change == Apply(c, request, now)
           IN  IF change.error # "none" THEN Failed(change.error, c, request)
               ELSE LET receipt == [mutation |-> request.mutation,
                                    request |-> request,
                                    revision |-> c.revision + 1,
                                    id |-> change.id,
                                    affected |-> change.affected]
                        next == [revision |-> c.revision + 1,
                                 records |-> change.records,
                                 receipts |-> Receipted(c, receipt)]
                    IN  IF validateMemoryCatalog(next)
                        THEN Outcome("none", next, receipt)
                        ELSE Failed("corrupt", c, request)

\* Mutant of writeMemoryCatalog: abandoned temporary files stay.
writeMemoryCatalogOnly(outcome) ==
  \/ catalog' = outcome.catalog /\ temps' = temps
  \/ /\ outcome.catalog # catalog
     /\ catalog' = catalog
     /\ temps' \in {temps, temps \union {outcome.catalog}}

\* writeMemoryCatalog, after cleanupMemoryTemps: the catalog is replaced or
\* not, and a process that dies before the replacement leaves its temporary
\* file.  An error may be answered on either side of the replacement.
writeMemoryCatalog(outcome) ==
  \/ catalog' = outcome.catalog /\ temps' = {}
  \/ /\ outcome.catalog # catalog
     /\ catalog' = catalog
     /\ temps' \in {{}, {outcome.catalog}}

Answered(outcome) == outcome.error = "none" /\ catalog' = outcome.catalog
-----------------------------------------------------------------------------
(* The operations of users and host Agents.                                *)

\* MemoryCreate, MemorySupersede and MemoryDelete; the answer may be lost
\* although the change was made.
Mutate(request) ==
  LET outcome == mutateMemory(catalog, request, clock)
  IN  /\ writeMemoryCatalog(outcome)
      /\ \/ replies' = replies
         \/ Answered(outcome) /\ replies' = replies \union {outcome.reply}
      /\ UNCHANGED <<clock, listing>>

Matching(c, filter) ==
  {r \in DOMAIN c.records : filter = "any" \/ c.records[r].state = filter}

NotListing(filter) ==
  [filter |-> filter, revision |-> 0, last |-> 0, seen |-> {}, done |-> FALSE]

\* Mutant of CursorHolds: the cursor of an older revision is taken.
CursorOfAnyRevision(cursor) == TRUE

\* A cursor is good for the revision it was made at.
CursorHolds(cursor) == cursor.last = 0 \/ cursor.revision = catalog.revision

\* MemoryList: the next page, of one record; a cursor of another revision
\* is a conflict, and the client starts again.
ListMemory(filter) ==
  LET cursor == IF listing.done THEN NotListing(filter) ELSE listing
      matches == {r \in Matching(catalog, cursor.filter) : r > cursor.last}
      page == IF matches = {} THEN {} ELSE {Min(matches)}
  IN  /\ listing.filter = filter \/ listing.done
      /\ listing' =
           IF ~CursorHolds(cursor) THEN NotListing(filter)
           ELSE [filter |-> filter, revision |-> catalog.revision,
                 last |-> IF page = {} THEN 0 ELSE Max(page),
                 seen |-> cursor.seen \union page,
                 done |-> matches = page]
      /\ temps' = {}
      /\ UNCHANGED <<catalog, clock, replies>>

Tick == /\ clock' = clock + 1
        /\ UNCHANGED <<catalog, temps, replies, listing>>

MemoryInit ==
  /\ catalog = NoCatalog
  /\ temps = {}
  /\ clock = 0
  /\ replies = {}
  /\ listing \in {NotListing(f) : f \in Filter}
=============================================================================
