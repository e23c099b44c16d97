----------------------- MODULE ContextAssembly_proofs -----------------------
(***************************************************************************)
(* The proofs about the Memory ledger and the preparation of contexts:     *)
(* whatever users, host Agents and controllers do with one catalog, for    *)
(* any number of records, receipts, requests and Attempts.                 *)
(***************************************************************************)
EXTENDS ContextAssembly, FiniteSetTheorems, WellFoundedInduction,
        SequenceTheorems, TLAPS

\* A sequence, of whatever its elements are.
Sequential(s) == s \in Seq({s[i] : i \in DOMAIN s})

MemoryRecord ==
  [state : {"active", "superseded", "deleted"}, bytes : Nat, uses : Nat,
   maxUses : Nat, expires : Expiry, created : Nat, supersedes : SUBSET Nat]

RecordsOK(records) ==
  /\ records \in [DOMAIN records -> MemoryRecord]
  /\ DOMAIN records \subseteq Nat \ {0}
  /\ IsFiniteSet(DOMAIN records)

\* The request has been applied and cannot be applied a second time: the
\* record it made, or the tombstone it left, is there.
Settled(records, request) ==
  /\ request.operation \in {"create", "supersede"} =>
       memoryRecordID(request.operation, request.mutation) \in DOMAIN records
  /\ request.operation = "delete" =>
       /\ request.target \in DOMAIN records
       /\ records[request.target].state = "deleted"

ReplyOf(receipt) ==
  [mutation |-> receipt.mutation, request |-> receipt.request,
   revision |-> receipt.revision, id |-> receipt.id]

\* A receipt, or an answer, of a request that has been applied.
Told(c, x) ==
  /\ x.mutation = x.request.mutation
  /\ x.request \in Request => Settled(c.records, x.request)
  /\ x.request.operation = "delete" => x.id = x.request.target

CatalogOK(c) ==
  /\ c.revision \in Nat
  /\ RecordsOK(c.records)
  /\ Sequential(c.receipts)
  /\ validateMemoryCatalog(c)
  /\ \A i \in DOMAIN c.receipts :
       /\ Told(c, c.receipts[i])
       /\ \/ c.receipts[i].request \in Request
          \/ c.receipts[i].request.operation = "consume"
  /\ c.revision <= MaxReceipts => Len(c.receipts) = c.revision

\* What a caller knows agrees with the catalog: an answer and a receipt of
\* one request are the same, and no answer loses its receipt before the limit.
ReplyOK(c, x) ==
  /\ x.request \in Request
  /\ Told(c, x)
  /\ \A i \in DOMAIN c.receipts :
       c.receipts[i].request = x.request => x = ReplyOf(c.receipts[i])
  /\ c.revision <= MaxReceipts =>
       \E i \in DOMAIN c.receipts : x = ReplyOf(c.receipts[i])

RepliesOK == \A x \in replies : ReplyOK(catalog, x)

\* The pages so far hold the records up to the last one.
ListingOK ==
  /\ listing \in [filter : Filter, revision : Nat, last : Nat,
                  seen : SUBSET Nat, done : BOOLEAN]
  /\ listing.revision <= catalog.revision
  /\ ~listing.done /\ listing.last = 0 => listing.seen = {}
  /\ ~listing.done /\ listing.last # 0 /\ listing.revision = catalog.revision =>
       listing.seen = {r \in Matching(catalog, listing.filter) : r <= listing.last}

MemoryInv ==
  /\ clock \in Nat
  /\ CatalogOK(catalog)
  /\ RepliesOK
  /\ AnswersAgree
  /\ ErasedEverywhere
  /\ ListingOK
  /\ ListsWhole

\* A use of the records has been counted for the Attempt.
Paid(a, ids) ==
  \E i \in DOMAIN ledger : ledger[i].attempt = a /\ ledger[i].ids = ids

\* The Attempts that paid for a record.
Payers(r) ==
  {ledger[i].attempt : i \in {j \in DOMAIN ledger : r \in ledger[j].ids}}

\* The preparation and the ledger of uses: whoever has a context, or holds a
\* receipt for one, has paid for it, and every payer is counted.
PaymentsOK ==
  /\ Sequential(ledger)
  /\ \A i \in DOMAIN ledger : ledger[i].ids \subseteq DOMAIN catalog.records
  /\ \A i \in DOMAIN catalog.receipts :
       catalog.receipts[i].request.operation = "consume" =>
         Paid(catalog.receipts[i].request.mutation[1],
              catalog.receipts[i].request.ids)
  /\ \A r \in DOMAIN catalog.records :
       /\ IsFiniteSet(Payers(r))
       /\ Cardinality(Payers(r)) <= catalog.records[r].uses

ContextsOK ==
  /\ prep \in [Attempt -> {prep[a] : a \in Attempt}]
  /\ written \in [Attempt -> {written[a] : a \in Attempt}]
  /\ \A a \in Attempt :
       /\ DOMAIN prep[a] = {"step", "read", "in", "out"}
       /\ prep[a].step \in {"idle", "compiled", "reserved"}
       /\ prep[a].step = "reserved" => Paid(a, prep[a].in)
       /\ \A in \in written[a] : in # {} => Paid(a, in)

ContextInv == MemoryInv /\ PaymentsOK /\ ContextsOK
-----------------------------------------------------------------------------
(* The operators.                                                          *)

\* A set of natural numbers that is not empty has a least element.
LEMMA LeastElement ==
  ASSUME NEW S \in SUBSET Nat, S # {}
  PROVE  Min(S) \in S /\ \A y \in S : Min(S) <= y
<1>1. \E x \in S : \A y \in S : ~ (<<y, x>> \in OpToRel(<, Nat))
  BY NatLessThanWellFounded, WFMin, Zenon
<1>2. PICK x \in S : \A y \in S : ~ (<<y, x>> \in OpToRel(<, Nat))
  BY <1>1
<1>3. \A y \in S : ~ (y < x)
  <2>1. SUFFICES ASSUME NEW y \in S, y < x PROVE <<y, x>> \in OpToRel(<, Nat)
    BY <1>2
  <2>2. <<y, x>> \in Nat \X Nat /\ <<y, x>>[1] = y /\ <<y, x>>[2] = x
    OBVIOUS
  <2> QED BY <2>1, <2>2, Zenon DEF OpToRel
<1>4. \A y \in S : x <= y
  BY <1>3
<1> QED BY <1>4 DEF Min

\* A sequence over some set is one over the set of its elements.
LEMMA SeqOfElements == ASSUME NEW S, NEW s \in Seq(S) PROVE Sequential(s)
<1> DEFINE T == {s[i] : i \in DOMAIN s}
<1>1. Len(s) \in Nat /\ s \in [1..Len(s) -> S]
  BY LenProperties
<1>2. s \in [1..Len(s) -> T]
  BY <1>1
<1>3. s \in UNION {[1..n -> T] : n \in Nat}
  <2> HIDE DEF T
  <2> QED BY <1>1, <1>2
<1>4. s \in Seq(T)
  <2> HIDE DEF T
  <2> QED BY <1>3, SeqDef, Zenon
<1> QED BY <1>4 DEF Sequential

\* The largest of one.
LEMMA LargestOfOne == ASSUME NEW x \in Nat PROVE Max({x}) = x
BY DEF Max

\* Receipted keeps the newest receipts, in their order, and adds the new one.
LEMMA ReceiptedKeepsNewest ==
  ASSUME NEW c, NEW receipt, Sequential(c.receipts), Len(c.receipts) <= MaxReceipts
  PROVE  LET s == Receipted(c, receipt)
             n == Len(c.receipts)
         IN  /\ Sequential(s)
             /\ Len(s) = IF n < MaxReceipts THEN n + 1 ELSE MaxReceipts
             /\ DOMAIN s = 1..Len(s)
             /\ s[Len(s)] = receipt
             /\ \A i \in 1..(Len(s) - 1) :
                  /\ i + (n + 1 - Len(s)) \in DOMAIN c.receipts
                  /\ s[i] = c.receipts[i + (n + 1 - Len(s))]
<1> USE MemoryAssumption
<1> DEFINE n == Len(c.receipts)
           all == Append(c.receipts, receipt)
           S == {c.receipts[i] : i \in DOMAIN c.receipts} \cup {receipt}
<1>1. c.receipts \in Seq(S) /\ n \in Nat /\ DOMAIN c.receipts = 1..n
  BY DEF Sequential
<1>2. /\ all \in Seq(S) /\ Len(all) = n + 1 /\ DOMAIN all = 1..(n + 1)
      /\ all[n + 1] = receipt /\ \A i \in 1..n : all[i] = c.receipts[i]
  BY <1>1
<1>3. CASE n < MaxReceipts
  <2>1. Receipted(c, receipt) = all
    BY <1>1, <1>2, <1>3 DEF Receipted
  <2>2. Sequential(all)
    BY <1>2, SeqOfElements
  <2> QED BY <1>1, <1>2, <1>3, <2>1, <2>2
<1>4. CASE n = MaxReceipts
  <2> DEFINE s == SubSeq(all, 2, n + 1)
  <2>1. Receipted(c, receipt) = s
    BY <1>1, <1>2, <1>4 DEF Receipted
  <2>2. s \in Seq(S) /\ Len(s) = n /\ DOMAIN s = 1..n /\ \A i \in 1..n : s[i] = all[i + 1]
    BY <1>1, <1>2, <1>4
  <2>3. Sequential(s)
    BY <2>2, SeqOfElements
  <2> QED BY <1>1, <1>2, <1>4, <2>1, <2>2, <2>3
<1> QED BY <1>1, <1>3, <1>4
-----------------------------------------------------------------------------
(* What a change does to the records.                                      *)

\* Records are never lost, a tombstone stays one, and a use is counted only
\* for the records a request consumes.
Grown(old, new, request) ==
  /\ DOMAIN old \subseteq DOMAIN new
  /\ \A r \in DOMAIN old :
       /\ old[r].state = "deleted" => new[r].state = "deleted"
       /\ new[r].supersedes = old[r].supersedes
       /\ new[r].uses = IF request.operation = "consume" /\ r \in request.ids
                        THEN old[r].uses + 1 ELSE old[r].uses

\* A change leaves valid records, and is what its receipt says.
GoodChange(c, request, change) ==
  /\ RecordsOK(change.records)
  /\ Cardinality(DOMAIN change.records) <= MaxRecords
  /\ \A r \in DOMAIN change.records : ValidateMemoryRecordV1(change.records[r])
  /\ Grown(c.records, change.records, request)
  /\ {change.id} \union change.affected \subseteq DOMAIN change.records
  /\ request.operation = "create" => change.affected = {}
  /\ request.operation = "supersede" =>
       /\ change.affected # {}
       /\ change.affected = change.records[change.id].supersedes
  /\ request.operation = "delete" =>
       change.id = request.target /\ change.affected = {change.id}
  /\ request.operation = "consume" =>
       /\ request.ids \subseteq DOMAIN c.records
       /\ \A r \in change.affected : change.id < r
  /\ request \in Request =>
       ~Settled(c.records, request) /\ Settled(change.records, request)

\* What no operation changes of a record.
SameLife(new, old) ==
  /\ new.maxUses = old.maxUses
  /\ new.expires = old.expires
  /\ new.created = old.created
  /\ new.supersedes = old.supersedes

\* One record more.
LEMMA OneMore ==
  ASSUME NEW records, RecordsOK(records), NEW id \in Nat \ {0},
         id \notin DOMAIN records, NEW record \in MemoryRecord,
         NEW new, new = Extended(records, id, record)
  PROVE  /\ RecordsOK(new)
         /\ DOMAIN new = DOMAIN records \union {id}
         /\ Cardinality(DOMAIN new) = Cardinality(DOMAIN records) + 1
         /\ new[id] = record
         /\ \A r \in DOMAIN records : new[r] = records[r]
<1>1. /\ DOMAIN new = DOMAIN records \union {id}
      /\ new[id] = record
      /\ \A r \in DOMAIN records : new[r] = records[r]
      /\ new \in [DOMAIN new -> MemoryRecord]
  BY DEF RecordsOK, Extended
<1>2. IsFiniteSet(DOMAIN new) /\ Cardinality(DOMAIN new) = Cardinality(DOMAIN records) + 1
  BY <1>1, FS_AddElement DEF RecordsOK
<1> QED BY <1>1, <1>2 DEF RecordsOK

\* Apply: creation.
LEMMA CreateIsGood ==
  ASSUME NEW c, CatalogOK(c), NEW now \in Nat, NEW request \in CreateRequest,
         CreateMemory(c, request, now).error = "none"
  PROVE  GoodChange(c, request, CreateMemory(c, request, now))
<1> DEFINE id == memoryRecordID("create", request.mutation)
           record == buildMemoryRecord(request, {}, now)
           new == Extended(c.records, id, record)
<1>1. id \in Nat \ {0}
  BY DEF memoryRecordID, CreateRequest, Mutation
<1>2. record \in MemoryRecord /\ record.supersedes = {}
  BY DEF buildMemoryRecord, MemoryRecord, CreateRequest
<1>3. /\ ~(Cardinality(DOMAIN c.records) >= MaxRecords)
      /\ id \notin DOMAIN c.records
      /\ ValidateMemoryRecordV1(record)
      /\ CreateMemory(c, request, now) = Applied(new, id, {})
  BY DEF CreateMemory, Refused
<1> HIDE DEF id, record
<1>4. /\ RecordsOK(new) /\ DOMAIN new = DOMAIN c.records \union {id}
      /\ Cardinality(DOMAIN new) = Cardinality(DOMAIN c.records) + 1
      /\ new[id] = record /\ \A r \in DOMAIN c.records : new[r] = c.records[r]
  <2>1. RecordsOK(c.records)
    BY DEF CatalogOK
  <2> QED BY <2>1, <1>1, <1>2, <1>3, OneMore
<1>5. Cardinality(DOMAIN new) <= MaxRecords
  BY <1>3, <1>4, MemoryAssumption, FS_CardinalityType DEF CatalogOK, RecordsOK
<1>6. \A r \in DOMAIN new : ValidateMemoryRecordV1(new[r])
  BY <1>3, <1>4 DEF CatalogOK, validateMemoryCatalog
<1>7. request.operation = "create"
  BY DEF CreateRequest
<1>8. ~Settled(c.records, request) /\ Settled(new, request)
  BY <1>3, <1>4, <1>7 DEF Settled, id
<1>9. Grown(c.records, new, request)
  BY <1>4, <1>7 DEF Grown
<1> HIDE DEF new
<1> QED BY <1>3, <1>4, <1>5, <1>6, <1>7, <1>8, <1>9 DEF GoodChange, Applied

\* Apply: supersession.
LEMMA SupersedeIsGood ==
  ASSUME NEW c, CatalogOK(c), NEW now \in Nat, NEW request \in SupersedeRequest,
         SupersedeMemory(c, request, now).error = "none"
  PROVE  GoodChange(c, request, SupersedeMemory(c, request, now))
<1> DEFINE id == memoryRecordID("supersede", request.mutation)
           record == buildMemoryRecord(request, request.targets, now)
           replaced == [r \in DOMAIN c.records |->
                          IF r \in request.targets
                          THEN [c.records[r] EXCEPT !.state = "superseded"]
                          ELSE c.records[r]]
           new == Extended(replaced, id, record)
<1>1. id \in Nat \ {0}
  BY DEF memoryRecordID, SupersedeRequest, Mutation
<1>2. record \in MemoryRecord /\ record.supersedes = request.targets
  BY DEF buildMemoryRecord, MemoryRecord, SupersedeRequest
<1>3. /\ ~(Cardinality(DOMAIN c.records) >= MaxRecords)
      /\ request.targets \subseteq DOMAIN c.records
      /\ \A r \in request.targets : c.records[r].state = "active"
      /\ id \notin DOMAIN c.records
      /\ ValidateMemoryRecordV1(record)
      /\ SupersedeMemory(c, request, now) = Applied(new, id, request.targets)
  BY DEF SupersedeMemory, Refused
<1>4. /\ DOMAIN replaced = DOMAIN c.records
      /\ \A r \in DOMAIN c.records :
           /\ replaced[r] \in MemoryRecord
           /\ SameLife(replaced[r], c.records[r])
           /\ replaced[r].bytes = c.records[r].bytes
           /\ replaced[r].uses = c.records[r].uses
           /\ r \in request.targets => replaced[r].state = "superseded"
           /\ r \notin request.targets => replaced[r] = c.records[r]
  <2> SUFFICES ASSUME NEW r \in DOMAIN c.records
               PROVE  /\ replaced[r] \in MemoryRecord
                      /\ SameLife(replaced[r], c.records[r])
                      /\ replaced[r].bytes = c.records[r].bytes
                      /\ replaced[r].uses = c.records[r].uses
                      /\ r \in request.targets => replaced[r].state = "superseded"
                      /\ r \notin request.targets => replaced[r] = c.records[r]
    OBVIOUS
  <2>1. c.records[r] \in MemoryRecord
    BY DEF CatalogOK, RecordsOK
  <2> QED BY <2>1 DEF MemoryRecord, SameLife
<1>5. RecordsOK(replaced)
  <2>1. replaced \in [DOMAIN replaced -> MemoryRecord]
    BY <1>4
  <2> QED BY <1>4, <2>1 DEF CatalogOK, RecordsOK
<1> HIDE DEF id, record, replaced
<1>6. /\ RecordsOK(new) /\ DOMAIN new = DOMAIN c.records \union {id}
      /\ Cardinality(DOMAIN new) = Cardinality(DOMAIN c.records) + 1
      /\ new[id] = record /\ \A r \in DOMAIN c.records : new[r] = replaced[r]
  <2>1. id \notin DOMAIN replaced
    BY <1>3, <1>4
  <2>2. /\ RecordsOK(new) /\ DOMAIN new = DOMAIN replaced \union {id}
        /\ Cardinality(DOMAIN new) = Cardinality(DOMAIN replaced) + 1
        /\ new[id] = record /\ \A r \in DOMAIN replaced : new[r] = replaced[r]
    <3>1. new = Extended(replaced, id, record) /\ record \in MemoryRecord
      BY <1>2
    <3> HIDE DEF new
    <3> QED BY <1>1, <1>5, <2>1, <3>1, OneMore
  <2> HIDE DEF new
  <2> QED BY <1>4, <2>2
<1>7. Cardinality(DOMAIN new) <= MaxRecords
  BY <1>3, <1>6, MemoryAssumption, FS_CardinalityType DEF CatalogOK, RecordsOK
<1>8. \A r \in DOMAIN c.records : ValidateMemoryRecordV1(replaced[r])
  BY <1>3, <1>4 DEF CatalogOK, validateMemoryCatalog, ValidateMemoryRecordV1, SameLife
<1>9. \A r \in DOMAIN new : ValidateMemoryRecordV1(new[r])
  BY <1>3, <1>6, <1>8
<1>10. request.operation = "supersede" /\ request.targets # {}
  BY DEF SupersedeRequest
<1>11. ~Settled(c.records, request) /\ Settled(new, request)
  BY <1>3, <1>6, <1>10 DEF Settled, id
<1>12. Grown(c.records, new, request)
  BY <1>3, <1>4, <1>6, <1>10 DEF Grown, SameLife
<1> HIDE DEF new
<1> QED BY <1>2, <1>3, <1>6, <1>7, <1>9, <1>10, <1>11, <1>12 DEF GoodChange, Applied

\* Apply: deletion.
LEMMA DeleteIsGood ==
  ASSUME NEW c, CatalogOK(c), NEW now \in Nat, NEW request \in DeleteRequest,
         DeleteMemory(c, request, now).error = "none"
  PROVE  GoodChange(c, request, DeleteMemory(c, request, now))
<1> DEFINE id == request.target
           new == [c.records EXCEPT ![id] = [@ EXCEPT !.state = "deleted", !.bytes = 0]]
<1>1. /\ id \in DOMAIN c.records
      /\ c.records[id].state # "deleted"
      /\ DeleteMemory(c, request, now) = Applied(new, id, {id})
  BY DEF DeleteMemory, Refused
<1>2. /\ DOMAIN new = DOMAIN c.records
      /\ new \in [DOMAIN new -> MemoryRecord]
      /\ new[id].state = "deleted" /\ new[id].bytes = 0
      /\ SameLife(new[id], c.records[id]) /\ new[id].uses = c.records[id].uses
      /\ \A r \in DOMAIN c.records \ {id} : new[r] = c.records[r]
  BY <1>1 DEF CatalogOK, RecordsOK, MemoryRecord, SameLife
<1> HIDE DEF new
<1>3. RecordsOK(new) /\ Cardinality(DOMAIN new) <= MaxRecords
  BY <1>2 DEF CatalogOK, RecordsOK, validateMemoryCatalog
<1>4. \A r \in DOMAIN new : ValidateMemoryRecordV1(new[r])
  BY <1>1, <1>2 DEF CatalogOK, validateMemoryCatalog, ValidateMemoryRecordV1, SameLife
<1>5. request.operation = "delete"
  BY DEF DeleteRequest
<1>6. ~Settled(c.records, request) /\ Settled(new, request)
  BY <1>1, <1>2, <1>5 DEF Settled
<1>7. Grown(c.records, new, request)
  BY <1>1, <1>2, <1>5 DEF Grown, SameLife
<1> QED BY <1>1, <1>2, <1>3, <1>4, <1>5, <1>6, <1>7 DEF GoodChange, Applied

\* Apply: one use of every record of a context.
LEMMA ConsumeIsGood ==
  ASSUME NEW c, CatalogOK(c), NEW now \in Nat, NEW request,
         request.operation = "consume", request.ids # {},
         ConsumeMemory(c, request, now).error = "none"
  PROVE  GoodChange(c, request, ConsumeMemory(c, request, now))
<1> DEFINE ids == request.ids
           new == [r \in DOMAIN c.records |->
                     IF r \in ids THEN [c.records[r] EXCEPT !.uses = @ + 1]
                     ELSE c.records[r]]
<1>1. /\ ids \subseteq DOMAIN c.records
      /\ \A r \in ids : c.records[r].state = "active" /\ ~Spent(c.records[r])
      /\ ConsumeMemory(c, request, now) = Applied(new, Min(ids), ids \ {Min(ids)})
  BY DEF ConsumeMemory, Refused
<1>2. /\ DOMAIN new = DOMAIN c.records
      /\ \A r \in DOMAIN c.records :
           /\ new[r] \in MemoryRecord
           /\ r \in ids => new[r].uses = c.records[r].uses + 1
           /\ SameLife(new[r], c.records[r])
           /\ new[r].state = c.records[r].state
           /\ new[r].bytes = c.records[r].bytes
           /\ r \notin ids => new[r] = c.records[r]
  <2> SUFFICES ASSUME NEW r \in DOMAIN c.records
               PROVE  /\ new[r] \in MemoryRecord
                      /\ r \in ids => new[r].uses = c.records[r].uses + 1
                      /\ SameLife(new[r], c.records[r])
                      /\ new[r].state = c.records[r].state
                      /\ new[r].bytes = c.records[r].bytes
                      /\ r \notin ids => new[r] = c.records[r]
    OBVIOUS
  <2>1. c.records[r] \in MemoryRecord
    BY DEF CatalogOK, RecordsOK
  <2> QED BY <2>1 DEF MemoryRecord, SameLife
<1>10. new \in [DOMAIN new -> MemoryRecord]
  BY <1>2
<1>3. Min(ids) \in ids /\ \A r \in ids : Min(ids) <= r
  BY <1>1, LeastElement DEF CatalogOK, RecordsOK
<1> HIDE DEF new
<1>4. RecordsOK(new) /\ Cardinality(DOMAIN new) <= MaxRecords
  BY <1>2, <1>10 DEF CatalogOK, RecordsOK, validateMemoryCatalog
<1>5. \A r \in DOMAIN new : ValidateMemoryRecordV1(new[r])
  <2> SUFFICES ASSUME NEW r \in DOMAIN c.records
               PROVE  ValidateMemoryRecordV1(new[r])
    BY <1>2
  <2>1. c.records[r] \in MemoryRecord /\ ValidateMemoryRecordV1(c.records[r])
    BY DEF CatalogOK, RecordsOK, validateMemoryCatalog
  <2>2. c.records[r].uses \in Nat /\ c.records[r].maxUses \in Nat
    BY <2>1 DEF MemoryRecord
  <2> QED BY <1>1, <1>2, <2>1, <2>2 DEF ValidateMemoryRecordV1, Spent, SameLife
<1>6. \A r \in ids \ {Min(ids)} : Min(ids) < r
  BY <1>1, <1>3 DEF CatalogOK, RecordsOK
<1>7. request \notin Request
  BY MemoryAssumption DEF CreateRequest, SupersedeRequest, DeleteRequest
<1>8. Grown(c.records, new, request)
  BY <1>2 DEF Grown, SameLife
<1>9. {Min(ids)} \union (ids \ {Min(ids)}) \subseteq DOMAIN new
  BY <1>1, <1>2, <1>3
<1> QED BY <1>1, <1>4, <1>5, <1>6, <1>7, <1>8, <1>9 DEF GoodChange, Applied

\* Apply, whatever is asked.
LEMMA ApplyIsGood ==
  ASSUME NEW c, CatalogOK(c), NEW now \in Nat, NEW request,
         \/ request \in Request
         \/ request.operation = "consume" /\ request.ids # {},
         Apply(c, request, now).error = "none"
  PROVE  GoodChange(c, request, Apply(c, request, now))
<1>1. CASE request \in CreateRequest
  <2>1. Apply(c, request, now) = CreateMemory(c, request, now)
    BY <1>1 DEF Apply, CreateRequest
  <2> QED BY <1>1, <2>1, CreateIsGood
<1>2. CASE request \in SupersedeRequest
  <2>1. Apply(c, request, now) = SupersedeMemory(c, request, now)
    BY <1>2 DEF Apply, SupersedeRequest
  <2> QED BY <1>2, <2>1, SupersedeIsGood
<1>3. CASE request \in DeleteRequest
  <2>1. Apply(c, request, now) = DeleteMemory(c, request, now)
    BY <1>3 DEF Apply, DeleteRequest
  <2> QED BY <1>3, <2>1, DeleteIsGood
<1>4. CASE request.operation = "consume" /\ request.ids # {}
  <2>1. Apply(c, request, now) = ConsumeMemory(c, request, now)
    BY <1>4 DEF Apply
  <2> QED BY <1>4, <2>1, ConsumeIsGood
<1> QED BY <1>1, <1>2, <1>3, <1>4, MemoryAssumption
-----------------------------------------------------------------------------
(* The mutation protocol.                                                  *)

ReceiptFor(c, request, change) ==
  [mutation |-> request.mutation, request |-> request,
   revision |-> c.revision + 1, id |-> change.id, affected |-> change.affected]

NextFor(c, request, change) ==
  [revision |-> c.revision + 1, records |-> change.records,
   receipts |-> Receipted(c, ReceiptFor(c, request, change))]

Acceptable(request) ==
  \/ request \in Request
  \/ request.operation = "consume" /\ request.ids # {}

\* A receipt is valid in every later catalog.
LEMMA ReceiptStaysValid ==
  ASSUME NEW c, CatalogOK(c), NEW request, NEW new, Grown(c.records, new, request),
         NEW i \in DOMAIN c.receipts
  PROVE  /\ validateReceipt(new, c.receipts[i])
         /\ c.receipts[i].request \in Request => Settled(new, c.receipts[i].request)
<1> DEFINE receipt == c.receipts[i]
<1>1. /\ validateReceipt(c.records, receipt)
      /\ receipt.request \in Request => Settled(c.records, receipt.request)
  BY Zenon DEF CatalogOK, validateMemoryCatalog, Told
<1> HIDE DEF receipt
<1>2. validateReceipt(new, receipt)
  BY <1>1 DEF Grown, validateReceipt
<1>3. receipt.request \in Request => Settled(new, receipt.request)
  BY <1>1 DEF Grown, Settled
<1> QED BY <1>2, <1>3 DEF receipt

\* So is the receipt of a change.
LEMMA NewReceiptIsValid ==
  ASSUME NEW c, NEW request, NEW change, GoodChange(c, request, change)
  PROVE  /\ validateReceipt(change.records, ReceiptFor(c, request, change))
         /\ request \in Request => Settled(change.records, request)
         /\ request.operation = "delete" => change.id = request.target
BY DEF GoodChange, ReceiptFor, validateReceipt

\* The catalog with a change and its receipt is valid.
LEMMA NextIsValid ==
  ASSUME NEW c, CatalogOK(c), NEW request, Acceptable(request), NEW change,
         GoodChange(c, request, change), findMemoryReceipt(c, request.mutation) = {}
  PROVE  CatalogOK(NextFor(c, request, change))
<1> DEFINE x == ReceiptFor(c, request, change)
           s == Receipted(c, x)
           d == NextFor(c, request, change)
           n == Len(c.receipts)
           k == n + 1 - Len(s)
           Old(i) == i \in 1..(Len(s) - 1)
<1>1. d.revision = c.revision + 1 /\ d.records = change.records /\ d.receipts = s
  BY DEF NextFor
<1>2. /\ Sequential(c.receipts) /\ n \in Nat /\ DOMAIN c.receipts = 1..n
      /\ n <= MaxReceipts
  BY DEF CatalogOK, validateMemoryCatalog, Sequential
<1>3. /\ Sequential(s)
      /\ Len(s) = IF n < MaxReceipts THEN n + 1 ELSE MaxReceipts
      /\ DOMAIN s = 1..Len(s)
      /\ s[Len(s)] = x
      /\ \A i \in 1..(Len(s) - 1) : i + k \in 1..n /\ s[i] = c.receipts[i + k]
  BY <1>2, ReceiptedKeepsNewest
<1>4. /\ Len(s) \in Nat \ {0} /\ Len(s) <= MaxReceipts /\ k \in {0, 1}
      /\ s # <<>>
  <2>1. Len(s) \in Nat \ {0} /\ Len(s) <= MaxReceipts /\ k \in {0, 1}
    BY <1>2, <1>3, MemoryAssumption
  <2>2. DOMAIN s # {}
    BY <1>3, <2>1
  <2> QED BY <2>1, <2>2
<1>5. x.revision = c.revision + 1 /\ x.mutation = request.mutation /\ x.request = request
  BY DEF ReceiptFor
<1>6. /\ c.revision \in Nat
      /\ \A i \in 1..n :
           /\ c.receipts[i].revision \in 1..c.revision
           /\ i > 1 => c.receipts[i - 1].revision < c.receipts[i].revision
           /\ \A j \in 1..n : c.receipts[j].mutation = c.receipts[i].mutation => i = j
           /\ c.receipts[i].mutation # request.mutation
           /\ Told(c, c.receipts[i])
           /\ \/ c.receipts[i].request \in Request
              \/ c.receipts[i].request.operation = "consume"
  <2>1. c.revision \in Nat /\ validateMemoryCatalog(c)
    BY DEF CatalogOK
  <2>2. \A i \in 1..n : Told(c, c.receipts[i])
    BY <1>2 DEF CatalogOK
  <2>3. \A i \in 1..n : \/ c.receipts[i].request \in Request
                         \/ c.receipts[i].request.operation = "consume"
    BY <1>2 DEF CatalogOK
  <2>4. \A i \in 1..n : c.receipts[i].mutation # request.mutation
    BY <1>2 DEF findMemoryReceipt
  <2>5. \A i \in 1..n :
           /\ c.receipts[i].revision \in 1..c.revision
           /\ i > 1 => c.receipts[i - 1].revision < c.receipts[i].revision
           /\ \A j \in 1..n : c.receipts[j].mutation = c.receipts[i].mutation => i = j
    BY <1>2, <2>1, Zenon DEF validateMemoryCatalog
  <2> QED BY <2>1, <2>2, <2>3, <2>4, <2>5
<1> HIDE DEF x, s, d, n, k
<1>7. \A i \in DOMAIN s : i = Len(s) \/ Old(i)
  BY <1>3, <1>4
<1>8. \A i \in DOMAIN s : s[i].revision \in 1..d.revision
  BY <1>1, <1>3, <1>5, <1>6, <1>7
<1>9. \A i \in DOMAIN s : i > 1 => s[i - 1].revision < s[i].revision
  <2> SUFFICES ASSUME NEW i \in DOMAIN s, i > 1 PROVE s[i - 1].revision < s[i].revision
    OBVIOUS
  <2>1. Old(i - 1) /\ s[i - 1] = c.receipts[i - 1 + k] /\ i - 1 + k \in 1..n
    BY <1>3, <1>4
  <2>2. CASE i = Len(s)
    BY <2>1, <2>2, <1>3, <1>5, <1>6
  <2>3. CASE Old(i)
    <3>1. s[i] = c.receipts[i + k] /\ i + k \in 1..n /\ (i + k) - 1 = i - 1 + k /\ i + k > 1
      BY <2>3, <1>3, <1>4
    <3> QED BY <2>1, <3>1, <1>6
  <2> QED BY <1>7, <2>2, <2>3
<1>10. \A i, j \in DOMAIN s : s[j].mutation = s[i].mutation => i = j
  <2> SUFFICES ASSUME NEW i \in DOMAIN s, NEW j \in DOMAIN s, s[j].mutation = s[i].mutation
               PROVE  i = j
    OBVIOUS
  <2>1. CASE Old(i) /\ Old(j)
    <3>1. i + k = j + k
      BY <2>1, <1>3, <1>6
    <3> QED BY <3>1, <1>3, <1>4
  <2>2. CASE i = Len(s) /\ Old(j)
    BY <2>2, <1>3, <1>5, <1>6
  <2>3. CASE Old(i) /\ j = Len(s)
    BY <2>3, <1>3, <1>5, <1>6
  <2> QED BY <1>7, <2>1, <2>2, <2>3
<1>11. \A i \in DOMAIN s :
         /\ validateReceipt(d.records, s[i])
         /\ Told(d, s[i])
         /\ s[i].request \in Request \/ s[i].request.operation = "consume"
  <2> SUFFICES ASSUME NEW i \in DOMAIN s
               PROVE  /\ validateReceipt(d.records, s[i])
                      /\ Told(d, s[i])
                      /\ s[i].request \in Request \/ s[i].request.operation = "consume"
    OBVIOUS
  <2>1. CASE i = Len(s)
    <3>1. s[i] = ReceiptFor(c, request, change) /\ d.records = change.records
      BY <2>1, <1>1, <1>3 DEF x
    <3>2. /\ s[i].request = request /\ s[i].mutation = request.mutation
          /\ s[i].id = change.id
      BY <3>1 DEF ReceiptFor
    <3> QED BY <3>1, <3>2, NewReceiptIsValid DEF Told, Acceptable
  <2>2. CASE Old(i)
    <3>1. PICK j \in DOMAIN c.receipts : s[i] = c.receipts[j]
      BY <2>2, <1>2, <1>3
    <3>2. Grown(c.records, d.records, request)
      BY <1>1 DEF GoodChange
    <3>3. /\ Told(c, s[i])
          /\ s[i].request \in Request \/ s[i].request.operation = "consume"
      BY <3>1, <1>2, <1>6
    <3>4. /\ validateReceipt(d.records, s[i])
          /\ s[i].request \in Request => Settled(d.records, s[i].request)
      BY <3>1, <3>2, ReceiptStaysValid
    <3> QED BY <3>3, <3>4 DEF Told
  <2> QED BY <1>7, <2>1, <2>2
<1>12. /\ Cardinality(DOMAIN d.records) <= MaxRecords /\ RecordsOK(d.records)
       /\ \A r \in DOMAIN d.records : ValidateMemoryRecordV1(d.records[r])
  BY <1>1 DEF GoodChange
<1>13. Last(s).revision = d.revision /\ d.revision # 0 /\ d.revision \in Nat
  BY <1>1, <1>3, <1>4, <1>5, <1>6 DEF Last
<1>14. validateMemoryCatalog(d)
  BY <1>1, <1>4, <1>8, <1>9, <1>10, <1>11, <1>12, <1>13, Zenon DEF validateMemoryCatalog
<1>15. d.revision <= MaxReceipts => Len(s) = d.revision
  <2>1. c.revision <= MaxReceipts => n = c.revision
    BY DEF CatalogOK, n
  <2> QED BY <1>1, <1>2, <1>3, <1>6, <2>1, MemoryAssumption
<1>16. \A i \in DOMAIN d.receipts :
         /\ Told(d, d.receipts[i])
         /\ d.receipts[i].request \in Request \/ d.receipts[i].request.operation = "consume"
  BY <1>1, <1>11, Zenon
<1>17. CatalogOK(d)
  BY <1>1, <1>3, <1>12, <1>13, <1>14, <1>15, <1>16, Zenon DEF CatalogOK
<1> QED BY <1>17 DEF d

\* The outcomes of a request: a refusal, the answer of its receipt, or a
\* change.
IsRefused(c, o) == o.error # "none" /\ o.catalog = c
IsReplayed(c, request, o) ==
  \E i \in DOMAIN c.receipts :
    /\ c.receipts[i].request = request
    /\ o.error = "none" /\ o.catalog = c /\ o.reply = ReplyOf(c.receipts[i])
IsChanged(c, request, o) ==
  \E change :
    /\ findMemoryReceipt(c, request.mutation) = {}
    /\ GoodChange(c, request, change)
    /\ o.error = "none" /\ o.catalog = NextFor(c, request, change)
    /\ o.reply = ReplyOf(ReceiptFor(c, request, change))

\* mutateMemory never finds its own proposal corrupt.
LEMMA MutateOutcomes ==
  ASSUME NEW c, CatalogOK(c), NEW request, Acceptable(request), NEW now \in Nat,
         NEW o, o = mutateMemory(c, request, now)
  PROVE  /\ o.error # "corrupt"
         /\ IsRefused(c, o) \/ IsReplayed(c, request, o) \/ IsChanged(c, request, o)
<1> DEFINE seen == findMemoryReceipt(c, request.mutation)
           change == Apply(c, request, now)
<1>1. CASE seen # {}
  <2> DEFINE receipt == CHOOSE r \in seen : TRUE
  <2>1. receipt \in seen
    BY <1>1
  <2>2. \E i \in DOMAIN c.receipts : receipt = c.receipts[i]
    BY <2>1 DEF findMemoryReceipt
  <2>3. o = IF receipt.request = request THEN Replayed(c, receipt)
            ELSE Failed("conflict", c, request)
    BY <1>1 DEF mutateMemory
  <2> HIDE DEF receipt, seen
  <2>4. CASE receipt.request = request
    <3>1. o.error = "none" /\ o.catalog = c /\ o.reply = ReplyOf(receipt)
      BY <2>3, <2>4 DEF Replayed, Outcome, ReplyOf
    <3> QED BY <2>2, <2>4, <3>1 DEF IsReplayed
  <2>5. CASE receipt.request # request
    BY <2>3, <2>5 DEF Failed, Outcome, IsRefused
  <2> QED BY <2>4, <2>5
<1>2. CASE seen = {} /\ change.error # "none"
  <2>1. o = Failed(change.error, c, request)
    BY <1>2 DEF mutateMemory
  <2>2. request.operation \in {"create", "supersede", "delete", "consume"}
    BY MemoryAssumption DEF Acceptable, CreateRequest, SupersedeRequest, DeleteRequest
  <2>3. change.error # "corrupt"
    BY <2>2 DEF Apply, CreateMemory, SupersedeMemory, DeleteMemory, ConsumeMemory,
                Refused, Applied
  <2> HIDE DEF change
  <2>4. o.error = change.error /\ o.catalog = c
    BY <2>1 DEF Failed, Outcome
  <2> QED BY <1>2, <2>3, <2>4 DEF IsRefused
<1>3. CASE seen = {} /\ change.error = "none"
  <2>1. GoodChange(c, request, change)
    BY <1>3, ApplyIsGood DEF Acceptable
  <2>2. validateMemoryCatalog(NextFor(c, request, change))
    BY <1>3, <2>1, NextIsValid DEF CatalogOK
  <2>3. o = Outcome("none", NextFor(c, request, change), ReceiptFor(c, request, change))
    BY <1>3, <2>2 DEF mutateMemory, NextFor, ReceiptFor
  <2> HIDE DEF change
  <2>4. /\ o.error = "none" /\ o.catalog = NextFor(c, request, change)
        /\ o.reply = ReplyOf(ReceiptFor(c, request, change))
    BY <2>3 DEF Outcome, ReplyOf
  <2> QED BY <1>3, <2>1, <2>4 DEF IsChanged
<1> QED BY <1>1, <1>2, <1>3
-----------------------------------------------------------------------------
(* From one catalog to the next.                                           *)

\* A catalog and its successor by a change.
Follows(c, d, request) ==
  \E change :
    /\ findMemoryReceipt(c, request.mutation) = {}
    /\ GoodChange(c, request, change)
    /\ d = NextFor(c, request, change)

\* The receipts of the successor: the new one, and old ones; all of them as
\* long as the limit is not reached.
LEMMA FollowingReceipts ==
  ASSUME NEW c, CatalogOK(c), NEW request, Acceptable(request), NEW change,
         findMemoryReceipt(c, request.mutation) = {},
         GoodChange(c, request, change),
         NEW d, d = NextFor(c, request, change)
  PROVE  /\ CatalogOK(d)
         /\ d.revision = c.revision + 1
         /\ Grown(c.records, d.records, request)
         /\ \A i \in DOMAIN d.receipts :
              \/ d.receipts[i] = ReceiptFor(c, request, change)
              \/ \E j \in DOMAIN c.receipts : d.receipts[i] = c.receipts[j]
         /\ \E i \in DOMAIN d.receipts : d.receipts[i] = ReceiptFor(c, request, change)
         /\ d.revision <= MaxReceipts =>
              \A j \in DOMAIN c.receipts :
                \E i \in DOMAIN d.receipts : d.receipts[i] = c.receipts[j]
<1> DEFINE x == ReceiptFor(c, request, change)
           s == Receipted(c, x)
           n == Len(c.receipts)
<1>1. CatalogOK(d)
  BY NextIsValid
<1>2. d.revision = c.revision + 1 /\ d.records = change.records /\ d.receipts = s
  BY DEF NextFor
<1>3. Sequential(c.receipts) /\ n <= MaxReceipts /\ c.revision \in Nat
  BY DEF CatalogOK, validateMemoryCatalog
<1>4. n \in Nat /\ DOMAIN c.receipts = 1..n
  BY <1>3 DEF Sequential
<1>5. /\ Len(s) = IF n < MaxReceipts THEN n + 1 ELSE MaxReceipts
      /\ DOMAIN s = 1..Len(s)
      /\ s[Len(s)] = x
      /\ \A i \in 1..(Len(s) - 1) :
           /\ i + (n + 1 - Len(s)) \in DOMAIN c.receipts
           /\ s[i] = c.receipts[i + (n + 1 - Len(s))]
  BY <1>3, ReceiptedKeepsNewest
<1> HIDE DEF x, s, n
<1>6. Len(s) \in Nat \ {0}
  BY <1>4, <1>5, MemoryAssumption
<1>7. \A i \in DOMAIN s : s[i] = x \/ \E j \in DOMAIN c.receipts : s[i] = c.receipts[j]
  <2> SUFFICES ASSUME NEW i \in DOMAIN s, i # Len(s)
               PROVE  \E j \in DOMAIN c.receipts : s[i] = c.receipts[j]
    BY <1>5
  <2>1. i \in 1..(Len(s) - 1)
    BY <1>5, <1>6
  <2> QED BY <2>1, <1>5
<1>8. \E i \in DOMAIN s : s[i] = x
  BY <1>5, <1>6
<1>9. ASSUME d.revision <= MaxReceipts, NEW j \in DOMAIN c.receipts
      PROVE  \E i \in DOMAIN s : s[i] = c.receipts[j]
  <2>1. c.revision <= MaxReceipts => n = c.revision
    BY DEF CatalogOK, n
  <2>2. n < MaxReceipts
    BY <2>1, <1>2, <1>3, <1>9, MemoryAssumption
  <2>3. Len(s) = n + 1 /\ j \in 1..(Len(s) - 1) /\ j + (n + 1 - Len(s)) = j
    BY <2>2, <1>4, <1>5
  <2> QED BY <2>3, <1>5
<1>10. Grown(c.records, d.records, request)
  BY <1>2 DEF GoodChange
<1> QED BY <1>1, <1>2, <1>7, <1>8, <1>9, <1>10 DEF x

\* What was told stays true.
LEMMA ToldStays ==
  ASSUME NEW c, NEW d, NEW request, Grown(c.records, d.records, request),
         NEW x, Told(c, x)
  PROVE  Told(d, x)
BY DEF Told, Settled, Grown

\* The record of an answered deletion is empty.
LEMMA DeletedIsEmpty ==
  ASSUME NEW c, CatalogOK(c), NEW x, Told(c, x), x.request \in Request,
         x.request.operation = "delete"
  PROVE  c.records[x.id].bytes = 0
<1>1. x.id \in DOMAIN c.records /\ c.records[x.id].state = "deleted"
  BY DEF Told, Settled
<1>2. ValidateMemoryRecordV1(c.records[x.id])
  BY <1>1 DEF CatalogOK, validateMemoryCatalog
<1> QED BY <1>1, <1>2 DEF ValidateMemoryRecordV1

\* An answer agrees with the next catalog, because its request cannot be
\* applied again.
LEMMA ReplyStays ==
  ASSUME NEW c, CatalogOK(c), NEW request, Acceptable(request), NEW d,
         Follows(c, d, request), NEW x, ReplyOK(c, x)
  PROVE  ReplyOK(d, x)
<1>1. PICK change :
        /\ findMemoryReceipt(c, request.mutation) = {}
        /\ GoodChange(c, request, change)
        /\ d = NextFor(c, request, change)
  BY DEF Follows
<1>2. /\ CatalogOK(d)
      /\ d.revision = c.revision + 1
      /\ Grown(c.records, d.records, request)
      /\ \A i \in DOMAIN d.receipts :
           \/ d.receipts[i] = ReceiptFor(c, request, change)
           \/ \E j \in DOMAIN c.receipts : d.receipts[i] = c.receipts[j]
      /\ d.revision <= MaxReceipts =>
           \A j \in DOMAIN c.receipts :
             \E i \in DOMAIN d.receipts : d.receipts[i] = c.receipts[j]
  BY <1>1, FollowingReceipts
<1>3. Told(d, x)
  BY <1>2, ToldStays DEF ReplyOK
<1>4. ASSUME NEW i \in DOMAIN d.receipts, d.receipts[i].request = x.request
      PROVE  x = ReplyOf(d.receipts[i])
  <2>1. d.receipts[i] # ReceiptFor(c, request, change)
    <3> SUFFICES ASSUME d.receipts[i] = ReceiptFor(c, request, change) PROVE FALSE
      OBVIOUS
    <3>1. x.request = request
      BY <1>4 DEF ReceiptFor
    <3>2. Settled(c.records, request) /\ request \in Request
      BY <3>1 DEF ReplyOK, Told
    <3> QED BY <1>1, <3>2 DEF GoodChange
  <2> QED BY <1>2, <1>4, <2>1 DEF ReplyOK
<1>5. d.revision <= MaxReceipts => \E i \in DOMAIN d.receipts : x = ReplyOf(d.receipts[i])
  <2>1. d.revision <= MaxReceipts => c.revision <= MaxReceipts
    BY <1>2, MemoryAssumption DEF CatalogOK
  <2> QED BY <1>2, <2>1 DEF ReplyOK
<1> QED BY <1>3, <1>4, <1>5 DEF ReplyOK

\* The answer made of a receipt agrees with the catalog that holds it.
LEMMA ReplyOfReceipt ==
  ASSUME NEW c, CatalogOK(c), NEW i \in DOMAIN c.receipts,
         c.receipts[i].request \in Request
  PROVE  ReplyOK(c, ReplyOf(c.receipts[i]))
<1> DEFINE x == ReplyOf(c.receipts[i])
<1>1. /\ Told(c, c.receipts[i])
      /\ \A j \in DOMAIN c.receipts : Told(c, c.receipts[j])
      /\ \A j \in DOMAIN c.receipts :
           c.receipts[j].mutation = c.receipts[i].mutation => i = j
  BY Zenon DEF CatalogOK, validateMemoryCatalog
<1>2. /\ x.request = c.receipts[i].request /\ x.mutation = c.receipts[i].mutation
      /\ x.id = c.receipts[i].id
  BY DEF ReplyOf
<1>3. Told(c, x)
  BY <1>1, <1>2 DEF Told
<1>4. ASSUME NEW j \in DOMAIN c.receipts, c.receipts[j].request = x.request
      PROVE  x = ReplyOf(c.receipts[j])
  BY <1>1, <1>2, <1>4 DEF Told
<1> QED BY <1>2, <1>3, <1>4 DEF ReplyOK
-----------------------------------------------------------------------------
(* The invariant of the ledger.                                            *)

\* What writeMemoryCatalog makes of an outcome.
Stays(request) ==
  /\ catalog' = catalog
  /\ \/ temps' = {}
     \/ \E d : Follows(catalog, d, request) /\ temps' = {d}

Changes(request) == Follows(catalog, catalog', request) /\ temps' = {}

\* A write keeps the catalog or replaces it, and what is answered is in it.
LEMMA WriteOutcomes ==
  ASSUME CatalogOK(catalog), clock \in Nat, NEW request, Acceptable(request),
         NEW o, o = mutateMemory(catalog, request, clock), writeMemoryCatalog(o)
  PROVE  /\ Stays(request) \/ Changes(request)
         /\ Answered(o) =>
              /\ temps' = {}
              /\ \E i \in DOMAIN catalog'.receipts :
                   /\ catalog'.receipts[i].request = request
                   /\ o.reply = ReplyOf(catalog'.receipts[i])
<1>1. IsRefused(catalog, o) \/ IsReplayed(catalog, request, o)
        \/ IsChanged(catalog, request, o)
  BY MutateOutcomes
<1>2. CASE IsRefused(catalog, o)
  BY <1>2 DEF IsRefused, Answered, writeMemoryCatalog, Stays
<1>3. CASE IsReplayed(catalog, request, o)
  <2>1. o.catalog = catalog /\ \E i \in DOMAIN catalog.receipts :
          /\ catalog.receipts[i].request = request
          /\ o.reply = ReplyOf(catalog.receipts[i])
    BY <1>3 DEF IsReplayed
  <2> QED BY <2>1 DEF writeMemoryCatalog, Stays
<1>4. CASE IsChanged(catalog, request, o)
  <2>1. PICK change :
          /\ findMemoryReceipt(catalog, request.mutation) = {}
          /\ GoodChange(catalog, request, change)
          /\ o.catalog = NextFor(catalog, request, change)
          /\ o.reply = ReplyOf(ReceiptFor(catalog, request, change))
    BY <1>4 DEF IsChanged
  <2>2. PICK i \in DOMAIN o.catalog.receipts :
          o.catalog.receipts[i] = ReceiptFor(catalog, request, change)
    BY <2>1, FollowingReceipts
  <2>3. o.catalog.receipts[i].request = request
    BY <2>2 DEF ReceiptFor
  <2>4. Follows(catalog, o.catalog, request)
    BY <2>1 DEF Follows
  <2>5. CASE catalog' = o.catalog /\ temps' = {}
    BY <2>1, <2>2, <2>3, <2>4, <2>5 DEF Changes
  <2>6. CASE o.catalog # catalog /\ catalog' = catalog /\ temps' \in {{}, {o.catalog}}
    BY <2>4, <2>6 DEF Stays, Answered
  <2> QED BY <2>5, <2>6 DEF writeMemoryCatalog
<1> QED BY <1>1, <1>2, <1>3, <1>4

\* Any two answers that agree with one catalog agree with each other.
LEMMA RepliesAgree ==
  ASSUME NEW c, CatalogOK(c), NEW x, NEW y, ReplyOK(c, x), ReplyOK(c, y),
         x.mutation = y.mutation,
         c.revision <= MaxReceipts
  PROVE  x = y
<1>1. PICK i \in DOMAIN c.receipts : x = ReplyOf(c.receipts[i])
  BY DEF ReplyOK
<1>2. PICK j \in DOMAIN c.receipts : y = ReplyOf(c.receipts[j])
  BY DEF ReplyOK
<1>3. c.receipts[i].mutation = c.receipts[j].mutation
  BY <1>1, <1>2 DEF ReplyOf
<1>4. i = j
  BY <1>3, Zenon DEF CatalogOK, validateMemoryCatalog
<1> QED BY <1>1, <1>2, <1>4

\* A mutation keeps the invariant, whether it is a user's or the engine's.
LEMMA MutationKeepsMemory ==
  ASSUME MemoryInv, NEW request, Acceptable(request),
         NEW o, o = mutateMemory(catalog, request, clock), writeMemoryCatalog(o),
         UNCHANGED <<clock, listing>>,
         \/ replies' = replies
         \/ Answered(o) /\ request \in Request /\ replies' = replies \union {o.reply}
  PROVE  MemoryInv'
<1> USE DEF MemoryInv
<1>1. /\ Stays(request) \/ Changes(request)
      /\ Answered(o) =>
           /\ temps' = {}
           /\ \E i \in DOMAIN catalog'.receipts :
                /\ catalog'.receipts[i].request = request
                /\ o.reply = ReplyOf(catalog'.receipts[i])
  BY WriteOutcomes
<1>2. CatalogOK(catalog') /\ \A x \in replies : ReplyOK(catalog', x)
  <2>1. CASE Stays(request)
    BY <2>1 DEF Stays, RepliesOK
  <2>2. CASE Changes(request)
    <3>1. CatalogOK(catalog')
      BY <2>2, FollowingReceipts DEF Changes, Follows
    <3> QED BY <2>2, <3>1, ReplyStays DEF Changes, RepliesOK
  <2> QED BY <1>1, <2>1, <2>2
<1>3. ASSUME Answered(o), request \in Request
      PROVE  /\ ReplyOK(catalog', o.reply)
             /\ \E i \in DOMAIN catalog'.receipts : o.reply = ReplyOf(catalog'.receipts[i])
  BY <1>1, <1>2, <1>3, ReplyOfReceipt
<1>4. RepliesOK'
  BY <1>2, <1>3 DEF RepliesOK
<1>5. AnswersAgree'
  <2> SUFFICES ASSUME NEW x \in replies', NEW y \in replies', x.mutation = y.mutation,
                      x.request = y.request \/ catalog'.revision <= MaxReceipts
               PROVE  x = y
    BY DEF AnswersAgree
  <2>1. ReplyOK(catalog', x) /\ ReplyOK(catalog', y)
    BY <1>4 DEF RepliesOK
  <2>2. CASE catalog'.revision <= MaxReceipts
    BY <1>2, <2>1, <2>2, RepliesAgree
  <2>3. CASE x.request = y.request
    <3>1. CASE x \in replies /\ y \in replies
      BY <2>3, <3>1 DEF AnswersAgree
    <3>2. CASE Answered(o) /\ request \in Request /\ (x = o.reply \/ y = o.reply)
      <4>1. PICK i \in DOMAIN catalog'.receipts : o.reply = ReplyOf(catalog'.receipts[i])
        BY <1>3, <3>2
      <4>2. catalog'.receipts[i].request = x.request
        BY <2>3, <3>2, <4>1 DEF ReplyOf
      <4> QED BY <2>1, <2>3, <4>2 DEF ReplyOK
    <3> QED BY <3>1, <3>2
  <2> QED BY <2>2, <2>3
<1>6. ErasedEverywhere'
  <2> SUFFICES ASSUME NEW x \in replies', x.request.operation = "delete",
                      NEW c \in temps' \union {catalog'}, x.id \in DOMAIN c.records
               PROVE  c.records[x.id].bytes = 0
    BY DEF ErasedEverywhere
  <2>1. CASE c = catalog'
    BY <1>2, <1>4, <2>1, DeletedIsEmpty DEF RepliesOK, ReplyOK
  <2>2. CASE c \in temps'
    <3>1. Stays(request) /\ Follows(catalog, c, request) /\ x \in replies
      BY <1>1, <2>2 DEF Stays, Changes
    <3>2. CatalogOK(c)
      BY <3>1, FollowingReceipts DEF Follows
    <3>3. ReplyOK(c, x)
      BY <3>1, ReplyStays DEF RepliesOK
    <3> QED BY <3>2, <3>3, DeletedIsEmpty DEF ReplyOK
  <2> QED BY <2>1, <2>2
<1>7. ListingOK' /\ ListsWhole'
  <2>1. CASE Stays(request)
    BY <2>1 DEF Stays, ListingOK, ListsWhole, Matching
  <2>2. CASE Changes(request)
    <3>1. catalog'.revision = catalog.revision + 1
      BY <2>2, FollowingReceipts DEF Changes, Follows
    <3>2. catalog.revision \in Nat /\ listing.revision \in Nat
      BY DEF CatalogOK, ListingOK
    <3>3. listing.revision # catalog'.revision /\ listing.revision <= catalog'.revision
      BY <3>1, <3>2 DEF ListingOK
    <3> QED BY <3>3 DEF ListingOK, ListsWhole
  <2> QED BY <1>1, <2>1, <2>2
<1> QED BY <1>2, <1>4, <1>5, <1>6, <1>7

\* A page keeps the invariant: it shows the next record in the order of the
\* identities, of the revision the first page was made at.
LEMMA PageKeepsMemory ==
  ASSUME MemoryInv, NEW filter \in Filter, ListMemory(filter)
  PROVE  MemoryInv'
<1> USE DEF MemoryInv
<1> DEFINE cursor == IF listing.done THEN NotListing(filter) ELSE listing
           matches == {r \in Matching(catalog, cursor.filter) : r > cursor.last}
           page == IF matches = {} THEN {} ELSE {Min(matches)}
           all == Matching(catalog, filter)
<1>1. /\ temps' = {} /\ UNCHANGED <<catalog, clock, replies>>
      /\ listing' = IF ~CursorHolds(cursor) THEN NotListing(filter)
                    ELSE [filter |-> filter, revision |-> catalog.revision,
                          last |-> IF page = {} THEN 0 ELSE Max(page),
                          seen |-> cursor.seen \union page,
                          done |-> matches = page]
  BY DEF ListMemory
<1>2. CatalogOK(catalog)' /\ RepliesOK' /\ AnswersAgree' /\ ErasedEverywhere'
  BY <1>1 DEF RepliesOK, AnswersAgree, ErasedEverywhere
<1>3. /\ cursor.last \in Nat /\ cursor.seen \subseteq Nat /\ cursor.filter = filter
      /\ cursor.last = 0 => cursor.seen = {}
      /\ cursor.last # 0 /\ cursor.revision = catalog.revision =>
           cursor.seen = {r \in all : r <= cursor.last}
  BY DEF ListingOK, NotListing, ListMemory
<1>4. all \subseteq Nat \ {0} /\ catalog.revision \in Nat
  BY DEF Matching, CatalogOK, RecordsOK
<1>5. ListingOK' /\ ListsWhole'
  <2>1. CASE ~CursorHolds(cursor)
    <3>1. listing' = NotListing(filter)
      BY <1>1, <2>1
    <3>2. /\ listing'.filter = filter /\ listing'.revision = 0 /\ listing'.last = 0
          /\ listing'.seen = {}
      BY <3>1 DEF NotListing
    <3>3. listing' \in [filter : Filter, revision : Nat, last : Nat,
                        seen : SUBSET Nat, done : BOOLEAN]
      BY <3>1 DEF NotListing
    <3>4. ~listing'.done
      BY <3>1 DEF NotListing
    <3>5. listing'.revision <= catalog'.revision
      BY <1>1, <1>4, <3>2
    <3> QED BY <3>2, <3>3, <3>4, <3>5, Zenon DEF ListingOK, ListsWhole
  <2>2. CASE CursorHolds(cursor)
    <3>1. cursor.seen = {r \in all : r <= cursor.last}
      BY <1>3, <1>4, <2>2 DEF CursorHolds
    <3>2. matches = {r \in all : r > cursor.last}
      BY <1>3
    <3>3. listing' = [filter |-> filter, revision |-> catalog.revision,
                      last |-> IF page = {} THEN 0 ELSE Max(page),
                      seen |-> cursor.seen \union page,
                      done |-> matches = page]
      BY <1>1, <2>2
    <3>6. /\ matches = {} => cursor.seen = all
          /\ \A m \in matches : (\A r \in matches : m <= r) =>
               \A r : r \in cursor.seen \union {m} <=> r \in all /\ r <= m
          /\ \A m : matches = {m} => cursor.seen \union {m} = all
      <4> HIDE DEF cursor, all, matches
      <4>1. all \in SUBSET Nat /\ cursor.last \in Nat
        BY <1>3, <1>4
      <4>2. \A r : r \in cursor.seen <=> r \in all /\ r <= cursor.last
        BY <3>1
      <4>3. \A r : r \in matches <=> r \in all /\ r > cursor.last
        BY <3>2
      <4>4. \A r \in all : r <= cursor.last \/ r > cursor.last
        BY <4>1
      <4>5. \A r : r \in all <=> r \in cursor.seen \/ r \in matches
        BY <4>2, <4>3, <4>4, Zenon
      <4>6. matches = {} => cursor.seen = all
        BY <4>5
      <4>7. \A m : matches = {m} => cursor.seen \union {m} = all
        BY <4>5
      <4>8. ASSUME NEW m \in matches, \A r \in matches : m <= r
            PROVE  \A r : r \in cursor.seen \union {m} <=> r \in all /\ r <= m
        <5>1. m \in all /\ m > cursor.last
          BY <4>3, <4>8
        <5>2. ASSUME NEW r, r \in cursor.seen \union {m} PROVE r \in all /\ r <= m
          <6>1. CASE r = m
            BY <5>1, <6>1, <4>1
          <6>2. CASE r \in cursor.seen
            <7>1. r \in all /\ r <= cursor.last
              BY <6>2, <4>2
            <7>2. r \in Nat /\ m \in Nat
              BY <7>1, <5>1, <4>1
            <7> QED BY <7>1, <7>2, <5>1, <4>1
          <6> QED BY <5>2, <6>1, <6>2
        <5>3. ASSUME NEW r \in all, r <= m PROVE r \in cursor.seen \union {m}
          <6>1. CASE r \in matches
            <7>1. m <= r /\ r \in Nat /\ m \in Nat
              BY <6>1, <4>8, <5>1, <4>1
            <7> QED BY <7>1, <5>3
          <6>2. CASE r \notin matches
            BY <6>2, <4>5, <5>3
          <6> QED BY <6>1, <6>2
        <5> QED BY <5>2, <5>3
      <4> QED BY <4>6, <4>7, <4>8
    <3> HIDE DEF cursor, all
    <3>4. CASE matches = {}
      <4>1. listing' = [filter |-> filter, revision |-> catalog.revision, last |-> 0,
                        seen |-> cursor.seen, done |-> TRUE]
        BY <3>3, <3>4
      <4>2. cursor.seen = all
        BY <3>4, <3>6
      <4>3. /\ listing'.filter = filter /\ listing'.revision = catalog'.revision
            /\ listing'.seen = all
        BY <1>1, <4>1, <4>2
      <4>4. listing' \in [filter : Filter, revision : Nat, last : Nat,
                          seen : SUBSET Nat, done : BOOLEAN]
        BY <1>4, <4>1, <4>2
      <4>5. listing'.done
        BY <4>1
      <4>6. all = Matching(catalog', listing'.filter)
        BY <1>1, <4>3 DEF all
      <4>7. listing'.revision <= catalog'.revision
        BY <1>1, <1>4, <4>3
      <4> QED BY <4>3, <4>4, <4>5, <4>6, <4>7, Zenon DEF ListingOK, ListsWhole
    <3>5. CASE matches # {}
      <4> DEFINE m == Min(matches)
      <4>1. m \in matches /\ \A r \in matches : m <= r
        BY <1>4, <3>2, <3>5, LeastElement
      <4>2. page = {m}
        BY <3>5
      <4> HIDE DEF m, matches, page
      <4>3. m \in Nat \ {0} /\ Max({m}) = m
        BY <1>4, <3>2, <4>1, LargestOfOne
      <4>4. listing' = [filter |-> filter, revision |-> catalog.revision, last |-> m,
                        seen |-> cursor.seen \union {m}, done |-> matches = {m}]
        BY <3>3, <4>2, <4>3
      <4>5. cursor.seen \union {m} = {r \in all : r <= m}
        BY <3>6, <4>1
      <4>6. matches = {m} => cursor.seen \union {m} = all
        BY <3>6
      <4>7. listing' \in [filter : Filter, revision : Nat, last : Nat,
                          seen : SUBSET Nat, done : BOOLEAN]
        BY <1>3, <1>4, <4>3, <4>4
      <4>8. /\ listing'.revision = catalog'.revision /\ listing'.filter = filter
            /\ listing'.last = m /\ listing'.seen = cursor.seen \union {m}
            /\ listing'.done = (matches = {m})
        BY <1>1, <4>4
      <4>9. all = Matching(catalog', listing'.filter)
        BY <1>1, <4>8 DEF all
      <4>10. ListingOK'
        BY <1>1, <1>4, <4>3, <4>5, <4>7, <4>8, <4>9 DEF ListingOK
      <4> QED BY <4>6, <4>8, <4>9, <4>10 DEF ListsWhole
    <3> QED BY <3>4, <3>5
  <2> QED BY <2>1, <2>2
<1> QED BY <1>1, <1>2, <1>5

\* Time, and a read of the catalog, keep the invariant.
LEMMA ReadKeepsMemory ==
  ASSUME MemoryInv, UNCHANGED <<catalog, replies, listing>>, clock' \in Nat,
         temps' \in {temps, {}}
  PROVE  MemoryInv'
<1>1. CatalogOK(catalog)' /\ RepliesOK' /\ AnswersAgree'
  BY DEF MemoryInv, RepliesOK, AnswersAgree
<1>2. ErasedEverywhere'
  BY DEF MemoryInv, ErasedEverywhere
<1>3. ListingOK' /\ ListsWhole'
  BY DEF MemoryInv, ListingOK, ListsWhole, Matching
<1> QED BY <1>1, <1>2, <1>3 DEF MemoryInv
-----------------------------------------------------------------------------
(* The uses and who paid for them.                                         *)

\* A use more in the ledger.
PaysFor(a, ids) == ledger' = Append(ledger, [attempt |-> a, ids |-> ids])

\* The ledger with one more use.
LEMMA LedgerGrows ==
  ASSUME Sequential(ledger), NEW a, NEW ids, PaysFor(a, ids)
  PROVE  /\ Sequential(ledger')
         /\ DOMAIN ledger \subseteq DOMAIN ledger'
         /\ \A i \in DOMAIN ledger : ledger'[i] = ledger[i]
         /\ \A i \in DOMAIN ledger' : i \in DOMAIN ledger \/ ledger'[i] = [attempt |-> a, ids |-> ids]
         /\ \E i \in DOMAIN ledger' : ledger'[i] = [attempt |-> a, ids |-> ids]
<1> DEFINE e == [attempt |-> a, ids |-> ids]
           S == {ledger[i] : i \in DOMAIN ledger} \cup {e}
           n == Len(ledger)
<1>1. ledger \in Seq(S) /\ n \in Nat /\ DOMAIN ledger = 1..n
  BY DEF Sequential
<1> HIDE DEF e, S, n
<1>2. ledger' = Append(ledger, e) /\ e \in S
  BY DEF PaysFor, e, S
<1>3. /\ ledger' \in Seq(S) /\ DOMAIN ledger' = 1..(n + 1)
      /\ ledger'[n + 1] = e /\ \A i \in 1..n : ledger'[i] = ledger[i]
  BY <1>1, <1>2 DEF n
<1>4. Sequential(ledger')
  BY <1>3, SeqOfElements
<1> QED BY <1>1, <1>3, <1>4 DEF e

\* What is paid stays paid.
LEMMA PaidStays ==
  ASSUME DOMAIN ledger \subseteq DOMAIN ledger',
         \A i \in DOMAIN ledger : ledger'[i] = ledger[i],
         NEW a, NEW ids, Paid(a, ids)
  PROVE  Paid(a, ids)'
BY DEF Paid

\* A change of the catalog counts a use for every record that is paid for:
\* one more for those of a reservation, none for the others.
LEMMA ChangeKeepsPayments ==
  ASSUME CatalogOK(catalog), PaymentsOK, NEW request, Acceptable(request),
         Follows(catalog, catalog', request),
         \/ request \in Request /\ UNCHANGED ledger
         \/ /\ request.operation = "consume"
            /\ PaysFor(request.mutation[1], request.ids)
  PROVE  PaymentsOK'
<1> DEFINE a == request.mutation[1]
           paying == request.operation = "consume"
<1>1. PICK change :
        /\ findMemoryReceipt(catalog, request.mutation) = {}
        /\ GoodChange(catalog, request, change)
        /\ catalog' = NextFor(catalog, request, change)
  BY DEF Follows
<1>2. /\ CatalogOK(catalog')
      /\ Grown(catalog.records, catalog'.records, request)
      /\ \A i \in DOMAIN catalog'.receipts :
           \/ catalog'.receipts[i] = ReceiptFor(catalog, request, change)
           \/ \E j \in DOMAIN catalog.receipts : catalog'.receipts[i] = catalog.receipts[j]
  BY <1>1, FollowingReceipts
<1>3. \/ ~paying /\ UNCHANGED ledger
      \/ paying /\ PaysFor(a, request.ids)
  BY MemoryAssumption DEF CreateRequest, SupersedeRequest, DeleteRequest
<1>4. paying => request.ids \subseteq DOMAIN catalog.records
  BY <1>1 DEF GoodChange
<1>5. /\ Sequential(ledger')
      /\ DOMAIN ledger \subseteq DOMAIN ledger'
      /\ \A i \in DOMAIN ledger : ledger'[i] = ledger[i]
      /\ \A i \in DOMAIN ledger' :
           \/ i \in DOMAIN ledger
           \/ paying /\ ledger'[i] = [attempt |-> a, ids |-> request.ids]
      /\ paying => \E i \in DOMAIN ledger' : ledger'[i] = [attempt |-> a, ids |-> request.ids]
  BY <1>3, LedgerGrows DEF PaymentsOK
<1>6. \A i \in DOMAIN ledger' : ledger'[i].ids \subseteq DOMAIN catalog'.records
  <2> SUFFICES ASSUME NEW i \in DOMAIN ledger'
               PROVE  ledger'[i].ids \subseteq DOMAIN catalog.records
    BY <1>2 DEF Grown
  <2>1. CASE i \in DOMAIN ledger
    BY <2>1, <1>5 DEF PaymentsOK
  <2>2. CASE paying /\ ledger'[i] = [attempt |-> a, ids |-> request.ids]
    BY <2>2, <1>4
  <2> QED BY <1>5, <2>1, <2>2
<1>7. ASSUME NEW i \in DOMAIN catalog'.receipts,
             catalog'.receipts[i].request.operation = "consume"
      PROVE  Paid(catalog.receipts[i].request.mutation[1],
                  catalog.receipts[i].request.ids)'
  <2>1. CASE catalog'.receipts[i] = ReceiptFor(catalog, request, change)
    <3>1. catalog'.receipts[i].request = request
      BY <2>1 DEF ReceiptFor
    <3>2. PICK k \in DOMAIN ledger' : ledger'[k] = [attempt |-> a, ids |-> request.ids]
      BY <1>5, <1>7, <3>1
    <3>3. ledger'[k].attempt = a /\ ledger'[k].ids = request.ids
      BY <3>2
    <3> QED BY <3>1, <3>3 DEF Paid
  <2>2. CASE \E j \in DOMAIN catalog.receipts : catalog'.receipts[i] = catalog.receipts[j]
    <3>1. PICK j \in DOMAIN catalog.receipts : catalog'.receipts[i] = catalog.receipts[j]
      BY <2>2
    <3>2. Paid(catalog.receipts[j].request.mutation[1], catalog.receipts[j].request.ids)
      BY <1>7, <3>1 DEF PaymentsOK
    <3> QED BY <3>1, <3>2, <1>5 DEF Paid
  <2> QED BY <1>2, <2>1, <2>2
<1>8. ASSUME NEW r \in DOMAIN catalog'.records
      PROVE  IsFiniteSet(Payers(r)') /\ Cardinality(Payers(r)') <= catalog'.records[r].uses
  <2>1. catalog'.records[r].uses \in Nat
    BY <1>2, <1>8 DEF CatalogOK, RecordsOK, MemoryRecord
  <2>2. CASE r \notin DOMAIN catalog.records
    <3>1. \A i \in DOMAIN ledger' : r \notin ledger'[i].ids
      BY <1>4, <1>5, <2>2 DEF PaymentsOK
    <3>2. Payers(r)' = {}
      BY <3>1 DEF Payers
    <3> QED BY <2>1, <3>2, FS_EmptySet
  <2>3. CASE r \in DOMAIN catalog.records /\ ~(paying /\ r \in request.ids)
    <3>1. \A i \in DOMAIN ledger' : r \in ledger'[i].ids => i \in DOMAIN ledger
      BY <1>5, <2>3
    <3>2. {j \in DOMAIN ledger' : r \in ledger'[j].ids}
            = {j \in DOMAIN ledger : r \in ledger[j].ids}
      BY <3>1, <1>5
    <3>3. Payers(r)' = Payers(r)
      BY <3>2, <1>5 DEF Payers
    <3>4. catalog'.records[r].uses = catalog.records[r].uses
      BY <1>2, <2>3 DEF Grown
    <3> QED BY <2>3, <3>3, <3>4 DEF PaymentsOK
  <2>4. CASE r \in DOMAIN catalog.records /\ paying /\ r \in request.ids
    <3>1. Payers(r)' \in SUBSET (Payers(r) \union {a})
      BY <1>5 DEF Payers
    <3>2. /\ IsFiniteSet(Payers(r)) /\ Cardinality(Payers(r)) <= catalog.records[r].uses
      BY <2>4 DEF PaymentsOK
    <3>3. /\ IsFiniteSet(Payers(r) \union {a})
          /\ Cardinality(Payers(r) \union {a}) <= Cardinality(Payers(r)) + 1
      <4>1. Cardinality(Payers(r)) \in Nat
        BY <3>2, FS_CardinalityType
      <4>2. /\ IsFiniteSet(Payers(r) \union {a})
            /\ Cardinality(Payers(r) \union {a}) =
                 IF a \in Payers(r) THEN Cardinality(Payers(r))
                 ELSE Cardinality(Payers(r)) + 1
        BY <3>2, FS_AddElement
      <4> QED BY <4>1, <4>2
    <3>4. /\ IsFiniteSet(Payers(r)')
          /\ Cardinality(Payers(r)') <= Cardinality(Payers(r) \union {a})
      BY <3>1, <3>3, FS_Subset
    <3>5. catalog'.records[r].uses = catalog.records[r].uses + 1
      BY <1>2, <2>4 DEF Grown
    <3>6. catalog.records[r].uses \in Nat
      BY <2>4 DEF CatalogOK, RecordsOK, MemoryRecord
    <3>7. /\ Cardinality(Payers(r)) \in Nat /\ Cardinality(Payers(r)') \in Nat
          /\ Cardinality(Payers(r) \union {a}) \in Nat
      BY <3>2, <3>3, <3>4, FS_CardinalityType
    <3> QED BY <3>2, <3>3, <3>4, <3>5, <3>6, <3>7
  <2> QED BY <2>2, <2>3, <2>4
<1> QED BY <1>5, <1>6, <1>7, <1>8 DEF PaymentsOK
-----------------------------------------------------------------------------
(* The preparation of contexts.                                            *)

\* Paid, after the step.
PaidThen(a, ids) ==
  \E i \in DOMAIN ledger' : ledger'[i].attempt = a /\ ledger'[i].ids = ids

\* A step of one Attempt's preparation keeps what holds of the contexts.
LEMMA PreparationKeepsContexts ==
  ASSUME ContextsOK, NEW a \in Attempt, NEW p, prep' = [prep EXCEPT ![a] = p],
         DOMAIN p = {"step", "read", "in", "out"},
         p.step \in {"idle", "compiled", "reserved"},
         p.step = "reserved" => PaidThen(a, p.in),
         \/ UNCHANGED written
         \/ /\ written' = [written EXCEPT ![a] = {prep[a].in}]
            /\ prep[a].in # {} => PaidThen(a, prep[a].in),
         \A b \in Attempt : \A ids : Paid(b, ids) => PaidThen(b, ids)
  PROVE  ContextsOK'
<1>1. /\ DOMAIN prep' = Attempt /\ prep' \in [Attempt -> {prep'[b] : b \in Attempt}]
      /\ prep'[a] = p /\ \A b \in Attempt \ {a} : prep'[b] = prep[b]
  BY DEF ContextsOK
<1>2. /\ DOMAIN written' = Attempt /\ written' \in [Attempt -> {written'[b] : b \in Attempt}]
      /\ \A b \in Attempt : \/ written'[b] = written[b]
                           \/ /\ b = a /\ written'[a] = {prep[a].in}
                              /\ prep[a].in # {} => PaidThen(a, prep[a].in)
  <2>1. CASE UNCHANGED written
    BY <2>1 DEF ContextsOK
  <2>2. CASE /\ written' = [written EXCEPT ![a] = {prep[a].in}]
             /\ prep[a].in # {} => PaidThen(a, prep[a].in)
    BY <2>2 DEF ContextsOK
  <2> QED BY <2>1, <2>2
<1>3. ASSUME NEW b \in Attempt, NEW in \in written'[b], in # {} PROVE PaidThen(b, in)
  BY <1>2, <1>3 DEF ContextsOK
<1>4. ASSUME NEW b \in Attempt
      PROVE  /\ DOMAIN prep'[b] = {"step", "read", "in", "out"}
             /\ prep'[b].step \in {"idle", "compiled", "reserved"}
             /\ prep'[b].step = "reserved" => PaidThen(b, prep'[b].in)
  BY <1>1, <1>4 DEF ContextsOK
<1> QED BY <1>1, <1>2, <1>3, <1>4 DEF ContextsOK, Paid, PaidThen

\* The first steps of a preparation leave ledger and Attempts as they are.
LEMMA QuietPreparation ==
  ASSUME ContextsOK, NEW a \in Attempt, UNCHANGED <<ledger, written>>,
         ReadMemory(a) \/ Compile(a) \/ Die(a)
  PROVE  ContextsOK'
<1>1. \A b \in Attempt : \A ids : Paid(b, ids) => PaidThen(b, ids)
  BY DEF Paid, PaidThen
<1>2. DOMAIN prep[a] = {"step", "read", "in", "out"} /\ a \in DOMAIN prep
  BY DEF ContextsOK
<1>3. CASE Failing(a)
  BY <1>1, <1>3, PreparationKeepsContexts DEF Failing, NotPrepared
<1>4. CASE ReadMemory(a) /\ ~Failing(a)
  <2> DEFINE id == Min(Unread(a))
             p == [prep[a] EXCEPT !.read = Extended(@, id, catalog.records[id])]
  <2>1. prep' = [prep EXCEPT ![a] = p] /\ prep[a].step = "idle"
    BY <1>4 DEF ReadMemory
  <2>2. DOMAIN p = {"step", "read", "in", "out"} /\ p.step = "idle"
    BY <1>2, <2>1
  <2> HIDE DEF p
  <2> QED BY <1>1, <2>1, <2>2, PreparationKeepsContexts
<1>5. CASE Compile(a)
  <2>1. PICK in, out : prep' = [prep EXCEPT ![a].step = "compiled", ![a].in = in, ![a].out = out]
    BY <1>5, Zenon DEF Compile
  <2> DEFINE p == [prep[a] EXCEPT !.step = "compiled", !.in = in, !.out = out]
  <2>2. prep' = [prep EXCEPT ![a] = p]
    BY <2>1, <1>2
  <2>3. DOMAIN p = {"step", "read", "in", "out"} /\ p.step = "compiled"
    BY <1>2
  <2> HIDE DEF p
  <2> QED BY <1>1, <2>2, <2>3, PreparationKeepsContexts
<1> QED BY <1>3, <1>4, <1>5 DEF Die

\* A reservation pays, or finds the receipt of the payment it made before
\* it failed.
LEMMA ReserveKeepsAll ==
  ASSUME ContextInv, NEW a \in Attempt, Reserve(a)
  PROVE  ContextInv'
<1> DEFINE request == UseOf(a)
           o == mutateMemory(catalog, request, clock)
<1>1. /\ MemoryInv /\ PaymentsOK /\ ContextsOK /\ CatalogOK(catalog) /\ clock \in Nat
  BY DEF ContextInv, MemoryInv
<1>2. /\ request.operation = "consume" /\ request.ids = prep[a].in
      /\ request.mutation[1] = a
  BY DEF UseOf
<1>3. /\ prep[a].step = "compiled" /\ prep[a].in # {}
      /\ writeMemoryCatalog(o)
      /\ Failing(a) \/ (Answered(o) /\ prep' = [prep EXCEPT ![a].step = "reserved"])
      /\ ledger' = IF catalog' # catalog
                   THEN Append(ledger, [attempt |-> a, ids |-> prep[a].in]) ELSE ledger
      /\ UNCHANGED <<clock, replies, listing, written>>
  BY DEF Reserve
<1>4. Acceptable(request)
  BY <1>2, <1>3 DEF Acceptable
<1> HIDE DEF request
<1>5. /\ Stays(request) \/ Changes(request)
      /\ Answered(o) =>
           \E i \in DOMAIN catalog'.receipts : catalog'.receipts[i].request = request
  BY <1>1, <1>3, <1>4, WriteOutcomes
<1>6. MemoryInv'
  BY <1>1, <1>3, <1>4, MutationKeepsMemory
<1> HIDE DEF o
<1>7. /\ PaymentsOK'
      /\ \A b \in Attempt : \A ids : Paid(b, ids) => PaidThen(b, ids)
  <2>1. CASE catalog' = catalog
    BY <1>1, <1>3, <2>1 DEF PaymentsOK, Paid, PaidThen, Payers
  <2>2. CASE catalog' # catalog
    <3>1. Follows(catalog, catalog', request) /\ PaysFor(a, request.ids)
      BY <1>2, <1>3, <1>5, <2>2 DEF Stays, Changes, PaysFor
    <3>2. PaymentsOK'
      BY <1>1, <1>2, <1>4, <3>1, ChangeKeepsPayments
    <3>3. DOMAIN ledger \subseteq DOMAIN ledger' /\ \A i \in DOMAIN ledger : ledger'[i] = ledger[i]
      BY <1>1, <3>1, LedgerGrows DEF PaymentsOK
    <3> QED BY <3>2, <3>3 DEF Paid, PaidThen
  <2> QED BY <2>1, <2>2
<1>8. ContextsOK'
  <2>1. CASE Failing(a)
    BY <1>1, <1>3, <1>7, <2>1, PreparationKeepsContexts DEF Failing, NotPrepared
  <2>2. CASE Answered(o) /\ prep' = [prep EXCEPT ![a].step = "reserved"]
    <3> DEFINE p == [prep[a] EXCEPT !.step = "reserved"]
    <3>1. DOMAIN prep[a] = {"step", "read", "in", "out"} /\ a \in DOMAIN prep
      BY <1>1 DEF ContextsOK
    <3>2. /\ prep' = [prep EXCEPT ![a] = p]
          /\ DOMAIN p = {"step", "read", "in", "out"} /\ p.step = "reserved"
          /\ p.in = prep[a].in
      BY <2>2, <3>1
    <3>3. PICK i \in DOMAIN catalog'.receipts : catalog'.receipts[i].request = request
      BY <1>5, <2>2
    <3>4. PaidThen(a, prep[a].in)
      BY <1>2, <1>7, <3>3 DEF PaymentsOK, Paid, PaidThen
    <3> HIDE DEF p
    <3> QED BY <1>1, <1>3, <1>7, <3>2, <3>4, PreparationKeepsContexts
  <2> QED BY <1>3, <2>1, <2>2
<1> QED BY <1>6, <1>7, <1>8 DEF ContextInv

\* A step keeps the invariant.
LEMMA ContextStep == ASSUME ContextInv, [Next]_vars PROVE ContextInv'
<1>0. /\ MemoryInv /\ PaymentsOK /\ ContextsOK /\ CatalogOK(catalog) /\ clock \in Nat
  BY DEF ContextInv, MemoryInv
<1>1. ASSUME UNCHANGED <<catalog, ledger>> PROVE PaymentsOK'
  BY <1>0, <1>1 DEF PaymentsOK, Paid, Payers
<1>2. ASSUME UNCHANGED <<prep, written, ledger>> PROVE ContextsOK'
  <2>1. prep' = prep /\ written' = written /\ ledger' = ledger
    BY <1>2
  <2>2. /\ (prep \in [Attempt -> {prep[a] : a \in Attempt}])'
        /\ (written \in [Attempt -> {written[a] : a \in Attempt}])'
    BY <1>0, <2>1 DEF ContextsOK
  <2>3. ASSUME NEW a \in Attempt
        PROVE  /\ DOMAIN prep'[a] = {"step", "read", "in", "out"}
               /\ prep'[a].step \in {"idle", "compiled", "reserved"}
               /\ prep'[a].step = "reserved" => Paid(a, prep[a].in)'
               /\ \A in \in written'[a] : in # {} => Paid(a, in)'
    <3>1. /\ DOMAIN prep[a] = {"step", "read", "in", "out"}
          /\ prep[a].step \in {"idle", "compiled", "reserved"}
          /\ prep[a].step = "reserved" => Paid(a, prep[a].in)
          /\ \A in \in written[a] : in # {} => Paid(a, in)
      BY <1>0 DEF ContextsOK
    <3>2. \A in : Paid(a, in)' <=> Paid(a, in)
      BY <2>1 DEF Paid
    <3>3. Paid(a, prep[a].in)' <=> Paid(a, prep[a].in)
      BY <2>1 DEF Paid
    <3> QED BY <2>1, <3>1, <3>2, <3>3
  <2> QED BY <2>2, <2>3, Zenon DEF ContextsOK
<1>3. CASE UNCHANGED vars
  <2>1. MemoryInv'
    BY <1>0, <1>3, ReadKeepsMemory DEF vars, memoryVars
  <2> QED BY <1>1, <1>2, <1>3, <2>1 DEF ContextInv, vars, memoryVars
<1>4. ASSUME NEW request \in Request, Mutate(request), UNCHANGED <<prep, written, ledger>>
      PROVE  ContextInv'
  <2>1. Acceptable(request)
    BY DEF Acceptable
  <2> DEFINE o == mutateMemory(catalog, request, clock)
  <2>2. /\ writeMemoryCatalog(o) /\ UNCHANGED <<clock, listing>>
        /\ \/ replies' = replies
           \/ Answered(o) /\ replies' = replies \union {o.reply}
    BY <1>4 DEF Mutate
  <2>3. MemoryInv'
    BY <1>0, <2>1, <2>2, MutationKeepsMemory
  <2>4. Stays(request) \/ Changes(request)
    BY <1>0, <2>1, <2>2, WriteOutcomes
  <2>5. PaymentsOK'
    <3>1. CASE Stays(request)
      BY <1>1, <1>4, <3>1 DEF Stays
    <3>2. CASE Changes(request)
      BY <1>0, <1>4, <2>1, <3>2, ChangeKeepsPayments DEF Changes
    <3> QED BY <2>4, <3>1, <3>2
  <2> QED BY <1>2, <1>4, <2>3, <2>5 DEF ContextInv
<1>5. ASSUME NEW filter \in Filter, ListMemory(filter), UNCHANGED <<prep, written, ledger>>
      PROVE  ContextInv'
  <2>1. MemoryInv'
    BY <1>0, <1>5, PageKeepsMemory
  <2>2. UNCHANGED catalog
    BY <1>5 DEF ListMemory
  <2> QED BY <1>1, <1>2, <1>5, <2>1, <2>2 DEF ContextInv
<1>6. ASSUME Tick, UNCHANGED <<prep, written, ledger>> PROVE ContextInv'
  <2>1. MemoryInv'
    BY <1>0, <1>6, ReadKeepsMemory DEF Tick
  <2> QED BY <1>1, <1>2, <1>6, <2>1 DEF ContextInv, Tick
<1>7. ASSUME NEW a \in Attempt, ReadMemory(a) \/ Compile(a) \/ Die(a) PROVE ContextInv'
  <2>1. /\ UNCHANGED <<catalog, clock, replies, listing, written, ledger>>
        /\ temps' \in {temps, {}}
    BY <1>7 DEF ReadMemory, Compile, Die, memoryVars
  <2>2. MemoryInv'
    BY <1>0, <2>1, ReadKeepsMemory
  <2>3. ContextsOK'
    BY <1>0, <1>7, <2>1, QuietPreparation
  <2> QED BY <1>1, <2>1, <2>2, <2>3 DEF ContextInv
<1>8. ASSUME NEW a \in Attempt, Reserve(a) PROVE ContextInv'
  BY <1>8, ReserveKeepsAll
<1>9. ASSUME NEW a \in Attempt, WriteAttempt(a) PROVE ContextInv'
  <2>1. UNCHANGED <<memoryVars, ledger>>
    BY <1>9 DEF WriteAttempt
  <2>2. MemoryInv'
    BY <1>0, <2>1, ReadKeepsMemory DEF memoryVars
  <2>3. \A b \in Attempt : \A ids : Paid(b, ids) => PaidThen(b, ids)
    BY <2>1 DEF Paid, PaidThen
  <2>4. prep[a].in # {} => PaidThen(a, prep[a].in)
    BY <1>0, <1>9, <2>3 DEF WriteAttempt, ContextsOK
  <2>5. ContextsOK'
    BY <1>0, <1>9, <2>3, <2>4, PreparationKeepsContexts
       DEF WriteAttempt, Failing, NotPrepared
  <2> QED BY <1>1, <2>1, <2>2, <2>5 DEF ContextInv, memoryVars
<1> QED BY <1>3, <1>4, <1>5, <1>6, <1>7, <1>8, <1>9 DEF Next

\* The invariant holds at the start: nothing has been written.
LEMMA ContextStart == ASSUME Init PROVE ContextInv
<1> USE DEF Init, MemoryInit, NoCatalog
<1>1. catalog.revision = 0 /\ catalog.records = <<>> /\ catalog.receipts = <<>>
  OBVIOUS
<1>2. DOMAIN catalog.records = {} /\ DOMAIN catalog.receipts = {} /\ Len(catalog.receipts) = 0
  BY <1>1
<1>3. RecordsOK(catalog.records)
  BY <1>1, <1>2, FS_EmptySet DEF RecordsOK
<1>4. Sequential(catalog.receipts) /\ Sequential(ledger)
  BY <1>1 DEF Sequential
<1>5. validateMemoryCatalog(catalog)
  BY <1>1, <1>2, FS_EmptySet, MemoryAssumption DEF validateMemoryCatalog
<1>6. CatalogOK(catalog)
  BY <1>1, <1>2, <1>3, <1>4, <1>5 DEF CatalogOK
<1>7. ListingOK /\ ListsWhole
  <2>1. PICK f \in Filter : listing = NotListing(f)
    OBVIOUS
  <2>2. /\ listing \in [filter : Filter, revision : Nat, last : Nat,
                        seen : SUBSET Nat, done : BOOLEAN]
        /\ listing.revision = 0 /\ listing.last = 0 /\ listing.seen = {}
    BY <2>1 DEF NotListing
  <2>3. ~listing.done
    BY <2>1 DEF NotListing
  <2>4. listing.revision <= catalog.revision
    BY <1>1, <2>2
  <2> QED BY <2>2, <2>3, <2>4, Zenon DEF ListingOK, ListsWhole
<1>8. MemoryInv
  BY <1>6, <1>7 DEF MemoryInv, RepliesOK, AnswersAgree, ErasedEverywhere
<1>9. PaymentsOK
  BY <1>2, <1>4 DEF PaymentsOK
<1>10. ContextsOK
  BY DEF ContextsOK, NotPrepared
<1> QED BY <1>8, <1>9, <1>10 DEF ContextInv

\* The inductive invariant of the ledger and of the preparation of contexts
\* holds in every reachable state.
THEOREM ContextInvariant == Spec => []ContextInv
<1>1. ContextInv /\ [Next]_vars => ContextInv'
  BY ContextStep
<1> QED BY ContextStart, <1>1, PTL DEF Spec

\* Whatever was dropped from the receipts, one request has one answer; and
\* before the limit of receipts one mutation identity has (mutateMemory).
THEOREM AnswersStayTheSame == Spec => []AnswersAgree
<1>1. ContextInv => AnswersAgree
  BY DEF ContextInv, MemoryInv
<1> QED BY ContextInvariant, <1>1, PTL

\* An answered deletion leaves no content, in the catalog or in a temporary
\* file (DeleteMemory, cleanupMemoryTemps).
THEOREM DeletionErases == Spec => []ErasedEverywhere
<1>1. ContextInv => ErasedEverywhere
  BY DEF ContextInv, MemoryInv
<1> QED BY ContextInvariant, <1>1, PTL

\* A listing that ends shows the records of its revision (ListMemory).
THEOREM ListingIsWhole == Spec => []ListsWhole
<1>1. ContextInv => ListsWhole
  BY DEF ContextInv, MemoryInv
<1> QED BY ContextInvariant, <1>1, PTL

\* No request of a user finds the catalog corrupt, nor would its change make
\* it so (mutateMemory, validateMemoryCatalog).
THEOREM CatalogStaysValid == Spec => []NeverCorrupt
<1>1. ContextInv => NeverCorrupt
  <2> SUFFICES ASSUME ContextInv PROVE NeverCorrupt
    OBVIOUS
  <2>1. CatalogOK(catalog) /\ clock \in Nat
    BY DEF ContextInv, MemoryInv
  <2>2. ASSUME NEW request \in Request
        PROVE  mutateMemory(catalog, request, clock).error # "corrupt"
    BY <2>1, MutateOutcomes DEF Acceptable
  <2> QED BY <2>1, <2>2 DEF NeverCorrupt, CatalogOK
<1> QED BY ContextInvariant, <1>1, PTL

\* Every context on disk is paid for, and no record is used more often than
\* its retention allows (ConsumeMemory, consumeCompiledMemory).
THEOREM EveryUseIsPaid == Spec => []UsesArePaid
<1>1. ContextInv => UsesArePaid
  <2> SUFFICES ASSUME ContextInv, NEW r \in DOMAIN catalog.records
               PROVE  /\ Cardinality(Contexts(r)) <= catalog.records[r].uses
                      /\ catalog.records[r].maxUses > 0 =>
                           catalog.records[r].uses <= catalog.records[r].maxUses
    BY DEF UsesArePaid
  <2>1. CatalogOK(catalog) /\ PaymentsOK /\ ContextsOK
    BY DEF ContextInv, MemoryInv
  <2>2. Contexts(r) \in SUBSET Payers(r)
    <3> SUFFICES ASSUME NEW a \in Attempt, NEW in \in written[a], r \in in
                 PROVE  a \in Payers(r)
      BY DEF Contexts
    <3>1. Paid(a, in)
      BY <2>1 DEF ContextsOK
    <3> QED BY <3>1 DEF Paid, Payers
  <2>3. IsFiniteSet(Payers(r)) /\ Cardinality(Payers(r)) <= catalog.records[r].uses
    BY <2>1 DEF PaymentsOK
  <2>4. IsFiniteSet(Contexts(r)) /\ Cardinality(Contexts(r)) <= Cardinality(Payers(r))
    BY <2>2, <2>3, FS_Subset
  <2>5. Cardinality(Contexts(r)) \in Nat /\ Cardinality(Payers(r)) \in Nat
    BY <2>3, <2>4, FS_CardinalityType
  <2>6. catalog.records[r].uses \in Nat /\ ValidateMemoryRecordV1(catalog.records[r])
    BY <2>1 DEF CatalogOK, RecordsOK, MemoryRecord, validateMemoryCatalog
  <2> QED BY <2>3, <2>4, <2>5, <2>6 DEF ValidateMemoryRecordV1
<1> QED BY ContextInvariant, <1>1, PTL
=============================================================================
