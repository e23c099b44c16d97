SPECIFICATION MCSpec
CONSTANTS
  n1 = n1
  n2 = n2
  Attempt = {n1, n2}
  MemoryByNode <- MCMemoryByNode
  Request <- MCRequest
  MaxRecords = 3
  MaxReceipts = 2
  Compilation <- MCCompilation
  MaxContextComponents = 6
  MaxContextOmissions = 3
  MaxSelectedMemoryRecords = 3
  Never = 0
  OptionalBytes = 2
  MaxRevision = 3
  MaxClock = 1
  Filter = {"active"}
CHECK_DEADLOCK FALSE
INVARIANT UsesArePaid NeverCorrupt AnswersAgree ErasedEverywhere ListsWhole FairShare
