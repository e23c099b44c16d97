SPECIFICATION MCSpec
CONSTANTS
  n1 = n1
  n2 = n2
  Attempt = {n1}
  MemoryByNode <- MCMemoryByNode
  Request <- MCRequest
  MaxRecords = 3
  MaxReceipts = 8
  Compilation <- MCCompilation
  MaxContextComponents = 6
  MaxContextOmissions = 10
  MaxSelectedMemoryRecords = 3
  Never = 0
  OptionalBytes = 3
  MaxRevision = 2
  MaxClock = 0
  Filter = {"active"}
CHECK_DEADLOCK FALSE
INVARIANT UsedOnce
