SPECIFICATION Spec
CONSTANTS
  a = a
  b = b
  c = c
  p = p
  Node <- PairNode
  Agent <- PairAgent
  Order <- PairOrder
  Deps <- PairDeps
  When <- PairWhen
  NoCondition = NoCondition
  MaxConcurrency = 2
  BackendLimit = 0
  MaxAttempts = 1
  Faults = {"crash"}
  MaxFaults = 1
  Requests = {"cancel"}
  NoAttempt = NoAttempt
CHECK_DEADLOCK FALSE
INVARIANT CancelledIsHonest
