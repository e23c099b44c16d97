SPECIFICATION Spec
CONSTANTS
  a = a
  b = b
  c = c
  p = p
  Node <- PairNode
  Agent <- PairAgent
  Order <- PairOrder
  Deps <- PairDeps
  When <- PairWhen
  NoCondition = NoCondition
  MaxConcurrency = 2
  BackendLimit = 0
  MaxAttempts = 2
  Faults = {"crash"}
  MaxFaults = 1
  Requests = {"retry"}
  NoAttempt = NoAttempt
CHECK_DEADLOCK FALSE
INVARIANT IntentIsSpent
