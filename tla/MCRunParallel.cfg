SPECIFICATION Spec
CONSTANTS
  a = a
  b = b
  c = c
  p = p
  Node <- PairNode
  Agent <- PairAgent
  Order <- PairOrder
  Deps <- PairDeps
  When <- PairWhen
  NoCondition = NoCondition
  MaxConcurrency = 2
  BackendLimit = 0
  MaxAttempts = 2
  Faults = {"start_error", "post_start_error", "observe_error", "asking", "lost", "cancel_unconfirmed"}
  MaxFaults = 1
  Requests = {"cancel", "retry", "answer"}
  NoAttempt = NoAttempt
CHECK_DEADLOCK FALSE
INVARIANT ConcludedIsOver
PROPERTY SucceededIsFinal
PROPERTY CompletedIsFinal
