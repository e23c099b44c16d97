SPECIFICATION Spec
CONSTANTS
  a = a
  b = b
  c = c
  p = p
  Node <- ReviewNode
  Agent <- ReviewAgent
  Order <- ReviewOrder
  Deps <- ReviewDeps
  When <- ReviewWhen
  NoCondition = NoCondition
  MaxConcurrency = 2
  BackendLimit = 1
  MaxAttempts = 2
  Faults = {"crash", "heartbeat", "lost"}
  MaxFaults = 2
  Requests = {"decide", "retry", "answer"}
  NoAttempt = NoAttempt
CHECK_DEADLOCK FALSE
INVARIANT RunEndsKnown
INVARIANT ControlledWhileRunning
INVARIANT LimitRespected
PROPERTY StartsAfterDeps
