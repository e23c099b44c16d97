SPECIFICATION Spec
CONSTANTS
  o1 = o1
  o2 = o2
  o3 = o3
  p1 = p1
  p2 = p2
  Owner <- MCOwner
  Pid <- MCPid
  PidOf <- MCPidOf
  TTL = 2
  MaxClock = 5
  NoOwner = NoOwner
CHECK_DEADLOCK FALSE
INVARIANT LeaseExclusion
PROPERTY TakeoverJustified
