SPECIFICATION Spec
CONSTANTS
  Id = {i1, i2}
  MaxVersion = 3
  Steps = 2
  NoEntry = NoEntry
  NoRequest = NoRequest
CHECK_DEADLOCK FALSE
INVARIANT HalfDoneIsSuperseded
PROPERTY Once
