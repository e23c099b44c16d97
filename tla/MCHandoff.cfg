SPECIFICATION Spec
CONSTANTS
  Handoff = {h1, h2}
  Action = {a1, a2}
  Run = {r1, r2, r3}
  HomeRuns = {r1, r2}
  Content = {c1}
  Message = {m1}
  MaxReceipts = 3
  MaxVersion = 2
  MaxCrashes = 2
  MaxFailures = 1
  Nothing = Nothing
CHECK_DEADLOCK FALSE
INVARIANTS AnsweredBindingHolds ArtifactsHold CrashesRecover
PROPERTIES ImplementsRegistry
