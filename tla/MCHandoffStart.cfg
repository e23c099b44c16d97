SPECIFICATION FairSpec
CONSTANTS
  Handoff = {h1}
  Action = {a1, a2}
  Run = {r1, r2}
  HomeRuns = {r1, r2}
  Content = {c1}
  Message = {m1}
  MaxReceipts = 3
  MaxVersion = 1
  MaxCrashes = 1
  MaxFailures = 1
  Nothing = Nothing
CHECK_DEADLOCK FALSE
PROPERTIES StartupResumes
