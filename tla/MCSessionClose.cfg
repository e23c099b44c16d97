SPECIFICATION FairSpec
CONSTANTS
  Turn = {t1}
  Kinds = {"codex", "harness"}
  MaxCrashes = 0
  MaxFaults = 1
  MayCancel = FALSE
  Nothing = Nothing
CHECK_DEADLOCK FALSE
PROPERTIES CloseSucceeds
