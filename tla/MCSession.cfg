SPECIFICATION FairSpec
CONSTANTS
  Turn = {t1, t2}
  Kinds = {"codex", "harness"}
  MaxCrashes = 1
  MaxFaults = 1
  MayCancel = TRUE
  Nothing = Nothing
CHECK_DEADLOCK FALSE
INVARIANTS StartedOnce QuietSession OutcomeIsTrue
PROPERTIES EveryTurnEnds
