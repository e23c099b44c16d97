SPECIFICATION Spec
CONSTANTS
  P1 = P1
  P2 = P2
  Participant = {P1, P2}
  Order <- TwoInOrder
  FollowUp = {f1}
  CancelTurn = {t1}
  Close = {c1}
  Cancel = {x1}
  Modes = {"panel", "session"}
  Grant = 4
  PanelLimit = 2
  SessionLimit = 2
  MaxDisturbances = 2
  MaxVersion = 3
  Faulty = {P1}
  Unlisted = {}
  HostIsSerial = TRUE
  EarlyCancel = FALSE
  MayExpire = TRUE
  Nobody = Nobody
  Controller = Controller
CHECK_DEADLOCK FALSE
INVARIANTS
  ClosedIsOver
  LaunchedOnce
  AnsweredIsDone
  OutcomeIsBacked
PROPERTIES
  TurnIsFinal
  ClosingIsKept
