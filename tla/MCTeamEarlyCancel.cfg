SPECIFICATION Spec
CONSTANTS
  P1 = P1
  P2 = P2
  Participant = {P1, P2}
  Order <- TwoInOrder
  FollowUp = {}
  CancelTurn = {}
  Close = {}
  Cancel = {x1}
  Modes = {"panel"}
  Grant = 4
  PanelLimit = 2
  SessionLimit = 2
  MaxDisturbances = 2
  MaxVersion = 3
  Faulty = {P1}
  Unlisted = {}
  HostIsSerial = TRUE
  EarlyCancel = TRUE
  MayExpire = FALSE
  Nobody = Nobody
  Controller = Controller
CHECK_DEADLOCK FALSE
INVARIANT ClosedIsOver
