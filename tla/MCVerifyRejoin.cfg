SPECIFICATION Spec

CONSTANTS
  Task = {t1, t2, t3, t4}
  Sweep = Sweep
  Inputs = {"join", "message", "right", "leave"}
  Strategy = "all"
  FailAction = "kick"
  Mutes = TRUE
  MaxAttempts = 2
  ReuseIds = FALSE
  Prompt = FALSE
  MaxSessions = 2
  MaxGone = 1
  MaxCrashes = 0
  MaxFaults = 0
  None = None

PROPERTY PassedCanSpeak
CHECK_DEADLOCK FALSE
SYMMETRY Handlers
