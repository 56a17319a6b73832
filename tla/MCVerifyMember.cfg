SPECIFICATION Spec

CONSTANTS
  Task = {t1, t2, t3}
  Sweep = Sweep
  Inputs = {"join", "message", "wrong", "leave", "panel"}
  Strategy = "first_message"
  FailAction = "kick"
  Mutes = TRUE
  MaxAttempts = 2
  ReuseIds = FALSE
  Prompt = FALSE
  MaxSessions = 2
  MaxGone = 1
  MaxCrashes = 1
  MaxFaults = 0
  None = None

INVARIANT StoredOnce
 
CHECK_DEADLOCK FALSE
SYMMETRY Handlers
