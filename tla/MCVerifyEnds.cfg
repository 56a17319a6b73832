SPECIFICATION FairSpec

CONSTANTS
  Task = {t1, t2}
  Sweep = Sweep
  Inputs = {"message", "toggle", "adminban", "approve", "test"}
  Strategy = "first_message"
  FailAction = "unrestrict"
  Mutes = TRUE
  MaxAttempts = 2
  ReuseIds = TRUE
  Prompt = FALSE
  MaxSessions = 2
  MaxGone = 1
  MaxCrashes = 1
  MaxFaults = 1
  None = None

INVARIANT RegisteredIsStored
PROPERTY SessionEnds
CHECK_DEADLOCK FALSE
