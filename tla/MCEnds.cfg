SPECIFICATION FairWorld
CONSTANTS
  Task = {1, 2}
  Sweep = Sweep
  Inputs = {"message", "right", "wrong", "leave"}
  Strategy = "first_message"
  FailAction = "kick"
  Mutes = TRUE
  MaxAttempts = 2
  ReuseIds = FALSE
  Prompt = TRUE
  MaxSessions = 2
  MaxGone = 1
  MaxCrashes = 0
  MaxFaults = 0
  None = None
  Updates = {1, 2}
  Talks = {"c", "d"}
  People = {"human", "bot"}
  Robots = {"bot"}
  Writer <- BotEverywhere
  MaxWipes = 1
  MaxQueue = 1
  Media = {"media"}
  Threshold = 2
  StaleAfter = 2
  Patience = 3
  Troubles = {"dead", "deaf", "gone", "media", "stop"}
INVARIANT MeanwhileSafe
PROPERTY MuteEnds
PROPERTY KickIsNotABan
PROPERTY TurnEnds
PROPERTY DeadIsRestarted
PROPERTY ShellCallsEnd
CHECK_DEADLOCK FALSE
