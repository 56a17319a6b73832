SPECIFICATION WorldSpec

CONSTANTS
  Worlds = {"talk"}
  Task = {t1, t2, t3}
  Conv = {c1, c2}
  User = {human, bot}
  Bots = {bot}
  Speaker <- BotInTwoChats
  Kinds = {"wake", "followup"}
  MaxWipes = 0
  MaxQueue = 1
  None = None

INVARIANT WakeLockNotLeaked
CHECK_DEADLOCK FALSE
