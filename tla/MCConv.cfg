SPECIFICATION WorldSpec

CONSTANTS
  Worlds = {"talk", "ask"}
  Task = {t1, t2, t3, t4}
  Conv = {c1}
  User = {human, bot}
  Bots = {bot}
  Speaker <- OneHuman
  Kinds = {"wake", "followup", "forget"}
  MaxWipes = 0
  MaxQueue = 1
  None = None

INVARIANT OneTurnPerConversation
 
INVARIANT AnsweredOnce
INVARIANT QueueKept
PROPERTY TurnsKeptUnasked
CHECK_DEADLOCK FALSE
SYMMETRY Handlers
