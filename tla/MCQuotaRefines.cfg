SPECIFICATION FairSpec

CONSTANTS
  alice = alice
  bob = bob
  group = group
  Users = {alice, bob}
  Chats = {group}
  Subjects <- PairAndPrivate
  Exempt <- ExemptBob
  Runs = {r1, r2}
  Edits = {e1}
  UserLimits <- LimitedOrNot
  ChatLimits = {1}
  Balances = {}
  TopUps = {2}
  MaxTokens = 2
  MaxDay = 1
  Retries = 2
  None = None

PROPERTY ImplementsLedger
PROPERTY SettleTerminates
