SPECIFICATION Spec

CONSTANTS
  alice = alice
  bob = bob
  group = group
  Users = {alice, bob}
  Chats = {group}
  Subjects <- Pairs
  Exempt <- NoExemption
  Runs = {r1, r2}
  Edits = {e1}
  UserLimits = {1}
  ChatLimits = {2}
  Balances = {1}
  TopUps = {}
  MaxTokens = 3
  MaxDay = 2
  Retries = 2
  None = None

INVARIANT TypeOK
 
INVARIANT DebtOnlyOfLastPayer
INVARIANT FreeSpentFirst
INVARIANT SettledInFull
PROPERTY FreeWithinLimit
