SPECIFICATION WorldSpec

CONSTANTS
  a = a
  b = b
  d = d
  x = x
  User = {a, b, d, x}
  Bots = {}
  Channels = {x}
  Seat <- Seats
  Base = 1
  Luck = {1}
  MaxDebt = 3
  Days <- TwoDays
  Fickle <- Fickles
  MaxFlight = 2
  None = None
  Writers = {w1, w2, w3}
  MaxFaults = 1

INVARIANT MutualUnlessOverlapped
INVARIANT ConfigsKept
 
PROPERTY WaitEnds
CHECK_DEADLOCK FALSE
