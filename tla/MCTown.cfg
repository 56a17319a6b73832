SPECIFICATION WorldSpec

CONSTANTS
  Purse = 5
  Floor <- FloorOf
  Goods = {"grass", "lamp"}
  Price <- PriceOf
  Bonus = 4
  Peak = 4
  Daily = 3
  Amounts = {1, 4}
  Changes <- ChangesOf
  Fortunes <- FortunesOf
  MaxHands = 2
  MaxSteps = 3
  MaxCrashes = 1
  None = None
  People = {a, b, c}
  Owner = a
  Days <- DaysOf
  MaxRenames = 1
  Throwers = {u, v}
  Ids = 2
  ReuseIds = TRUE
  MaxThrown = 2
  Cards = {c1, c2}
  MaxAsked = 1
  Tides <- TidesOf
  Evenings <- SeasonsOf
  Above = 2
  PerPrompt = 2
  Known = 2
  MaxTaken = 3
  MaxForgotten = 1
  Artwork = {1, 2}
  Tasks = {1, 2}
  Lifetime = 1
  FewKept = 2
  MaxSends = 5
  MaxWiped = 2
  Sessions = {"s", "t"}
  Calls = {1, 2, 3}
  CacheSize = 1
  MaxOpened = 4
  MaxDropped = 1
  Clients = {1, 2, 3}
  PerSpan = 2
  Span = 3
  MaxClients = 2
  Redis = TRUE
  Spoken = {1, 2, 3}
  Chunks <- ChunksOf
  Patience = 2
  MaxLosses = 1
  Channel <- AlbumOf
  MaxFaded = 1

INVARIANT MembersKept
 
INVARIANT WealthAddsUp
 
INVARIANT GroupFaithful
INVARIANT TextsKept
INVARIANT ToldOnce
INVARIANT SharedKept
CHECK_DEADLOCK FALSE
