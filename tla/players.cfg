SPECIFICATION PlayersSpec
CONSTANTS
  p1 = p1 p2 = p2 p3 = p3 herb = herb sword = sword
  Players = {p1, p2, p3}
  NoOne = NoOne
  NoItem = NoItem
  Items = {sword}
  Equipment = {sword}
  MaxSlots = 2
  MaxDeals = 2
  MaxAmount = 1
  MaxZeny = 1
  MaxWeight = 2
  MaxOutside = 0
  StartGoods <- StartThree
  StartZeny <- ZenyOfOne
  AskedOnMapOnly = TRUE
  k1 = k1 k2 = k2 
  MapServers = {m1}
  MaxCuts = 0
  Window = 2
  Keepers = {k1, k2}
  KeeperServer = m1
  Breeds = {b1, b2}
  AnyBreed = AnyBreed
  NoBreed = NoBreed
  NoKeeper = NoKeeper
  MaxEggs = 1
  MaxRows = 3
  Calm = TRUE
SYMMETRY Interchangeable
INVARIANTS TradesArePairs OnlyTheAskedAnswers NeverVendingAndTrading CompanionsKept
PROPERTIES LockedOfferStands ConsentedExchange
CHECK_DEADLOCK FALSE
