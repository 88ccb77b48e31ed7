SPECIFICATION Spec
CONSTANTS
  p1 = p1 p2 = p2 p3 = p3 herb = herb sword = sword
  Players = {p1, p2}
  NoOne = NoOne
  NoItem = NoItem
  Items = {herb, sword}
  Equipment = {sword}
  MaxSlots = 2
  MaxDeals = 2
  MaxAmount = 3
  MaxZeny = 1
  MaxWeight = 3
  MaxOutside = 1
  StartGoods <- StartTwo
  StartZeny <- ZenyOfOne
  AskedOnMapOnly = FALSE
INVARIANTS TypeOK
PROPERTIES NothingUnofferedLeaves TradingConserves
CHECK_DEADLOCK FALSE
