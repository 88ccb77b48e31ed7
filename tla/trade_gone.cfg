SPECIFICATION Spec
CONSTANTS
  p1 = p1 p2 = p2 p3 = p3 herb = herb sword = sword
  Players = {p1, p2, p3}
  NoOne = NoOne
  NoItem = NoItem
  Items = {sword}
  Equipment = {sword}
  MaxSlots = 2
  MaxDeals = 2
  MaxAmount = 1
  MaxZeny = 1
  MaxWeight = 2
  MaxOutside = 0
  StartGoods <- StartThree
  StartZeny <- ZenyOfOne
  AskedOnMapOnly = FALSE
INVARIANTS NobodyAwaitsTheGone
CHECK_DEADLOCK FALSE
