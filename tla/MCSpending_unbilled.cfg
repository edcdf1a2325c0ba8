SPECIFICATION Spec
CONSTANTS
  main = main
  cave = cave
  p1 = p1
  w1 = w1
  s1 = s1
  Caves = {main, cave}
  Main = main
  Photos = {p1}
  Wines = {w1}
  CaveOf <- CaveOfAll
  Searches = {s1}
  Cap = 3
  SharedCap = 2
  CaveCap = 2
  InvitedCap = 1
  PhotoCost = 1
  LotCost = 1
  SearchCost = 2
  Estimate = 1
  MaxMonth = 2
  MaxBilled = 4
  MaxStops = 1
  Lot = 2
  Tokens = {400, 1600}
  MaxCalls = 2
  LastTime = 98
  WinterTime = 50
CHECK_DEADLOCK FALSE
INVARIANTS BilledPhotosCount
