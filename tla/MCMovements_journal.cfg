\* Concurrent requests about the places of bottles, their counts, and shared keys
CONSTANTS
  c1 = c1  c2 = c2  w1 = w1  w2 = w2  z1 = z1  z2 = z2  z3 = z3
  n1 = n1  n2 = n2  p1 = p1  p2 = p2  k1 = k1  k2 = k2  k3 = k3  k4 = k4
  NoZone = NoZone  NoName = NoName  NoPlace = NoPlace
  NoPhoto = NoPhoto  NoKey = NoKey  NoRequest = NoRequest  Unset = Unset
  Handlers = {h1, h2}
  Keys = {k1, k2, k3, k4}
  Spots <- MCSpots
  ZoneCave <- MCZoneCave
  WineCave <- MCWineCave
  PhotoCave <- MCPhotoCave
  WebImages = {}
  Caves = {c1, c2}
  Wines = {w1, w2}
  Zones = {z1, z2}
  Names = {n1, n2}
  Photos = {p1}
  Requests <- MCRequests
SPECIFICATION MCSpec
SYMMETRY MCSymmetry
INVARIANTS
  TypeOK
  NeverNegative
  NamesDistinct
  NoBottleOutOfSight
  MovesWhole
  HistoryKeepsItsPlaces
  ReversalExact
  AnswersTruthful
PROPERTY
  NoForeignWrite
