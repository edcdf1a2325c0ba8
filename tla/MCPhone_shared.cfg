\* A session that changes hands while photos are being sent
CONSTANTS
  t1 = t1  t2 = t2  anna = anna  bruno = bruno  w1 = w1  w2 = w2
  Nobody = Nobody  NoWine = NoWine
  Scenes = {"sender"}
  Tabs = {t1}
  Users = {anna, bruno}
  Items = {1}
  Legacy = {}
  MaxItems = 2
  MaxUpsets = 1
  Screens = {}
  Bottles <- TwoWines
  MaxKeys = 0
  Pages = {}
  Snaps = {}
  MaxVisit = 0
  LabelReadings <- MCReadings
  TypedValues <- MCTyped
  Null = Null
  MaxOpened = 0
  MaxTaps = 0
  x1 = x1  x2 = x2  a1 = a1  a2 = a2
  Racks = {1}
  NoRack = 0
  AtFirst <- OneBottle
  MaxCount = 3
  MaxForms = 2
  MaxSends = 2
  Areas = {a1, a2}
  Drawn <- OneArea
  Marked <- MCMarked
  Spots = {x1}
  Unmarked = Unmarked
  MaxSent = 2
SPECIFICATION Spec
CHECK_DEADLOCK FALSE
INVARIANT
  OwnCaveOnly
