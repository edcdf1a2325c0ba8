\* Two tabs, phones or visits of each page; two forms of a wine, two zones
CONSTANTS
  t1 = t1  t2 = t2  anna = anna  bruno = bruno  w1 = w1  w2 = w2
  Nobody = Nobody  NoWine = NoWine
  Scenes = {"sender", "exit", "inbox", "confirm", "fiche", "plan"}
  Tabs = {t1, t2}
  Users = {anna, bruno}
  Items = {1, 2}
  Legacy = {1}
  MaxItems = 2
  MaxUpsets = 1
  Screens = {t1, t2}
  Bottles <- TwoWines
  MaxKeys = 2
  Pages = {t1, t2}
  Snaps = {1}
  MaxVisit = 2
  LabelReadings <- MCReadings
  TypedValues <- MCTyped
  Null = Null
  MaxOpened = 1
  MaxTaps = 2
  x1 = x1  x2 = x2  a1 = a1  a2 = a2
  Racks = {1}
  NoRack = 0
  AtFirst <- OneBottle
  MaxCount = 1
  MaxForms = 2
  MaxSends = 2
  Areas = {a1, a2}
  Drawn <- OneArea
  Marked <- MCMarked
  Spots = {x1}
  Unmarked = Unmarked
  MaxSent = 2
SPECIFICATION FairSpec
CHECK_DEADLOCK FALSE
INVARIANTS
  NeverLost
  PhotoDebitsOnce
  ResultStaysTruthful
  CorrectionsAreTheUsers
  KeysKept
  MarkersWhereTapped
PROPERTIES
  StrangersOnlyAcrossSessions
  QueueDrains
