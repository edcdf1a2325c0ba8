\* Two uploads of one image, the api and the worker each stopping once
CONSTANTS
  u1 = u1  u2 = u2  u3 = u3  i1 = i1  i2 = i2
  NoPhoto = NoPhoto
  Uploads = {u1, u2}
  Image <- SameImage
  ExitAttempts = 2
  MaxStops = 1
SPECIFICATION FairSpec
INVARIANTS
  FilesFollowRows
PROPERTIES
  UsedKeepsPurpose
  ExitSettles
CHECK_DEADLOCK FALSE
