\* Two photos of two cellars, whose shares of the budget come and go
CONSTANTS
  c1 = c1  c2 = c2  NoTime = NoTime
  Caves = {c1, c2}
  Photos = {1, 2}
  PhotoCave <- TwoCaves
  Workers = {w1}
  BatchSize = 2
  MaxSkips = 1
  MaxAttempts = 2
  Reservation = 2
  CallTimeout = 1
  MaxWait = 1
  FirstDelay = 1
  MaxDelay = 2
  RefusalPause = 1
  CallCost = 0
  MaxBilled = 0
  MaxMishaps = 1
SPECIFICATION FairSpec
PROPERTY
  NoPhotoForgotten
