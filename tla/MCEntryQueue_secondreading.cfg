\* Two workers, and the code's five minutes of reservation for calls of two
CONSTANTS
  c1 = c1  c2 = c2  NoTime = NoTime
  Caves = {c1}
  Photos = {1, 2}
  PhotoCave <- OneCave
  Workers = {w1, w2}
  BatchSize = 2
  MaxSkips = 1
  MaxAttempts = 2
  Reservation = 5
  CallTimeout = 2
  MaxWait = 1
  FirstDelay = 1
  MaxDelay = 2
  RefusalPause = 1
  CallCost = 0
  MaxBilled = 0
  MaxMishaps = 0
SPECIFICATION Spec
INVARIANTS
  NoSecondReading
