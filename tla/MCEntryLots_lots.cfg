\* Lots of one cellar: a worker that stops, or whose database fails, twice; or two
\* workers and a reservation that outlasts the calls of a lot
CONSTANTS
  c1 = c1  c2 = c2  w1 = w1  w2 = w2  NoTime = NoTime
  Caves = {c1}
  Photos = {1, 2}
  PhotoCave <- OneCave
  Workers = {w1, w2}
  BatchSize = 2
  MaxSkips = 1
  MaxAttempts = 2
  Reservation = 4
  CallTimeout = 1
  MaxWait = 1
  FirstDelay = 1
  MaxDelay = 1
  RefusalPause = 1
  CallCost = 1
  MaxBilled = 2
  MaxMishaps = 2
SPECIFICATION LotsSpec
SYMMETRY Interchangeable
INVARIANTS
  NeverOvercounted
  AttemptsRunOut
  NoSecondReading
PROPERTY
  VerdictsStand
