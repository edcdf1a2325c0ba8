\* Lots through budget, pauses and one mishap; one text asked for again before two workers
CONSTANTS
  q1 = q1  q2 = q2  w1 = w1  w2 = w2
  Nobody = Nobody  NoTime = NoTime
  Caves = {}
  Requests = {q1, q2}
  Editable = {q1}
  Deserted = {q2}
  Workers = {w1, w2}
  BatchSize = 2
  MaxAttempts = 2
  Reservation = 2
  CallTimeout = 1
  MaxWait = 1
  GiveUpAge = 2
  FirstRetry = 1
  MaxRetry = 1
  BudgetDelay = 1
  RecheckDelay = 2
  RefusalPause = 1
  MaxAsked = 2
  MaxMishaps = 1
SPECIFICATION MCSpec
PROPERTIES
  KeepsItsPromise
  GivenUpForAReason
  NoRequestForgotten
