SPECIFICATION Spec
CONSTANTS
  None = None
  g1 = g1
  g2 = g2
  w1 = w1
  w2 = w2
  Games <- OneGame
  GameOrder <- MCGameOrder
  Workers <- MCWorkers
  LeaseSeconds = 1
  RetryBase = 1
  RetryMax = 2
  DueTimes <- MCDueTimes
  MaxTime = 2
  MaxWakes = 2
  MaxAttempts = 3
SYMMETRY WorkerSymmetry
INVARIANTS
  TypeOK
  WakeSeen
  LatestAttemptHoldsLease
  OverlapNeedsExpiry
  FailureCountFresh
CHECK_DEADLOCK FALSE
