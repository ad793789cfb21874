SPECIFICATION FairSpec
CONSTANTS
  w1 = w1
  w2 = w2
  k1 = k1
  k2 = k2
  Workers = {w1, w2}
  MaxNumber = 3
  Keys = {k1, k2}
  DataSets <- Overlapping
  AllowOnSubmit = {k2}
  Excluded <- Second
  MaxAttempts = 2
  CommandBound = 3
INVARIANTS
  UniqueValues
  ReservationsExact
  PlansSound
  NoNumberConsumed
PROPERTIES
  Lifecycle
  CounterForward
  EveryCommandEnds
CHECK_DEADLOCK FALSE
