\* Producers stop at MessageBound, and then the system is at rest.
SPECIFICATION FairSpec
CONSTANTS
  k1 = k1
  w1 = w1
  w2 = w2
  o1 = o1
  NoKey = NoKey
  Keys = {k1}
  Workers = {w1, w2}
  Operators = {o1}
  MaxAttempts = 2
  MessageBound = 2
  DuplicateBound = 1
  FaultBound = 2
INVARIANTS
  SoleRunner
  RerunsUnrecordedOnly
  NoSilentLoss
PROPERTY QueueDrains
CHECK_DEADLOCK FALSE
