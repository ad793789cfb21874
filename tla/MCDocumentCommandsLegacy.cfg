SPECIFICATION Spec
CONSTANTS
  w1 = w1
  w2 = w2
  k1 = k1
  k2 = k2
  Workers = {w1}
  MaxNumber = 3
  Keys = {k1}
  DataSets <- OneOrNone
  AllowOnSubmit = {k1}
  Excluded <- None
  MaxAttempts = 3
  CommandBound = 4
INVARIANTS
  TakenNamesAreSkipped
CHECK_DEADLOCK FALSE
