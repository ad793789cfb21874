\* FairSpec has no crash and no store error; handlers may fail once per record.
\* The stream bound is above what these instances can append, so it never stops
\* a drain.
SPECIFICATION FairSpec
CONSTANTS
  w1 = w1
  w2 = w2
  c1 = c1
  NoClaim = NoClaim
  Workers = {w1, w2}
  ClaimIds = {c1}
  Records <- TwoRecords
  SourceEvents <- OneEventTwoTargets
  ClaimLimit = 2
  MaxAppendAttempts = 5
  CarryOverLimit = 1
  StreamBound = 20
  FaultBound = 0
  FailureBound = 1
PROPERTIES
  EveryRecordDelivered
