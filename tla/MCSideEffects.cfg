\* Each part stops where its bounds stop it, so deadlock is not checked here
\* (MCDeliveryOutboxLive.cfg checks it for the outbox).
SPECIFICATION SideEffectsSpec
CONSTANTS
  w1 = w1
  w2 = w2
  r1 = r1
  r2 = r2
  r3 = r3
  NoClaim = NoClaim
  Workers = {w1, w2}
  ClaimIds = {c1, c2}
  Records <- TwoRecords
  SourceEvents <- OneEventTwoTargets
  ClaimLimit = 2
  MaxAppendAttempts = 2
  CarryOverLimit = 2
  StreamBound = 8
  FaultBound = 1
  FailureBound = 1
  FileSlots = {r1, r2, r3}
  FileRequestBound = 4
  FileFaultBound = 1
  OverlayBound = 2
  MailWorkers = {w1, w2}
  MailRequestBound = 3
  MailExpiryBound = 1
  MailFaultBound = 1
SYMMETRY Interchangeable
INVARIANTS
  ResumedIsFullFold
  CheckpointsTrue
  SoleClaimant
  RunsArePaidFor
  DeliveredWasHandled
  ContentKept
  InfectedRemoved
  RenditionsOwned
  MailsAccounted
PROPERTIES
  LifecycleSpec
CHECK_DEADLOCK FALSE
