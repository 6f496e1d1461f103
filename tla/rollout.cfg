SPECIFICATION FairSpec
CONSTANTS
  NumRollouts = 2
  Batch = 1
  MaxRetries = 1
  Prompts = 3
  Setups <- OverlapOrRestart
INVARIANTS
  TypeOK
  QueueWithinBound
  HeldOnce
  FailureStopsSampling
  SamplingEndsWithLastRollout
  QuietWhilePaused
  CleanupUninterrupted
  CheckpointExact
PROPERTIES
  ImplementsLedger
  CallsReturn
CHECK_DEADLOCK FALSE
