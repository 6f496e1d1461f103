SPECIFICATION Spec
CONSTANTS
  NumRollouts = 2
  Batch = 1
  MaxRetries = 1
  Prompts = 3
  Setups <- LostGroups
INVARIANTS
  CheckpointComplete
CHECK_DEADLOCK FALSE
