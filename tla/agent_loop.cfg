CONSTANTS
  Specs <- ThreeSpecs
  Edits <- ManyEdits
  Agents <- AllAgents
  Absent = Absent
  MaxCalls = 3
  MaxCompactions = 1
  MAX_TRUNCATION_NUDGES = 2
  Attempts = 2
  MaxToolCalls = 2
SPECIFICATION Spec
INVARIANTS TypeOK GuardIsExact LastGoodIntact GuardedFileIntact
  TranscriptAnswerable
PROPERTY RunEnds
CHECK_DEADLOCK FALSE
