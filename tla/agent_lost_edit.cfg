CONSTANTS
  Specs <- OneSpec
  Edits <- TwoEdits
  Agents <- AllAgents
  Absent = Absent
  MaxCalls = 2
  MaxCompactions = 1
  MAX_TRUNCATION_NUDGES = 2
  Attempts = 2
  MaxToolCalls = 1
SPECIFICATION Spec
PROPERTY IntactEditKept
CHECK_DEADLOCK FALSE
