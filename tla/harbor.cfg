CONSTANTS
  s1 = s1  s2 = s2  i1 = i1  i2 = i2
  Samples <- TwoSamples
  Instances <- TwoInstances
  Groups <- OneGroup
  Configured <- NoInstance
  MaxConcurrent = 1
  Outcomes <- FourOutcomes
SPECIFICATION Spec
INVARIANTS TypeOK RegistersExact TrainedIsVerified FlushStopsTrials
PROPERTY EveryRequestEnds
CHECK_DEADLOCK FALSE
