CONSTANTS
  t1 = t1  t2 = t2  t3 = t3  a = a  b = b  c = c
  Trials <- ThreeTrials
  Tasks <- ThreeTasks
  Setups <- Cancelled
  WallTimeBudget = 1
  RouterTimeout = 1
  EpisodeTimeoutSetting = 3
  GRADE_UPLOAD_TIMEOUT = 1
  GRADE_TIMEOUT = 1
  GRADE_REWARD_TIMEOUT = 1
  SCHEDULING_MARGIN = 2
SPECIFICATION Spec
INVARIANT CancellationWaitsForCleanup
CHECK_DEADLOCK FALSE
