CONSTANTS
  Target = {1, 2}
  NoTarget = 0
  MaxJobs = 3
  MaxEach = 1
  MaxMin = 1
  MaxMax = 3
SPECIFICATION Spec
INVARIANTS SoleTargetAgrees CoversReference OldestJobsFirstWhenCold
CHECK_DEADLOCK FALSE
