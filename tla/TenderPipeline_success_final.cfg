\* A second pipeline with the same run_id overwrites a recorded success.
SPECIFICATION PipelineSpec
CONSTANTS
  RunIds = {r1, r2}
  Workers = {w1, w2}
  Steps = {s1, s2}
  LeaseTTL = 1
  MaxAttempts = 1
  NoRun = NoRun
  scheduler = scheduler
  next_run = next_run
PROPERTIES
  SuccessIsFinal
