\* begin_run calls a run used up that another call has just begun.
SPECIFICATION Spec
CONSTANTS
  RunIds = {r1, r2}
  Workers = {w1, w2}
  Steps = {s1, s2}
  LeaseTTL = 1
  MaxAttempts = 2
  NoRun = NoRun
  scheduler = scheduler
  next_run = next_run
PROPERTIES
  BeginIsIdempotent
