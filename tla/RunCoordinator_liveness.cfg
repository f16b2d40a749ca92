\* A scheduler that keeps asking for run r2 against a worker that may die.
SPECIFICATION FairSpec
CONSTANTS
  RunIds = {r1, r2}
  Workers = {w1, w2}
  Steps = {s1}
  LeaseTTL = 1
  MaxAttempts = 2
  NoRun = NoRun
  scheduler = w1
  next_run = r2
PROPERTIES
  DeadRunBlocksNobody
