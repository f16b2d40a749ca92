\* Every request ends, though two workers wait for each other's row locks.
SPECIFICATION FairOwnRuns
CONSTANTS
  RunIds = {r1, r2}
  Workers = {w1, w2}
  Steps = {s1}
  LeaseTTL = 1
  MaxAttempts = 2
  NoRun = NoRun
  scheduler = w1
  next_run = r2
PROPERTIES
  EveryRequestEnds
