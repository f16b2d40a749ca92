INIT GoogleInit
NEXT GoogleNext
CONSTANTS
  Listed = {k1, k2}
  Places = {l1, l2}
  NoPlace = NoPlace
  Refreshes = {t1, t2}
  BatchSize = 2
INVARIANT EveryAttemptIsLogged
CHECK_DEADLOCK FALSE
