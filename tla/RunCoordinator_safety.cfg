\* Two workers race over two runs: every call, in every order.
SPECIFICATION Spec
CONSTANTS
  RunIds = {r1, r2}
  Workers = {w1, w2}
  Steps = {s1, s2}
  LeaseTTL = 2
  MaxAttempts = 2
  NoRun = NoRun
  scheduler = scheduler
  next_run = next_run
SYMMETRY Symmetry
INVARIANTS
  TypeOK
  OneActiveRun
  ImportAfterScrape
  ReclaimIsExclusive
PROPERTIES
  KeepsPromise
  LiveRunNeverReclaimed
  ExpiredLeaseStaysExpired
  RetiredRunKeepsProgress
