\* Six services that share no table, one of which moves in each behaviour.
INIT ServicesInit
NEXT ServicesNext
CONSTANTS
  Null = Null
  Threads = {t1, t2}
  LegacyRuns = {r1, r2}
  Scrapers = {s1, s2}
  Pids = {p1, p2}
  MaxStarts = 2
  Empty = Empty
  Garbled = Garbled
  Requests = {t1, t2}
  Steps = {import_csvs}
  StepRuns = {n1}
  Anonymous = Anonymous
  MaxRows = 3
  Jobs = {t1, t2}
  JobRunIds = {r1, r2}
  LeaseTtl = 1
  MaxPhases = 2
  MaxTime = 2
  Scorers = {t1, t2}
  Construction = {c1}
  Architecture = {a1}
  Tenders = {d1}
  Marker = Marker
  Batch = 1
  MaxProfile = 2
  Tracked = {d1}
  MarketJobs = {t1, t2}
  Days = {1}
  NoDay = NoDay
  Window = 1
  MaxDay = 2
  MaxMarket = 3
  Numbers = {q1, q2, q3}
  LegacyKeys = {{q1, q2}, {q3}}
  NoNumber = NoNumber
  Importers = {t1, t2}
  MaxPermits = 4
  MaxSources = 2
SYMMETRY Symmetry
INVARIANTS
  ServicesTypeOK
  RecordedStepsWereRun
  GatedImportFollowsScrapes
  RecordedSuccessWasImported
  RetryFindsTheRunInFlight
  OneNarratorPerRun
  OutcomeMatchesTimeline
  ConstructionScoresAddUp
  PrescoredOnce
  LeavesTheMarketForAReason
  RefusedForAReason
PROPERTIES
  StepOutcomeIsFinal
  OfficialNumbersStay
CHECK_DEADLOCK FALSE
