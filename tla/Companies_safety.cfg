\* What is known of companies: one of four services moves in each behaviour.
INIT CompaniesInit
NEXT CompaniesNext
CONSTANTS
  RunIds = {r1, r2}
  Callers = {t1, t2, t3}
  Providers = {p1, p2}
  LeaseTTL = 1
  NoRun = NoRun
  Firms = {f1, f2, fn, f3, f4}
  Group = {f1, f2}
  OldPrimary = f1
  NamedRow = fn
  Alike = {fn, f3}
  Bridged = {f4}
  Persons = {f4}
  Permits = {m1}
  Awards = {g1}
  BidOutcomes = {1, 2}
  Winner = f2
  NoOne = NoOne
  Bidders = {f2, fn}
  MaxMerges = 2
  Listed = {t1, t2}
  Places = {p1, p2}
  NoPlace = NoPlace
  Refreshes = {r1, r2}
  BatchSize = 2
  Facts = {h1, h2, h3}
  NoFact = NoFact
  Scopes = {{h1, h2}, {h3}}
  Strong = {h1}
  Clients = {t1, t2}
  MaxCalls = 2
  MaxClock = 1
SYMMETRY Symmetry
INVARIANTS
  OneRunningJob
  OneWorkerPerJob
  ReportIsPersisted
  EnrichedPlacesWereAccepted
  ReviewIsQueued
  LedgerIsWellFormed
PROPERTIES
  OutcomeIsFinal
  LiveJobIsLeftAlone
  RollbackRestoresTheTables
  MergesTakeReferencesAlong
  ImportLinksToNoAlias
  SettledBeliefsStay
  AdjudicationStands
CHECK_DEADLOCK FALSE
