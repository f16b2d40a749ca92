\* Two callers ask again and again; workers and callers may die.
SPECIFICATION FairSpec
CONSTANTS
  RunIds = {r1, r2}
  Callers = {c1, c2}
  Providers = {p1}
  LeaseTTL = 1
  NoRun = NoRun
PROPERTIES
  StaleJobGoes
