\* A fresh cache answers every request, and a dead job stays.
SPECIFICATION Spec
CONSTANTS
  RunIds = {r1, r2}
  Callers = {c1, c2}
  Providers = {p1}
  LeaseTTL = 1
  NoRun = NoRun
PROPERTIES
  NextRequestHeals
