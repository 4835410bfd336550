SPECIFICATION Spec
CONSTANTS
  Reviews = {r1, r2, r3}
  FilterWorkers = {f1}
  GenWorkers = {g1, g2}
  Contents <- GoodOnly
  Settings <- OpenOnly
  Quotas = {1, 2}
  Driven = TRUE
  Answering = FALSE
  FilterRetries = 0
  GenRetries = 0
  NoDraft = NoDraft
  MaxMonth = 2
  MaxCrashes = 0
  MaxRegenerations = 0
SYMMETRY Symmetry
INVARIANTS
  TypeOK
  QuotaNearlyHeld
  CountIsStoredCalls
CHECK_DEADLOCK FALSE
