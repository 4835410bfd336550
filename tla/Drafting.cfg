SPECIFICATION FairSpec
CONSTANTS
  Reviews = {r1, r2}
  FilterWorkers = {f1}
  GenWorkers = {g1}
  Contents <- AllContents
  Settings <- TwoSettings
  Quotas = {1}
  Driven = TRUE
  Answering = TRUE
  FilterRetries = 1
  GenRetries = 0
  NoDraft = NoDraft
  MaxMonth = 1
  MaxCrashes = 1
  MaxRegenerations = 1
INVARIANTS
  LowRatingStaysHuman
  
PROPERTIES
  DetectedIsFiltered
CHECK_DEADLOCK FALSE
