SPECIFICATION FairSpec
CONSTANTS
  c1 = c1
  c2 = c2
  l1 = l1
  l2 = l2
  r1 = r1
  r2 = r2
  Clients = {c1}
  Locations = {l1, l2}
  Reviews = {r1, r2}
  PollWorkers = {w1, w2}
  Manages <- OneManages
  ReviewAt <- EachItsOwn
  NoClient = NoClient
  NoCred = NoCred
  Life = 2
  Horizon = 2
  Refusals = {"auth", "other"}
  Forbids = TRUE
  PollRetries = 0
  MaxConsents = 1
  MaxFaults = 1
INVARIANTS
  TypeOK
  EnqueuedOnce
PROPERTIES
  OnlyConsentRestores
  WithdrawalNoticed
  PostedIsStored
  StoredIsEnqueued
CHECK_DEADLOCK FALSE
