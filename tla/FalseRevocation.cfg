SPECIFICATION Spec
CONSTANTS
  c1 = c1
  c2 = c2
  l1 = l1
  l2 = l2
  r1 = r1
  r2 = r2
  Clients = {c1, c2}
  Locations = {l1, l2}
  Reviews = {}
  PollWorkers = {w1}
  Manages <- TwoManage
  ReviewAt <- Nowhere
  NoClient = NoClient
  NoCred = NoCred
  Life = 2
  Horizon = 2
  Refusals = {"other"}
  Forbids = FALSE
  PollRetries = 0
  MaxConsents = 1
  MaxFaults = 0
INVARIANTS
  HonouredStaysActive
CHECK_DEADLOCK FALSE
