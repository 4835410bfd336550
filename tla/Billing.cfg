SPECIFICATION FairSpec
CONSTANTS
  c1 = c1
  c2 = c2
  c3 = c3
  e1 = e1
  e2 = e2
  e3 = e3
  e4 = e4
  e5 = e5
  e6 = e6
  e7 = e7
  Clients = {c1, c2, c3}
  Events = {e1, e2, e3, e4, e5, e6, e7}
  Requests = {h1, h2}
  Message <- Story
  First <- Signed
  Quota <- Quotas
  Sids = {}
  NoSid = NoSid
  NullSid = NullSid
  NoSub = NoSub
  MaxFaults = 1
INVARIANTS
  TypeOK
  AppliedOnce
  QuotaOfTier
  Serial
PROPERTIES
  SoundIsProcessed
CHECK_DEADLOCK FALSE
