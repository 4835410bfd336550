SPECIFICATION FairSpec
CONSTANTS
  c1 = c1
  Clients = {c1}
  DigestWorkers = {d1, d2}
  Asks <- OneAsk
  Prefs <- ByMail
  NoPref = NoPref
  Levels = {4}
  Quotas = {4, 5}
  NoticeRetries = 1
  MaxMonth = 1
  MaxChanges = 1
  MaxFaults = 1
INVARIANTS
  TypeOK
  RecordedIsStored
  SentWasMailed
  RepeatsAreBounded
PROPERTIES
  DeferredIsTold
  ExhaustedIsNoted
CHECK_DEADLOCK FALSE
