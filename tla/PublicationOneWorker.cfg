SPECIFICATION FairSpec
CONSTANTS
  Responses = {r1, r2}
  Clients = {c1, c2}
  ClientOf <- OwnClient
  Callers = {u1}
  Workers = {w1}
  Texts = {ta}
  Ops = {"approve", "cancel", "edit", "delete"}
  Grace = 1
  MinDelay = 3
  MaxDelay = 3
  Latency = 1
  Limit = 1
  NoReply = NoReply
  MaxTime = 4
  QueueBound = 1
  MaxCrashes = 1
  MaxTokens = 2
INVARIANTS
  SentOnce
  CompletedIsPublished
PROPERTIES
  PublishedIsFinal
  LifecycleHolds
  ScheduledIsDecided
CHECK_DEADLOCK FALSE
