SPECIFICATION Spec
CONSTANTS
  Responses = {r1}
  Clients = {c1}
  ClientOf <- OneClient
  Callers = {u1}
  Workers = {w1, w2}
  Texts = {ta}
  Ops = {"approve"}
  Grace = 1
  MinDelay = 3
  MaxDelay = 3
  Latency = 1
  Limit = 2
  NoReply = NoReply
  MaxTime = 4
  QueueBound = 1
  MaxCrashes = 0
  MaxTokens = 1
SYMMETRY Symmetry
INVARIANTS
  SentOnce
CHECK_DEADLOCK FALSE
