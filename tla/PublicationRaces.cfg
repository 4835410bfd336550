SPECIFICATION Spec
CONSTANTS
  Responses = {r1}
  Clients = {c1}
  ClientOf <- OneClient
  Callers = {u1, u2}
  Workers = {w1, w2}
  Texts = {ta, tb}
  Ops = {"approve", "cancel", "edit", "regenerate"}
  Grace = 1
  MinDelay = 3
  MaxDelay = 3
  Latency = 1
  Limit = 2
  NoReply = NoReply
  MaxTime = 4
  QueueBound = 1
  MaxCrashes = 1
  MaxTokens = 2
SYMMETRY Symmetry
INVARIANTS
  TypeOK
  NothingSentEarly
  CancelStopsReply
  ShownTextIsRowText
  PublishedWasAccepted
CHECK_DEADLOCK FALSE
