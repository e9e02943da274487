\* A message expires in the queue, with discard_expired at its default.
SPECIFICATION Spec
CONSTANTS
  direct = direct
  broadcast = broadcast
  topical = topical
  a1 = a1
  a2 = a2
  news = news
  w1 = w1
  k1 = k1
  NoMessage = NoMessage
  NoAgent = NoAgent
  NoTopic = NoTopic
  Everyone = Everyone
  Messages = {direct, broadcast}
  Agents = {a1, a2}
  Topics = {}
  Workers = {w1}
  Controllers = {k1}
  Prio <- MCPrio
  Receiver <- MCReceiver
  Topic <- MCTopic
  HasTtl = {broadcast}
  QueueMax = 0
  DlqMax = 2
  MaxAttempts = 1
  DispatchWorkers = 1
  Environments = {{"discard"}}
INVARIANTS
  ExpiredAreDeadLettered
