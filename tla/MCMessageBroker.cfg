\* Two workers, a direct message and one for a topic, a queue with room for one.
SPECIFICATION Spec
CONSTANTS
  direct = direct
  broadcast = broadcast
  topical = topical
  a1 = a1
  a2 = a2
  news = news
  w1 = w1
  w2 = w2
  k1 = k1
  NoMessage = NoMessage
  NoAgent = NoAgent
  NoTopic = NoTopic
  Everyone = Everyone
  Messages = {direct, topical}
  Agents = {a1, a2}
  Topics = {news}
  Workers = {w1, w2}
  Controllers = {k1}
  Prio <- MCPrio
  Receiver <- MCReceiver
  Topic <- MCTopic
  HasTtl = {topical}
  QueueMax = 1
  DlqMax = 2
  MaxAttempts = 2
  DispatchWorkers = 2
  Environments = {{"cancel"}, {"discard"}}
SYMMETRY TaskSymmetry
INVARIANTS
  UnfinishedCounted
  InOnePlace
  EveryTargetAnswered
  StopQuiesces
