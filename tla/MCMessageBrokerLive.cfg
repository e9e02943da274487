\* A broadcast and a message for a topic, of one priority.
SPECIFICATION FairSpec
CONSTANTS
  direct = direct
  broadcast = broadcast
  topical = topical
  a1 = a1
  a2 = a2
  news = news
  w1 = w1
  k1 = k1
  NoMessage = NoMessage
  NoAgent = NoAgent
  NoTopic = NoTopic
  Everyone = Everyone
  Messages = {broadcast, topical}
  Agents = {a1}
  Topics = {news}
  Workers = {w1}
  Controllers = {k1}
  Prio <- MCPrio
  Receiver <- MCReceiver
  Topic <- MCTopic
  HasTtl = {topical}
  QueueMax = 1
  DlqMax = 3
  MaxAttempts = 2
  DispatchWorkers = 1
  Environments = {{}, {"discard"}}
PROPERTIES
  EventuallySettled
