\* The operator alone, with an agent that users may set to 0 replicas: the documented budget.
SPECIFICATION Spec
CONSTANTS
  Services = {"operator"}
  Voters = {"boss", "staff"}
  Authority = "boss"
  Options = {1, 2, 3}
  Confidences = {0, 1}
  Sure = 1
  Protocols <- MCProtocols
  MaxVotes = 3
  TaskIds = {t1, t2}
  MaxTransitions = 5
  MaxArtifacts = 1
  Documents <- MCDocuments
  Keys = {"agent", "k", "j"}
  Contexts <- MCContexts
  Agents = {a1}
  Clients = {c1, c2, c3}
  Dimensions = {"tokens", "api_calls"}
  Unlimited = Unlimited
  NoQuota = NoQuota
  Nothing = Nothing
  Quotas <- MCQuotas
  Requests <- MCRequests
  Environments = {{"negative"}, {"split"}, {"replace"}, {"unchecked"}, {"split", "replace", "negative"}}
  MaxUsage = 9
  ReplicaCounts = {0, 2}
  Versions = {1, 2}
  MaxCreations = 3
  MaxFaults = 1
  AgentRefs <- MCAgentRefs
  CbConfigs <- MCCbConfigs
  MaxWait = 1
PROPERTY
  SuspendedWhenExceeded
CHECK_DEADLOCK FALSE
