\* Every component by itself: three votes, two tasks, ten nested steps, one account with
\* three clients, one agent and its mesh.
SPECIFICATION Spec
CONSTANTS
  Services = {"voting", "tasks", "yaml", "quotas", "operator", "mesh"}
  Voters = {"boss", "staff"}
  Authority = "boss"
  Options = {1, 2, 3}
  Confidences = {0, 1}
  Sure = 1
  Protocols <- MCProtocols
  MaxVotes = 3
  TaskIds = {t1, t2}
  MaxTransitions = 5
  MaxArtifacts = 1
  Documents <- MCDocuments
  Keys = {"agent", "k", "j"}
  Contexts <- MCContexts
  Agents = {a1}
  Clients = {c1, c2, c3}
  Dimensions = {"tokens", "api_calls"}
  Unlimited = Unlimited
  NoQuota = NoQuota
  Nothing = Nothing
  Quotas <- MCQuotas
  Requests <- MCRequests
  Environments = {{"negative"}, {"split"}, {"replace"}, {"unchecked"}, {"split", "replace", "negative"}}
  MaxUsage = 9
  ReplicaCounts = {0, 2}
  Versions = {1, 2}
  MaxCreations = 3
  MaxFaults = 1
  AgentRefs <- MCAgentRefs
  CbConfigs <- MCCbConfigs
  MaxWait = 1
INVARIANTS
  OutcomeJustified
  OvershootBounded
  HistoryTold
  WorkflowTold
  ClusterSettles
  BreakerHonest
PROPERTIES
  SupportNeverHurts
  NeverPushedOver
  OverBudgetStops
CHECK_DEADLOCK FALSE
