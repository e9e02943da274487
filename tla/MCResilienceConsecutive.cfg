\* Recovery tests with every threshold, fatal failures or not: the documented threshold.
SPECIFICATION Spec
CONSTANTS
  Parts = {"attempts"}
  Endpoints = {e1}
  HealthConfigs <- MCPatientConfigs
  MaxProbes = 5
  Servers = {"s1", "s2", "s3"}
  Weights <- MCWeights
  RoundTrip = 6
  MaxConnections = 2
  Policies <- MCPolicies
  MeshAgents = {1, 2}
  Capabilities = {"x", "y"}
  FullLoad = 2
  NewRecords <- MCNewRecords
  Updates <- MCUpdates
  Messages <- MCMessages
  Routers <- MCRouters
  Turns = 2
  MaxChanges = 2
INVARIANT
  ClosesOnConsecutive
CHECK_DEADLOCK FALSE
