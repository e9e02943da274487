\* Every component by itself: two probed endpoints, three balanced ones, two routed agents.
SPECIFICATION Spec
CONSTANTS
  Parts = {"health", "balancer", "attempts", "routing"}
  Endpoints = {e1, e2}
  HealthConfigs <- MCHealthConfigs
  MaxProbes = 5
  Servers = {"s1", "s2", "s3"}
  Weights <- MCWeights
  RoundTrip = 6
  MaxConnections = 2
  Policies <- MCPolicies
  MeshAgents = {1, 2}
  Capabilities = {"x", "y"}
  FullLoad = 2
  NewRecords <- MCNewRecords
  Updates <- MCUpdates
  Messages <- MCMessages
  Routers <- MCRouters
  Turns = 2
  MaxChanges = 2
INVARIANTS
  TypeOK
  StatusExplained
  BooksHonest
  AttemptsJustified
  RouteJust
CHECK_DEADLOCK FALSE
