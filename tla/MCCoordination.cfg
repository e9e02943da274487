\* Every component by itself: two agents and one publisher, three waiters, two queues,
\* four steps under each of the five executors.
SPECIFICATION Spec
CONSTANTS
  Components = {"topics", "detector", "throttle", "workflows"}
  Agents = {a1, a2}
  Patterns = {"ab", "Ab", "any"}
  Topics = {"t", "T"}
  Lower <- MCLower
  Matching <- MCMatching
  Publishers = {p1}
  Waiters = {1, 2, 3}
  Resources = {r1, r2}
  MaxEdges = 4
  MaxCycleLengths = {2, 3}
  Queues = {q1, q2}
  Offers <- MCOffers
  Depths = {0, 2}
  ScoreUnit = 2
  WarnAt = 0
  CriticalAt = 2
  BaseRate = 3
  MinRate = 1
  Capacity = 2
  Amounts = {2, 3}
  MaxIdle = 1
  Throttles = {{}, {"rivals", "timed"}}
  N = 4
  Unknown = 0
  Quorums = {1, 2, 3, 4}
  Executors = {"sequential", "parallel", "hierarchical", "competitive", "consensus"}
  Graphs <- MCGraphs
INVARIANTS
  MirrorsAgree
  SteadyAreNotified
  BooksAgree
  DetectsExactly
  RateRespected
  RefusedExactly
  DependenciesFollowed
  RaceJust
PROPERTIES
  TaskAnswered
  DecidedReturns
CHECK_DEADLOCK FALSE
