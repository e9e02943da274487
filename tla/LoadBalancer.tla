---------------------------- MODULE LoadBalancer ----------------------------
(***************************************************************************)
(* resilience/load_balancer.py: the LoadBalancer.  Every operation is one  *)
(* critical section; what is hard is that the selection state (the round   *)
(* robin counter, the current weights, the connection counts) outlives     *)
(* the set of endpoints that it was built up for.                          *)
(*                                                                         *)
(* Weights are whole numbers.  The round robin counter is used modulo the  *)
(* number of healthy endpoints only and kept modulo RoundTrip, a common    *)
(* multiple of these numbers.                                              *)
(***************************************************************************)
EXTENDS Integers, Sequences, SequencesExt, FiniteSetsExt, Functions

CONSTANTS
  Servers,         \* endpoint names
  Weights,         \* the weights that each endpoint may be added with
  RoundTrip,       \* a common multiple of 1..Cardinality(Servers)
  MaxConnections   \* bound: the connections open to an endpoint

\* What ServiceEndpoint.__post_init__ accepts.
ValidWeights == Nat \ {0}

ASSUME LoadBalancerAssumption ==
  /\ IsFiniteSet(Servers)
  /\ Weights \in [Servers -> (SUBSET ValidWeights) \ {{}}]
  /\ \A s \in Servers : IsFiniteSet(Weights[s])
  /\ RoundTrip \in Nat \ {0}
  /\ \A n \in 1..Cardinality(Servers) : RoundTrip % n = 0

VARIABLES
  strategy,      \* the LoadBalancerStrategy that a behaviour's callers select with
  endpoints,     \* the names in LoadBalancer._endpoints, in their order
  weight,        \* their weights
  healthy,       \* LoadBalancer._health: the names that map to True
  connections,   \* LoadBalancer._connections
  rr_counter,    \* LoadBalancer._rr_counter
  credit,        \* LoadBalancer._wrr_current_weights
  held,          \* the connections that callers really hold to each endpoint
  removed,       \* the endpoints that have been removed
  renewed        \* whether an endpoint was added again

balancerVars == <<strategy, endpoints, weight, healthy, connections, rr_counter, credit,
                  held, removed, renewed>>

\* held, removed and renewed are history variables; only the callers look at held.

Names == Range(endpoints)
-----------------------------------------------------------------------------
BalancerInit ==
  /\ strategy \in {"round_robin", "weighted_round_robin", "least_connections"}
  /\ endpoints = <<>>
  /\ weight = [s \in Servers |-> 0]
  /\ healthy = {}
  /\ connections = [s \in Servers |-> 0]
  /\ rr_counter = 0
  /\ credit = [s \in Servers |-> 0]
  /\ held = [s \in Servers |-> 0]
  /\ removed = {}
  /\ renewed = FALSE

\* add_endpoint(): an endpoint added again keeps its place and its connections and
\* starts with no credit.
AddEndpoint(s, w, up) ==
  /\ endpoints' = IF s \in Names THEN endpoints ELSE Append(endpoints, s)
  /\ weight' = [weight EXCEPT ![s] = w]
  /\ healthy' = IF up THEN healthy \union {s} ELSE healthy \ {s}
  /\ credit' = [credit EXCEPT ![s] = 0]
  /\ renewed' = (renewed \/ s \in Names)
  /\ UNCHANGED <<strategy, connections, rr_counter, held, removed>>

\* remove_endpoint(): every trace of the endpoint goes.
RemoveEndpoint(s) ==
  /\ s \in Names
  /\ \E i \in DOMAIN endpoints : endpoints[i] = s /\ endpoints' = RemoveAt(endpoints, i)
  /\ weight' = [weight EXCEPT ![s] = 0]
  /\ healthy' = healthy \ {s}
  /\ connections' = [connections EXCEPT ![s] = 0]
  /\ credit' = [credit EXCEPT ![s] = 0]
  /\ removed' = removed \union {s}
  /\ UNCHANGED <<strategy, rr_counter, held, renewed>>

MarkHealthy(s) ==
  /\ s \in Names
  /\ healthy' = healthy \union {s}
  /\ UNCHANGED <<strategy, endpoints, weight, connections, rr_counter, credit, held,
                 removed, renewed>>

MarkUnhealthy(s) ==
  /\ s \in Names
  /\ healthy' = healthy \ {s}
  /\ UNCHANGED <<strategy, endpoints, weight, connections, rr_counter, credit, held,
                 removed, renewed>>

\* record_connection_open() and record_connection_close().  Callers close what they
\* opened; of an endpoint that is not registered the calls raise.
OpenConnection(s) ==
  /\ strategy = "least_connections"
  /\ s \in Names
  /\ held[s] < MaxConnections
  /\ connections' = [connections EXCEPT ![s] = @ + 1]
  /\ held' = [held EXCEPT ![s] = @ + 1]
  /\ UNCHANGED <<strategy, endpoints, weight, healthy, rr_counter, credit, removed,
                 renewed>>

Closed(n) == IF n > 0 THEN n - 1 ELSE 0

CloseConnection(s) ==
  /\ held[s] > 0
  /\ connections' = IF s \in Names THEN [connections EXCEPT ![s] = Closed(@)]
                                   ELSE connections
  /\ held' = [held EXCEPT ![s] = @ - 1]
  /\ UNCHANGED <<strategy, endpoints, weight, healthy, rr_counter, credit, removed,
                 renewed>>
-----------------------------------------------------------------------------
\* The places of the healthy endpoints: _healthy_list() keeps their order.
HealthyList == {i \in DOMAIN endpoints : endpoints[i] \in healthy}

\* The first healthy endpoint with the largest value.
FirstMost(value) ==
  endpoints[Min({i \in HealthyList :
                   \A j \in HealthyList : value[endpoints[j]] <= value[endpoints[i]]})]

\* select() with ROUND_ROBIN returns the healthy endpoint number
\* rr_counter % Cardinality(HealthyList), counted from zero.
SelectRoundRobin ==
  /\ strategy = "round_robin"
  /\ HealthyList # {}
  /\ rr_counter' = (rr_counter + 1) % RoundTrip
  /\ UNCHANGED <<strategy, endpoints, weight, healthy, connections, credit, held, removed,
                 renewed>>

\* Mutant of Charge: the winner pays the weight of all endpoints, healthy or not.
ChargeAll == MapThenSumSet(LAMBDA s : weight[s], Names)

\* What _weighted_round_robin() takes from the winner.
Charge == MapThenSumSet(LAMBDA s : weight[s], healthy)

\* select() with WEIGHTED_ROUND_ROBIN: all healthy endpoints earn their weight, the first
\* of the richest is chosen and pays.
SelectWeighted ==
  LET earned == [s \in Servers |-> IF s \in healthy THEN credit[s] + weight[s] ELSE credit[s]]
      best == FirstMost(earned)
  IN  /\ strategy = "weighted_round_robin"
      /\ HealthyList # {}
      /\ credit' = [earned EXCEPT ![best] = @ - Charge]
      /\ UNCHANGED <<strategy, endpoints, weight, healthy, connections, rr_counter, held,
                     removed, renewed>>

\* What select() returns with LEAST_CONNECTIONS; neither it nor RANDOM changes anything.
LeastConnections == FirstMost([s \in Servers |-> -connections[s]])

BalancerNext ==
  \/ \E s \in Servers :
       \/ \E w \in Weights[s], up \in BOOLEAN : AddEndpoint(s, w, up)
       \/ RemoveEndpoint(s)
       \/ MarkHealthy(s)
       \/ MarkUnhealthy(s)
       \/ OpenConnection(s)
       \/ CloseConnection(s)
  \/ SelectRoundRobin
  \/ SelectWeighted

BalancerSpec == BalancerInit /\ [][BalancerNext]_balancerVars
-----------------------------------------------------------------------------
\* Only registered endpoints are healthy, weighted, credited or counted.
BalancerTypeOK ==
  /\ IsInjective(endpoints)
  /\ Names \subseteq Servers
  /\ healthy \subseteq Names
  /\ rr_counter \in 0..(RoundTrip - 1)
  /\ \A s \in Servers \ Names : weight[s] = 0 /\ credit[s] = 0 /\ connections[s] = 0

\* The weight that all endpoints together can have.
FullWeight == SumFunction([s \in Servers |-> Max(Weights[s])])

\* No endpoint's current weight runs away while others fail, recover, leave and come
\* back: a healthy endpoint earns its weight at every selection that passes it over,
\* so the bound is what keeps it from being passed over for ever.  Failures that are timed
\* against an endpoint can make it wait longer than one round: the bound grows with the
\* number of the others.  As long as nobody left, the weights sum to zero, and the shares
\* follow the weights.
CreditBounded ==
  /\ \A s \in Names :
       LET swing == (Cardinality(Servers) - 1) * FullWeight IN credit[s] \in -swing..swing
  /\ removed = {} /\ ~renewed => MapThenSumSet(LAMBDA s : credit[s], Names) = 0

\* least_connections never believes that an endpoint holds more connections than it
\* really does, or fewer than none, and knows the number unless the endpoint was removed;
\* so as long as none was, it selects an endpoint that really holds the fewest.
ConnectionsKnown ==
  /\ \A s \in Names :
       /\ connections[s] \in 0..held[s]
       /\ s \notin removed => connections[s] = held[s]
  /\ removed = {} /\ healthy # {} =>
       \A s \in healthy : held[LeastConnections] <= held[s]

\* The balancer's books stand for what happened, through failures, recoveries, removals and
\* re-additions: credits for the shares that are owed, counts for the connections held.
BooksHonest == CreditBounded /\ ConnectionsKnown
=============================================================================
