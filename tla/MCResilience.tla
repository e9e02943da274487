---------------------------- MODULE MCResilience ----------------------------
(***************************************************************************)
(* Instances of HealthChecker, LoadBalancer, Attempts and Routing.  They   *)
(* share nothing, so a behaviour is one of a single component, and the     *)
(* others rest in an initial state.                                        *)
(***************************************************************************)
EXTENDS HealthChecker, LoadBalancer, Attempts, Routing, TLC

CONSTANT Parts   \* the components considered

VARIABLE part   \* the component that a behaviour is about

allVars == <<part, healthVars, balancerVars, attemptVars, routingVars>>

MCHealthConfigs ==
  {[healthy_threshold |-> h, unhealthy_threshold |-> u, max_history |-> m] :
     h \in {1, 2, 3}, u \in {1, 2, 3}, m \in {1, 2}}

MCPatientConfigs == {[healthy_threshold |-> 3, unhealthy_threshold |-> 2, max_history |-> 6]}

MCWeights == ("s1" :> {3}) @@ ("s2" :> {2}) @@ ("s3" :> {1})

Loop(l, n, jitter) ==
  [loop |-> l, limit |-> n, base_delay |-> 1, max_delay |-> 3, exponential_base |-> 2,
   jitter |-> jitter]

MCPolicies ==
  {Loop("retry", n, j) : n \in {1, 4}, j \in BOOLEAN}
  \union {Loop("http", n, FALSE) : n \in {1, 4}}
  \union
  {[loop |-> "recovery", limit |-> 4, success_threshold |-> s, stop_on_first_failure |-> f] :
     s \in {1, 3, 4}, f \in BOOLEAN}

MCNewRecords ==
  {[capabilities |-> {"x"}, cost |-> 1, load |-> 1],
   [capabilities |-> {}, cost |-> -1, load |-> 0]}

MCUpdates ==
  {[healthy |-> FALSE], [healthy |-> TRUE], [load |-> 0],
   [cost |-> 0, load |-> 3, healthy |-> TRUE]}

MCMessages ==
  {[receiver |-> {}, required |-> {"x", "y"}, budget |-> {0}],
   [receiver |-> {1}, required |-> {"x"}, budget |-> {}]}

Capability(all, tie) ==
  [name |-> "capability", require_all |-> all, tie_break_by_load |-> tie]

Simple(p) == [composite |-> FALSE, parts |-> <<p>>, weights |-> <<1>>]

LeastLoaded(ceiling) == [name |-> "least_loaded", load_ceiling |-> ceiling]

MCRouters ==
  {Simple(Capability(TRUE, TRUE)), Simple(Capability(FALSE, FALSE)), Simple([name |-> "cost"]),
   Simple([name |-> "round_robin"]), Simple(LeastLoaded(0)),
   [composite |-> TRUE, parts |-> <<[name |-> "cost"], LeastLoaded(1)>>, weights |-> <<1, 2>>]}

Init ==
  /\ part \in Parts
  /\ HealthInit /\ BalancerInit /\ AttemptInit /\ RoutingInit
  \* A component at rest is in one initial state.
  /\ part # "health" => health_config = CHOOSE c \in HealthConfigs : TRUE
  /\ part # "balancer" => strategy = "round_robin"
  /\ part # "attempts" => policy = CHOOSE p \in Policies : TRUE
  /\ part # "routing" => router = CHOOSE r \in Routers : TRUE

Health_ ==
  /\ part = "health" /\ HealthNext
  /\ UNCHANGED <<part, balancerVars, attemptVars, routingVars>>

Balancer_ ==
  /\ part = "balancer" /\ BalancerNext
  /\ UNCHANGED <<part, healthVars, attemptVars, routingVars>>

Attempts_ ==
  /\ part = "attempts" /\ AttemptNext
  /\ UNCHANGED <<part, healthVars, balancerVars, routingVars>>

Routing_ ==
  /\ part = "routing" /\ RoutingNext
  /\ UNCHANGED <<part, healthVars, balancerVars, attemptVars>>

Next == Health_ \/ Balancer_ \/ Attempts_ \/ Routing_

Spec == Init /\ [][Next]_allVars

\* Every component keeps its types.
TypeOK == HealthTypeOK /\ BalancerTypeOK /\ RoutingTypeOK
=============================================================================
