-------------------------- MODULE ResilienceProofs --------------------------
(***************************************************************************)
(* Proofs about the components that decide which endpoints, agents and     *)
(* nodes are still in service, and what is done when they are not: the     *)
(* fleet, the health checker, the retry loops and the load balancer.  Each *)
(* is about its own specification.                                         *)
(***************************************************************************)
EXTENDS Fleet, HealthChecker, Attempts, LoadBalancer, FiniteLemmas

-----------------------------------------------------------------------------
(***************************************************************************)
(* Fleet, for every set of agents, nodes and checkers.                     *)
(***************************************************************************)

\* Ages are counted beyond both timeouts.
LEMMA MaxAgeType ==
  MaxAge \in Nat /\ MaxAge > HeartbeatTimeout /\ MaxAge > PruneTimeout
BY FleetAssumption DEF MaxAge

\* The nodes in the registry are nodes.
LEMMA RegisteredNodes == ASSUME TypeOK PROVE Registered \subseteq Nodes
BY DEF TypeOK, Registered

\* A heartbeat, with whatever status it leaves, keeps the types it touches.
LEMMA StampType ==
  ASSUME TypeOK, NEW n \in Nodes, NEW s \in Statuses, Stamp(n, s)
  PROVE  /\ age' \in [Nodes -> 0..MaxAge]
         /\ status' \in [Nodes -> Statuses]
         /\ check' \in [Checkers -> [silent: SUBSET Nodes, todo: SUBSET Nodes,
                                     suspect: Nodes \union {NoNode}]]
         /\ prune' \in [active: BOOLEAN, silent: SUBSET Nodes]
<1>1. age' \in [Nodes -> 0..MaxAge] /\ status' \in [Nodes -> Statuses]
  BY MaxAgeType DEF TypeOK, Stamp
<1>2. check' \in [Checkers -> [silent: SUBSET Nodes, todo: SUBSET Nodes,
                               suspect: Nodes \union {NoNode}]]
  <2>1. ASSUME NEW k \in Checkers
        PROVE  [check[k] EXCEPT !.silent = @ \ {n}]
                 \in [silent: SUBSET Nodes, todo: SUBSET Nodes, suspect: Nodes \union {NoNode}]
    BY DEF TypeOK
  <2>2. check' = [k \in Checkers |-> [check[k] EXCEPT !.silent = @ \ {n}]]
    BY DEF Stamp, Freshened
  <2> QED
    BY <2>1, <2>2
<1>3. prune' \in [active: BOOLEAN, silent: SUBSET Nodes]
  BY DEF TypeOK, Stamp, Freshened
<1> QED
  BY <1>1, <1>2, <1>3

\* Every action keeps the registry, the checks and the pruning in their types.
LEMMA TypeStep == TypeOK /\ [Next]_vars => TypeOK'
<1> SUFFICES ASSUME TypeOK, [Next]_vars PROVE TypeOK'
  OBVIOUS
<1> USE FleetAssumption, MaxAgeType, RegisteredNodes
<1>1. CASE Tick
  BY <1>1 DEF TypeOK, Tick
<1>2. ASSUME NEW n \in Nodes, NEW s \in Reported, Register(n, s) PROVE TypeOK'
  BY <1>2 DEF TypeOK, Register
<1>3. ASSUME NEW n \in Nodes, NEW s \in Statuses, Heartbeat(n, s) PROVE TypeOK'
  <2>1. Stamp(n, s)
    BY <1>3 DEF Heartbeat
  <2> QED
    BY <1>3, <2>1, StampType DEF TypeOK, Heartbeat
<1>4. ASSUME NEW a \in Agents, BeatEnd(a) PROVE TypeOK'
  <2>1. registry[a] \in Nodes
    BY <1>4 DEF TypeOK, BeatEnd
  <2>2. StatusLeft(registry[a], beat[a]) \in Statuses
    BY <2>1 DEF TypeOK, StatusLeft, Statuses
  <2>3. Stamp(registry[a], StatusLeft(registry[a], beat[a]))
    BY <1>4 DEF BeatEnd
  <2> QED
    BY <1>4, <2>1, <2>2, <2>3, StampType DEF TypeOK, BeatEnd
<1>5. ASSUME NEW a \in Agents, Deregister(a) \/ BeatBegin(a) \/ BeatRaises(a) PROVE TypeOK'
  BY <1>5 DEF TypeOK, Deregister, BeatBegin, BeatRaises
<1>6. CASE PruneBegin
  BY <1>6 DEF TypeOK, PruneBegin
<1>7. CASE PruneEnd
  BY <1>7 DEF TypeOK, PruneEnd, NoPrune
<1>8. CASE Start \/ Stop
  BY <1>8 DEF TypeOK, Start, Stop
<1>9. ASSUME NEW k \in Checkers, NEW ns \in SUBSET Nodes, CheckBegin(k, ns) PROVE TypeOK'
  BY <1>9 DEF TypeOK, CheckBegin, NoCheck
<1>10. ASSUME NEW k \in Checkers, CheckStep(k) PROVE TypeOK'
  <2>1. CASE CheckStatus(k)
    BY <2>1 DEF TypeOK, CheckStatus, Statuses
  <2>2. ASSUME NEW n \in Nodes, CheckAge(k, n) PROVE TypeOK'
    BY <2>2 DEF TypeOK, CheckAge
  <2> QED
    BY <1>10, <2>1, <2>2 DEF CheckStep
<1>11. CASE UNCHANGED vars
  BY <1>11 DEF TypeOK, vars
<1>12. \A n \in Nodes : status[n] \in Statuses
  BY DEF TypeOK
<1>13. \A n \in Registered : {n} \in SUBSET Nodes
  OBVIOUS
<1> QED
  BY <1>1, <1>2, <1>3, <1>4, <1>5, <1>6, <1>7, <1>8, <1>9, <1>10, <1>11, <1>12, <1>13
  DEF Next

\* The registry, the nodes and the calls in progress stay in their types.
THEOREM TypeCorrect == Spec => []TypeOK
<1>1. Init => TypeOK
  <2> SUFFICES ASSUME Init PROVE TypeOK
    OBVIOUS
  <2>1. running \in BOOLEAN /\ prune \in [active: BOOLEAN, silent: SUBSET Nodes]
    BY DEF Init, NoPrune
  <2>2. check \in [Checkers -> [silent: SUBSET Nodes, todo: SUBSET Nodes,
                                suspect: Nodes \union {NoNode}]]
    BY DEF Init, NoCheck
  <2>3. age \in [Nodes -> 0..MaxAge]
    BY MaxAgeType DEF Init
  <2> QED
    BY <2>1, <2>2, <2>3 DEF Init, TypeOK, Statuses
<1> QED
  BY <1>1, TypeStep, PTL DEF Spec
\* What the nodes that are UNHEALTHY, too old or suspected have in common: they were
\* too old once, or said so.
Accusations ==
  /\ \A n \in Nodes : status[n] = "UNHEALTHY" \/ age[n] > HeartbeatTimeout => n \in accused
  /\ \A k \in Checkers :
       /\ check[k].silent \subseteq accused
       /\ check[k].suspect \in accused \union {NoNode}

\* An accusation is only dropped when the object is registered anew, which needs an
\* object that no check refers to.
LEMMA AccusationsStep == TypeOK /\ Accusations /\ [Next]_vars => Accusations'
<1> SUFFICES ASSUME TypeOK, Accusations, [Next]_vars PROVE Accusations'
  OBVIOUS
<1> USE FleetAssumption, MaxAgeType, RegisteredNodes
<1>1. CASE Tick
  BY <1>1 DEF TypeOK, Accusations, Tick
<1>2. ASSUME NEW n \in Nodes, NEW s \in Reported, Register(n, s) PROVE Accusations'
  <2>1. \A k \in Checkers : n \notin check[k].silent /\ n # check[k].suspect
    BY <1>2 DEF Register, Referenced
  <2> QED
    BY <1>2, <2>1 DEF TypeOK, Accusations, Register
<1>3. ASSUME NEW n \in Nodes, NEW s \in Statuses, Stamp(n, s),
             accused \subseteq accused', s = "UNHEALTHY" => n \in accused'
      PROVE  Accusations'
  BY <1>3 DEF TypeOK, Accusations, Stamp, Freshened
<1>4. ASSUME NEW n \in Nodes, NEW s \in Statuses, Heartbeat(n, s) PROVE Accusations'
  BY <1>3, <1>4 DEF Heartbeat
<1>5. ASSUME NEW a \in Agents, BeatEnd(a) PROVE Accusations'
  <2>1. registry[a] \in Nodes
    BY <1>5 DEF TypeOK, BeatEnd
  <2>2. StatusLeft(registry[a], beat[a]) \in Statuses
    BY <2>1 DEF TypeOK, StatusLeft, Statuses
  <2>3. StatusLeft(registry[a], beat[a]) = "UNHEALTHY" => registry[a] \in accused
    BY <2>1 DEF Accusations, StatusLeft
  <2> QED
    BY <1>3, <1>5, <2>1, <2>2, <2>3 DEF BeatEnd
<1>6. ASSUME NEW a \in Agents, Deregister(a) \/ BeatBegin(a) \/ BeatRaises(a)
      PROVE  Accusations'
  BY <1>6 DEF Accusations, Deregister, BeatBegin, BeatRaises
<1>7. CASE PruneBegin \/ PruneEnd \/ Start \/ Stop
  BY <1>7 DEF Accusations, PruneBegin, PruneEnd, Start, Stop
<1>8. ASSUME NEW k \in Checkers, NEW ns \in SUBSET Nodes, CheckBegin(k, ns)
      PROVE  Accusations'
  BY <1>8 DEF TypeOK, Accusations, CheckBegin, NoCheck, TooOld
<1>9. ASSUME NEW k \in Checkers, CheckStep(k) PROVE Accusations'
  <2>1. CASE CheckStatus(k)
    BY <2>1 DEF TypeOK, Accusations, CheckStatus, Marked
  <2>2. ASSUME NEW n \in Nodes, CheckAge(k, n) PROVE Accusations'
    BY <2>2 DEF TypeOK, Accusations, CheckAge
  <2> QED
    BY <1>9, <2>1, <2>2 DEF CheckStep
<1>10. CASE UNCHANGED vars
  BY <1>10 DEF Accusations, vars
<1>11. \A n \in Nodes : status[n] \in Statuses
  BY DEF TypeOK
<1>12. \A n \in Registered : {n} \in SUBSET Nodes
  OBVIOUS
<1> QED
  BY <1>1, <1>2, <1>4, <1>5, <1>6, <1>7, <1>8, <1>9, <1>10, <1>11, <1>12 DEF Next

\* Only nodes that let the timeout pass without a heartbeat, or said so themselves, are
\* UNHEALTHY, whatever checks of their agents' former nodes are under way.
THEOREM AccusedCorrect == Spec => []OnlySilentAccused
<1>1. Init => Accusations
  BY FleetAssumption DEF Init, Accusations, NoCheck
<1>2. TypeOK /\ Accusations => OnlySilentAccused
  BY RegisteredNodes DEF Accusations, OnlySilentAccused
<1> QED
  BY <1>1, <1>2, TypeCorrect, AccusationsStep, PTL DEF Spec

\* What prune_stale() has found too old, and no heartbeat has renewed since, is too old.
StillTooOld == \A n \in prune.silent : age[n] > PruneTimeout

\* Time only adds to an age, and a heartbeat takes its node off the list.
LEMMA StillTooOldStep == TypeOK /\ StillTooOld /\ [Next]_vars => StillTooOld'
<1> SUFFICES ASSUME TypeOK, StillTooOld, [Next]_vars PROVE StillTooOld'
  OBVIOUS
<1> USE FleetAssumption, MaxAgeType, RegisteredNodes
<1>1. CASE Tick
  BY <1>1 DEF TypeOK, StillTooOld, Tick
<1>2. ASSUME NEW n \in Nodes, NEW s \in Reported, Register(n, s) PROVE StillTooOld'
  BY <1>2 DEF TypeOK, StillTooOld, Register, Referenced
<1>3. ASSUME NEW n \in Nodes, NEW s, Stamp(n, s) PROVE StillTooOld'
  BY <1>3 DEF TypeOK, StillTooOld, Stamp, Freshened
<1>4. ASSUME NEW n \in Nodes, NEW s, Heartbeat(n, s) PROVE StillTooOld'
  BY <1>3, <1>4 DEF Heartbeat
<1>5. ASSUME NEW a \in Agents, BeatEnd(a) PROVE StillTooOld'
  BY <1>3, <1>5 DEF TypeOK, BeatEnd
<1>6. ASSUME NEW a \in Agents, Deregister(a) \/ BeatBegin(a) \/ BeatRaises(a)
      PROVE  StillTooOld'
  BY <1>6 DEF StillTooOld, Deregister, BeatBegin, BeatRaises
<1>7. CASE PruneBegin
  BY <1>7 DEF StillTooOld, PruneBegin, TooOld
<1>8. CASE PruneEnd
  BY <1>8 DEF StillTooOld, PruneEnd, NoPrune
<1>9. CASE Start \/ Stop
  BY <1>9 DEF StillTooOld, Start, Stop
<1>10. ASSUME NEW k \in Checkers, NEW ns, CheckBegin(k, ns) PROVE StillTooOld'
  BY <1>10 DEF StillTooOld, CheckBegin
<1>11. ASSUME NEW k \in Checkers, CheckStep(k) PROVE StillTooOld'
  BY <1>11 DEF StillTooOld, CheckStep, CheckStatus, CheckAge
<1>12. CASE UNCHANGED vars
  BY <1>12 DEF StillTooOld, vars
<1> QED
  BY <1>1, <1>2, <1>4, <1>5, <1>6, <1>7, <1>8, <1>9, <1>10, <1>11, <1>12 DEF Next

\* prune_stale() removes no node that has had a heartbeat within the timeout by then.
THEOREM PrunedCorrect == Spec => PrunedWereSilent
<1> DEFINE Removal ==
      PruneEnd => \A a \in Agents : registry[a] # NoNode /\ registry'[a] = NoNode =>
        age[registry[a]] > PruneTimeout
<1>1. Init => StillTooOld
  BY DEF Init, StillTooOld, NoPrune
<1>2. TypeOK /\ StillTooOld /\ [Next]_vars => [Removal]_vars
  BY DEF StillTooOld, PruneEnd
<1> QED
  BY <1>1, <1>2, TypeCorrect, StillTooOldStep, PTL DEF Spec, PrunedWereSilent

-----------------------------------------------------------------------------
(***************************************************************************)
(* HealthChecker, for every set of endpoints and every configuration that  *)
(* HealthCheckConfig accepts, and any number of probes.                    *)
(***************************************************************************)

\* The last f outcomes are failures, and the one before is none.
FailsLast(o, f) ==
  /\ f <= Len(o)
  /\ \A i \in 1..Len(o) : i > Len(o) - f => ~o[i]
  /\ f < Len(o) => o[Len(o) - f]

\* The counts are those of the outcomes.
Counted(e) ==
  /\ history[e] = <<>> <=> outcomes[e] = <<>>
  /\ FailsLast(outcomes[e], consecutive_failures[e])
  /\ consecutive_failures[e] > 0 => consecutive_successes[e] = 0

\* The types, with the counts those of the outcomes.
HealthKept ==
  /\ health_config \in HealthConfigs
  /\ history \in [Endpoints -> Seq({"healthy", "degraded", "unhealthy"})]
  /\ \A e \in Endpoints : Len(history[e]) <= health_config.max_history
  /\ consecutive_successes \in [Endpoints -> Nat]
  /\ consecutive_failures \in [Endpoints -> Nat]
  /\ outcomes \in [Endpoints -> Seq(BOOLEAN)]
  /\ \A e \in Endpoints : Counted(e)

\* Down, in terms of the count of failures.
LEMMA DownIs ==
  ASSUME health_config \in HealthConfigs, NEW o \in Seq(BOOLEAN), NEW f \in Nat, FailsLast(o, f)
  PROVE  Down(o) <=> f > 0 /\ (f = Len(o) \/ f >= health_config.unhealthy_threshold)
<1>0. /\ Len(o) \in Nat /\ DOMAIN o = 1..Len(o) /\ f \in Nat /\ f <= Len(o)
      /\ health_config.unhealthy_threshold \in Nat
  BY HealthAssumption DEF HealthCheckConfig, FailsLast
<1>1. o = <<>> <=> Len(o) = 0
  OBVIOUS
<1>2. ASSUME Down(o) PROVE f > 0 /\ (f = Len(o) \/ f >= health_config.unhealthy_threshold)
  <2>1. Len(o) > 0 /\ ~o[Len(o)]
    BY <1>0, <1>1, <1>2 DEF Down, Last
  <2>2. f > 0
    <3>1. f = 0 => o[Len(o)]
      BY <1>0, <2>1 DEF FailsLast
    <3>2. QED BY <1>0, <2>1, <3>1
  <2>3. CASE \A i \in DOMAIN o : ~o[i]
    <3>1. ~(f < Len(o))
      <4>1. f < Len(o) => Len(o) - f \in DOMAIN o
        BY <1>0
      <4>2. f < Len(o) => o[Len(o) - f]
        BY DEF FailsLast
      <4>3. QED BY <2>3, <4>1, <4>2, Zenon
    <3>2. f <= Len(o) /\ Len(o) \in Nat
      BY <1>0
    <3>3. QED BY <2>2, <3>1, <3>2
  <2>4. ASSUME NEW n \in 1..Len(o), n >= health_config.unhealthy_threshold,
               \A i \in (Len(o) - n + 1)..Len(o) : ~o[i]
        PROVE  f >= health_config.unhealthy_threshold
    <3>1. ASSUME f < n PROVE FALSE
      <4>1. f < Len(o) /\ Len(o) - f \in (Len(o) - n + 1)..Len(o)
        BY <1>0, <3>1
      <4>2. QED BY <2>4, <4>1 DEF FailsLast
    <3>2. QED BY <1>0, <2>4, <3>1
  <2>5. \/ \A i \in DOMAIN o : ~o[i]
        \/ \E n \in 1..Len(o) : /\ n >= health_config.unhealthy_threshold
                                /\ \A i \in (Len(o) - n + 1)..Len(o) : ~o[i]
    BY <1>2, Zenon DEF Down
  <2>6. QED BY <2>2, <2>3, <2>4, <2>5, Zenon
<1>3. ASSUME f > 0, f = Len(o) \/ f >= health_config.unhealthy_threshold PROVE Down(o)
  <2>0. f > 0 /\ f <= Len(o) /\ Len(o) \in Nat
    BY <1>0, <1>3
  <2>1. Len(o) > 0 /\ Len(o) \in 1..Len(o) /\ Len(o) > Len(o) - f /\ f \in 1..Len(o)
    BY <2>0
  <2>2. o # <<>> /\ ~Last(o)
    BY <1>1, <2>1 DEF FailsLast, Last
  <2>3. CASE f = Len(o)
    <3>1. \A i \in 1..Len(o) : i > Len(o) - f
      BY <1>0, <2>3
    <3>2. \A i \in DOMAIN o : ~o[i]
      BY <1>0, <3>1 DEF FailsLast
    <3>3. QED BY <2>2, <3>2, Zenon DEF Down
  <2>4. CASE f >= health_config.unhealthy_threshold
    <3>1. \A i \in (Len(o) - f + 1)..Len(o) : i \in 1..Len(o) /\ i > Len(o) - f
      BY <1>0
    <3>2. QED BY <2>1, <2>2, <2>4, <3>1 DEF FailsLast, Down
  <2>5. QED BY <1>3, <2>3, <2>4
<1>4. QED BY <1>2, <1>3

\* The counts after one more outcome.
LEMMA FailsLastNext ==
  ASSUME NEW o \in Seq(BOOLEAN), NEW f \in Nat, FailsLast(o, f), NEW success \in BOOLEAN
  PROVE  FailsLast(Append(o, success), IF success THEN 0 ELSE f + 1)
<1> DEFINE p == Append(o, success)
<1>0. Len(o) \in Nat /\ f \in Nat /\ f <= Len(o)
  BY DEF FailsLast
<1>1. /\ Len(p) = Len(o) + 1 /\ p[Len(o) + 1] = success
      /\ \A i \in 1..Len(o) : p[i] = o[i]
  OBVIOUS
<1> HIDE DEF p
<1>2. CASE success
  BY <1>0, <1>1, <1>2 DEF FailsLast
<1>3. CASE ~success
  <2>1. ASSUME NEW i \in 1..Len(p), i > Len(p) - (f + 1) PROVE ~p[i]
    <3>1. CASE i = Len(o) + 1
      BY <1>1, <1>3, <3>1
    <3>2. CASE i # Len(o) + 1
      <4>1. i \in 1..Len(o) /\ i > Len(o) - f
        BY <1>0, <1>1, <2>1, <3>2
      <4>2. QED BY <1>1, <4>1 DEF FailsLast
    <3>3. QED BY <3>1, <3>2
  <2>2. ASSUME f + 1 < Len(p) PROVE p[Len(p) - (f + 1)]
    <3>1. f < Len(o) /\ Len(p) - (f + 1) = Len(o) - f /\ Len(o) - f \in 1..Len(o)
      BY <1>0, <1>1, <2>2
    <3>2. QED BY <1>1, <3>1 DEF FailsLast
  <2>3. f + 1 \in Nat /\ f + 1 <= Len(p)
    BY <1>0, <1>1
  <2>4. FailsLast(p, f + 1)
    BY <2>1, <2>2, <2>3 DEF FailsLast
  <2>5. QED BY <1>3, <2>4 DEF p
<1>4. QED BY <1>2, <1>3 DEF p

\* A probe that is counted.
LEMMA ProbeCounted ==
  ASSUME HealthKept, NEW e \in Endpoints, NEW answer \in {"ok", "raises", "late"},
         CheckEndpoint(e, answer), NEW success, success = (answer = "ok"),
         NEW st, st = StatusAfter(e, success,
                                  IF success THEN consecutive_successes[e] + 1 ELSE 0,
                                  IF success THEN 0 ELSE consecutive_failures[e] + 1)
  PROVE  /\ HealthKept'
         /\ st \in {"healthy", "degraded", "unhealthy"}
         /\ outcomes'[e] = Append(outcomes[e], success) /\ Last(history'[e]) = st
         /\ history'[e] # <<>>
         /\ \A x \in Endpoints \ {e} : outcomes'[x] = outcomes[x] /\ history'[x] = history[x]
<1> DEFINE Stats == {"healthy", "degraded", "unhealthy"}
           n == IF success THEN consecutive_successes[e] + 1 ELSE 0
           f == IF success THEN 0 ELSE consecutive_failures[e] + 1
<1>0. /\ success \in BOOLEAN /\ health_config.max_history \in Nat \ {0}
      /\ history[e] \in Seq(Stats) /\ Len(history[e]) <= health_config.max_history
      /\ outcomes[e] \in Seq(BOOLEAN) /\ consecutive_failures[e] \in Nat
      /\ consecutive_successes[e] \in Nat /\ Counted(e)
  BY HealthAssumption DEF HealthKept, HealthCheckConfig
<1>1. /\ health_config' = health_config
      /\ consecutive_successes' = [consecutive_successes EXCEPT ![e] = n]
      /\ consecutive_failures' = [consecutive_failures EXCEPT ![e] = f]
      /\ history' = [history EXCEPT ![e] = Remember(history[e], st)]
      /\ outcomes' = [outcomes EXCEPT ![e] = Append(outcomes[e], success)]
  BY DEF CheckEndpoint
<1>2. st \in Stats
  BY DEF StatusAfter
<1>3. PICK h : h = Remember(history[e], st)
  OBVIOUS
<1>4. h \in Seq(Stats) /\ Len(h) <= health_config.max_history /\ h # <<>> /\ h[Len(h)] = st
  <2>1. CASE Len(history[e]) < health_config.max_history
    BY <1>0, <1>2, <1>3, <2>1 DEF Remember
  <2>2. CASE ~(Len(history[e]) < health_config.max_history)
    <3>1. history[e] # <<>>
      BY <1>0, <2>2
    <3>2. PICK t \in Seq(Stats) : t = Tail(history[e]) /\ Len(t) = Len(history[e]) - 1
      <4>1. PICK s \in Seq(Stats) : s = history[e] /\ s # <<>>
        BY <1>0, <3>1
      <4>2. Tail(s) \in Seq(Stats) /\ Len(Tail(s)) = Len(s) - 1
        BY <4>1
      <4>3. QED BY <4>1, <4>2
    <3>3. h = Append(t, st)
      BY <1>3, <2>2, <3>2 DEF Remember
    <3>4. h \in Seq(Stats) /\ Len(h) = Len(history[e]) /\ h[Len(t) + 1] = st /\ Len(h) = Len(t) + 1
      BY <1>0, <1>2, <3>2, <3>3
    <3>5. QED BY <1>0, <3>1, <3>4
  <2>3. QED BY <2>1, <2>2
<1>5. PICK o : o = Append(outcomes[e], success)
  OBVIOUS
<1>6. o \in Seq(BOOLEAN) /\ o # <<>> /\ FailsLast(o, f)
  <2>1. FailsLast(o, f)
    BY <1>0, <1>5, FailsLastNext DEF Counted
  <2>2. QED BY <1>0, <1>5, <2>1
<1>7. /\ history'[e] = h /\ outcomes'[e] = o
      /\ consecutive_failures'[e] = f /\ consecutive_successes'[e] = n
      /\ \A x \in Endpoints \ {e} : /\ outcomes'[x] = outcomes[x] /\ history'[x] = history[x]
                                    /\ consecutive_failures'[x] = consecutive_failures[x]
                                    /\ consecutive_successes'[x] = consecutive_successes[x]
  BY <1>1, <1>3, <1>5 DEF HealthKept
<1>8. n \in Nat /\ f \in Nat /\ (f > 0 => n = 0)
  BY <1>0
<1> HIDE DEF n, f, Stats
<1>9. \A x \in Endpoints : Counted(x)'
  <2>1. Counted(e)'
    BY <1>4, <1>6, <1>7, <1>8 DEF Counted
  <2>2. ASSUME NEW x \in Endpoints \ {e} PROVE Counted(x)'
    BY <1>7, <2>2 DEF Counted, HealthKept
  <2>3. QED BY <2>1, <2>2
<1>10. HealthKept'
  <2>1. history' \in [Endpoints -> Seq(Stats)] /\ outcomes' \in [Endpoints -> Seq(BOOLEAN)]
    BY <1>1, <1>3, <1>4, <1>5, <1>6 DEF HealthKept, Stats
  <2>2. /\ consecutive_successes' \in [Endpoints -> Nat]
        /\ consecutive_failures' \in [Endpoints -> Nat]
    BY <1>1, <1>8 DEF HealthKept
  <2>3. \A x \in Endpoints : Len(history'[x]) <= health_config'.max_history
    BY <1>1, <1>4, <1>7 DEF HealthKept
  <2>4. QED BY <1>1, <1>9, <2>1, <2>2, <2>3 DEF HealthKept, Stats
<1>11. QED BY <1>2, <1>4, <1>5, <1>7, <1>10 DEF Last, Stats

\* The status that outcomes call for.
Explained(e) ==
  LET o == outcomes[e]
  IN  o # <<>> =>
        LastStatus(e) =
          CASE Down(o) -> "unhealthy"
            [] ~Down(o) /\ ~Last(o) -> "degraded"
            [] Last(o) -> IF Down(Front(o)) /\ health_config.healthy_threshold > 1
                            THEN "degraded" ELSE "healthy"

\* The status after a probe is the one that the outcomes call for.
LEMMA ProbeExplained ==
  ASSUME HealthKept, NEW e \in Endpoints, Explained(e),
         NEW answer \in {"ok", "raises", "late"}, CheckEndpoint(e, answer)
  PROVE  Explained(e)'
<1>1. PICK success \in BOOLEAN : success = (answer = "ok")
  OBVIOUS
<1>2. PICK n, f : /\ n = IF success THEN consecutive_successes[e] + 1 ELSE 0
                  /\ f = IF success THEN 0 ELSE consecutive_failures[e] + 1
  OBVIOUS
<1>3. PICK st : st = StatusAfter(e, success, n, f)
  OBVIOUS
<1>4. /\ HealthKept' /\ st \in {"healthy", "degraded", "unhealthy"}
      /\ outcomes'[e] = Append(outcomes[e], success) /\ Last(history'[e]) = st
      /\ history'[e] # <<>>
  BY <1>1, <1>2, <1>3, ProbeCounted
<1>5. PICK o \in Seq(BOOLEAN), p \in Seq(BOOLEAN) :
        /\ o = outcomes[e] /\ p = outcomes'[e] /\ p = Append(o, success)
  BY <1>4 DEF HealthKept
<1>6. p # <<>> /\ Last(p) = success /\ Front(p) = o
  BY <1>5 DEF Last, Front
<1>7. health_config' = health_config /\ health_config \in HealthConfigs
  BY DEF CheckEndpoint, HealthKept
<1>8. PICK g \in Nat : g = consecutive_failures[e] /\ FailsLast(o, g)
  BY <1>5 DEF HealthKept, Counted
<1>9. f \in Nat /\ FailsLast(p, f)
  <2>1. FailsLast(Append(o, success), IF success THEN 0 ELSE g + 1)
    BY <1>8, FailsLastNext
  <2>2. f = IF success THEN 0 ELSE g + 1
    BY <1>2, <1>8
  <2>3. QED BY <1>5, <1>8, <2>1, <2>2
<1>10. PICK ut \in Nat, ht \in Nat : /\ ut = health_config.unhealthy_threshold
                                     /\ ht = health_config.healthy_threshold /\ 0 < ht
  BY <1>7, HealthAssumption DEF HealthCheckConfig
<1>11. Down(o) <=> g > 0 /\ (g = Len(o) \/ g >= ut)
  BY <1>7, <1>8, <1>10, DownIs
<1>12. Down(p) <=> f > 0 /\ (f = Len(p) \/ f >= ut)
  BY <1>7, <1>9, <1>10, DownIs
<1>13. \A q : Down(q)' <=> Down(q)
  BY <1>7 DEF Down
<1>14. Len(p) = Len(o) + 1 /\ Len(o) \in Nat /\ (o = <<>> <=> Len(o) = 0)
  BY <1>5
<1>15. LastStatus(e)' = st
  BY <1>4 DEF LastStatus, Last
<1>16. LastStatus(e) = "unknown" <=> o = <<>>
  <2>1. history[e] \in Seq({"healthy", "degraded", "unhealthy"}) /\ (history[e] = <<>> <=> o = <<>>)
    BY <1>5 DEF HealthKept, Counted
  <2>2. history[e] # <<>> => Last(history[e]) \in {"healthy", "degraded", "unhealthy"}
    BY <2>1 DEF Last
  <2>3. QED BY <2>1, <2>2 DEF LastStatus
<1>17. o # <<>> => /\ LastStatus(e) \in {"healthy", "degraded", "unhealthy"}
                   /\ LastStatus(e) = "unhealthy" <=> Down(o)
  <2>1. o # <<>> => Last(o) \in BOOLEAN
    BY <1>5 DEF Last
  <2>2. ASSUME o # <<>>
        PROVE  LastStatus(e) =
                 CASE Down(o) -> "unhealthy"
                   [] ~Down(o) /\ ~Last(o) -> "degraded"
                   [] Last(o) -> IF Down(Front(o)) /\ health_config.healthy_threshold > 1
                                   THEN "degraded" ELSE "healthy"
    BY <1>5, <2>2, Zenon DEF Explained
  <2>3. Down(o) => ~Last(o)
    BY DEF Down
  <2>4. ASSUME o # <<>>, Down(o) PROVE LastStatus(e) = "unhealthy"
    BY <2>2, <2>3, <2>4
  <2>5. ASSUME o # <<>>, ~Down(o), ~Last(o) PROVE LastStatus(e) = "degraded"
    BY <2>2, <2>5
  <2>6. ASSUME o # <<>>, ~Down(o), Last(o) PROVE LastStatus(e) \in {"healthy", "degraded"}
    BY <2>2, <2>6
  <2>7. QED BY <2>1, <2>4, <2>5, <2>6
<1>18. LastStatus(e)' = CASE Down(p) -> "unhealthy"
                          [] ~Down(p) /\ ~success -> "degraded"
                          [] success -> IF Down(o) /\ ht > 1 THEN "degraded" ELSE "healthy"
  <2>1. CASE success
    <3>1. ~Down(p)
      BY <1>2, <1>12, <2>1
    <3>2. CASE o = <<>>
      <4>1. ~Down(o)
        BY <3>2 DEF Down
      <4>2. st = "healthy"
        BY <1>3, <1>16, <2>1, <3>2 DEF StatusAfter
      <4>3. QED BY <1>15, <2>1, <3>1, <4>1, <4>2
    <3>3. CASE o # <<>> /\ Down(o)
      <4>1. consecutive_successes[e] = 0
        BY <1>8, <1>11, <3>3 DEF HealthKept, Counted
      <4>2. n = 1
        BY <1>2, <2>1, <4>1
      <4>3. LastStatus(e) = "unhealthy"
        BY <1>17, <3>3
      <4>4. st = IF 1 >= ht THEN "healthy" ELSE "degraded"
        BY <1>3, <1>10, <2>1, <4>2, <4>3 DEF StatusAfter
      <4>5. QED BY <1>10, <1>15, <2>1, <3>1, <3>3, <4>4
    <3>4. CASE o # <<>> /\ ~Down(o)
      <4>1. LastStatus(e) \in {"healthy", "degraded"}
        BY <1>17, <3>4
      <4>2. st = "healthy"
        BY <1>3, <2>1, <4>1 DEF StatusAfter
      <4>3. QED BY <1>15, <2>1, <3>1, <3>4, <4>2
    <3>5. QED BY <3>2, <3>3, <3>4
  <2>2. CASE ~success
    <3>0. f = g + 1
      BY <1>2, <1>8, <2>2
    <3>1. st = IF Down(p) THEN "unhealthy" ELSE "degraded"
      <4>1. CASE o = <<>>
        <5>1. g = 0 /\ f = Len(p)
          BY <1>8, <1>14, <3>0, <4>1 DEF FailsLast
        <5>2. Down(p)
          BY <1>8, <1>12, <3>0, <5>1
        <5>3. st = "unhealthy"
          BY <1>3, <1>16, <2>2, <4>1 DEF StatusAfter
        <5>4. QED BY <5>2, <5>3
      <4>2. CASE o # <<>> /\ Down(o)
        <5>1. Down(p)
          BY <1>8, <1>10, <1>11, <1>12, <1>14, <3>0, <4>2
        <5>2. LastStatus(e) = "unhealthy"
          BY <1>17, <4>2
        <5>3. st = "unhealthy"
          BY <1>3, <2>2, <5>2 DEF StatusAfter
        <5>4. QED BY <5>1, <5>3
      <4>3. CASE o # <<>> /\ ~Down(o)
        <5>1. LastStatus(e) \in {"healthy", "degraded"}
          BY <1>17, <4>3
        <5>2. st = IF f >= ut THEN "unhealthy" ELSE "degraded"
          BY <1>3, <1>10, <2>2, <5>1 DEF StatusAfter
        <5>3. Down(p) <=> f >= ut
          BY <1>8, <1>10, <1>11, <1>12, <1>14, <3>0, <4>3
        <5>4. QED BY <5>2, <5>3
      <4>4. QED BY <4>1, <4>2, <4>3
    <3>2. QED BY <1>15, <2>2, <3>1
  <2>3. QED BY <2>1, <2>2
<1>19. QED
  <2>1. health_config'.healthy_threshold = ht
    BY <1>7, <1>10
  <2>2. outcomes'[e] = p
    BY <1>5
  <2>3. Down(p)' <=> Down(p)
    BY <1>13
  <2>4. Down(o)' <=> Down(o)
    BY <1>13
  <2>5. QED BY <1>6, <1>18, <2>1, <2>2, <2>3, <2>4 DEF Explained

\* Every probe and every clearing keeps the counts and the explanation.
LEMMA HealthStep ==
  ASSUME HealthKept, \A e \in Endpoints : Explained(e), [HealthNext]_healthVars
  PROVE  HealthKept' /\ \A e \in Endpoints : Explained(e)'
<1>1. ASSUME NEW e \in Endpoints, NEW answer \in {"ok", "raises", "late"},
             CheckEndpoint(e, answer)
      PROVE  HealthKept' /\ \A x \in Endpoints : Explained(x)'
  <2>1. PICK success, st :
          /\ success = (answer = "ok")
          /\ st = StatusAfter(e, success,
                              IF success THEN consecutive_successes[e] + 1 ELSE 0,
                              IF success THEN 0 ELSE consecutive_failures[e] + 1)
    OBVIOUS
  <2>2. /\ HealthKept'
        /\ \A x \in Endpoints \ {e} : outcomes'[x] = outcomes[x] /\ history'[x] = history[x]
    BY <1>1, <2>1, ProbeCounted
  <2>3. health_config' = health_config
    BY <1>1 DEF CheckEndpoint
  <2>4. ASSUME NEW x \in Endpoints \ {e} PROVE Explained(x)'
    BY <2>2, <2>3, <2>4 DEF Explained, LastStatus, Down
  <2>5. Explained(e)'
    BY <1>1, ProbeExplained
  <2>6. QED BY <2>2, <2>4, <2>5
<1>2. ASSUME NEW names \in SUBSET Endpoints, ClearHistory(names)
      PROVE  HealthKept' /\ \A x \in Endpoints : Explained(x)'
  <2>0. health_config' = health_config /\ health_config.max_history \in Nat
    <3>1. health_config \in HealthCheckConfig
      BY HealthAssumption DEF HealthKept
    <3>2. health_config.max_history \in Nat
      BY <3>1 DEF HealthCheckConfig
    <3>3. QED BY <1>2, <3>2 DEF ClearHistory
  <2>1. ASSUME NEW x \in Endpoints
        PROVE  \/ /\ outcomes'[x] = <<>> /\ history'[x] = <<>>
                  /\ consecutive_failures'[x] = 0 /\ consecutive_successes'[x] = 0
               \/ /\ outcomes'[x] = outcomes[x] /\ history'[x] = history[x]
                  /\ consecutive_failures'[x] = consecutive_failures[x]
                  /\ consecutive_successes'[x] = consecutive_successes[x]
    BY <1>2 DEF ClearHistory
  <2>2. ASSUME NEW x \in Endpoints PROVE Counted(x)' /\ Explained(x)'
    <3>1. CASE /\ outcomes'[x] = <<>> /\ history'[x] = <<>>
               /\ consecutive_failures'[x] = 0 /\ consecutive_successes'[x] = 0
      BY <3>1 DEF Counted, Explained, FailsLast
    <3>2. CASE /\ outcomes'[x] = outcomes[x] /\ history'[x] = history[x]
               /\ consecutive_failures'[x] = consecutive_failures[x]
               /\ consecutive_successes'[x] = consecutive_successes[x]
      <4>1. Counted(x)'
        BY <3>2 DEF Counted, HealthKept
      <4>2. Explained(x)'
        BY <2>0, <3>2 DEF Explained, LastStatus, Down
      <4>3. QED BY <4>1, <4>2
    <3>3. QED BY <2>1, <3>1, <3>2
  <2>3. /\ history' \in [Endpoints -> Seq({"healthy", "degraded", "unhealthy"})]
        /\ outcomes' \in [Endpoints -> Seq(BOOLEAN)]
    <3>1. PICK S : S = {"healthy", "degraded", "unhealthy"}
      OBVIOUS
    <3>2. <<>> \in Seq(S) /\ <<>> \in Seq(BOOLEAN)
      OBVIOUS
    <3>3. /\ \A x \in Endpoints : history[x] \in Seq(S) /\ outcomes[x] \in Seq(BOOLEAN)
          /\ history' = [x \in Endpoints |-> IF x \in names THEN <<>> ELSE history[x]]
          /\ outcomes' = [x \in Endpoints |-> IF x \in names THEN <<>> ELSE outcomes[x]]
      BY <1>2, <3>1 DEF ClearHistory, HealthKept
    <3>4. history' \in [Endpoints -> Seq(S)] /\ outcomes' \in [Endpoints -> Seq(BOOLEAN)]
      BY <3>2, <3>3
    <3>5. QED BY <3>1, <3>4
  <2>4. /\ consecutive_successes' \in [Endpoints -> Nat]
        /\ consecutive_failures' \in [Endpoints -> Nat]
    BY <1>2 DEF ClearHistory, HealthKept
  <2>5. ASSUME NEW x \in Endpoints PROVE Len(history'[x]) <= health_config'.max_history
    BY <2>0, <2>1 DEF HealthKept
  <2>6. QED BY <2>0, <2>2, <2>3, <2>4, <2>5 DEF HealthKept
<1>3. ASSUME UNCHANGED healthVars
      PROVE  HealthKept' /\ \A x \in Endpoints : Explained(x)'
  <2>1. HealthKept'
    BY <1>3 DEF healthVars, HealthKept, Counted
  <2>2. ASSUME NEW x \in Endpoints PROVE Explained(x)'
    BY <1>3 DEF healthVars, Explained, LastStatus, Down
  <2>3. QED BY <2>1, <2>2
<1>4. QED BY <1>1, <1>2, <1>3 DEF HealthNext

\* What a checker starts with.
LEMMA HealthStart == HealthInit => HealthKept /\ \A e \in Endpoints : Explained(e)
<1> SUFFICES ASSUME HealthInit PROVE HealthKept /\ \A e \in Endpoints : Explained(e)
  OBVIOUS
<1>1. health_config.max_history \in Nat
  BY HealthAssumption DEF HealthInit, HealthCheckConfig
<1>2. ASSUME NEW e \in Endpoints
      PROVE  Counted(e) /\ Explained(e) /\ Len(history[e]) <= health_config.max_history
  BY <1>1 DEF HealthInit, Counted, Explained, FailsLast
<1>3. QED BY <1>2 DEF HealthInit, HealthKept

\* HealthChecker keeps its configuration, a history of at most max_history statuses per
\* endpoint and its counts, whatever probes and clearings come.
THEOREM HealthTypeCorrect == HealthSpec => []HealthTypeOK
<1>1. HealthKept => HealthTypeOK
  BY DEF HealthKept, HealthTypeOK
<1> DEFINE I == HealthKept /\ \A e \in Endpoints : Explained(e)
<1>2. HealthInit => I
  BY HealthStart
<1>3. I /\ [HealthNext]_healthVars => I'
  BY HealthStep
<1>4. QED BY <1>1, <1>2, <1>3, PTL DEF HealthSpec

\* The status that HealthChecker derives step by step, from the last status and two
\* counters, is the one its outcomes call for: for every configuration, however short
\* the history it keeps.
THEOREM StatusCorrect == HealthSpec => []StatusExplained
<1> DEFINE I == HealthKept /\ \A e \in Endpoints : Explained(e)
<1>1. I => StatusExplained
  BY DEF StatusExplained, Explained
<1>2. HealthInit => I
  BY HealthStart
<1>3. I /\ [HealthNext]_healthVars => I'
  BY HealthStep
<1>4. QED BY <1>1, <1>2, <1>3, PTL DEF HealthSpec

-----------------------------------------------------------------------------
(***************************************************************************)
(* Attempts, for every set of acceptable policies.                         *)
(***************************************************************************)

\* The loops that pause between their calls.
Pausing == {"retry", "http"}

\* What a call may answer.
Answers == {"ok", "permanent", "error", "lost"}

\* How the first loops stand: only the last answer is a success or permanent, and then
\* the loop is over.
LoopKept ==
  /\ verdict \in {"running", "interrupted", "returned", "refused", "exhausted"}
  /\ \A i \in 1..Len(answers) : answers[i] = "ok" => i = Len(answers) /\ verdict = "returned"
  /\ \A i \in 1..Len(answers) :
       answers[i] = "permanent" => i = Len(answers) /\ verdict = "refused"
  /\ verdict = "returned" => Len(answers) > 0 /\ answers[Len(answers)] = "ok"
  /\ verdict = "refused" => Len(answers) > 0 /\ answers[Len(answers)] = "permanent"
  /\ verdict = "exhausted" => Len(answers) = policy.limit
  /\ verdict = "running" => Len(answers) < policy.limit
  /\ Len(answers) <= policy.limit
  /\ received <= Len(answers)
  /\ policy.loop = "http" /\ verdict = "returned" => received > 0

\* How the pauses stand: one after each call that is followed by another.
PausesKept ==
  /\ verdict = "running" => Len(answers) = IF pausing THEN Len(slept) + 1 ELSE Len(slept)
  /\ verdict \in {"returned", "refused", "exhausted"} => Len(answers) = Len(slept) + 1
  /\ Len(slept) <= Len(answers)
  /\ \A i \in 1..Len(slept) : slept[i] \in Delays(i - 1)

\* How a recovery test stands: it goes on only without enough successes, and without a
\* failure that is fatal.
ProbesKept ==
  /\ ~pausing
  /\ verdict \in {"running", "interrupted", "close", "stay_open"}
  /\ verdict # "close" => Cardinality(Successes(answers)) < policy.success_threshold
  /\ verdict = "close" => Cardinality(Successes(answers)) = policy.success_threshold
  /\ verdict \in {"running", "close"} /\ policy.stop_on_first_failure => Failures(answers) = {}
  /\ verdict = "running" => Len(answers) < policy.limit
  /\ verdict = "stay_open" => \/ Len(answers) = policy.limit
                              \/ policy.stop_on_first_failure /\ Failures(answers) # {}

\* The types of the loops' variables.
AttemptsTypeOK ==
  /\ policy \in Policies
  /\ answers \in Seq(Answers)
  /\ slept \in Seq(Nat)
  /\ pausing \in BOOLEAN
  /\ received \in Nat

\* The types, and how the loop that runs stands.
AttemptsKept ==
  /\ AttemptsTypeOK
  /\ policy.loop \in Pausing => LoopKept /\ PausesKept
  /\ policy.loop = "recovery" => ProbesKept

\* What an acceptable policy gives.
LEMMA PolicyIs ==
  ASSUME policy \in Policies
  PROVE  /\ policy.loop \in {"retry", "http", "recovery"} /\ policy.limit \in Nat \ {0}
         /\ policy.loop \in Pausing => /\ policy.base_delay \in Nat /\ policy.max_delay \in Nat
                                       /\ policy.exponential_base \in Nat \ {0}
                                       /\ policy.jitter \in BOOLEAN
         /\ policy.loop = "recovery" => policy.success_threshold \in 1..policy.limit
                                        /\ policy.stop_on_first_failure \in BOOLEAN
  BY PolicyAssumption DEF Acceptable, Pausing

\* Grown is what its recursive definition says.
LEMMA GrownIs ==
  ASSUME policy \in Policies, policy.loop \in Pausing
  PROVE  /\ Grown \in [0..policy.limit -> Nat]
         /\ \A k \in 1..policy.limit : Grown[k] = Grown[k - 1] * policy.exponential_base
<1>1. PICK n \in Nat, b \in Nat, e \in Nat \ {0} :
        n = policy.limit /\ b = policy.base_delay /\ e = policy.exponential_base
  BY PolicyIs
<1> DEFINE Fix(g) == g = [k \in 0..n |-> IF k = 0 THEN b ELSE g[k - 1] * e]
           G == [x \in Nat |-> x * e]
<1>2. Grown = CHOOSE g : Fix(g)
  BY <1>1 DEF Grown
<1>3. G \in [Nat -> Nat] /\ \A x \in Nat : G[x] = x * e
  OBVIOUS
<1>4. PICK f \in [0..n -> Nat] : f[0] = b /\ \A k \in 1..n : f[k] = G[f[k - 1]]
  <2> HIDE DEF G
  <2>1. \E g : Iterates(g, Nat, b, G, n)
    BY <1>3, Recursion
  <2>2. QED BY <2>1 DEF Iterates
<1>5. ASSUME NEW k \in 0..n PROVE f[k] = IF k = 0 THEN b ELSE f[k - 1] * e
  <2>1. CASE k = 0
    BY <1>4, <2>1
  <2>2. CASE k # 0
    <3>1. k \in 1..n /\ k - 1 \in 0..n
      BY <2>2
    <3>2. f[k - 1] \in Nat
      BY <3>1
    <3> HIDE DEF G
    <3>3. QED BY <1>3, <1>4, <2>2, <3>1, <3>2
  <2>3. QED BY <2>1, <2>2
<1>6. Fix(f)
  BY <1>5
<1>7. Fix(Grown)
  <2> HIDE DEF Fix
  <2> QED BY <1>2, <1>6
<1>8. DOMAIN Grown = 0..n /\ Grown[0] = b
  BY <1>7
<1>9. ASSUME NEW k \in 1..n PROVE Grown[k] = Grown[k - 1] * e
  <2>1. k \in 0..n /\ k # 0
    OBVIOUS
  <2>2. QED BY <1>7, <2>1
<1> HIDE DEF Fix
<1> DEFINE T == {k \in 0..n : Grown[k] \in Nat}
<1>10. 0 \in T
  BY <1>8
<1>11. ASSUME NEW k \in 1..n, k - 1 \in T PROVE k \in T
  <2>1. Grown[k - 1] \in Nat
    BY <1>11
  <2>2. Grown[k - 1] * e \in Nat
    BY <2>1
  <2>3. QED BY <1>9, <2>2
<1>12. 0..n \subseteq T
  <2> HIDE DEF T
  <2> QED BY <1>10, <1>11, Induction
<1>13. \A k \in 0..n : Grown[k] \in Nat
  BY <1>12
<1>14. Grown = [k \in 0..n |-> Grown[k]]
  <2>1. Grown = [k \in 0..n |-> IF k = 0 THEN b ELSE Grown[k - 1] * e]
    BY <1>7 DEF Fix
  <2>2. QED BY <2>1
<1>15. QED BY <1>1, <1>9, <1>13, <1>14

\* A factor of at least one does not shrink what it multiplies.
LEMMA ProductGrows ==
  ASSUME NEW x \in Nat, NEW e \in Nat \ {0} PROVE x <= x * e
OBVIOUS

\* The delays grow, up to their ceiling.
LEMMA DelaysGrow ==
  ASSUME policy \in Policies, policy.loop \in Pausing, NEW j \in 0..policy.limit,
         NEW i \in 0..j
  PROVE  /\ RawDelay(i) \in Nat /\ RawDelay(j) \in Nat
         /\ RawDelay(i) <= RawDelay(j) /\ RawDelay(j) <= policy.max_delay
<1>1. PICK n \in Nat, e \in Nat \ {0}, max \in Nat :
        n = policy.limit /\ e = policy.exponential_base /\ max = policy.max_delay
  BY PolicyIs
<1>2. PICK g \in [0..n -> Nat] : g = Grown /\ \A k \in 1..n : g[k] = g[k - 1] * e
  BY <1>1, GrownIs
<1> DEFINE T == {k \in 0..n : \A m \in 0..k : g[m] <= g[k]}
<1>3. 0 \in T
  OBVIOUS
<1>4. ASSUME NEW k \in 1..n, k - 1 \in T PROVE k \in T
  <2>1. k \in 0..n /\ k - 1 \in 0..n /\ \A m \in 0..(k - 1) : g[m] <= g[k - 1]
    BY <1>4
  <2>2. g[k - 1] <= g[k]
    <3>1. g[k - 1] \in Nat
      BY <2>1
    <3>2. QED BY <1>2, <3>1, ProductGrows
  <2>3. ASSUME NEW m \in 0..k PROVE g[m] <= g[k]
    <3>1. CASE m = k
      BY <2>1, <3>1
    <3>2. CASE m # k
      <4>1. m \in 0..(k - 1) /\ m \in 0..n
        BY <3>2
      <4>2. g[m] \in Nat /\ g[k] \in Nat /\ g[k - 1] \in Nat
        BY <2>1, <4>1
      <4>3. QED BY <2>1, <2>2, <4>1, <4>2
    <3>3. QED BY <3>1, <3>2
  <2>4. QED BY <2>1, <2>3
<1>5. 0..n \subseteq T
  <2> HIDE DEF T
  <2> QED BY <1>3, <1>4, Induction
<1>6. i \in 0..n /\ j \in 0..n /\ g[i] <= g[j]
  BY <1>1, <1>5
<1>7. g[i] \in Nat /\ g[j] \in Nat
  BY <1>6
<1>8. QED BY <1>1, <1>2, <1>6, <1>7 DEF RawDelay

\* The delays depend on the policy only.
LEMMA DelaysStay == ASSUME policy' = policy PROVE \A k : Delays(k)' = Delays(k)
<1>1. Grown' = Grown
  BY DEF Grown
<1>2. QED BY <1>1 DEF Delays, RawDelay

\* One more answer.
LEMMA AnswerAppended ==
  ASSUME answers \in Seq(Answers), NEW answer \in Answers, answers' = Append(answers, answer)
  PROVE  /\ answers' \in Seq(Answers) /\ Len(answers) \in Nat /\ Len(answers') = Len(answers) + 1
         /\ answers'[Len(answers) + 1] = answer
         /\ \A i \in 1..Len(answers) : answers'[i] = answers[i]
         /\ \A i \in 1..Len(answers') : i \in 1..Len(answers) \/ i = Len(answers) + 1
<1>1. answers' \in Seq(Answers) /\ Len(answers) \in Nat /\ Len(answers') = Len(answers) + 1
  OBVIOUS
<1>2. answers'[Len(answers) + 1] = answer /\ \A i \in 1..Len(answers) : answers'[i] = answers[i]
  OBVIOUS
<1>3. \A i \in 1..Len(answers') : i \in 1..Len(answers) \/ i = Len(answers) + 1
  BY <1>1
<1>4. QED BY <1>1, <1>2, <1>3

\* The answer to an attempt of a loop that pauses.
LEMMA LoopAnswers ==
  ASSUME AttemptsKept, policy.loop \in Pausing, verdict = "running", ~pausing,
         policy' = policy, slept' = slept,
         NEW answer \in Answers, answers' = Append(answers, answer),
         verdict' = CASE answer = "ok" -> "returned"
                      [] answer = "permanent" -> "refused"
                      [] answer \notin {"ok", "permanent"} ->
                           IF MoreLeft(Len(answers) + 1) THEN "running" ELSE "exhausted",
         pausing' = (verdict' = "running"),
         received' \in {received, received + 1},
         policy.loop = "http" /\ answer = "ok" => received' = received + 1
  PROVE  AttemptsKept'
<1>1. /\ answers' \in Seq(Answers) /\ Len(answers) \in Nat /\ Len(answers') = Len(answers) + 1
      /\ answers'[Len(answers) + 1] = answer
      /\ \A i \in 1..Len(answers) : answers'[i] = answers[i]
      /\ \A i \in 1..Len(answers') : i \in 1..Len(answers) \/ i = Len(answers) + 1
  BY AnswerAppended DEF AttemptsKept, AttemptsTypeOK
<1>2. PICK n \in Nat, m \in Nat : n = Len(answers) /\ m = policy.limit
  BY <1>1, PolicyIs DEF AttemptsKept, AttemptsTypeOK
<1>3. LoopKept /\ PausesKept /\ AttemptsTypeOK
  BY DEF AttemptsKept
<1>4. \A i \in 1..n : answers[i] \notin {"ok", "permanent"}
  BY <1>2, <1>3 DEF LoopKept
<1>5. AttemptsTypeOK'
  BY <1>1, <1>3 DEF AttemptsTypeOK
<1>6. n < m /\ received <= n /\ received \in Nat
  BY <1>2, <1>3 DEF LoopKept, AttemptsTypeOK
<1>7. LoopKept'
  <2>1. verdict' \in {"running", "returned", "refused", "exhausted"}
    OBVIOUS
  <2>2. /\ verdict' = "returned" <=> answer = "ok"
        /\ verdict' = "refused" <=> answer = "permanent"
        /\ verdict' = "exhausted" => ~(n + 1 < m)
        /\ verdict' = "running" => n + 1 < m
    BY <1>2 DEF MoreLeft
  <2>3. \A i \in 1..Len(answers') : answers'[i] \in {"ok", "permanent"} => i = n + 1 /\ answer = answers'[i]
    BY <1>1, <1>2, <1>4
  <2>4. Len(answers') = n + 1 /\ answers'[n + 1] = answer
    BY <1>1, <1>2
  <2>5. received' \in Nat /\ received' <= n + 1
    BY <1>6
  <2>6. policy.loop = "http" /\ verdict' = "returned" => received' > 0
    BY <1>6, <2>2
  <2>7. policy'.limit = m /\ policy' = policy /\ n + 1 \in Nat /\ n + 1 <= m
    BY <1>2, <1>6
  <2>8. /\ \A i \in 1..Len(answers') :
             answers'[i] = "ok" => i = Len(answers') /\ verdict' = "returned"
        /\ \A i \in 1..Len(answers') :
             answers'[i] = "permanent" => i = Len(answers') /\ verdict' = "refused"
    BY <2>2, <2>3, <2>4
  <2>9. PICK l \in Nat : l = n + 1 /\ l = Len(answers') /\ l > 0 /\ l <= m
    BY <2>4, <2>7
  <2>10. /\ verdict' = "returned" => Len(answers') > 0 /\ answers'[Len(answers')] = "ok"
         /\ verdict' = "refused" => Len(answers') > 0 /\ answers'[Len(answers')] = "permanent"
    BY <2>2, <2>4, <2>9
  <2>11. /\ verdict' = "exhausted" => Len(answers') = policy'.limit
         /\ verdict' = "running" => Len(answers') < policy'.limit
         /\ Len(answers') <= policy'.limit /\ received' <= Len(answers')
    BY <1>2, <2>2, <2>5, <2>7, <2>9
  <2>12. QED BY <2>1, <2>6, <2>7, <2>8, <2>10, <2>11 DEF LoopKept
<1>8. PausesKept'
  <2>1. Len(answers) = Len(slept) /\ Len(slept) \in Nat
    BY <1>3 DEF PausesKept, AttemptsTypeOK
  <2>2. \A i \in 1..Len(slept) : slept'[i] \in Delays(i - 1)'
    BY <1>3, DelaysStay DEF PausesKept
  <2>3. Len(answers') = Len(slept') + 1
    BY <1>1, <2>1
  <2>4. Len(slept') = Len(slept)
    OBVIOUS
  <2>5. (verdict' = "running" => pausing') /\ Len(slept') \in Nat
    BY <2>1
  <2>6. verdict' = "running" => Len(answers') = IF pausing' THEN Len(slept') + 1 ELSE Len(slept')
    BY <2>3, <2>5
  <2>7. Len(slept') <= Len(answers')
    BY <2>3, <2>5
  <2>8. \A i \in 1..Len(slept') : slept'[i] \in Delays(i - 1)'
    BY <2>2, <2>4
  <2>9. QED BY <2>3, <2>6, <2>7, <2>8 DEF PausesKept
<1>9. policy'.loop # "recovery"
  BY DEF Pausing
<1>10. QED BY <1>5, <1>7, <1>8, <1>9 DEF AttemptsKept

\* A pause.
LEMMA SleepKept == ASSUME AttemptsKept, Sleep, policy.loop \in Pausing PROVE AttemptsKept'
<1>1. /\ pausing /\ verdict = "running" /\ pausing' = FALSE
      /\ policy' = policy /\ answers' = answers /\ verdict' = verdict /\ received' = received
  BY DEF Sleep
<1>2. PICK delay \in Delays(Len(answers) - 1) : slept' = Append(slept, delay)
  BY DEF Sleep
<1>3. LoopKept /\ PausesKept /\ AttemptsTypeOK
  BY DEF AttemptsKept
<1>4. PICK n \in Nat : n = Len(slept) /\ Len(answers) = n + 1 /\ n + 1 < policy.limit
  BY <1>1, <1>3 DEF PausesKept, LoopKept, AttemptsTypeOK
<1>5. delay \in Nat /\ delay \in Delays(n)
  <2>1. n \in 0..policy.limit /\ n \in 0..n
    BY <1>3, <1>4, PolicyIs DEF AttemptsTypeOK
  <2>2. RawDelay(n) \in Nat
    BY <1>3, <2>1, DelaysGrow DEF AttemptsTypeOK
  <2>3. Len(answers) - 1 = n
    BY <1>4
  <2>4. QED BY <1>2, <2>2, <2>3 DEF Delays
<1>6. /\ slept' \in Seq(Nat) /\ Len(slept') = n + 1 /\ slept'[n + 1] = delay
      /\ \A i \in 1..n : slept'[i] = slept[i]
  BY <1>2, <1>3, <1>4, <1>5 DEF AttemptsTypeOK
<1>7. ASSUME NEW i \in 1..Len(slept') PROVE slept'[i] \in Delays(i - 1)'
  <2>1. CASE i = n + 1
    <3>1. i - 1 = n
      BY <2>1
    <3>2. Delays(i - 1)' = Delays(i - 1)
      BY <1>1, DelaysStay
    <3>3. QED BY <1>5, <1>6, <2>1, <3>1, <3>2
  <2>2. CASE i # n + 1
    <3>1. i \in 1..n
      BY <1>6, <2>2
    <3>2. Delays(i - 1)' = Delays(i - 1)
      BY <1>1, DelaysStay
    <3>3. slept[i] \in Delays(i - 1)
      BY <1>3, <1>4, <3>1 DEF PausesKept
    <3>4. QED BY <1>6, <3>1, <3>2, <3>3
  <2>3. QED BY <2>1, <2>2
<1>8. PausesKept'
  BY <1>1, <1>4, <1>6, <1>7 DEF PausesKept
<1>9. LoopKept'
  BY <1>1, <1>3 DEF LoopKept
<1>10. AttemptsTypeOK'
  BY <1>1, <1>3, <1>6 DEF AttemptsTypeOK
<1>11. QED BY <1>1, <1>8, <1>9, <1>10 DEF AttemptsKept, Pausing

\* A probe of a recovery test.
LEMMA ProbeKept ==
  ASSUME AttemptsKept, NEW answer \in {"ok", "error"}, ProbeAnswer(answer) PROVE AttemptsKept'
<1>1. /\ policy.loop = "recovery" /\ verdict = "running"
      /\ answers' = Append(answers, answer)
      /\ policy' = policy /\ slept' = slept /\ pausing' = pausing /\ received' = received
  BY DEF ProbeAnswer
<1>2. ProbesKept /\ AttemptsTypeOK
  BY <1>1 DEF AttemptsKept
<1>3. /\ answers' \in Seq(Answers) /\ Len(answers) \in Nat /\ Len(answers') = Len(answers) + 1
      /\ answers'[Len(answers) + 1] = answer
      /\ \A i \in 1..Len(answers) : answers'[i] = answers[i]
      /\ \A i \in 1..Len(answers') : i \in 1..Len(answers) \/ i = Len(answers) + 1
  <2>1. answer \in Answers
    BY DEF Answers
  <2>2. QED BY <1>1, <1>2, <2>1, AnswerAppended DEF AttemptsTypeOK
<1>4. PICK m \in Nat, t \in Nat, stop \in BOOLEAN, k \in Nat :
        /\ m = policy.limit /\ t = policy.success_threshold /\ stop = policy.stop_on_first_failure
        /\ k = Len(answers) /\ k < m
  BY <1>1, <1>2, <1>3, PolicyIs DEF AttemptsTypeOK, ProbesKept
<1>5. DOMAIN answers = 1..k /\ DOMAIN answers' = 1..(k + 1) /\ k + 1 \notin 1..k
      /\ 1..(k + 1) = 1..k \union {k + 1}
  BY <1>2, <1>3, <1>4 DEF AttemptsTypeOK
<1>6. /\ Successes(answers') = Successes(answers) \union (IF answer = "ok" THEN {k + 1} ELSE {})
      /\ Failures(answers') = Failures(answers) \union (IF answer = "ok" THEN {} ELSE {k + 1})
      /\ k + 1 \notin Successes(answers) /\ Successes(answers) \subseteq 1..k
  <2>1. \A i \in 1..k : answers'[i] = answers[i]
    BY <1>3, <1>4
  <2>2. answers'[k + 1] = answer
    BY <1>3, <1>4
  <2>3. QED BY <1>5, <2>1, <2>2, Zenon DEF Successes, Failures
<1>7. PICK c \in Nat : c = Cardinality(Successes(answers)) /\ c < t
                       /\ IsFiniteSet(Successes(answers))
  <2>1. IsFiniteSet(1..k)
    BY FS_Interval
  <2>2. IsFiniteSet(Successes(answers))
    BY <1>6, <2>1, FS_Subset
  <2>3. QED BY <1>1, <1>2, <1>4, <2>2, FS_CardinalityType DEF ProbesKept
<1>8. Cardinality(Successes(answers')) = IF answer = "ok" THEN c + 1 ELSE c
  <2>1. CASE answer = "ok"
    <3>1. Cardinality(Successes(answers) \union {k + 1}) = c + 1
      BY <1>6, <1>7, FS_AddElement
    <3>2. QED BY <1>6, <2>1, <3>1
  <2>2. CASE answer # "ok"
    BY <1>6, <1>7, <2>2
  <2>3. QED BY <2>1, <2>2
<1>9. PICK n \in Nat : n = IF answer = "ok" THEN c + 1 ELSE c
  OBVIOUS
<1>10. PICK ends \in BOOLEAN :
         /\ ends <=> \/ answer = "ok" /\ n >= t
                     \/ answer # "ok" /\ stop
                     \/ ~(k + 1 < m)
         /\ verdict' = IF ~ends THEN "running" ELSE IF n >= t THEN "close" ELSE "stay_open"
  BY <1>1, <1>4, <1>8, <1>9 DEF ProbeAnswer, MoreLeft
<1>11. stop => Failures(answers) = {}
  BY <1>1, <1>2, <1>4 DEF ProbesKept
<1>12. ProbesKept'
  <2>0. ~pausing'
    BY <1>1, <1>2 DEF ProbesKept
  <2>1. verdict' \in {"running", "close", "stay_open"}
    BY <1>10
  <2>2. verdict' # "close" => n < t
    BY <1>4, <1>7, <1>9, <1>10
  <2>3. verdict' = "close" => n = t /\ answer = "ok"
    BY <1>4, <1>7, <1>9, <1>10
  <2>4. verdict' \in {"running", "close"} /\ stop => Failures(answers') = {}
    <3>1. verdict' \in {"running", "close"} /\ stop => answer = "ok"
      BY <1>10, <2>3
    <3>2. QED BY <1>6, <1>11, <3>1
  <2>5. verdict' = "running" => k + 1 < m
    BY <1>10
  <2>6. verdict' = "stay_open" => k + 1 = m \/ (stop /\ Failures(answers') # {})
    <3>1. verdict' = "stay_open" => (answer # "ok" /\ stop) \/ ~(k + 1 < m)
      BY <1>10
    <3>2. answer # "ok" => Failures(answers') # {}
      BY <1>6
    <3>3. QED BY <1>4, <3>1, <3>2
  <2>7. Len(answers') = k + 1 /\ Cardinality(Successes(answers')) = n
    BY <1>3, <1>4, <1>8, <1>9
  <2>8. policy'.limit = m /\ policy'.success_threshold = t /\ policy'.stop_on_first_failure = stop
    BY <1>1, <1>4
  <2>9. Successes(answers)' = Successes(answers') /\ Failures(answers)' = Failures(answers')
    BY DEF Successes, Failures
  <2>10. QED BY <2>0, <2>1, <2>2, <2>3, <2>4, <2>5, <2>6, <2>7, <2>8, <2>9 DEF ProbesKept
<1>13. AttemptsTypeOK'
  BY <1>1, <1>2, <1>3 DEF AttemptsTypeOK
<1>14. QED BY <1>1, <1>12, <1>13 DEF AttemptsKept, Pausing

\* Every step of a loop keeps how it stands.
LEMMA AttemptsStep == AttemptsKept /\ [AttemptNext]_attemptVars => AttemptsKept'
<1> SUFFICES ASSUME AttemptsKept, [AttemptNext]_attemptVars PROVE AttemptsKept'
  OBVIOUS
<1>0. received \in Nat
  BY DEF AttemptsKept, AttemptsTypeOK
<1>1. ASSUME NEW answer \in {"ok", "error"}, RetryAnswer(answer) PROVE AttemptsKept'
  <2>1. /\ policy.loop = "retry" /\ verdict = "running" /\ ~pausing
        /\ policy' = policy /\ slept' = slept /\ answers' = Append(answers, answer)
        /\ received' = received /\ pausing' = (verdict' = "running")
    BY <1>1 DEF RetryAnswer
  <2>2. verdict' = CASE answer = "ok" -> "returned"
                     [] answer = "permanent" -> "refused"
                     [] answer \notin {"ok", "permanent"} ->
                          IF MoreLeft(Len(answers) + 1) THEN "running" ELSE "exhausted"
    <3>1. CASE answer = "ok"
      BY <1>1, <3>1 DEF RetryAnswer, MoreLeft
    <3>2. CASE answer # "ok" /\ MoreLeft(Len(answers) + 1)
      BY <1>1, <3>2 DEF RetryAnswer
    <3>3. CASE answer # "ok" /\ ~MoreLeft(Len(answers) + 1)
      BY <1>1, <3>3 DEF RetryAnswer
    <3>4. QED BY <3>1, <3>2, <3>3
  <2>3. policy.loop \in Pausing /\ answer \in Answers
    BY <2>1 DEF Pausing, Answers
  <2>4. QED BY <2>1, <2>2, <2>3, LoopAnswers
<1>2. ASSUME NEW answer \in {"ok", "permanent", "error", "lost"}, NEW reached \in BOOLEAN,
             HttpAnswer(answer, reached)
      PROVE  AttemptsKept'
  <2>1. /\ policy.loop = "http" /\ verdict = "running" /\ ~pausing
        /\ policy' = policy /\ slept' = slept /\ answers' = Append(answers, answer)
        /\ received' = (IF reached THEN received + 1 ELSE received)
        /\ pausing' = (verdict' = "running") /\ (answer # "lost" => reached)
    BY <1>2 DEF HttpAnswer
  <2>2. verdict' = CASE answer = "ok" -> "returned"
                     [] answer = "permanent" -> "refused"
                     [] answer \notin {"ok", "permanent"} ->
                          IF MoreLeft(Len(answers) + 1) THEN "running" ELSE "exhausted"
    <3>1. CASE answer \in {"ok", "permanent"}
      BY <1>2, <3>1 DEF HttpAnswer, MoreLeft
    <3>2. CASE answer \notin {"ok", "permanent"} /\ MoreLeft(Len(answers) + 1)
      BY <1>2, <3>2 DEF HttpAnswer
    <3>3. CASE answer \notin {"ok", "permanent"} /\ ~MoreLeft(Len(answers) + 1)
      BY <1>2, <3>3 DEF HttpAnswer
    <3>4. QED BY <3>1, <3>2, <3>3
  <2>3. policy.loop \in Pausing /\ answer \in Answers
    BY <2>1 DEF Pausing, Answers
  <2>4. QED BY <2>1, <2>2, <2>3, LoopAnswers
<1>3. CASE Sleep
  <2>1. CASE policy.loop \in Pausing
    BY <1>3, <2>1, SleepKept
  <2>2. CASE policy.loop \notin Pausing
    <3>1. pausing = FALSE
      BY <2>2, PolicyIs DEF AttemptsKept, AttemptsTypeOK, Pausing, ProbesKept
    <3>2. QED BY <1>3, <3>1 DEF Sleep
  <2>3. QED BY <2>1, <2>2
<1>4. CASE Interrupt
  <2>1. /\ verdict = "running" /\ verdict' = "interrupted" /\ policy' = policy
        /\ answers' = answers /\ slept' = slept /\ pausing' = pausing /\ received' = received
    BY <1>4 DEF Interrupt
  <2>2. AttemptsTypeOK'
    BY <2>1 DEF AttemptsKept, AttemptsTypeOK
  <2>3. policy.loop \in Pausing => LoopKept' /\ PausesKept'
    <3>1. ASSUME policy.loop \in Pausing PROVE LoopKept'
      BY <2>1, <3>1 DEF AttemptsKept, LoopKept
    <3>2. ASSUME policy.loop \in Pausing PROVE PausesKept'
      BY <2>1, <3>2, DelaysStay DEF AttemptsKept, PausesKept
    <3>3. QED BY <3>1, <3>2
  <2>4. policy.loop = "recovery" => ProbesKept'
    BY <2>1 DEF AttemptsKept, ProbesKept, Successes, Failures
  <2>5. QED BY <2>1, <2>2, <2>3, <2>4 DEF AttemptsKept
<1>5. CASE UNCHANGED attemptVars
  <2>1. /\ verdict' = verdict /\ policy' = policy
        /\ answers' = answers /\ slept' = slept /\ pausing' = pausing /\ received' = received
    BY <1>5 DEF attemptVars
  <2>2. AttemptsTypeOK'
    BY <2>1 DEF AttemptsKept, AttemptsTypeOK
  <2>3. LoopKept => LoopKept'
    BY <2>1 DEF LoopKept
  <2>4. PausesKept => PausesKept'
    BY <2>1, DelaysStay DEF PausesKept
  <2>5. ProbesKept => ProbesKept'
    BY <2>1 DEF ProbesKept, Successes, Failures
  <2>6. QED BY <2>1, <2>2, <2>3, <2>4, <2>5 DEF AttemptsKept
<1>6. QED BY <1>1, <1>2, <1>3, <1>4, <1>5, ProbeKept DEF AttemptNext

\* Every loop ends for a reason that its answers give, and pauses as configured, for every
\* policy that RetryConfig, HttpTransport and RecoveryTester accept.
THEOREM AttemptsCorrect == AttemptSpec => []AttemptsJustified
<1>1. AttemptInit => AttemptsKept
  <2> SUFFICES ASSUME AttemptInit PROVE AttemptsKept
    OBVIOUS
  <2>1. AttemptsTypeOK
    <3>1. <<>> \in Seq(Answers) /\ <<>> \in Seq(Nat)
      OBVIOUS
    <3>2. QED BY <3>1 DEF AttemptInit, AttemptsTypeOK
  <2>2. Successes(answers) = {} /\ Failures(answers) = {} /\ Len(answers) = 0 /\ Len(slept) = 0
    BY DEF AttemptInit, Successes, Failures
  <2>3. policy.limit \in Nat \ {0}
    BY <2>1, PolicyIs DEF AttemptsTypeOK
  <2>4. LoopKept /\ PausesKept
    BY <2>2, <2>3 DEF AttemptInit, LoopKept, PausesKept
  <2>5. policy.loop = "recovery" => ProbesKept
    <3>1. policy.loop = "recovery" => policy.success_threshold \in 1..policy.limit
      BY <2>1, PolicyIs DEF AttemptsTypeOK
    <3>2. Cardinality(Successes(answers)) = 0
      BY <2>2, FS_EmptySet
    <3>3. ASSUME policy.loop = "recovery" PROVE 0 < policy.success_threshold
      BY <2>3, <3>1, <3>3
    <3>4. verdict = "running" /\ ~pausing
      BY DEF AttemptInit
    <3>5. QED BY <2>2, <2>3, <3>2, <3>3, <3>4 DEF ProbesKept
  <2>6. QED BY <2>1, <2>4, <2>5 DEF AttemptsKept
<1>2. AttemptsKept => AttemptsJustified
  <2> SUFFICES ASSUME AttemptsKept PROVE VerdictJustified /\ PausesBounded
    BY DEF AttemptsJustified
  <2>1. AttemptsTypeOK /\ policy.loop \in {"retry", "http", "recovery"}
    BY PolicyIs DEF AttemptsKept, AttemptsTypeOK
  <2>2. DOMAIN answers = 1..Len(answers) /\ Len(answers) \in Nat /\ Len(slept) \in Nat
        /\ DOMAIN slept = 1..Len(slept)
    BY <2>1 DEF AttemptsTypeOK
  <2>3. ASSUME policy.loop \in Pausing
        PROVE  /\ \A i \in DOMAIN answers : answers[i] \in {"ok", "permanent"} => i = Len(answers)
               /\ verdict = "returned" <=> Successes(answers) # {}
               /\ verdict = "refused" <=> \E i \in DOMAIN answers : answers[i] = "permanent"
               /\ verdict = "exhausted" => Len(answers) = policy.limit
               /\ Len(answers) <= policy.limit
    <3>1. LoopKept
      BY <2>3 DEF AttemptsKept
    <3>2. Len(answers) > 0 => Len(answers) \in DOMAIN answers
      BY <2>2
    <3>3. QED BY <2>2, <3>1, <3>2 DEF LoopKept, Successes
  <2>4. VerdictJustified
    <3>1. ASSUME policy.loop = "http" PROVE LoopKept
      BY <3>1 DEF AttemptsKept, Pausing
    <3>2. ASSUME policy.loop = "http"
          PROVE  received <= Len(answers) /\ (verdict = "returned" => received > 0)
      BY <3>1, <3>2 DEF LoopKept
    <3>3. ASSUME policy.loop = "recovery"
          PROVE  /\ verdict = "close" <=> Cardinality(Successes(answers)) = policy.success_threshold
                 /\ verdict = "close" /\ policy.stop_on_first_failure => Failures(answers) = {}
                 /\ verdict = "stay_open" =>
                      \/ Len(answers) = policy.limit
                      \/ policy.stop_on_first_failure /\ Failures(answers) # {}
      <4>1. ProbesKept
        BY <3>3 DEF AttemptsKept
      <4>2. policy.success_threshold \in Nat
        BY <2>1, <3>3, PolicyIs DEF AttemptsTypeOK
      <4>3. IsFiniteSet(Successes(answers))
        <5>1. IsFiniteSet(1..Len(answers)) /\ Successes(answers) \subseteq 1..Len(answers)
          BY <2>2, FS_Interval DEF Successes
        <5>2. QED BY <5>1, FS_Subset
      <4>4. Cardinality(Successes(answers)) \in Nat
        BY <4>3, FS_CardinalityType
      <4>5. QED BY <4>1, <4>2, <4>4 DEF ProbesKept
    <3>4. QED BY <2>3, <3>2, <3>3 DEF VerdictJustified, Pausing
  <2>5. PausesBounded
    <3> SUFFICES ASSUME policy.loop \in Pausing
                 PROVE  /\ Len(slept) <= Len(answers)
                        /\ verdict \in {"returned", "refused", "exhausted"} =>
                             Len(slept) = Len(answers) - 1
                        /\ \A i \in DOMAIN slept : slept[i] <= policy.max_delay
                        /\ ~policy.jitter =>
                             \A i, j \in DOMAIN slept : i <= j => slept[i] <= slept[j]
      BY <2>1 DEF PausesBounded, Pausing
    <3>1. PausesKept /\ LoopKept
      BY DEF AttemptsKept
    <3>2. Len(slept) <= Len(answers) /\ Len(slept) <= policy.limit /\ policy.limit \in Nat
      <4>1. Len(slept) <= Len(answers) /\ Len(answers) <= policy.limit
        BY <3>1 DEF PausesKept, LoopKept
      <4>2. Len(slept) \in Nat /\ Len(answers) \in Nat /\ policy.limit \in Nat
        BY <2>1, <2>2, PolicyIs DEF AttemptsTypeOK
      <4>3. QED BY <4>1, <4>2
    <3>3. verdict \in {"returned", "refused", "exhausted"} => Len(slept) = Len(answers) - 1
      <4>1. verdict \in {"returned", "refused", "exhausted"} => Len(answers) = Len(slept) + 1
        BY <3>1 DEF PausesKept
      <4>2. Len(slept) \in Nat /\ Len(answers) \in Nat
        BY <2>2
      <4>3. QED BY <4>1, <4>2
    <3>4. ASSUME NEW i \in 1..Len(slept), NEW j \in 1..Len(slept), i <= j
          PROVE  /\ RawDelay(i - 1) \in Nat /\ RawDelay(j - 1) \in Nat
                 /\ RawDelay(i - 1) <= RawDelay(j - 1) /\ RawDelay(j - 1) <= policy.max_delay
      <4>1. i - 1 \in 0..(j - 1) /\ j - 1 \in 0..policy.limit
        BY <2>2, <3>2, <3>4
      <4>2. QED BY <2>1, <4>1, DelaysGrow DEF AttemptsTypeOK
    <3>5. ASSUME NEW i \in 1..Len(slept)
          PROVE  slept[i] \in Delays(i - 1) /\ slept[i] \in Nat
      BY <2>1, <3>1 DEF PausesKept, AttemptsTypeOK
    <3>6. ASSUME NEW i \in 1..Len(slept) PROVE slept[i] <= policy.max_delay
      <4>1. RawDelay(i - 1) \in Nat /\ RawDelay(i - 1) <= policy.max_delay
        BY <2>2, <3>4
      <4>2. slept[i] \in 0..RawDelay(i - 1)
        <5>1. slept[i] \in 0..RawDelay(i - 1) \/ slept[i] \in {RawDelay(i - 1)}
          BY <3>5 DEF Delays
        <5>2. QED BY <4>1, <5>1
      <4>3. policy.max_delay \in Nat
        BY <2>1, PolicyIs DEF AttemptsTypeOK
      <4>4. QED BY <4>1, <4>2, <4>3
    <3>7. ASSUME ~policy.jitter, NEW i \in 1..Len(slept), NEW j \in 1..Len(slept), i <= j
          PROVE  slept[i] <= slept[j]
      <4>1. slept[i] = RawDelay(i - 1) /\ slept[j] = RawDelay(j - 1)
        BY <3>5, <3>7 DEF Delays
      <4>2. QED BY <3>4, <3>7, <4>1
    <3>8. QED BY <2>2, <3>2, <3>3, <3>6, <3>7
  <2>6. QED BY <2>4, <2>5
<1>3. QED BY <1>1, <1>2, AttemptsStep, PTL DEF AttemptSpec
-----------------------------------------------------------------------------
(***************************************************************************)
(* LoadBalancer, for every finite set of endpoints and weights and any     *)
(* number of connections.  What is bounded by induction is not one credit  *)
(* but the sum of every group's: a selection moves weight from the winner  *)
(* to the others, so the bound of a group follows from those of smaller    *)
(* and of larger groups.                                                   *)
(***************************************************************************)

\* The number of endpoints, and twice what "k" of them can be owed together in units of
\* the full weight: (n - 1) + (n - 2) + ... for k terms.
Size == Cardinality(Servers)

Swing(k) == k * (2 * Size - k - 1)

\* The credits of any group of endpoints are bounded together.
GroupsWithin(c, F) ==
  \A S \in SUBSET Servers :
    /\ 2 * SumOver(c, S) <= F * Swing(Cardinality(S))
    /\ -(2 * SumOver(c, S)) <= F * Swing(Cardinality(S))

\* Arithmetic: two bounds on the same sum, one of which counts the winner's credit "e" j
\* times for and the other once against it, give a bound without it.
LEMMA TwoBounds ==
  ASSUME NEW z \in Int, NEW e \in Int, NEW j \in Nat, NEW a \in Int, NEW b \in Int, NEW c \in Int,
         NEW f \in Int, 2 * z <= a + 2 * (j * e), 2 * z <= b - 2 * e + 2 * f,
         a + j * b + 2 * (j * f) <= (1 + j) * c
  PROVE  2 * z <= c
<1>1. j * (2 * z) <= j * (b - 2 * e + 2 * f)
  BY SMT
<1>2. j * (b - 2 * e + 2 * f) = j * b - 2 * (j * e) + 2 * (j * f)
  OBVIOUS
<1>3. (1 + j) * (2 * z) = 2 * z + j * (2 * z)
  OBVIOUS
<1>4. /\ j * (2 * z) \in Int /\ j * b \in Int /\ j * e \in Int /\ j * f \in Int
      /\ (1 + j) * c \in Int
  OBVIOUS
<1>5. (1 + j) * (2 * z) <= (1 + j) * c
  BY <1>1, <1>2, <1>3, <1>4
<1>6. \A x, y \in Int : (1 + j) * x <= (1 + j) * y => x <= y
  OBVIOUS
<1>7. QED BY <1>5, <1>6

\* Arithmetic: what one step adds fits between the bounds of groups of different sizes.
LEMMA SwingStep ==
  ASSUME NEW n \in Nat, NEW k \in Nat, NEW j \in Nat, NEW F \in Nat
  PROVE  LET V(i) == i * (2 * n - i - 1) IN
         /\ F * V(k - j) + j * (F * V(k + 1)) + 2 * (j * F) <= (1 + j) * (F * V(k))
         /\ F * V(k + j) + j * (F * V(k - 1)) + 2 * (j * F) <= (1 + j) * (F * V(k))
<1> DEFINE V(i) == i * (2 * n - i - 1)
<1>1. V(k - j) + j * V(k + 1) + 2 * j + j * (j - 1) = (1 + j) * V(k)
  OBVIOUS
<1>2. V(k + j) + j * V(k - 1) + 2 * j + j * (j - 1) = (1 + j) * V(k)
  OBVIOUS
<1>3. \A i \in Int : V(i) \in Int
  OBVIOUS
<1> HIDE DEF V
<1>4. j * (j - 1) \in Nat
  BY SMT
<1>5. ASSUME NEW a \in Int, NEW b \in Int, NEW c \in Int,
             a + j * b + 2 * j + j * (j - 1) = (1 + j) * c
      PROVE  F * a + j * (F * b) + 2 * (j * F) <= (1 + j) * (F * c)
  <2>1. PICK m \in Nat : m = j * (j - 1)
    BY <1>4
  <2>2. F * (a + j * b + 2 * j + m) = F * ((1 + j) * c)
    BY <1>5, <2>1
  <2>3. F * (a + j * b + 2 * j + m) = F * a + j * (F * b) + 2 * (j * F) + F * m
    OBVIOUS
  <2>4. F * ((1 + j) * c) = (1 + j) * (F * c)
    OBVIOUS
  <2>5. F * m \in Nat /\ F * a \in Int /\ j * (F * b) \in Int /\ j * F \in Int
    OBVIOUS
  <2>6. QED BY <2>2, <2>3, <2>4, <2>5
<1>6. QED BY <1>1, <1>2, <1>3, <1>5 DEF V

\* Arithmetic: a larger group may owe more.
LEMMA SwingGrows ==
  ASSUME NEW n \in Nat, NEW k \in Nat, k >= 1, k <= n, NEW F \in Nat
  PROVE  F * ((k - 1) * (2 * n - (k - 1) - 1)) <= F * (k * (2 * n - k - 1))
<1>1. (k - 1) * (2 * n - (k - 1) - 1) + 2 * (n - k) = k * (2 * n - k - 1)
  OBVIOUS
<1>2. PICK x \in Int : x = (k - 1) * (2 * n - (k - 1) - 1)
  OBVIOUS
<1>3. \A y \in Nat : F * x <= F * (x + y)
  OBVIOUS
<1>4. 2 * (n - k) \in Nat
  OBVIOUS
<1>5. QED BY <1>1, <1>2, <1>3, <1>4
\* What one selection does to the credits "c", with healthy endpoints H, weights "w" and
\* winner "b".
Earned(c, w, H) == [s \in Servers |-> IF s \in H THEN c[s] + w[s] ELSE c[s]]

Paid(c, w, H, b) == [Earned(c, w, H) EXCEPT ![b] = @ - SumOver(w, H)]

\* What the credit of a group S changes by.
GroupMove(c, w, H, b, S) ==
  /\ b \notin S => SumOver(Paid(c, w, H, b), S) = SumOver(c, S) + SumOver(w, S \cap H)
  /\ b \in S => SumOver(Paid(c, w, H, b), S) = SumOver(c, S) - SumOver(w, H \ S)

\* A group earns its healthy members' weights, and if the winner is one of them it pays for
\* all others that are healthy.
LEMMA GroupMoves ==
  ASSUME NEW H, NEW c, NEW w, NEW b, NEW S, IsFiniteSet(Servers),
         H \in SUBSET Servers, b \in H, S \in SUBSET Servers,
         \A s \in Servers : c[s] \in Int, \A s \in Servers : w[s] \in Nat
  PROVE  GroupMove(c, w, H, b, S)
<1> DEFINE gain == [s \in Servers |-> IF s \in H THEN w[s] ELSE 0]
<1>1. /\ IsFiniteSet(S) /\ IsFiniteSet(H) /\ IsFiniteSet(S \cap H) /\ IsFiniteSet(S \ H)
      /\ IsFiniteSet(H \ S)
  BY FS_Subset
<1>2. \A s \in Servers : /\ gain[s] \in Int /\ c[s] \in Int /\ w[s] \in Int /\ w[s] \in Nat
                         /\ Earned(c, w, H)[s] = c[s] + gain[s]
  BY DEF Earned
<1>3. /\ \A s \in S \ H : gain[s] = 0
      /\ \A s \in S \cap H : gain[s] = w[s]
  OBVIOUS
<1> HIDE DEF gain
<1>4. SumOver(Earned(c, w, H), S) = SumOver(c, S) + SumOver(gain, S)
  BY <1>1, <1>2, SumPlus
<1>5. SumOver(gain, S) = SumOver(w, S \cap H)
  <2>1. SumOver(gain, S \ H) = 0
    BY <1>1, <1>3, SumOfZeros
  <2>2. SumOver(gain, S \cap H) = SumOver(w, S \cap H)
    BY <1>1, <1>3, SumSame
  <2>3. SumOver(gain, (S \cap H) \union (S \ H)) = SumOver(gain, S \cap H) + SumOver(gain, S \ H)
    <3>1. (S \cap H) \cap (S \ H) = {} /\ \A s \in (S \cap H) \union (S \ H) : gain[s] \in Int
      BY <1>2
    <3>2. QED BY <1>1, <3>1, SumUnion
  <2>4. (S \cap H) \union (S \ H) = S
    OBVIOUS
  <2>5. SumOver(w, S \cap H) \in Int
    BY <1>1, <1>2, SumType
  <2>6. SumOver(gain, S) = SumOver(gain, S \cap H) + SumOver(gain, S \ H)
    BY <2>3, <2>4, Zenon
  <2>7. QED BY <2>1, <2>2, <2>5, <2>6
<1>6. SumOver(w, H) \in Int /\ SumOver(w, S \cap H) \in Int /\ SumOver(w, H \ S) \in Int
      /\ SumOver(c, S) \in Int
  BY <1>1, <1>2, SumType
<1>7. /\ \A s \in Servers \ {b} : Paid(c, w, H, b)[s] = Earned(c, w, H)[s]
      /\ Paid(c, w, H, b)[b] = Earned(c, w, H)[b] - SumOver(w, H)
  BY DEF Paid, Earned
<1>8. CASE b \notin S
  <2>1. \A s \in S : Paid(c, w, H, b)[s] = Earned(c, w, H)[s]
    BY <1>7, <1>8
  <2>2. SumOver(Paid(c, w, H, b), S) = SumOver(Earned(c, w, H), S)
    BY <1>1, <2>1, SumSame
  <2>3. QED BY <1>4, <1>5, <1>8, <2>2 DEF GroupMove
<1>9. CASE b \in S
  <2>1. PICK p, e : p = Paid(c, w, H, b) /\ e = Earned(c, w, H)
    OBVIOUS
  <2>2. /\ \A s \in S : e[s] \in Int /\ p[s] \in Int
        /\ \A s \in S \ {b} : p[s] = e[s]
        /\ p[b] = e[b] - SumOver(w, H)
    <3>1. \A s \in S : e[s] \in Int
      BY <1>2, <2>1
    <3>2. \A s \in S \ {b} : p[s] = e[s]
      BY <1>7, <2>1
    <3>3. p[b] = e[b] - SumOver(w, H)
      BY <1>7, <2>1
    <3>4. QED BY <1>6, <1>9, <3>1, <3>2, <3>3
  <2>3. IsFiniteSet(S \ {b})
    BY <1>1, FS_RemoveElement
  <2>4. SumOver(p, S) = p[b] + SumOver(p, S \ {b}) /\ SumOver(e, S) = e[b] + SumOver(e, S \ {b})
    BY <1>1, <1>9, <2>2, SumSplit
  <2>5. SumOver(p, S \ {b}) = SumOver(e, S \ {b}) /\ SumOver(e, S \ {b}) \in Int
    BY <2>2, <2>3, SumSame, SumType
  <2>6. SumOver(w, H) = SumOver(w, S \cap H) + SumOver(w, H \ S)
    <3>1. (S \cap H) \cap (H \ S) = {} /\ \A s \in (S \cap H) \union (H \ S) : w[s] \in Int
      BY <1>2
    <3>2. SumOver(w, (S \cap H) \union (H \ S)) = SumOver(w, S \cap H) + SumOver(w, H \ S)
      BY <1>1, <3>1, SumUnion
    <3>3. (S \cap H) \union (H \ S) = H
      OBVIOUS
    <3>4. QED BY <3>2, <3>3, Zenon
  <2>7. e[b] \in Int
    BY <1>9, <2>2
  <2>8. SumOver(e, S) = SumOver(c, S) + SumOver(w, S \cap H)
    BY <1>4, <1>5, <2>1
  <2>9. SumOver(p, S) = SumOver(c, S) - SumOver(w, H \ S)
    BY <1>6, <2>2, <2>4, <2>5, <2>6, <2>7, <2>8
  <2>10. QED BY <1>9, <2>1, <2>9 DEF GroupMove
<1>10. QED BY <1>8, <1>9
\* One selection keeps every group within its bound.
LEMMA GroupStep ==
  ASSUME IsFiniteSet(Servers), NEW H \in SUBSET Servers, NEW c \in [Servers -> Int],
         NEW w \in [Servers -> Nat], NEW b \in H, NEW F \in Nat,
         \A s \in H : c[s] + w[s] <= c[b] + w[b],
         SumOver(w, H) <= F,
         GroupsWithin(c, F)
  PROVE  GroupsWithin(Paid(c, w, H, b), F)
<1> SUFFICES ASSUME NEW S \in SUBSET Servers
             PROVE  /\ 2 * SumOver(Paid(c, w, H, b), S) <= F * Swing(Cardinality(S))
                    /\ -(2 * SumOver(Paid(c, w, H, b), S)) <= F * Swing(Cardinality(S))
  BY DEF GroupsWithin
<1>0. GroupMove(c, w, H, b, S)
  <2>1. (\A s \in Servers : c[s] \in Int) /\ \A s \in Servers : w[s] \in Nat
    OBVIOUS
  <2>2. QED BY <2>1, GroupMoves
<1>1. PICK e \in Int : e = c[b] + w[b]
  OBVIOUS
<1>2. Size \in Nat
  BY FS_CardinalityType DEF Size
<1>3. \A T \in SUBSET Servers :
        /\ IsFiniteSet(T) /\ Cardinality(T) \in Nat
        /\ SumOver(c, T) \in Int /\ SumOver(w, T) \in Nat
  <2> TAKE T \in SUBSET Servers
  <2>1. IsFiniteSet(T)
    BY FS_Subset
  <2>2. (\A s \in T : c[s] \in Int) /\ \A s \in T : w[s] \in Nat
    OBVIOUS
  <2>3. QED BY <2>1, <2>2, FS_CardinalityType, SumType, SumNatural
<1>A. \A T \in SUBSET Servers : /\ 2 * SumOver(c, T) <= F * Swing(Cardinality(T))
                                /\ -(2 * SumOver(c, T)) <= F * Swing(Cardinality(T))
  BY DEF GroupsWithin
<1>B. \A T \in SUBSET H : SumOver(w, T) <= F
  <2> TAKE T \in SUBSET H
  <2>1. IsFiniteSet(H) /\ SumOver(w, H) \in Int /\ SumOver(w, T) \in Int
    BY <1>3
  <2>2. SumOver(w, T) <= SumOver(w, H)
    <3>1. (\A x \in H : w[x] \in Nat) /\ (\A x \in T : w[x] \in Int) /\ \A x \in T : w[x] <= w[x]
      OBVIOUS
    <3>2. QED BY <2>1, <3>1, SumLeq
  <2>3. QED BY <2>1, <2>2
<1>4. ASSUME NEW T \in SUBSET H
      PROVE  SumOver(c, T) + SumOver(w, T) <= Cardinality(T) * e
  <2> DEFINE f == [s \in T |-> c[s] + w[s]]
  <2>1. IsFiniteSet(T) /\ T \in SUBSET Servers
    BY <1>3
  <2>2. \A s \in T : /\ c[s] \in Int /\ w[s] \in Int /\ f[s] \in Int
                     /\ f[s] = c[s] + w[s] /\ f[s] <= e
    BY <1>1
  <2> HIDE DEF f
  <2>3. SumOver(f, T) = SumOver(c, T) + SumOver(w, T)
    BY <2>1, <2>2, SumPlus
  <2>4. SumOver(f, T) <= Cardinality(T) * e
    BY <2>1, <2>2, SumUpper
  <2>5. QED BY <2>3, <2>4
<1>5. PICK k \in Nat, z \in Int, g \in Int :
        k = Cardinality(S) /\ z = SumOver(Paid(c, w, H, b), S) /\ g = SumOver(c, S)
  <2>1. \A s \in S : Paid(c, w, H, b)[s] \in Int
    <3>1. SumOver(w, H) \in Int
      BY <1>3
    <3>2. QED BY <3>1 DEF Paid, Earned
  <2>2. SumOver(Paid(c, w, H, b), S) \in Int
    BY <1>3, <2>1, SumType
  <2>3. QED BY <1>3, <2>2
<1>6. 2 * g <= F * Swing(k) /\ -(2 * g) <= F * Swing(k) /\ F * Swing(k) \in Int
  BY <1>2, <1>5, <1>A DEF Swing
<1>7. CASE b \notin S
  <2>1. PICK T \in SUBSET H, r \in Nat, j \in Nat :
          T = S \cap H /\ r = SumOver(w, T) /\ j = Cardinality(T)
    BY <1>3
  <2>2. z = g + r
    <3>1. SumOver(Paid(c, w, H, b), S) = SumOver(c, S) + SumOver(w, S \cap H)
      BY <1>0, <1>7 DEF GroupMove
    <3>2. QED BY <1>5, <2>1, <3>1
  <2>3. 2 * z <= F * Swing(k - j) + 2 * (j * e)
    <3>1. PICK R \in SUBSET Servers : R = S \ T
      OBVIOUS
    <3>2. IsFiniteSet(R) /\ IsFiniteSet(T) /\ R \cap T = {} /\ R \union T = S
      BY <1>3, <2>1, <3>1
    <3>3. SumOver(c, R \union T) = SumOver(c, R) + SumOver(c, T)
      BY <3>2, SumUnion
    <3>4. Cardinality(R \union T) = Cardinality(R) + Cardinality(T) - Cardinality(R \cap T)
      BY <3>2, FS_Union
    <3>5. Cardinality(R \cap T) = 0
      BY <3>2, FS_EmptySet
    <3>6. Cardinality(R) = k - j
      <4>1. Cardinality(R \union T) = k
        BY <1>5, <3>2, Zenon
      <4>2. Cardinality(R) \in Nat
        BY <1>3
      <4>3. QED BY <2>1, <3>4, <3>5, <4>1, <4>2
    <3>7. 2 * SumOver(c, R) <= F * Swing(k - j)
      BY <1>A, <3>6
    <3>8. g = SumOver(c, R) + SumOver(c, T)
      BY <1>5, <3>2, <3>3, Zenon
    <3>9. SumOver(c, T) + r <= j * e
      BY <1>4, <2>1
    <3>10. SumOver(c, R) \in Int /\ SumOver(c, T) \in Int /\ j * e \in Int
           /\ F * Swing(k - j) \in Int
      BY <1>2, <1>3 DEF Swing
    <3>11. QED BY <2>2, <3>7, <3>8, <3>9, <3>10
  <2>4. 2 * z <= F * Swing(k + 1) - 2 * e + 2 * F
    <3>1. S \union {b} \in SUBSET Servers /\ Cardinality(S \union {b}) = k + 1
      BY <1>3, <1>5, <1>7, FS_AddElement
    <3>2. SumOver(c, S \union {b}) = g + c[b]
      BY <1>3, <1>5, <1>7, SumAdd
    <3>3. 2 * SumOver(c, S \union {b}) <= F * Swing(k + 1)
      BY <1>A, <3>1
    <3>4. T \union {b} \in SUBSET H /\ b \notin T /\ IsFiniteSet(T)
      BY <1>3, <1>7, <2>1
    <3>5. SumOver(w, T \union {b}) = r + w[b]
      <4>1. (\A s \in T : w[s] \in Int) /\ w[b] \in Int
        OBVIOUS
      <4>2. QED BY <2>1, <3>4, <4>1, SumAdd
    <3>6. r + w[b] <= F
      BY <1>B, <3>4, <3>5
    <3>7. F * Swing(k + 1) \in Int /\ c[b] \in Int /\ w[b] \in Int
      BY <1>2 DEF Swing
    <3>8. QED BY <1>1, <2>2, <3>2, <3>3, <3>6, <3>7
  <2>5. F * Swing(k - j) + j * (F * Swing(k + 1)) + 2 * (j * F) <= (1 + j) * (F * Swing(k))
    BY <1>2, SwingStep DEF Swing
  <2>6. 2 * z <= F * Swing(k)
    <3>1. F * Swing(k - j) \in Int /\ F * Swing(k + 1) \in Int
      BY <1>2 DEF Swing
    <3>2. PICK u \in Int, v \in Int, x \in Int, y \in Int :
            y = z /\ u = F * Swing(k - j) /\ v = F * Swing(k + 1) /\ x = F * Swing(k)
      BY <1>6, <3>1
    <3>3. /\ 2 * y <= u + 2 * (j * e) /\ 2 * y <= v - 2 * e + 2 * F
          /\ u + j * v + 2 * (j * F) <= (1 + j) * x
      BY <2>3, <2>4, <2>5, <3>2
    <3>4. 2 * y <= x
      BY <3>3, TwoBounds
    <3>5. QED BY <3>2, <3>4
  <2>7. -(2 * z) <= F * Swing(k)
    BY <1>6, <2>2
  <2>8. QED BY <1>5, <2>6, <2>7
<1>8. CASE b \in S
  <2>1. PICK T \in SUBSET H, r \in Nat, j \in Nat :
          T = H \ S /\ r = SumOver(w, T) /\ j = Cardinality(T)
    BY <1>3
  <2>2. z = g - r
    <3>1. SumOver(Paid(c, w, H, b), S) = SumOver(c, S) - SumOver(w, H \ S)
      BY <1>0, <1>8 DEF GroupMove
    <3>2. QED BY <1>5, <2>1, <3>1
  <2>3. 2 * (-z) <= F * Swing(k + j) + 2 * (j * e)
    <3>1. PICK R \in SUBSET Servers : R = S \union T
      OBVIOUS
    <3>2. IsFiniteSet(S) /\ IsFiniteSet(T) /\ S \cap T = {}
      BY <1>3, <2>1
    <3>3. SumOver(c, S \union T) = SumOver(c, S) + SumOver(c, T)
      BY <3>2, SumUnion
    <3>4. Cardinality(S \union T) = Cardinality(S) + Cardinality(T) - Cardinality(S \cap T)
      BY <3>2, FS_Union
    <3>5. Cardinality(S \cap T) = 0
      BY <3>2, FS_EmptySet
    <3>6. Cardinality(R) = k + j
      BY <1>5, <2>1, <3>1, <3>4, <3>5
    <3>7. -(2 * SumOver(c, R)) <= F * Swing(k + j)
      BY <1>A, <3>6
    <3>8. SumOver(c, R) = g + SumOver(c, T)
      BY <1>5, <3>1, <3>3
    <3>9. SumOver(c, T) + r <= j * e
      BY <1>4, <2>1
    <3>10. SumOver(c, R) \in Int /\ SumOver(c, T) \in Int /\ j * e \in Int
           /\ F * Swing(k + j) \in Int
      BY <1>2, <1>3 DEF Swing
    <3>11. QED BY <2>2, <3>7, <3>8, <3>9, <3>10
  <2>4. 2 * (-z) <= F * Swing(k - 1) - 2 * e + 2 * F
    <3>1. PICK R \in SUBSET Servers : R = S \ {b}
      OBVIOUS
    <3>2. Cardinality(R) = k - 1
      BY <1>3, <1>5, <1>8, <3>1, FS_RemoveElement
    <3>3. g = c[b] + SumOver(c, R)
      BY <1>3, <1>5, <1>8, <3>1, SumSplit
    <3>4. -(2 * SumOver(c, R)) <= F * Swing(k - 1)
      BY <1>A, <3>2
    <3>5. T \union {b} \in SUBSET H /\ b \notin T /\ IsFiniteSet(T)
      BY <1>3, <1>8, <2>1
    <3>6. SumOver(w, T \union {b}) = r + w[b]
      <4>1. (\A s \in T : w[s] \in Int) /\ w[b] \in Int
        OBVIOUS
      <4>2. QED BY <2>1, <3>5, <4>1, SumAdd
    <3>7. r + w[b] <= F
      BY <1>B, <3>5, <3>6
    <3>8. F * Swing(k - 1) \in Int /\ c[b] \in Int /\ w[b] \in Int /\ SumOver(c, R) \in Int
      BY <1>2, <1>3 DEF Swing
    <3>9. QED BY <1>1, <2>2, <3>3, <3>4, <3>7, <3>8
  <2>5. F * Swing(k + j) + j * (F * Swing(k - 1)) + 2 * (j * F) <= (1 + j) * (F * Swing(k))
    BY <1>2, SwingStep DEF Swing
  <2>6. 2 * (-z) <= F * Swing(k)
    <3>1. F * Swing(k + j) \in Int /\ F * Swing(k - 1) \in Int /\ -z \in Int
      BY <1>2 DEF Swing
    <3>2. PICK u \in Int, v \in Int, x \in Int, y \in Int :
            y = -z /\ u = F * Swing(k + j) /\ v = F * Swing(k - 1) /\ x = F * Swing(k)
      BY <1>6, <3>1
    <3>3. /\ 2 * y <= u + 2 * (j * e) /\ 2 * y <= v - 2 * e + 2 * F
          /\ u + j * v + 2 * (j * F) <= (1 + j) * x
      BY <2>3, <2>4, <2>5, <3>2
    <3>4. 2 * y <= x
      BY <3>3, TwoBounds
    <3>5. QED BY <3>2, <3>4
  <2>7. 2 * z <= F * Swing(k)
    BY <1>6, <2>2
  <2>8. -(2 * z) <= F * Swing(k)
    BY <2>6
  <2>9. QED BY <1>5, <2>7, <2>8
<1>9. QED BY <1>7, <1>8

\* Losing a credit leaves every group within its bound.
LEMMA GroupForgets ==
  ASSUME IsFiniteSet(Servers), NEW c \in [Servers -> Int], NEW F \in Nat,
         GroupsWithin(c, F), NEW s \in Servers
  PROVE  GroupsWithin([c EXCEPT ![s] = 0], F)
<1> SUFFICES ASSUME NEW S \in SUBSET Servers
             PROVE  /\ 2 * SumOver([c EXCEPT ![s] = 0], S) <= F * Swing(Cardinality(S))
                    /\ -(2 * SumOver([c EXCEPT ![s] = 0], S)) <= F * Swing(Cardinality(S))
  BY DEF GroupsWithin
<1>1. PICK d \in [Servers -> Int] : d = [c EXCEPT ![s] = 0]
  <2>1. [c EXCEPT ![s] = 0] \in [Servers -> Int]
    OBVIOUS
  <2>2. QED BY <2>1, Zenon
<1>2. IsFiniteSet(S) /\ IsFiniteSet(S \ {s}) /\ Cardinality(S) \in Nat
  BY FS_Subset, FS_CardinalityType
<1>3. \A x \in S \ {s} : d[x] = c[x]
  BY <1>1
<1>4. SumOver(d, S \ {s}) = SumOver(c, S \ {s})
  BY <1>2, <1>3, SumSame
<1>5. CASE s \notin S
  <2>1. S \ {s} = S
    BY <1>5
  <2>2. SumOver(d, S) = SumOver(c, S)
    BY <1>4, <2>1, Zenon
  <2>3. QED BY <1>1, <2>2 DEF GroupsWithin
<1>6. CASE s \in S
  <2>1. SumOver(d, S) = d[s] + SumOver(d, S \ {s}) /\ SumOver(d, S \ {s}) \in Int
    BY <1>2, <1>6, SumSplit, SumType
  <2>2. SumOver(d, S) = SumOver(c, S \ {s})
    BY <1>1, <1>4, <2>1
  <2>3. Cardinality(S \ {s}) = Cardinality(S) - 1
    BY <1>2, <1>6, FS_RemoveElement
  <2>4. PICK R \in SUBSET Servers : R = S \ {s}
    OBVIOUS
  <2>5. PICK k \in Nat : k = Cardinality(S)
    BY <1>2
  <2>6. /\ 2 * SumOver(c, R) <= F * Swing(k - 1)
        /\ -(2 * SumOver(c, R)) <= F * Swing(k - 1)
    BY <2>3, <2>4, <2>5 DEF GroupsWithin
  <2>7. k >= 1 /\ k <= Size /\ Size \in Nat
    <3>1. k <= Size /\ Size \in Nat
      BY <2>5, FS_Subset, FS_CardinalityType DEF Size
    <3>2. k # 0
      BY <1>2, <1>6, <2>5, FS_EmptySet
    <3>3. QED BY <3>1, <3>2
  <2>8. F * Swing(k - 1) <= F * Swing(k)
    BY <2>7, SwingGrows DEF Swing
  <2>9. F * Swing(k - 1) \in Int /\ F * Swing(k) \in Int /\ SumOver(c, R) \in Int
    BY <1>4, <2>1, <2>4, <2>7 DEF Swing
  <2>10. QED BY <1>1, <2>2, <2>4, <2>5, <2>6, <2>8, <2>9
<1>7. QED BY <1>5, <1>6

\* The inductive invariant.  The types, with what an endpoint that is not registered has ...
BooksTyped ==
  /\ endpoints \in Seq(Servers)
  /\ BalancerTypeOK
  /\ weight \in [Servers -> Nat]
  /\ \A s \in Names : weight[s] \in Weights[s]
  /\ credit \in [Servers -> Int]
  /\ connections \in [Servers -> Nat]
  /\ held \in [Servers -> Nat]
  /\ renewed \in BOOLEAN

\* ... the connections, of endpoints that are not registered as well ...
CountsKept ==
  \A s \in Servers :
    /\ connections[s] <= held[s]
    /\ s \notin removed => connections[s] = held[s]

\* ... and the credits: of every group, and of all.
CreditsKept ==
  /\ GroupsWithin(credit, FullWeight)
  /\ removed = {} /\ ~renewed => SumOver(credit, Names) = 0

\* The weights that endpoints can have.
LEMMA WeightsAre ==
  /\ IsFiniteSet(Servers)
  /\ \A s \in Servers : /\ Weights[s] \subseteq Nat
                        /\ Max(Weights[s]) \in Nat
                        /\ \A x \in Weights[s] : x <= Max(Weights[s])
  /\ FullWeight = SumOver([s \in Servers |-> Max(Weights[s])], Servers)
  /\ FullWeight \in Nat
<1>1. IsFiniteSet(Servers)
  BY LoadBalancerAssumption
<1>2. ASSUME NEW s \in Servers
      PROVE  /\ Weights[s] \subseteq Nat
             /\ Max(Weights[s]) \in Nat
             /\ \A x \in Weights[s] : x <= Max(Weights[s])
  <2>1. Weights[s] \subseteq Nat /\ Weights[s] # {} /\ IsFiniteSet(Weights[s])
    BY LoadBalancerAssumption DEF ValidWeights
  <2>2. Weights[s] \subseteq Int
    BY <2>1
  <2>3. Max(Weights[s]) \in Weights[s] /\ \A x \in Weights[s] : x <= Max(Weights[s])
    BY <2>1, <2>2, MaxIsLargest
  <2>4. QED BY <2>1, <2>3
<1>3. PICK m : m = [s \in Servers |-> Max(Weights[s])]
  OBVIOUS
<1>4. FullWeight = SumOver(m, Servers)
  <2>1. DOMAIN m = Servers
    BY <1>3
  <2>2. FullWeight = SumFunction(m)
    BY <1>3 DEF FullWeight
  <2>3. QED BY <2>1, <2>2, SumIsSumFunction
<1>5. \A s \in Servers : m[s] \in Nat
  BY <1>2, <1>3
<1>6. SumOver(m, Servers) \in Nat
  BY <1>1, <1>5, SumNatural
<1>7. QED BY <1>1, <1>2, <1>3, <1>4, <1>6

\* The first healthy endpoint with the largest value.
LEMMA FirstMostIs ==
  ASSUME NEW value, BooksTyped, healthy # {}, \A s \in Servers : value[s] \in Int
  PROVE  /\ FirstMost(value) \in healthy
         /\ \A s \in healthy : value[s] <= value[FirstMost(value)]
<1> DEFINE Values == {value[s] : s \in healthy}
           Top == {i \in HealthyList :
                     \A j \in HealthyList : value[endpoints[j]] <= value[endpoints[i]]}
<1>1. /\ healthy \subseteq Servers /\ IsFiniteSet(healthy)
      /\ \A s \in healthy : \E i \in HealthyList : endpoints[i] = s
      /\ \A i \in HealthyList : endpoints[i] \in healthy /\ i \in Nat
  <2>1. healthy \subseteq Servers /\ healthy \subseteq Names /\ endpoints \in Seq(Servers)
    BY DEF BooksTyped, BalancerTypeOK
  <2>2. IsFiniteSet(healthy)
    BY <2>1, WeightsAre, FS_Subset
  <2>3. QED BY <2>1, <2>2 DEF HealthyList, Names, Range
<1>2. IsFiniteSet(Values)
  BY <1>1, ImageFinite
<1>3. Values \subseteq Int /\ Values # {}
  BY <1>1
<1>4. PICK v \in Values : \A x \in Values : x <= v
  <2> HIDE DEF Values
  <2> QED BY <1>2, <1>3, MaxIsLargest
<1>5. PICK s \in healthy : \A r \in healthy : value[r] <= value[s]
  BY <1>4
<1>6. Top # {} /\ Top \subseteq Nat
  BY <1>1, <1>5
<1>7. PICK i \in Top : \A j \in Top : i <= j
  <2> HIDE DEF Top
  <2> QED BY <1>6, LeastNumber
<1>8. Min(Top) \in Top
  <2> HIDE DEF Top
  <2> QED BY <1>7 DEF Min
<1>9. FirstMost(value) = endpoints[Min(Top)]
  BY DEF FirstMost
<1>10. QED BY <1>1, <1>8, <1>9
\* A name that comes last.
LEMMA NameAdded ==
  ASSUME NEW list \in Seq(Servers), NEW s \in Servers, IsInjective(list), s \notin Range(list)
  PROVE  /\ Append(list, s) \in Seq(Servers) /\ IsInjective(Append(list, s))
         /\ Range(Append(list, s)) = Range(list) \union {s}
<1>1. PICK next \in Seq(Servers) : next = Append(list, s)
  <2>1. Append(list, s) \in Seq(Servers)
    OBVIOUS
  <2>2. QED BY <2>1, Zenon
<1>2. PICK n \in Nat : n = Len(list) + 1
  OBVIOUS
<1>3. /\ DOMAIN next = DOMAIN list \union {n} /\ n \notin DOMAIN list /\ next[n] = s
      /\ \A i \in DOMAIN list : next[i] = list[i]
  BY <1>1, <1>2
<1>4. Range(next) = Range(list) \union {s}
  BY <1>3 DEF Range
<1>5. IsInjective(next)
  BY <1>3 DEF IsInjective, Range
<1>6. QED BY <1>1, <1>4, <1>5

\* A name that is taken out.
LEMMA NameRemoved ==
  ASSUME NEW list \in Seq(Servers), IsInjective(list), NEW i \in DOMAIN list
  PROVE  /\ RemoveAt(list, i) \in Seq(Servers) /\ IsInjective(RemoveAt(list, i))
         /\ Range(RemoveAt(list, i)) = Range(list) \ {list[i]}
<1>1. PICK n \in Nat : n = Len(list)
  OBVIOUS
<1>2. i \in 1..n /\ DOMAIN list = 1..n
  BY <1>1
<1>3. PICK a \in Seq(Servers), b \in Seq(Servers) :
        a = SubSeq(list, 1, i - 1) /\ b = SubSeq(list, i + 1, Len(list))
  <2>1. SubSeq(list, 1, i - 1) \in Seq(Servers) /\ SubSeq(list, i + 1, Len(list)) \in Seq(Servers)
    BY <1>1, <1>2
  <2>2. QED BY <2>1, Zenon
<1>4. /\ Len(a) = i - 1 /\ Len(b) = n - i
      /\ \A j \in 1..(i - 1) : a[j] = list[j]
      /\ \A j \in 1..(n - i) : b[j] = list[i + j]
  <2>1. Len(a) = i - 1
    BY <1>1, <1>2, <1>3
  <2>2. Len(b) = n - i
    BY <1>1, <1>2, <1>3
  <2>3. ASSUME NEW j \in 1..(i - 1) PROVE a[j] = list[j]
    BY <1>1, <1>2, <1>3
  <2>4. ASSUME NEW j \in 1..(n - i) PROVE b[j] = list[i + j]
    BY <1>1, <1>2, <1>3
  <2>5. QED BY <2>1, <2>2, <2>3, <2>4
<1>5. PICK next \in Seq(Servers) : next = a \o b
  <2>1. a \o b \in Seq(Servers)
    OBVIOUS
  <2>2. QED BY <2>1, Zenon
<1>6. RemoveAt(list, i) = next
  BY <1>3, <1>5 DEF RemoveAt
<1>7. Len(next) = n - 1 /\ DOMAIN next = 1..(n - 1)
  <2>1. Len(next) = Len(a) + Len(b)
    BY <1>5
  <2>2. Len(next) = n - 1
    BY <1>2, <1>4, <2>1
  <2>3. QED BY <2>2
<1>8. \A j \in 1..(n - 1) : next[j] = IF j < i THEN list[j] ELSE list[j + 1]
  <2> TAKE j \in 1..(n - 1)
  <2>1. CASE j < i
    BY <1>2, <1>4, <1>5, <2>1
  <2>2. CASE ~(j < i)
    <3>1. j - (i - 1) \in 1..(n - i) /\ i + (j - (i - 1)) = j + 1
      BY <1>2, <2>2
    <3>2. next[j] = b[j - (i - 1)]
      BY <1>2, <1>4, <1>5, <2>2
    <3>3. QED BY <1>4, <2>2, <3>1, <3>2
  <2>3. QED BY <2>1, <2>2
<1>9. \A j, k \in 1..n : list[j] = list[k] => j = k
  BY <1>2 DEF IsInjective
<1>10. IsInjective(next)
  <2>1. ASSUME NEW j \in 1..(n - 1), NEW k \in 1..(n - 1), next[j] = next[k] PROVE j = k
    BY <1>2, <1>8, <1>9, <2>1
  <2>2. QED BY <1>7, <2>1 DEF IsInjective
<1>11. Range(next) = Range(list) \ {list[i]}
  <2>1. ASSUME NEW j \in 1..(n - 1) PROVE next[j] \in Range(list) \ {list[i]}
    <3>1. PICK k \in 1..n : next[j] = list[k] /\ k # i
      <4>1. CASE j < i
        <5>1. j \in 1..n /\ j # i /\ next[j] = list[j]
          BY <1>8, <4>1
        <5>2. QED BY <5>1
      <4>2. CASE ~(j < i)
        <5>1. j + 1 \in 1..n /\ j + 1 # i /\ next[j] = list[j + 1]
          BY <1>2, <1>8, <4>2
        <5>2. QED BY <5>1
      <4>3. QED BY <4>1, <4>2
    <3>2. QED BY <1>2, <1>9, <3>1 DEF Range
  <2>2. ASSUME NEW k \in 1..n, k # i PROVE \E j \in 1..(n - 1) : next[j] = list[k]
    <3>1. CASE k < i
      BY <1>2, <1>8, <2>2, <3>1
    <3>2. CASE ~(k < i)
      <4>1. k - 1 \in 1..(n - 1) /\ ~(k - 1 < i) /\ (k - 1) + 1 = k
        BY <1>2, <2>2, <3>2
      <4>2. QED BY <1>8, <4>1
    <3>3. QED BY <3>1, <3>2
  <2>3. Range(next) \subseteq Range(list) \ {list[i]}
    BY <1>7, <2>1 DEF Range
  <2>4. ASSUME NEW r \in Range(list) \ {list[i]} PROVE r \in Range(next)
    <3>1. PICK k \in 1..n : r = list[k] /\ k # i
      BY <1>2, <2>4 DEF Range
    <3>2. QED BY <1>7, <2>2, <3>1 DEF Range
  <2>5. QED BY <2>3, <2>4
<1>12. QED BY <1>6, <1>10, <1>11

\* The types survive every step.
LEMMA BooksTypedStep == BooksTyped /\ [BalancerNext]_balancerVars => BooksTyped'
<1> SUFFICES ASSUME BooksTyped, [BalancerNext]_balancerVars PROVE BooksTyped'
  OBVIOUS
<1>0. /\ endpoints \in Seq(Servers) /\ IsInjective(endpoints) /\ Names \subseteq Servers
      /\ healthy \subseteq Names /\ rr_counter \in 0..(RoundTrip - 1)
      /\ \A s \in Servers \ Names : weight[s] = 0 /\ credit[s] = 0 /\ connections[s] = 0
      /\ weight \in [Servers -> Nat] /\ \A s \in Names : weight[s] \in Weights[s]
      /\ credit \in [Servers -> Int] /\ connections \in [Servers -> Nat]
      /\ held \in [Servers -> Nat] /\ renewed \in BOOLEAN
  BY DEF BooksTyped, BalancerTypeOK
<1>1. ASSUME NEW s \in Servers, NEW x \in Weights[s], NEW up \in BOOLEAN, AddEndpoint(s, x, up)
      PROVE  BooksTyped'
  <2>1. endpoints' \in Seq(Servers) /\ IsInjective(endpoints') /\ Names' = Names \union {s}
    <3>1. CASE s \in Names
      BY <1>0, <1>1, <3>1 DEF AddEndpoint, Names
    <3>2. CASE s \notin Names
      <4>1. endpoints' = Append(endpoints, s)
        BY <1>1, <3>2 DEF AddEndpoint
      <4>2. QED BY <1>0, <3>2, <4>1, NameAdded DEF Names
    <3>3. QED BY <3>1, <3>2
  <2>2. x \in Nat
    BY WeightsAre
  <2>3. /\ weight' = [weight EXCEPT ![s] = x] /\ credit' = [credit EXCEPT ![s] = 0]
        /\ connections' = connections /\ held' = held /\ rr_counter' = rr_counter
        /\ healthy' \subseteq healthy \union {s} /\ renewed' = (renewed \/ s \in Names)
    BY <1>1 DEF AddEndpoint
  <2>4. /\ weight' \in [Servers -> Nat] /\ weight'[s] = x /\ credit' \in [Servers -> Int]
        /\ \A r \in Servers \ {s} : weight'[r] = weight[r] /\ credit'[r] = credit[r]
    BY <1>0, <2>2, <2>3
  <2>5. renewed' \in BOOLEAN
    BY <2>3, Zenon
  <2>6. QED BY <1>0, <2>1, <2>3, <2>4, <2>5 DEF BooksTyped, BalancerTypeOK
<1>2. ASSUME NEW s \in Servers, RemoveEndpoint(s) PROVE BooksTyped'
  <2>1. PICK i \in DOMAIN endpoints : endpoints[i] = s /\ endpoints' = RemoveAt(endpoints, i)
    BY <1>2 DEF RemoveEndpoint
  <2>2. endpoints' \in Seq(Servers) /\ IsInjective(endpoints') /\ Names' = Names \ {s}
    BY <1>0, <2>1, NameRemoved DEF Names
  <2>3. /\ weight' = [weight EXCEPT ![s] = 0] /\ credit' = [credit EXCEPT ![s] = 0]
        /\ connections' = [connections EXCEPT ![s] = 0] /\ held' = held
        /\ rr_counter' = rr_counter /\ healthy' = healthy \ {s} /\ renewed' = renewed
    BY <1>2 DEF RemoveEndpoint
  <2>4. /\ weight' \in [Servers -> Nat] /\ credit' \in [Servers -> Int]
        /\ connections' \in [Servers -> Nat]
        /\ weight'[s] = 0 /\ credit'[s] = 0 /\ connections'[s] = 0
        /\ \A r \in Servers \ {s} : /\ weight'[r] = weight[r] /\ credit'[r] = credit[r]
                                    /\ connections'[r] = connections[r]
    <3>1. /\ weight \in [Servers -> Nat] /\ credit \in [Servers -> Int]
          /\ connections \in [Servers -> Nat]
      BY <1>0
    <3>2. /\ weight' \in [Servers -> Nat] /\ weight'[s] = 0
          /\ \A r \in Servers \ {s} : weight'[r] = weight[r]
      BY <2>3, <3>1
    <3>3. /\ credit' \in [Servers -> Int] /\ credit'[s] = 0
          /\ \A r \in Servers \ {s} : credit'[r] = credit[r]
      BY <2>3, <3>1
    <3>4. /\ connections' \in [Servers -> Nat] /\ connections'[s] = 0
          /\ \A r \in Servers \ {s} : connections'[r] = connections[r]
      BY <2>3, <3>1
    <3>5. QED BY <3>2, <3>3, <3>4
  <2>5. \A r \in Servers \ Names' : weight'[r] = 0 /\ credit'[r] = 0 /\ connections'[r] = 0
    BY <1>0, <2>2, <2>4
  <2>6. BalancerTypeOK'
    BY <1>0, <2>2, <2>3, <2>5 DEF BalancerTypeOK
  <2>7. \A r \in Names' : weight'[r] \in Weights[r]
    BY <1>0, <2>2, <2>4
  <2>8. QED BY <1>0, <2>2, <2>3, <2>4, <2>6, <2>7 DEF BooksTyped
<1>3. ASSUME NEW s \in Servers, MarkHealthy(s) \/ MarkUnhealthy(s) PROVE BooksTyped'
  <2>1. /\ Names' = Names /\ healthy' \subseteq Names
        /\ UNCHANGED <<endpoints, weight, connections, rr_counter, credit, held, renewed>>
    BY <1>0, <1>3 DEF MarkHealthy, MarkUnhealthy, Names
  <2>2. QED BY <1>0, <2>1 DEF BooksTyped, BalancerTypeOK
<1>4. ASSUME NEW s \in Servers, OpenConnection(s) PROVE BooksTyped'
  <2>1. /\ Names' = Names /\ s \in Names
        /\ connections' = [connections EXCEPT ![s] = @ + 1] /\ held' = [held EXCEPT ![s] = @ + 1]
        /\ UNCHANGED <<endpoints, weight, healthy, rr_counter, credit, renewed>>
    BY <1>4 DEF OpenConnection, Names
  <2>2. /\ connections' \in [Servers -> Nat] /\ held' \in [Servers -> Nat]
        /\ \A r \in Servers \ {s} : connections'[r] = connections[r]
    BY <1>0, <2>1
  <2>3. QED BY <1>0, <2>1, <2>2 DEF BooksTyped, BalancerTypeOK
<1>5. ASSUME NEW s \in Servers, CloseConnection(s) PROVE BooksTyped'
  <2>1. /\ Names' = Names /\ held[s] > 0
        /\ connections' = (IF s \in Names THEN [connections EXCEPT ![s] = Closed(@)] ELSE connections)
        /\ held' = [held EXCEPT ![s] = @ - 1]
        /\ UNCHANGED <<endpoints, weight, healthy, rr_counter, credit, renewed>>
    BY <1>5 DEF CloseConnection, Names
  <2>2. /\ connections' \in [Servers -> Nat] /\ held' \in [Servers -> Nat]
        /\ \A r \in Servers \ Names : connections'[r] = connections[r]
    BY <1>0, <2>1 DEF Closed
  <2>3. QED BY <1>0, <2>1, <2>2 DEF BooksTyped, BalancerTypeOK
<1>6. CASE SelectRoundRobin
  <2>1. /\ Names' = Names /\ rr_counter' = (rr_counter + 1) % RoundTrip
        /\ UNCHANGED <<endpoints, weight, healthy, connections, credit, held, renewed>>
    BY <1>6 DEF SelectRoundRobin, Names
  <2>2. rr_counter' \in 0..(RoundTrip - 1)
    <3>1. RoundTrip \in Nat \ {0}
      BY LoadBalancerAssumption
    <3>2. QED BY <1>0, <2>1, <3>1
  <2>3. QED BY <1>0, <2>1, <2>2 DEF BooksTyped, BalancerTypeOK
<1>7. CASE SelectWeighted
  <2>1. PICK e, b :
          /\ e = [s \in Servers |-> IF s \in healthy THEN credit[s] + weight[s] ELSE credit[s]]
          /\ b = FirstMost(e) /\ credit' = [e EXCEPT ![b] = @ - Charge]
    BY <1>7 DEF SelectWeighted
  <2>2. /\ Names' = Names /\ HealthyList # {}
        /\ UNCHANGED <<endpoints, weight, healthy, connections, rr_counter, held, renewed>>
    BY <1>7 DEF SelectWeighted, Names
  <2>3. e \in [Servers -> Int] /\ \A s \in Servers \ healthy : e[s] = credit[s]
    BY <1>0, <2>1
  <2>4. b \in healthy
    <3>1. healthy # {}
      BY <2>2 DEF HealthyList
    <3>2. \A s \in Servers : e[s] \in Int
      BY <2>3
    <3>3. QED BY <2>1, <3>1, <3>2, FirstMostIs
  <2>5. Charge \in Int
    <3>1. IsFiniteSet(healthy)
      BY <1>0, WeightsAre, FS_Subset
    <3>2. \A s \in healthy : weight[s] \in Int
      BY <1>0
    <3>3. SumOver(weight, healthy) \in Int
      BY <3>1, <3>2, SumType
    <3>4. Charge = SumOver(weight, healthy)
      BY SumIsMapThenSum, Zenon DEF Charge
    <3>5. QED BY <3>3, <3>4
  <2>6. credit' \in [Servers -> Int] /\ \A s \in Servers \ healthy : credit'[s] = credit[s]
    <3>1. PICK q \in Int : q = Charge
      BY <2>5
    <3>2. credit' = [e EXCEPT ![b] = @ - q] /\ b \in Servers
      BY <1>0, <2>1, <2>4, <3>1
    <3>3. QED BY <2>3, <2>4, <3>2
  <2>7. QED BY <1>0, <2>2, <2>6 DEF BooksTyped, BalancerTypeOK
<1>8. CASE UNCHANGED balancerVars
  BY <1>8 DEF balancerVars, BooksTyped, BalancerTypeOK, Names
<1>9. QED BY <1>1, <1>2, <1>3, <1>4, <1>5, <1>6, <1>7, <1>8 DEF BalancerNext
\* The counts of connections survive every step.
LEMMA CountsKeptStep ==
  BooksTyped /\ CountsKept /\ [BalancerNext]_balancerVars => CountsKept'
<1> SUFFICES ASSUME BooksTyped, CountsKept, [BalancerNext]_balancerVars PROVE CountsKept'
  OBVIOUS
<1>0. /\ connections \in [Servers -> Nat] /\ held \in [Servers -> Nat]
      /\ \A s \in Servers \ Names : connections[s] = 0
      /\ \A s \in Servers : /\ connections[s] <= held[s]
                            /\ s \notin removed => connections[s] = held[s]
  BY DEF BooksTyped, BalancerTypeOK, CountsKept
<1>1. ASSUME UNCHANGED <<connections, held, removed>> PROVE CountsKept'
  BY <1>0, <1>1 DEF CountsKept
<1>2. ASSUME NEW s \in Servers, RemoveEndpoint(s) PROVE CountsKept'
  BY <1>0, <1>2 DEF RemoveEndpoint, CountsKept
<1>3. ASSUME NEW s \in Servers, OpenConnection(s) PROVE CountsKept'
  BY <1>0, <1>3 DEF OpenConnection, CountsKept
<1>4. ASSUME NEW s \in Servers, CloseConnection(s) PROVE CountsKept'
  <2>1. /\ held[s] > 0 /\ held' = [held EXCEPT ![s] = @ - 1] /\ removed' = removed
        /\ connections' = (IF s \in Names THEN [connections EXCEPT ![s] = Closed(@)] ELSE connections)
    BY <1>4 DEF CloseConnection
  <2>2. ASSUME NEW r \in Servers \ {s}
        PROVE  connections'[r] <= held'[r] /\ (r \notin removed => connections'[r] = held'[r])
    BY <1>0, <2>1
  <2>3. connections'[s] <= held'[s] /\ (s \notin removed => connections'[s] = held'[s])
    <3>1. held'[s] = held[s] - 1 /\ held[s] \in Nat /\ connections[s] \in Nat
      BY <1>0, <2>1
    <3>2. CASE s \in Names
      <4>1. connections'[s] = Closed(connections[s])
        BY <1>0, <2>1, <3>2
      <4>2. QED BY <1>0, <2>1, <3>1, <4>1 DEF Closed
    <3>3. CASE s \notin Names
      <4>1. connections'[s] = 0 /\ connections[s] = 0
        BY <1>0, <2>1, <3>3
      <4>2. s \in removed
        BY <1>0, <2>1, <3>1, <4>1
      <4>3. QED BY <2>1, <3>1, <4>1, <4>2
    <3>4. QED BY <3>2, <3>3
  <2>4. QED BY <2>1, <2>2, <2>3 DEF CountsKept
<1>5. QED BY <1>1, <1>2, <1>3, <1>4 DEF BalancerNext, AddEndpoint, MarkHealthy, MarkUnhealthy,
             SelectRoundRobin, SelectWeighted, balancerVars

\* The credits survive every step: by GroupForgets if an endpoint starts anew, by GroupStep
\* if one is selected.
LEMMA CreditsKeptStep ==
  BooksTyped /\ BooksTyped' /\ CreditsKept /\ [BalancerNext]_balancerVars => CreditsKept'
<1> SUFFICES ASSUME BooksTyped, BooksTyped', CreditsKept, [BalancerNext]_balancerVars
             PROVE  CreditsKept'
  OBVIOUS
<1>0. /\ credit \in [Servers -> Int] /\ weight \in [Servers -> Nat] /\ Names \subseteq Servers
      /\ healthy \subseteq Names /\ \A s \in Names : weight[s] \in Weights[s]
      /\ endpoints \in Seq(Servers) /\ IsInjective(endpoints)
  BY DEF BooksTyped, BalancerTypeOK
<1>1. IsFiniteSet(Servers) /\ FullWeight \in Nat /\ IsFiniteSet(Names) /\ IsFiniteSet(healthy)
  BY <1>0, WeightsAre, FS_Subset
<1>2. FullWeight' = FullWeight
  BY DEF FullWeight
<1>3. GroupsWithin(credit, FullWeight)
  BY DEF CreditsKept
<1>4. ASSUME UNCHANGED <<credit, endpoints, removed, renewed>> PROVE CreditsKept'
  BY <1>2, <1>4 DEF CreditsKept, Names, GroupsWithin, Swing, Size
<1>5. ASSUME NEW c, credit' = c, GroupsWithin(c, FullWeight) PROVE GroupsWithin(credit', FullWeight')
  BY <1>2, <1>5
<1>6. ASSUME NEW s \in Servers, NEW x \in Weights[s], NEW up \in BOOLEAN, AddEndpoint(s, x, up)
      PROVE  CreditsKept'
  <2>1. /\ credit' = [credit EXCEPT ![s] = 0] /\ removed' = removed
        /\ renewed' = (renewed \/ s \in Names)
        /\ endpoints' = (IF s \in Names THEN endpoints ELSE Append(endpoints, s))
    BY <1>6 DEF AddEndpoint
  <2>2. GroupsWithin([credit EXCEPT ![s] = 0], FullWeight)
    BY <1>0, <1>1, <1>3, GroupForgets
  <2>3. ASSUME removed' = {}, ~renewed' PROVE SumOver(credit', Names') = 0
    <3>1. s \notin Names /\ removed = {} /\ ~renewed
      BY <2>1, <2>3, Zenon
    <3>2. Names' = Names \union {s}
      <4>1. endpoints' = Append(endpoints, s)
        BY <2>1, <3>1
      <4>2. QED BY <1>0, <3>1, <4>1, NameAdded DEF Names
    <3>3. SumOver(credit, Names) = 0
      BY <3>1 DEF CreditsKept
    <3>4. PICK d : d = credit'
      OBVIOUS
    <3>5. /\ \A r \in Names : credit[r] \in Int
          /\ \A r \in Names : credit[r] = d[r]
          /\ d[s] = 0 /\ d[s] \in Int
      BY <1>0, <2>1, <3>1, <3>4
    <3>6. SumOver(d, Names \union {s}) = SumOver(credit, Names) + d[s]
      <4>1. PICK N, c : N = Names /\ c = credit
        OBVIOUS
      <4>2. /\ IsFiniteSet(N) /\ s \notin N /\ (\A r \in N : c[r] \in Int)
            /\ (\A r \in N : c[r] = d[r]) /\ d[s] \in Int
        BY <1>1, <3>1, <3>5, <4>1
      <4>3. SumOver(d, N \union {s}) = SumOver(c, N) + d[s]
        BY <4>2, SumAdd
      <4>4. QED BY <4>1, <4>3
    <3>7. QED BY <3>2, <3>3, <3>4, <3>5, <3>6
  <2>4. QED BY <1>5, <2>1, <2>2, <2>3 DEF CreditsKept
<1>7. ASSUME NEW s \in Servers, RemoveEndpoint(s) PROVE CreditsKept'
  <2>1. credit' = [credit EXCEPT ![s] = 0] /\ removed' # {}
    BY <1>7 DEF RemoveEndpoint
  <2>2. GroupsWithin([credit EXCEPT ![s] = 0], FullWeight)
    BY <1>0, <1>1, <1>3, GroupForgets
  <2>3. QED BY <1>5, <2>1, <2>2 DEF CreditsKept
<1>8. CASE SelectWeighted
  <2>1. PICK e, b :
          /\ e = [s \in Servers |-> IF s \in healthy THEN credit[s] + weight[s] ELSE credit[s]]
          /\ b = FirstMost(e) /\ credit' = [e EXCEPT ![b] = @ - Charge]
    BY <1>8 DEF SelectWeighted
  <2>2. /\ UNCHANGED <<endpoints, removed, renewed>> /\ HealthyList # {} /\ Names' = Names
    BY <1>8 DEF SelectWeighted, Names
  <2>3. e = Earned(credit, weight, healthy)
    BY <2>1 DEF Earned
  <2>4. Charge = SumOver(weight, healthy)
    BY SumIsMapThenSum, Zenon DEF Charge
  <2>5. credit' = Paid(credit, weight, healthy, b)
    BY <2>1, <2>3, <2>4 DEF Paid
  <2>6. /\ \A s \in Servers : e[s] \in Int
        /\ \A s \in healthy : e[s] = credit[s] + weight[s]
    BY <1>0, <2>1
  <2>7. b \in healthy /\ \A s \in healthy : e[s] <= e[b]
    <3>1. healthy # {}
      BY <2>2 DEF HealthyList
    <3>2. QED BY <2>1, <2>6, <3>1, FirstMostIs
  <2>8. \A s \in healthy : credit[s] + weight[s] <= credit[b] + weight[b]
    BY <2>6, <2>7
  <2>9. SumOver(weight, healthy) <= FullWeight
    <3>1. PICK m : m = [s \in Servers |-> Max(Weights[s])]
      OBVIOUS
    <3>2. (\A s \in Servers : m[s] \in Nat) /\ FullWeight = SumOver(m, Servers)
      <4>1. \A s \in Servers : m[s] \in Nat
        BY <3>1, WeightsAre
      <4>2. FullWeight = SumOver(m, Servers)
        BY <3>1, WeightsAre, Zenon
      <4>3. QED BY <4>1, <4>2
    <3>3. (\A s \in healthy : weight[s] \in Int) /\ \A s \in healthy : weight[s] <= m[s]
      BY <1>0, <3>1, WeightsAre
    <3>4. healthy \in SUBSET Servers
      BY <1>0
    <3>5. SumOver(weight, healthy) <= SumOver(m, Servers)
      BY <1>1, <3>2, <3>3, <3>4, SumLeq
    <3>6. QED BY <3>2, <3>5
  <2>10. GroupsWithin(Paid(credit, weight, healthy, b), FullWeight)
    <3>1. healthy \in SUBSET Servers
      BY <1>0
    <3>2. QED BY <1>0, <1>1, <1>3, <2>7, <2>8, <2>9, <3>1, GroupStep
  <2>11. SumOver(Paid(credit, weight, healthy, b), Names) = SumOver(credit, Names)
    <3>1. GroupMove(credit, weight, healthy, b, Names)
      <4>1. (\A s \in Servers : credit[s] \in Int) /\ \A s \in Servers : weight[s] \in Nat
        BY <1>0
      <4>2. healthy \in SUBSET Servers /\ Names \in SUBSET Servers
        BY <1>0
      <4>3. QED BY <1>1, <2>7, <4>1, <4>2, GroupMoves
    <3>2. b \in Names /\ healthy \ Names = {}
      BY <1>0, <2>7
    <3>3. SumOver(weight, healthy \ Names) = 0
      BY <3>2, SumEmpty
    <3>4. SumOver(credit, Names) \in Int
      BY <1>0, <1>1, SumType
    <3>5. QED BY <3>1, <3>2, <3>3, <3>4 DEF GroupMove
  <2>12. removed' = {} /\ ~renewed' => SumOver(credit', Names') = 0
    BY <2>2, <2>5, <2>11 DEF CreditsKept
  <2>13. QED BY <1>5, <2>5, <2>10, <2>12 DEF CreditsKept
<1>9. ASSUME NEW s \in Servers,
             MarkHealthy(s) \/ MarkUnhealthy(s) \/ OpenConnection(s) \/ CloseConnection(s)
      PROVE  CreditsKept'
  BY <1>4, <1>9 DEF MarkHealthy, MarkUnhealthy, OpenConnection, CloseConnection
<1>10. CASE SelectRoundRobin
  BY <1>4, <1>10 DEF SelectRoundRobin
<1>11. CASE UNCHANGED balancerVars
  BY <1>4, <1>11 DEF balancerVars
<1>12. QED BY <1>6, <1>7, <1>8, <1>9, <1>10, <1>11 DEF BalancerNext

\* The invariant holds from the beginning.
LEMMA BooksInit == BalancerInit => BooksTyped /\ CountsKept /\ CreditsKept
<1> SUFFICES ASSUME BalancerInit PROVE BooksTyped /\ CountsKept /\ CreditsKept
  OBVIOUS
<1>1. Names = {} /\ endpoints \in Seq(Servers) /\ IsInjective(endpoints)
  BY DEF BalancerInit, Names, Range, IsInjective
<1>2. BooksTyped
  <2>1. 0 \in 0..(RoundTrip - 1)
    BY LoadBalancerAssumption
  <2>2. /\ weight = [s \in Servers |-> 0] /\ credit = [s \in Servers |-> 0]
        /\ connections = [s \in Servers |-> 0] /\ held = [s \in Servers |-> 0]
        /\ healthy = {} /\ rr_counter = 0 /\ renewed = FALSE
    BY DEF BalancerInit
  <2>3. BalancerTypeOK
    BY <1>1, <2>1, <2>2 DEF BalancerTypeOK
  <2>4. /\ weight \in [Servers -> Nat] /\ credit \in [Servers -> Int]
        /\ connections \in [Servers -> Nat] /\ held \in [Servers -> Nat]
    BY <2>2
  <2>5. renewed \in BOOLEAN
    BY <2>2
  <2>6. QED BY <1>1, <2>3, <2>4, <2>5 DEF BooksTyped
<1>3. CountsKept
  BY DEF BalancerInit, CountsKept
<1>4. GroupsWithin(credit, FullWeight)
  <2> SUFFICES ASSUME NEW S \in SUBSET Servers
               PROVE  /\ 2 * SumOver(credit, S) <= FullWeight * Swing(Cardinality(S))
                      /\ -(2 * SumOver(credit, S)) <= FullWeight * Swing(Cardinality(S))
    BY DEF GroupsWithin
  <2>1. IsFiniteSet(S) /\ Cardinality(S) \in Nat /\ Size \in Nat /\ Cardinality(S) <= Size
    BY WeightsAre, FS_Subset, FS_CardinalityType DEF Size
  <2>2. \A s \in S : credit[s] = 0
    BY DEF BalancerInit
  <2>3. SumOver(credit, S) = 0
    BY <2>1, <2>2, SumOfZeros
  <2>4. \A k, n, f \in Nat : k <= n => f * (k * (2 * n - k - 1)) >= 0
    <3>1. \A k, n \in Nat : k <= n => k * (2 * n - k - 1) \in Nat
      <4> SUFFICES ASSUME NEW k \in Nat, NEW n \in Nat, k <= n PROVE k * (2 * n - k - 1) \in Nat
        OBVIOUS
      <4>1. CASE k = 0
        BY <4>1
      <4>2. CASE k # 0
        <5>1. 2 * n - k - 1 \in Nat
          BY <4>2
        <5>2. \A x, y \in Nat : x * y \in Nat
          OBVIOUS
        <5>3. QED BY <5>1, <5>2
      <4>3. QED BY <4>1, <4>2
    <3>2. \A x, y \in Nat : x * y >= 0
      OBVIOUS
    <3>3. QED BY <3>1, <3>2
  <2>5. FullWeight * Swing(Cardinality(S)) >= 0
    BY <2>1, <2>4, WeightsAre DEF Swing
  <2>6. FullWeight * Swing(Cardinality(S)) \in Int
    BY <2>1, WeightsAre DEF Swing
  <2>7. QED BY <2>3, <2>5, <2>6
<1>5. SumOver(credit, Names) = 0
  BY <1>1, SumEmpty
<1>6. QED BY <1>2, <1>3, <1>4, <1>5 DEF CreditsKept

\* What the invariant says of single endpoints.
LEMMA BooksFollow == BooksTyped /\ CountsKept /\ CreditsKept => BooksHonest
<1> SUFFICES ASSUME BooksTyped, CountsKept, CreditsKept PROVE BooksHonest
  OBVIOUS
<1>0. /\ credit \in [Servers -> Int] /\ Names \subseteq Servers /\ healthy \subseteq Names
      /\ connections \in [Servers -> Nat] /\ held \in [Servers -> Nat]
  BY DEF BooksTyped, BalancerTypeOK
<1>1. ASSUME NEW s \in Names
      PROVE  credit[s] \in -((Cardinality(Servers) - 1) * FullWeight)..((Cardinality(Servers) - 1) * FullWeight)
  <2>1. {s} \in SUBSET Servers /\ IsFiniteSet({s}) /\ Cardinality({s}) = 1
    BY <1>0, FS_Singleton
  <2>2. SumOver(credit, {s}) = credit[s]
    <3>1. SumOver(credit, {} \union {s}) = SumOver(credit, {}) + credit[s]
      <4>1. IsFiniteSet({}) /\ s \notin {} /\ credit[s] \in Int
        BY <1>0, FS_EmptySet
      <4>2. QED BY <4>1, SumAdd
    <3>2. {} \union {s} = {s} /\ SumOver(credit, {}) = 0 /\ credit[s] \in Int
      BY <1>0, SumEmpty
    <3>3. QED BY <3>1, <3>2
  <2>3. 2 * credit[s] <= FullWeight * Swing(1) /\ -(2 * credit[s]) <= FullWeight * Swing(1)
    BY <2>1, <2>2 DEF CreditsKept, GroupsWithin
  <2>4. PICK n \in Nat, f \in Nat : n = Cardinality(Servers) /\ f = FullWeight
    BY WeightsAre, FS_CardinalityType
  <2>5. FullWeight * Swing(1) = 2 * ((n - 1) * f)
    <3>1. FullWeight * Swing(1) = f * (1 * (2 * n - 1 - 1))
      BY <2>4 DEF Swing, Size
    <3>2. QED BY <3>1
  <2>6. (n - 1) * f \in Int /\ credit[s] \in Int
    BY <1>0
  <2>7. PICK q \in Int : q = (n - 1) * f
    BY <2>6
  <2>8. credit[s] \in -q..q
    BY <2>3, <2>5, <2>6, <2>7
  <2>9. QED BY <2>4, <2>7, <2>8
<1>2. removed = {} /\ ~renewed => MapThenSumSet(LAMBDA s : credit[s], Names) = 0
  <2>1. MapThenSumSet(LAMBDA s : credit[s], Names) = SumOver(credit, Names)
    BY SumIsMapThenSum, Zenon
  <2>2. removed = {} /\ ~renewed => SumOver(credit, Names) = 0
    BY DEF CreditsKept
  <2>3. QED BY <2>1, <2>2, Zenon
<1>3. \A s \in Names : /\ connections[s] \in 0..held[s]
                       /\ s \notin removed => connections[s] = held[s]
  BY <1>0 DEF CountsKept
<1>4. ASSUME removed = {}, healthy # {} PROVE \A s \in healthy : held[LeastConnections] <= held[s]
  <2>1. PICK v : v = [s \in Servers |-> -connections[s]]
    OBVIOUS
  <2>2. \A s \in Servers : v[s] \in Int /\ v[s] = -held[s]
    BY <1>0, <1>4, <2>1 DEF CountsKept
  <2>3. /\ FirstMost(v) \in healthy
        /\ \A s \in healthy : v[s] <= v[FirstMost(v)]
    BY <1>4, <2>2, FirstMostIs
  <2>4. LeastConnections = FirstMost(v)
    BY <2>1 DEF LeastConnections
  <2>5. QED BY <1>0, <2>2, <2>3, <2>4
<1>5. QED BY <1>1, <1>2, <1>3, <1>4 DEF BooksHonest, CreditBounded, ConnectionsKnown

\* Only registered endpoints are ever healthy, weighted, credited or counted, each is registered
\* once and the round robin counter stays in its range (resilience/load_balancer.py).
THEOREM BalancerTypeCorrect == BalancerSpec => []BalancerTypeOK
<1>1. BalancerInit => BooksTyped
  BY BooksInit
<1>2. BooksTyped /\ [BalancerNext]_balancerVars => BooksTyped'
  BY BooksTypedStep
<1>3. BooksTyped => BalancerTypeOK
  BY DEF BooksTyped
<1>4. QED BY <1>1, <1>2, <1>3, PTL DEF BalancerSpec

\* The balancer's books are honest (resilience/load_balancer.py): current weights
\* stay within bounds and sum to zero, and connection counts are what callers hold, through
\* failures, recoveries, removals and re-additions of any endpoints.
THEOREM BooksAreHonest == BalancerSpec => []BooksHonest
<1> DEFINE Inv == BooksTyped /\ CountsKept /\ CreditsKept
<1>1. BalancerInit => Inv
  BY BooksInit
<1>2. Inv /\ [BalancerNext]_balancerVars => Inv'
  BY BooksTypedStep, CountsKeptStep, CreditsKeptStep
<1>3. Inv => BooksHonest
  BY BooksFollow
<1>4. QED BY <1>1, <1>2, <1>3, PTL DEF BalancerSpec
=============================================================================
