---------------------------- MODULE HealthChecker ----------------------------
(***************************************************************************)
(* resilience/health_check.py: the status that a HealthChecker derives for *)
(* each endpoint from its last status and from its counts of consecutive   *)
(* successes and failures.                                                 *)
(***************************************************************************)
EXTENDS Naturals, Sequences, SequencesExt

CONSTANTS
  Endpoints,      \* endpoint names
  HealthConfigs,  \* records of healthy_threshold, unhealthy_threshold and max_history
  MaxProbes       \* bound: the probes of an endpoint since its history was cleared

\* What HealthCheckConfig.__post_init__ accepts.
HealthCheckConfig ==
  [healthy_threshold: Nat \ {0}, unhealthy_threshold: Nat \ {0}, max_history: Nat \ {0}]

ASSUME HealthAssumption == HealthConfigs \subseteq HealthCheckConfig

VARIABLES
  health_config,          \* HealthChecker._config
  history,                \* HealthChecker._history, as the statuses of its results
  consecutive_successes,  \* HealthChecker._consecutive_successes
  consecutive_failures,   \* HealthChecker._consecutive_failures
  outcomes                \* whether each probe since the last clearing succeeded

healthVars ==
  <<health_config, history, consecutive_successes, consecutive_failures, outcomes>>

\* outcomes is a history variable: it is read only by the bound on probes.
-----------------------------------------------------------------------------
HealthInit ==
  /\ health_config \in HealthConfigs
  /\ history = [e \in Endpoints |-> <<>>]
  /\ consecutive_successes = [e \in Endpoints |-> 0]
  /\ consecutive_failures = [e \in Endpoints |-> 0]
  /\ outcomes = [e \in Endpoints |-> <<>>]

LastStatus(e) == IF history[e] = <<>> THEN "unknown" ELSE Last(history[e])

\* Mutant of StatusAfter: a failure of a degraded endpoint is enough.
StatusAfterImpatient(e, success, successes, failures) ==
  CASE LastStatus(e) \in {"unknown", "degraded"} -> IF success THEN "healthy" ELSE "unhealthy"
    [] LastStatus(e) = "healthy" ->
         IF success THEN "healthy"
         ELSE IF failures >= health_config.unhealthy_threshold THEN "unhealthy" ELSE "degraded"
    [] OTHER ->
         IF ~success THEN "unhealthy"
         ELSE IF successes >= health_config.healthy_threshold THEN "healthy" ELSE "degraded"

\* The decision of _compute_status(), from the counts it has just updated.
StatusAfter(e, success, successes, failures) ==
  CASE LastStatus(e) = "unknown" -> IF success THEN "healthy" ELSE "unhealthy"
    [] LastStatus(e) \in {"healthy", "degraded"} ->
         IF success THEN "healthy"
         ELSE IF failures >= health_config.unhealthy_threshold THEN "unhealthy" ELSE "degraded"
    [] OTHER ->
         IF ~success THEN "unhealthy"
         ELSE IF successes >= health_config.healthy_threshold THEN "healthy" ELSE "degraded"

\* deque(maxlen=max_history).append()
Remember(results, status) ==
  IF Len(results) < health_config.max_history
    THEN Append(results, status)
    ELSE Append(Tail(results), status)

\* check(): the probe returns in time, or raises, or returns after timeout_seconds.
CheckEndpoint(e, answer) ==
  LET success == answer = "ok"
      successes == IF success THEN consecutive_successes[e] + 1 ELSE 0
      failures == IF success THEN 0 ELSE consecutive_failures[e] + 1
  IN  /\ Len(outcomes[e]) < MaxProbes
      /\ consecutive_successes' = [consecutive_successes EXCEPT ![e] = successes]
      /\ consecutive_failures' = [consecutive_failures EXCEPT ![e] = failures]
      /\ history' = [history EXCEPT ![e] =
           Remember(@, StatusAfter(e, success, successes, failures))]
      /\ outcomes' = [outcomes EXCEPT ![e] = Append(@, success)]
      /\ UNCHANGED health_config

\* clear_history(), of one endpoint or of all.
ClearHistory(names) ==
  /\ history' = [e \in Endpoints |-> IF e \in names THEN <<>> ELSE history[e]]
  /\ consecutive_successes' =
       [e \in Endpoints |-> IF e \in names THEN 0 ELSE consecutive_successes[e]]
  /\ consecutive_failures' =
       [e \in Endpoints |-> IF e \in names THEN 0 ELSE consecutive_failures[e]]
  /\ outcomes' = [e \in Endpoints |-> IF e \in names THEN <<>> ELSE outcomes[e]]
  /\ UNCHANGED health_config

HealthNext ==
  \/ \E e \in Endpoints, answer \in {"ok", "raises", "late"} : CheckEndpoint(e, answer)
  \/ \E names \in {{e} : e \in Endpoints} \union {Endpoints} : ClearHistory(names)

HealthSpec == HealthInit /\ [][HealthNext]_healthVars
-----------------------------------------------------------------------------
\* Histories hold statuses and stay within max_history.
HealthTypeOK ==
  /\ health_config \in HealthConfigs
  /\ \A e \in Endpoints :
       /\ history[e] \in Seq({"healthy", "degraded", "unhealthy"})
       /\ Len(history[e]) <= health_config.max_history
       /\ consecutive_successes[e] \in Nat
       /\ consecutive_failures[e] \in Nat

\* The outcomes call for UNHEALTHY: enough failures in a row, or never a success.
Down(o) ==
  /\ o # <<>>
  /\ ~Last(o)
  /\ \/ \A i \in DOMAIN o : ~o[i]
     \/ \E n \in 1..Len(o) : /\ n >= health_config.unhealthy_threshold
                             /\ \A i \in (Len(o) - n + 1)..Len(o) : ~o[i]

\* The status of an endpoint is determined by its outcomes alone, however small
\* max_history is: an endpoint is down after unhealthy_threshold failures in a
\* row or when it has never succeeded, degraded while it fails otherwise, and healthy
\* after a success, except right after it was down, where healthy_threshold counts.
StatusExplained ==
  \A e \in Endpoints :
    LET o == outcomes[e]
    IN  o # <<>> =>
          LastStatus(e) =
            CASE Down(o) -> "unhealthy"
              [] ~Down(o) /\ ~Last(o) -> "degraded"
              [] Last(o) -> IF Down(Front(o)) /\ health_config.healthy_threshold > 1
                              THEN "degraded" ELSE "healthy"

\* "consecutive successes must reach healthy_threshold before status returns to
\* HEALTHY" (_compute_status): no endpoint is healthy after it was down unless that
\* many successes in a row lie between.
HealthyNeedsThreshold ==
  \A e \in Endpoints :
    \A i, j \in DOMAIN history[e] :
      /\ i < j
      /\ history[e][i] = "unhealthy"
      /\ history[e][j] = "healthy"
      => j - i >= health_config.healthy_threshold
=============================================================================
