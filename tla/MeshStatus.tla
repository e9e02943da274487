----------------------------- MODULE MeshStatus -----------------------------
(***************************************************************************)
(* k8s/operator/controllers/mesh_controller.py: reconcile_mesh_status(),   *)
(* which rolls up the phases of a mesh's agents one request after another, *)
(* and the CircuitBreakerState that it drives.  The breaker lives in the   *)
(* operator's memory: a restart forgets it.                                *)
(***************************************************************************)
EXTENDS Naturals, Sequences, SequencesExt

CONSTANTS
  AgentRefs,   \* the agents of the mesh, in the order of its spec: a sequence
  CbConfigs,   \* records of enabled, failure_threshold, success_threshold, recovery_timeout
  MaxWait      \* bound: the clock stops this long after a breaker opened

\* What a mesh may say about its breaker: thresholds of at least 1.
CircuitBreakerSpec(c) ==
  /\ c.failure_threshold \in Nat \ {0} /\ c.success_threshold \in Nat \ {0}
  /\ c.recovery_timeout \in 0..MaxWait

ASSUME MeshStatusAssumption == \A c \in CbConfigs : CircuitBreakerSpec(c)

VARIABLES
  phases,     \* status.phase of each Agent; "missing" if there is no such Agent
  cbSpec,     \* the circuitBreaker section of the mesh's spec
  exists,     \* whether the mesh exists
  cb,         \* _circuit_breakers[mesh_key]: known, config, state, counts, and the time since
              \* _opened_at
  rollup,     \* a roll-up in progress: the agents still to ask, and the counts
  status,     \* the mesh's status: phase and circuitBreakerState
  failed,     \* failing reconciliations since cb was made or last closed, up to its threshold
  clean       \* reconciliations without failure since cb last went half-open

meshVars == <<phases, cbSpec, exists, cb, rollup, status, failed, clean>>

\* failed and clean are history variables.

Refs == Range(AgentRefs)

AnyConfig == CHOOSE c \in CbConfigs : TRUE

NoBreaker == [known |-> FALSE, config |-> AnyConfig, state |-> "closed", failure_count |-> 0,
              success_count |-> 0, waited |-> 0]

NoRollup == [todo |-> <<>>, busy |-> FALSE, active |-> 0, failed |-> 0]

NoStatus == [phase |-> "Forming", circuitBreakerState |-> "closed"]

MeshInit ==
  /\ phases = [a \in Refs |-> "missing"]
  /\ cbSpec \in CbConfigs
  /\ exists = FALSE
  /\ cb = NoBreaker
  /\ rollup = NoRollup
  /\ status = NoStatus
  /\ failed = 0
  /\ clean = 0
-----------------------------------------------------------------------------
\* _get_or_create_circuit_breaker(): a breaker that is known keeps its configuration.
Known == IF cb.known THEN cb ELSE [NoBreaker EXCEPT !.known = TRUE, !.config = cbSpec]

\* on_mesh_create()
MeshCreate ==
  /\ ~exists
  /\ exists' = TRUE
  /\ cb' = IF cbSpec.enabled THEN Known ELSE cb
  /\ status' = NoStatus
  /\ UNCHANGED <<phases, cbSpec, rollup, failed, clean>>

\* A user edits the spec; on_mesh_update() leaves the breaker alone.
MeshEdit(config) ==
  /\ exists /\ ~rollup.busy
  /\ config # cbSpec
  /\ cbSpec' = config
  /\ UNCHANGED <<phases, exists, cb, rollup, status, failed, clean>>

\* on_mesh_delete()
MeshDelete ==
  /\ exists /\ ~rollup.busy
  /\ exists' = FALSE
  /\ cb' = NoBreaker
  /\ failed' = 0
  /\ clean' = 0
  /\ UNCHANGED <<phases, cbSpec, rollup, status>>

\* The operator restarts: the breaker and a roll-up are lost.
Restart ==
  /\ cb' = NoBreaker
  /\ rollup' = NoRollup
  /\ failed' = 0
  /\ clean' = 0
  /\ UNCHANGED <<phases, cbSpec, exists, status>>

\* An agent's phase changes: what reconcile_agent_status() or somebody else writes.  Any phase
\* may follow any other at any time, more than the agent controller does.  "Pending" and
\* "Suspended" count like "missing", "Terminated" like "Failed".
SetPhase(a, phase) ==
  /\ phase # phases[a]
  /\ phases' = [phases EXCEPT ![a] = phase]
  /\ UNCHANGED <<cbSpec, exists, cb, rollup, status, failed, clean>>

\* Time passes for an open breaker.  The code reads the wall clock; one that is set back only
\* makes the breaker wait longer, which the model allows, as nothing makes time pass.
PassTime ==
  /\ cb.state = "open" /\ cb.waited < MaxWait
  /\ cb' = [cb EXCEPT !.waited = @ + 1]
  /\ UNCHANGED <<phases, cbSpec, exists, rollup, status, failed, clean>>
-----------------------------------------------------------------------------
\* record_failure(): no success makes up for a failure while the breaker is closed.
RecordFailure(b) ==
  IF b.state = "open" THEN b
  ELSE IF b.failure_count + 1 >= b.config.failure_threshold
    \* The count is kept up to the threshold: nothing tells larger counts apart.
    THEN [b EXCEPT !.failure_count = b.config.failure_threshold, !.state = "open", !.waited = 0]
    ELSE [b EXCEPT !.failure_count = @ + 1]

\* Mutant of Reclosed: the failures are not forgotten.
ReclosedSore(b) == [b EXCEPT !.state = "closed", !.success_count = 0]

\* The breaker closes.
Reclosed(b) == [b EXCEPT !.state = "closed", !.failure_count = 0, !.success_count = 0]

\* record_success()
RecordSuccess(b) ==
  IF b.state # "half-open" THEN b
  ELSE IF b.success_count + 1 >= b.config.success_threshold THEN Reclosed(b)
  ELSE [b EXCEPT !.success_count = @ + 1]

\* maybe_probe()
MaybeProbe(b) ==
  IF b.state = "open" /\ b.waited >= b.config.recovery_timeout
    THEN [b EXCEPT !.state = "half-open", !.success_count = 0, !.waited = 0] ELSE b

\* reconcile_mesh_status() begins.
RollUpBegin ==
  /\ exists /\ ~rollup.busy
  /\ rollup' = [todo |-> AgentRefs, busy |-> TRUE, active |-> 0, failed |-> 0]
  /\ UNCHANGED <<phases, cbSpec, exists, cb, status, failed, clean>>

\* The next agent is asked; one that is missing, or a request that fails, counts as nothing.
RollUpAsk(fails) ==
  /\ rollup.busy /\ rollup.todo # <<>>
  /\ LET phase == phases[Head(rollup.todo)]
     IN  rollup' = [rollup EXCEPT
           !.todo = Tail(@),
           !.active = IF phase = "Running" /\ ~fails THEN @ + 1 ELSE @,
           !.failed = IF phase \in {"Failed", "Terminated"} /\ ~fails THEN @ + 1 ELSE @]
  /\ UNCHANGED <<phases, cbSpec, exists, cb, status, failed, clean>>

MeshPhase(active, down) ==
  CASE active = Len(AgentRefs) -> "Ready"
    [] active = 0 /\ active # Len(AgentRefs) -> IF down > 0 THEN "Failed" ELSE "Forming"
    [] OTHER -> "Degraded"

\* The counts drive the breaker, and the status is written.
RollUpEnd ==
  LET down == rollup.failed > 0
      recorded == IF down THEN RecordFailure(Known) ELSE RecordSuccess(Known)
      after == IF cbSpec.enabled THEN MaybeProbe(recorded) ELSE cb
      closes == cb.state = "half-open" /\ after.state = "closed"
      probes == recorded.state = "open" /\ after.state = "half-open"
  IN  /\ rollup.busy /\ rollup.todo = <<>>
      /\ cb' = after
      /\ status' = [phase |-> MeshPhase(rollup.active, rollup.failed),
                    circuitBreakerState |-> IF cbSpec.enabled THEN after.state ELSE "closed"]
      /\ rollup' = NoRollup
      /\ failed' = CASE ~cbSpec.enabled -> failed
                     [] closes -> 0
                     [] ~closes /\ cbSpec.enabled /\ down /\ failed < after.config.failure_threshold
                          -> failed + 1
                     [] OTHER -> failed
      /\ clean' = CASE ~cbSpec.enabled -> clean
                    [] cbSpec.enabled /\ (down \/ probes \/ closes) -> 0
                    [] OTHER -> IF after.state = "half-open" THEN clean + 1 ELSE 0
      /\ UNCHANGED <<phases, cbSpec, exists>>

MeshNext ==
  \/ MeshCreate \/ MeshDelete \/ Restart \/ PassTime
  \/ \E config \in CbConfigs : MeshEdit(config)
  \/ \E a \in Refs, phase \in {"missing", "Running", "Failed"} : SetPhase(a, phase)
  \/ RollUpBegin \/ RollUpEnd
  \/ \E fails \in BOOLEAN : RollUpAsk(fails)

MeshSpec == MeshInit /\ [][MeshNext]_meshVars
-----------------------------------------------------------------------------
\* The mesh's breaker keeps its word across edits of the spec, closings and reopenings, where its
\* word is the configuration that it was made with:
\* it is closed only while fewer reconciliations failed than its own threshold since it was
\* made or last closed; it counts exactly these; a half-open one counts exactly
\* the reconciliations without failure since it was probed; and no breaker
\* outlives its mesh.
BreakerHonest ==
  /\ cb.state = "closed" => failed < cb.config.failure_threshold
  /\ cb.known => cb.failure_count = failed
  /\ cb.state = "half-open" => cb.success_count = clean /\ clean < cb.config.success_threshold
  /\ cb.known => exists
=============================================================================
