--------------------------- MODULE ServicesProofs ---------------------------
(***************************************************************************)
(* Proofs about components that share nothing: the A2A task lifecycle, the *)
(* operator's mesh status, the quotas, the operator's handlers and the     *)
(* votes.  Each is about its own specification.                            *)
(***************************************************************************)
EXTENDS TaskLifecycle, MeshStatus, QuotaEnforcer, Operator, Voting, FiniteLemmas

-----------------------------------------------------------------------------
(***************************************************************************)
(* TaskLifecycle, for every set of tasks and any number of transitions and *)
(* artifacts.                                                              *)
(***************************************************************************)

\* What transition() accepts leads from a state that is not terminal to one that is not
\* "submitted".
LEMMA ValidSteps ==
  ASSUME NEW s \in States, NEW new \in VALID_TRANSITIONS[s]
  PROVE  /\ new \in States \ {"submitted"}
         /\ s \notin TERMINAL_STATES
         /\ s \in {"submitted", "input_required"} => new \in {"working", "canceled"}
  BY DEF States, VALID_TRANSITIONS, TERMINAL_STATES

\* Every action keeps the tasks in their types.
LEMMA TasksTypeStep == TasksTypeOK /\ [TasksNext]_taskVars => TasksTypeOK'
<1> SUFFICES ASSUME TasksTypeOK, [TasksNext]_taskVars PROVE TasksTypeOK'
  OBVIOUS
<1> USE DEF TasksTypeOK
<1>1. ASSUME NEW t \in TaskIds, CreateTask(t) PROVE TasksTypeOK'
  BY <1>1 DEF CreateTask, States, Tasks
<1>2. ASSUME NEW t \in TaskIds, NEW s \in States, Transition(t, s) PROVE TasksTypeOK'
  <2>1. s # "none"
    BY DEF States
  <2>2. Append(tasks[t].history, tasks[t].state) \in Seq(States)
    BY <1>2 DEF Transition, Tasks
  <2>3. /\ [tasks[t] EXCEPT !.state = s] \in Tasks
        /\ [tasks[t] EXCEPT !.state = s,
                            !.history = Append(tasks[t].history, tasks[t].state)] \in Tasks
    BY <2>2 DEF Tasks
  <2>4. tasks' \in [TaskIds -> Tasks] /\ tasks'[t].state = s
    BY <1>2, <2>3 DEF Transition, Tasks
  <2>5. steps' \in [TaskIds -> Nat] /\ track_history' \in BOOLEAN
    BY <1>2 DEF Transition
  <2>6. \A u \in TaskIds \ {t} : tasks'[u] = tasks[u] /\ steps'[u] = steps[u]
    BY <1>2 DEF Transition
  <2>7. QED BY <2>1, <2>4, <2>5, <2>6
<1>3. ASSUME NEW t \in TaskIds, AddArtifact(t) PROVE TasksTypeOK'
  <2>0. tasks[t] \in Tasks /\ tasks[t].artifacts + 1 \in Nat
    BY DEF Tasks
  <2>1. [tasks[t] EXCEPT !.artifacts = @ + 1] \in Tasks
    BY <2>0 DEF Tasks
  <2>2. tasks' = [tasks EXCEPT ![t] = [tasks[t] EXCEPT !.artifacts = @ + 1]]
    BY <1>3 DEF AddArtifact
  <2>3. \A u \in TaskIds :
          tasks'[u].state = tasks[u].state /\ tasks'[u].history = tasks[u].history
    BY <2>2 DEF Tasks
  <2>4. QED BY <1>3, <2>1, <2>2, <2>3 DEF AddArtifact
<1>4. CASE UNCHANGED taskVars
  BY <1>4 DEF taskVars
<1>5. QED BY <1>1, <1>2, <1>3, <1>4 DEF TasksNext

\* The tasks stay in their types.
THEOREM TasksTypeCorrect == TasksSpec => []TasksTypeOK
<1>1. TasksInit => TasksTypeOK
  BY DEF TasksInit, TasksTypeOK, NoTask, Tasks
<1>2. QED BY <1>1, TasksTypeStep, PTL DEF TasksSpec
-----------------------------------------------------------------------------
\* A story goes on with a step that transition() accepts.
LEMMA StoryGrows ==
  ASSUME NEW told \in Seq(States), NEW n \in Nat, Story(told, n),
         NEW new \in VALID_TRANSITIONS[told[n + 1]]
  PROVE  Story(Append(told, new), n + 1)
<1> DEFINE longer == Append(told, new)
<1>1. Len(told) = n + 1 /\ told[n + 1] \in States
  BY DEF Story
<1>2. new \in States
  BY <1>1, ValidSteps
<1>3. /\ Len(longer) = n + 2
      /\ longer[n + 2] = new
      /\ \A i \in 1..(n + 1) : longer[i] = told[i]
  BY <1>1, <1>2
<1> HIDE DEF longer
<1>4. ASSUME NEW i \in 1..(n + 1)
      PROVE  /\ longer[i] \notin TERMINAL_STATES
             /\ longer[i] \in {"submitted", "input_required"} =>
                  longer[i + 1] \in {"working", "canceled"}
             /\ longer[i + 1] # "submitted"
  <2>1. CASE i = n + 1
    BY <1>1, <1>3, <2>1, ValidSteps
  <2>2. CASE i \in 1..n
    BY <1>3, <2>2 DEF Story
  <2>3. i = n + 1 \/ i \in 1..n
    OBVIOUS
  <2>4. QED BY <2>1, <2>2, <2>3
<1>5. longer[1] = "submitted" /\ Len(longer) = (n + 1) + 1
  BY <1>3 DEF Story
<1>6. QED BY <1>4, <1>5 DEF Story, longer

\* Every action keeps the histories told.
LEMMA HistoryStep == TasksTypeOK /\ HistoryTold /\ [TasksNext]_taskVars => HistoryTold'
<1> SUFFICES ASSUME TasksTypeOK, HistoryTold, [TasksNext]_taskVars,
                    NEW u \in TaskIds, tasks'[u].state # "none", track_history'
             PROVE  Story(Append(tasks'[u].history, tasks'[u].state), steps'[u])
  BY DEF HistoryTold, Story
<1>0. track_history
  BY DEF TasksNext, CreateTask, Transition, AddArtifact, taskVars
<1>1. CASE /\ tasks'[u].history = tasks[u].history /\ tasks'[u].state = tasks[u].state
           /\ steps'[u] = steps[u]
  BY <1>0, <1>1 DEF HistoryTold
<1>2. CASE CreateTask(u)
  <2>1. tasks'[u].history = <<>> /\ tasks'[u].state = "submitted" /\ steps'[u] = 0
    BY <1>2 DEF CreateTask, TasksTypeOK, Tasks
  <2>2. QED BY <2>1 DEF Story
<1>3. ASSUME NEW s \in States, Transition(u, s)
      PROVE  Story(Append(tasks'[u].history, tasks'[u].state), steps'[u])
  <2> DEFINE told == Append(tasks[u].history, tasks[u].state)
  <2>1. /\ tasks'[u].history = told
        /\ tasks'[u].state = s
        /\ steps'[u] = steps[u] + 1
        /\ tasks[u].state \in States
        /\ s \in VALID_TRANSITIONS[tasks[u].state]
    BY <1>0, <1>3 DEF Transition, TasksTypeOK, Tasks
  <2>2. Story(told, steps[u])
    BY <1>0, <2>1 DEF HistoryTold, States
  <2>3. told \in Seq(States) /\ steps[u] \in Nat
    BY <2>1 DEF TasksTypeOK, Tasks
  <2>4. told[steps[u] + 1] = tasks[u].state
    <3>1. tasks[u].history \in Seq(States) /\ Len(told) = Len(tasks[u].history) + 1
      BY DEF TasksTypeOK, Tasks
    <3>2. Len(told) = steps[u] + 1
      BY <2>2 DEF Story
    <3>3. QED BY <3>1, <3>2
  <2> HIDE DEF told
  <2>5. QED BY <2>1, <2>2, <2>3, <2>4, StoryGrows
<1>4. ASSUME NEW t \in TaskIds, t # u, CreateTask(t) \/ (\E s \in States : Transition(t, s))
      PROVE  Story(Append(tasks'[u].history, tasks'[u].state), steps'[u])
  BY <1>1, <1>4 DEF CreateTask, Transition, TasksTypeOK, Tasks
<1>5. ASSUME NEW t \in TaskIds, AddArtifact(t)
      PROVE  Story(Append(tasks'[u].history, tasks'[u].state), steps'[u])
  BY <1>1, <1>5 DEF AddArtifact, TasksTypeOK, Tasks
<1>6. QED
  BY <1>1, <1>2, <1>3, <1>4, <1>5 DEF TasksNext, taskVars

\* A task's history tells every state it has passed through, in an order that
\* transition() allows, with nothing after a terminal state.
THEOREM HistoryCorrect == TasksSpec => []HistoryTold
<1>1. TasksInit => HistoryTold
  BY DEF TasksInit, HistoryTold, NoTask
<1>2. QED BY <1>1, HistoryStep, TasksTypeCorrect, PTL DEF TasksSpec
-----------------------------------------------------------------------------
(***************************************************************************)
(* The circuit breaker of MeshStatus, for every sequence of agents and     *)
(* every set of configurations.                                            *)
(***************************************************************************)

\* The entries of _circuit_breakers.
Breakers ==
  [known: BOOLEAN, config: CbConfigs, state: {"closed", "open", "half-open"},
   failure_count: Nat, success_count: Nat, waited: Nat]

\* A breaker whose counts are right, given the failing reconciliations f since it was
\* made or last closed, and those without failure c since it was probed.
Honest(b, f, c) ==
  /\ b \in Breakers /\ f \in Nat /\ c \in Nat
  /\ b.failure_count = f
  /\ b.state = "closed" => f < b.config.failure_threshold
  /\ b.state # "closed" => f = b.config.failure_threshold
  /\ b.state = "half-open" => b.success_count = c /\ c < b.config.success_threshold

\* The inductive invariant: the breaker is honest, one that is not known is a fresh one,
\* and there is a breaker or a roll-up only for a mesh that exists.
BreakerKept ==
  /\ Honest(cb, failed, clean)
  /\ cbSpec \in CbConfigs
  /\ ~cb.known => cb = NoBreaker
  /\ cb.known \/ rollup.busy => exists

\* Thresholds are positive.
LEMMA Thresholds ==
  ASSUME NEW config \in CbConfigs
  PROVE  /\ config.failure_threshold \in Nat \ {0}
         /\ config.success_threshold \in Nat \ {0}
  BY MeshStatusAssumption DEF CircuitBreakerSpec

\* A breaker that has just been made is honest, whatever its configuration.
LEMMA FreshHonest ==
  ASSUME NEW config \in CbConfigs, NEW k \in BOOLEAN
  PROVE  Honest([NoBreaker EXCEPT !.known = k, !.config = config], 0, 0)
<1> DEFINE fresh == [NoBreaker EXCEPT !.known = k, !.config = config]
<1>1. /\ fresh \in Breakers /\ fresh.config = config /\ fresh.state = "closed"
      /\ fresh.failure_count = 0
  BY DEF Breakers, NoBreaker
<1> HIDE DEF fresh
<1>2. Honest(fresh, 0, 0)
  BY <1>1, Thresholds DEF Honest
<1>3. QED BY <1>2 DEF fresh

\* So is the one that stands for no breaker.
LEMMA NoneHonest ==
  ASSUME NEW config \in CbConfigs
  PROVE  Honest(NoBreaker, 0, 0)
<1>1. AnyConfig \in CbConfigs
  BY DEF AnyConfig
<1>2. QED BY <1>1, Thresholds DEF Honest, Breakers, NoBreaker

\* The breaker that a reconciliation works with is honest and known.
LEMMA KnownHonest ==
  ASSUME BreakerKept
  PROVE  Honest(Known, failed, clean) /\ Known.known /\ Known.state = cb.state
<1>1. CASE cb.known
  BY <1>1 DEF Known, BreakerKept
<1>2. CASE ~cb.known
  <2>1. cb = NoBreaker /\ failed = 0
    BY <1>2 DEF BreakerKept, Honest, NoBreaker
  <2>2. Honest([NoBreaker EXCEPT !.known = TRUE, !.config = cbSpec], 0, 0)
    BY FreshHonest DEF BreakerKept
  <2>3. Honest([NoBreaker EXCEPT !.known = TRUE, !.config = cbSpec], 0, clean)
    BY <2>2 DEF Honest, NoBreaker, BreakerKept
  <2>4. QED BY <1>2, <2>1, <2>3 DEF Known, NoBreaker
<1>3. QED BY <1>1, <1>2

\* The counts of an honest breaker and its thresholds are numbers.
LEMMA HonestTypes ==
  ASSUME NEW b, NEW f, NEW c, Honest(b, f, c)
  PROVE  /\ b \in Breakers /\ f \in Nat /\ c \in Nat /\ b.failure_count = f
         /\ b.success_count \in Nat /\ b.waited \in Nat
         /\ b.state \in {"closed", "open", "half-open"}
         /\ b.config.failure_threshold \in Nat \ {0}
         /\ b.config.success_threshold \in Nat \ {0}
  BY Thresholds DEF Honest, Breakers

\* A probe turns an open breaker into a half-open one that has counted nothing yet.
LEMMA ProbeHonest ==
  ASSUME NEW b, NEW f, NEW c, Honest(b, f, c)
  PROVE  \/ MaybeProbe(b) = b
         \/ /\ b.state = "open" /\ MaybeProbe(b).state = "half-open"
            /\ MaybeProbe(b).known = b.known /\ MaybeProbe(b).config = b.config
            /\ Honest(MaybeProbe(b), f, 0)
<1> DEFINE a == [b EXCEPT !.state = "half-open", !.success_count = 0, !.waited = 0]
<1> SUFFICES ASSUME b.state = "open"
             PROVE  /\ a.state = "half-open" /\ a.known = b.known /\ a.config = b.config
                    /\ Honest(a, f, 0)
  BY DEF MaybeProbe
<1>1. /\ a \in Breakers /\ a.state = "half-open" /\ a.known = b.known /\ a.config = b.config
      /\ a.failure_count = b.failure_count /\ a.success_count = 0
  BY HonestTypes DEF Breakers
<1> HIDE DEF a
<1>2. QED BY <1>1, HonestTypes DEF Honest

\* A failing reconciliation leaves the breaker honest.
LEMMA FailureHonest ==
  ASSUME NEW b, NEW f, NEW c, Honest(b, f, c)
  PROVE  LET r == RecordFailure(b)
         IN  /\ Honest(r, IF f < b.config.failure_threshold THEN f + 1 ELSE f, 0)
             /\ r.known = b.known /\ r.config = b.config
             /\ ~(b.state = "half-open" /\ r.state = "closed")
<1> DEFINE r == RecordFailure(b)
           opened == [b EXCEPT !.failure_count = b.config.failure_threshold, !.state = "open",
                               !.waited = 0]
           counted == [b EXCEPT !.failure_count = @ + 1]
<1>0. /\ b \in Breakers /\ f \in Nat /\ b.failure_count = f
      /\ b.config.failure_threshold \in Nat \ {0}
      /\ b.state \in {"closed", "open", "half-open"}
  BY HonestTypes
<1>1. CASE b.state = "open"
  BY <1>0, <1>1 DEF Honest, RecordFailure
<1>2. CASE b.state # "open" /\ f + 1 >= b.config.failure_threshold
  <2>1. r = opened
    BY <1>0, <1>2 DEF RecordFailure
  <2>2. /\ opened \in Breakers /\ opened.state = "open" /\ opened.config = b.config
        /\ opened.failure_count = b.config.failure_threshold /\ opened.known = b.known
    BY <1>0 DEF Breakers
  <2>3. (IF f < b.config.failure_threshold THEN f + 1 ELSE f) = b.config.failure_threshold
    BY <1>0, <1>2 DEF Honest
  <2> HIDE DEF opened, r
  <2>4. QED BY <1>0, <2>1, <2>2, <2>3 DEF Honest, r
<1>3. CASE b.state # "open" /\ ~(f + 1 >= b.config.failure_threshold)
  <2>1. r = counted
    BY <1>0, <1>3 DEF RecordFailure
  <2>2. /\ counted \in Breakers /\ counted.state = b.state /\ counted.config = b.config
        /\ counted.failure_count = f + 1 /\ counted.known = b.known
    BY <1>0 DEF Breakers
  <2>3. b.state = "closed" /\ f < b.config.failure_threshold
        /\ f + 1 < b.config.failure_threshold
    BY <1>0, <1>3 DEF Honest
  <2> HIDE DEF counted, r
  <2>4. QED BY <1>0, <2>1, <2>2, <2>3 DEF Honest, r
<1>4. QED BY <1>1, <1>2, <1>3

\* A reconciliation without failure does so as well: it closes a half-open breaker, or is
\* counted by it, or counts for nothing.
LEMMA SuccessHonest ==
  ASSUME NEW b, NEW f, NEW c, Honest(b, f, c)
  PROVE  LET r == RecordSuccess(b)
         IN  /\ r.known = b.known
             /\ CASE b.state = "half-open" /\ r.state = "closed" -> Honest(r, 0, 0)
                  [] b.state = "half-open" /\ r.state = "half-open" -> Honest(r, f, c + 1)
                  [] b.state # "half-open" -> r = b
                  [] OTHER -> FALSE
<1> DEFINE r == RecordSuccess(b)
           closed == [b EXCEPT !.state = "closed", !.failure_count = 0, !.success_count = 0]
           counted == [b EXCEPT !.success_count = @ + 1]
<1>0. /\ b \in Breakers /\ f \in Nat /\ c \in Nat /\ b.failure_count = f
      /\ b.config.failure_threshold \in Nat \ {0} /\ b.success_count \in Nat
      /\ b.config.success_threshold \in Nat \ {0}
  BY HonestTypes
<1>1. CASE b.state # "half-open"
  BY <1>1 DEF RecordSuccess
<1>2. CASE b.state = "half-open" /\ b.success_count + 1 >= b.config.success_threshold
  <2>1. r = closed
    BY <1>2 DEF RecordSuccess, Reclosed
  <2>2. /\ closed \in Breakers /\ closed.state = "closed" /\ closed.config = b.config
        /\ closed.failure_count = 0 /\ closed.known = b.known
    BY <1>0 DEF Breakers
  <2> HIDE DEF closed, r
  <2>3. Honest(r, 0, 0) /\ r.state = "closed" /\ r.known = b.known
    BY <1>0, <2>1, <2>2 DEF Honest
  <2>4. QED BY <1>2, <2>3 DEF r
<1>3. CASE b.state = "half-open" /\ ~(b.success_count + 1 >= b.config.success_threshold)
  <2>1. r = counted
    BY <1>3 DEF RecordSuccess
  <2>2. /\ counted \in Breakers /\ counted.state = b.state /\ counted.config = b.config
        /\ counted.failure_count = f /\ counted.known = b.known
        /\ counted.success_count = b.success_count + 1
    BY <1>0 DEF Breakers
  <2>3. b.success_count = c /\ f = b.config.failure_threshold
    BY <1>3 DEF Honest
  <2> HIDE DEF counted, r
  <2>4. Honest(r, f, c + 1) /\ r.state = "half-open" /\ r.known = b.known
    BY <1>0, <1>3, <2>1, <2>2, <2>3 DEF Honest
  <2>5. QED BY <1>3, <2>4 DEF r
<1>4. QED BY <1>1, <1>2, <1>3

\* The end of a roll-up keeps the breaker.
LEMMA RollUpEndKeeps ==
  ASSUME BreakerKept, RollUpEnd
  PROVE  BreakerKept'
<1>0. rollup.busy /\ exists /\ exists' = exists /\ cbSpec' = cbSpec /\ cbSpec \in CbConfigs
  BY DEF RollUpEnd, BreakerKept
<1>1. ~rollup'.busy
  BY DEF RollUpEnd, NoRollup
<1>2. CASE ~cbSpec.enabled
  BY <1>0, <1>1, <1>2 DEF RollUpEnd, BreakerKept
<1>3. CASE cbSpec.enabled
  <2> DEFINE b == Known
             down == rollup.failed > 0
  <2>1. Honest(b, failed, clean) /\ b.known /\ b.state = cb.state
    BY KnownHonest
  <2>2. CASE down
    <3> DEFINE r == RecordFailure(b)
               a == MaybeProbe(r)
               more == IF failed < b.config.failure_threshold THEN failed + 1 ELSE failed
    <3>1. /\ Honest(r, more, 0) /\ r.known /\ r.config = b.config
          /\ ~(cb.state = "half-open" /\ r.state = "closed")
      BY <2>1, FailureHonest
    <3>2. /\ Honest(a, more, 0) /\ a.known /\ a.config = b.config
          /\ ~(cb.state = "half-open" /\ a.state = "closed")
      BY <3>1, ProbeHonest
    <3>3. cb' = a /\ failed' = more /\ clean' = 0
      BY <1>3, <2>2, <3>2 DEF RollUpEnd
    <3>4. QED BY <1>0, <1>1, <3>2, <3>3 DEF BreakerKept
  <2>3. CASE ~down
    <3> DEFINE r == RecordSuccess(b)
               a == MaybeProbe(r)
    <3>1. cb' = a
      BY <1>3, <2>3 DEF RollUpEnd
    <3>2. CASE b.state = "half-open" /\ r.state = "closed"
      <4>1. Honest(r, 0, 0) /\ r.known
        BY <2>1, <3>2, SuccessHonest
      <4>2. a = r
        BY <3>2 DEF MaybeProbe
      <4>3. failed' = 0 /\ clean' = 0
        BY <1>3, <2>1, <2>3, <3>2, <4>2 DEF RollUpEnd
      <4>4. QED BY <1>0, <1>1, <3>1, <4>1, <4>2, <4>3 DEF BreakerKept
    <3>3. CASE b.state = "half-open" /\ r.state # "closed"
      <4>1. Honest(r, failed, clean + 1) /\ r.known /\ r.state = "half-open"
        BY <2>1, <3>3, SuccessHonest
      <4>2. a = r
        BY <4>1 DEF MaybeProbe
      <4>3. failed' = failed /\ clean' = clean + 1
        BY <1>3, <2>3, <4>1, <4>2 DEF RollUpEnd
      <4>4. QED BY <1>0, <1>1, <3>1, <4>1, <4>2, <4>3 DEF BreakerKept
    <3>4. CASE b.state # "half-open"
      <4>1. r = b
        BY <2>1, <3>4, SuccessHonest
      <4>2. failed' = failed /\ clean' = 0
        <5>1. \/ a = b
              \/ b.state = "open" /\ a.state = "half-open"
          BY <2>1, <4>1, ProbeHonest
        <5>2. QED BY <1>3, <2>1, <2>3, <3>4, <4>1, <5>1 DEF RollUpEnd
      <4>3. Honest(b, failed, 0)
        BY <2>1, <3>4 DEF Honest
      <4>4. Honest(a, failed, 0) /\ a.known
        BY <2>1, <4>1, <4>3, ProbeHonest
      <4>5. QED BY <1>0, <1>1, <3>1, <4>2, <4>4 DEF BreakerKept
    <3>5. QED BY <3>2, <3>3, <3>4
  <2>4. QED BY <2>2, <2>3
<1>4. QED BY <1>2, <1>3

\* Every action keeps the breaker.
LEMMA BreakerStep == BreakerKept /\ [MeshNext]_meshVars => BreakerKept'
<1> SUFFICES ASSUME BreakerKept, [MeshNext]_meshVars PROVE BreakerKept'
  OBVIOUS
<1>1. CASE MeshCreate
  <2>1. Honest(Known, failed, clean) /\ Known.known
    BY KnownHonest
  <2>2. QED BY <1>1, <2>1 DEF MeshCreate, BreakerKept
<1>2. ASSUME NEW config \in CbConfigs, MeshEdit(config) PROVE BreakerKept'
  BY <1>2 DEF MeshEdit, BreakerKept
<1>3. CASE MeshDelete \/ Restart
  <2>1. Honest(NoBreaker, 0, 0)
    BY NoneHonest DEF BreakerKept
  <2>2. ~NoBreaker.known /\ ~NoRollup.busy
    BY DEF NoBreaker, NoRollup
  <2>3. QED BY <1>3, <2>1, <2>2 DEF MeshDelete, Restart, BreakerKept
<1>4. CASE PassTime
  <2> DEFINE b == [cb EXCEPT !.waited = @ + 1]
  <2>1. /\ b \in Breakers /\ b.state = cb.state /\ b.config = cb.config
        /\ b.failure_count = cb.failure_count /\ b.success_count = cb.success_count
        /\ b.known = cb.known
    BY DEF BreakerKept, Honest, Breakers
  <2>2. cb.known
    BY <1>4 DEF PassTime, BreakerKept, NoBreaker
  <2>3. cb' = b /\ UNCHANGED <<cbSpec, exists, rollup, failed, clean>>
    BY <1>4 DEF PassTime
  <2> HIDE DEF b
  <2>4. QED BY <2>1, <2>2, <2>3 DEF BreakerKept, Honest
<1>5. CASE RollUpBegin
  BY <1>5 DEF RollUpBegin, BreakerKept
<1>6. ASSUME NEW fails \in BOOLEAN, RollUpAsk(fails) PROVE BreakerKept'
  BY <1>6 DEF RollUpAsk, BreakerKept
<1>7. CASE UNCHANGED <<cbSpec, exists, cb, rollup, failed, clean>>
  BY <1>7 DEF BreakerKept
<1>8. QED
  BY <1>1, <1>2, <1>3, <1>4, <1>5, <1>6, <1>7, RollUpEndKeeps
  DEF MeshNext, SetPhase, meshVars

\* The mesh's breaker is closed only below its own threshold, counts exactly what was
\* reconciled, and does not outlive its mesh, through edits, deletions and restarts.
THEOREM BreakerCorrect == MeshSpec => []BreakerHonest
<1>1. MeshInit => BreakerKept
  <2> SUFFICES ASSUME MeshInit PROVE BreakerKept
    OBVIOUS
  <2>1. Honest(NoBreaker, 0, 0)
    BY NoneHonest DEF MeshInit
  <2>2. ~NoBreaker.known /\ ~NoRollup.busy
    BY DEF NoBreaker, NoRollup
  <2>3. QED BY <2>1, <2>2 DEF MeshInit, BreakerKept
<1>2. BreakerKept => BreakerHonest
  BY DEF BreakerKept, Honest, BreakerHonest
<1>3. QED BY <1>1, <1>2, BreakerStep, PTL DEF MeshSpec
-----------------------------------------------------------------------------
(***************************************************************************)
(* QuotaEnforcer, for every set of agents, clients, dimensions, quotas and *)
(* requests.                                                               *)
(***************************************************************************)

\* Adding a request to a usage gives a usage.
LEMMA PlusType ==
  ASSUME NEW u \in [Dimensions -> Int], NEW r \in [Dimensions -> Int]
  PROVE  /\ Plus(u, r) \in [Dimensions -> Int]
         /\ \A d \in Dimensions : Plus(u, r)[d] = u[d] + r[d]
  BY DEF Plus

\* No usage is a usage.
LEMMA ZeroType == Zero \in [Dimensions -> Int] /\ \A d \in Dimensions : Zero[d] = 0
  BY DEF Zero

\* How the enforcer is used is chosen once.
LEMMA QuotaEnvironmentStays == ASSUME [QuotaNext]_quotaVars PROVE env' = env
  BY DEF QuotaNext, quotaVars, Register, Unregister, CheckAndRecord, Check, Record, RecordRaises,
         RecordUnchecked, Reset, ResetAll

\* Every action keeps QuotaTypeOK.
LEMMA QuotaTypeStep == QuotaTypeOK /\ [QuotaNext]_quotaVars => QuotaTypeOK'
<1> SUFFICES ASSUME QuotaTypeOK, [QuotaNext]_quotaVars PROVE QuotaTypeOK'
  OBVIOUS
<1> USE QuotasAssumption, RequestsAssumption, ZeroType DEF QuotaTypeOK, Registered
<1>1. ASSUME NEW a \in Agents, NEW q \in Quotas, Register(a, q) PROVE QuotaTypeOK'
  BY <1>1 DEF Register, UsageKept
<1>2. ASSUME NEW a \in Agents, Unregister(a) \/ Reset(a) PROVE QuotaTypeOK'
  BY <1>2 DEF Unregister, Reset
<1>3. ASSUME NEW a \in Agents, NEW r \in Asked, CheckAndRecord(a, r) PROVE QuotaTypeOK'
  BY <1>3, PlusType DEF CheckAndRecord, Book, Asked
<1>4. ASSUME NEW a \in Agents, NEW r \in Asked, RecordUnchecked(a, r) PROVE QuotaTypeOK'
  BY <1>4, PlusType DEF RecordUnchecked, Book, Asked
<1>5. ASSUME NEW a \in Agents, NEW r \in Asked, NEW c \in Clients, Check(c, a, r)
      PROVE  QuotaTypeOK'
  BY <1>5 DEF Check, Asked
<1>6. ASSUME NEW c \in Clients, Record(c) PROVE QuotaTypeOK'
  <2>1. pending[c].agent \in Agents /\ pending[c].amount \in Requests
    BY <1>6 DEF Record
  <2>2. QED BY <1>6, <2>1, PlusType DEF Record, Book
<1>7. ASSUME NEW c \in Clients, RecordRaises(c) PROVE QuotaTypeOK'
  BY <1>7 DEF RecordRaises
<1>8. CASE ResetAll
  BY <1>8 DEF ResetAll
<1>9. CASE UNCHANGED quotaVars
  BY <1>9 DEF quotaVars
<1>10. QED BY <1>1, <1>2, <1>3, <1>4, <1>5, <1>6, <1>7, <1>8, <1>9 DEF QuotaNext

\* Quotas, usage and checked requests stay in their types, and an unregistered agent
\* has no usage left.
THEOREM QuotaTypeCorrect == QuotaSpec => []QuotaTypeOK
<1>1. QuotaInit => QuotaTypeOK
  BY ZeroType, QuotasAssumption DEF QuotaInit, QuotaTypeOK, Registered
<1>2. QED BY <1>1, QuotaTypeStep, PTL DEF QuotaSpec
-----------------------------------------------------------------------------
\* Without split and unchecked recording nothing waits between check() and record().
NothingPending == ~Split => \A c \in Clients : pending[c] = Nothing

\* Every action keeps NothingPending.
LEMMA QuotaPendingStep == NothingPending /\ [QuotaNext]_quotaVars => NothingPending'
<1> SUFFICES ASSUME NothingPending, [QuotaNext]_quotaVars, ~Split
             PROVE  \A c \in Clients : pending'[c] = Nothing
  BY QuotaEnvironmentStays DEF NothingPending, Split
<1>1. pending' = pending
  BY DEF NothingPending, QuotaNext, quotaVars, Register, Unregister, CheckAndRecord, Check, Record,
         RecordRaises, RecordUnchecked, Reset, ResetAll
<1>2. QED BY <1>1 DEF NothingPending

\* NothingPending is an invariant.
LEMMA QuotaPendingCorrect == QuotaSpec => []NothingPending
<1>1. QuotaInit => NothingPending
  BY DEF QuotaInit, NothingPending
<1>2. QED BY <1>1, QuotaPendingStep, PTL DEF QuotaSpec

\* Where usage is booked by check_and_record() alone, a step that does not change an
\* agent's account to zero keeps every limited dimension or ends within the limit.
LEMMA BookedWithinLimit ==
  ASSUME QuotaTypeOK, NothingPending, [QuotaNext]_quotaVars, ~Split, ~Unchecked,
         NEW a \in Agents, NEW d \in Limited(a)
  PROVE  \/ usage'[a][d] = usage[a][d]
         \/ usage'[a][d] = 0
         \/ usage'[a][d] < usage[a][d] /\ quota' = quota
         \/ usage'[a][d] <= quota[a][d] /\ quota' = quota
<1> USE ZeroType DEF QuotaTypeOK, Registered
<1>0. /\ d \in Dimensions /\ Registered(a)
      /\ quota[a][d] \in Nat /\ usage[a][d] \in Int
  BY QuotasAssumption DEF Limited
<1>1. ASSUME NEW b \in Agents, NEW q \in Quotas, Register(b, q)
      PROVE  usage'[a][d] = usage[a][d]
  BY <1>0, <1>1 DEF Register, UsageKept
<1>2. ASSUME NEW b \in Agents, Unregister(b) \/ Reset(b)
      PROVE  usage'[a][d] = usage[a][d] \/ usage'[a][d] = 0
  BY <1>0, <1>2 DEF Unregister, Reset
<1>3. ASSUME NEW b \in Agents, NEW r \in Asked, CheckAndRecord(b, r)
      PROVE  /\ quota' = quota
             /\ \/ usage'[a][d] = usage[a][d]
                \/ usage'[a][d] < usage[a][d]
                \/ usage'[a][d] <= quota[a][d]
  <2>0. r \in [Dimensions -> Int]
    BY RequestsAssumption DEF Asked
  <2>1. CASE b # a
    BY <1>3, <2>1 DEF CheckAndRecord, Book
  <2>2. CASE b = a
    <3>1. usage'[a][d] = usage[a][d] + r[d] /\ quota' = quota
      BY <1>0, <1>3, <2>0, <2>2, PlusType DEF CheckAndRecord, Book
    <3>2. CASE r[d] <= 0
      BY <1>0, <2>0, <3>1, <3>2
    <3>3. CASE r[d] > 0
      <4>1. r[d] <= Remaining(a, d)
        BY <1>0, <1>3, <2>2, <3>3 DEF CheckAndRecord, Allowed, Limited
      <4>2. QED BY <1>0, <2>0, <3>1, <3>3, <4>1 DEF Remaining
    <3>4. QED BY <1>0, <2>0, <3>2, <3>3
  <2>3. QED BY <2>1, <2>2
<1>4. CASE ResetAll
  BY <1>0, <1>4 DEF ResetAll
<1>5. CASE UNCHANGED quotaVars
  BY <1>5 DEF quotaVars
<1>6. ASSUME NEW b \in Agents, NEW r \in Asked,
             RecordUnchecked(b, r) \/ \E c \in Clients : Check(c, b, r)
      PROVE  FALSE
  BY <1>6 DEF RecordUnchecked, Check
<1>7. ASSUME NEW c \in Clients, Record(c) \/ RecordRaises(c) PROVE FALSE
  BY <1>7 DEF NothingPending, Record, RecordRaises
<1>8. QED BY <1>1, <1>2, <1>3, <1>4, <1>5, <1>6, <1>7 DEF QuotaNext

\* Every action keeps WithinLimits.
LEMMA LimitsStep ==
  QuotaTypeOK /\ NothingPending /\ WithinLimits /\ [QuotaNext]_quotaVars => WithinLimits'
<1> SUFFICES ASSUME QuotaTypeOK, NothingPending, WithinLimits, [QuotaNext]_quotaVars,
                    ~Split, ~Unchecked, ~Replacing,
                    NEW a \in Agents, NEW d \in Limited(a)'
             PROVE  usage'[a][d] <= quota'[a][d]
  BY QuotaEnvironmentStays DEF WithinLimits, Split, Unchecked, Replacing
<1>0. QuotaTypeOK'
  BY QuotaTypeStep
<1>1. /\ d \in Dimensions /\ quota'[a] # NoQuota /\ quota'[a][d] # Unlimited
      /\ quota'[a][d] \in Nat /\ usage'[a][d] \in Int
  BY <1>0, QuotasAssumption DEF Limited, Registered, QuotaTypeOK
<1>2. CASE Registered(a)
  <2>1. quota'[a] = quota[a]
    BY <1>1, <1>2
    DEF QuotaNext, quotaVars, Register, Unregister, CheckAndRecord, Check, Record, RecordRaises,
        RecordUnchecked, Reset, ResetAll, QuotaTypeOK, Registered
  <2>2. d \in Limited(a) /\ usage[a][d] <= quota[a][d] /\ usage[a][d] \in Int
    BY <1>1, <1>2, <2>1 DEF Limited, WithinLimits, QuotaTypeOK
  <2>3. QED BY <1>1, <2>1, <2>2, BookedWithinLimit
<1>3. CASE ~Registered(a)
  <2>1. usage'[a] = Zero
    BY <1>1, <1>3, QuotasAssumption
    DEF QuotaNext, quotaVars, Register, UsageKept, Unregister, CheckAndRecord, Check, Record,
        RecordRaises, RecordUnchecked, Reset, ResetAll, QuotaTypeOK, Registered, Book,
        NothingPending
  <2>2. QED BY <1>1, <2>1, ZeroType
<1>4. QED BY <1>2, <1>3

\* check_and_record() keeps every agent within its limits, whatever the threads do.
THEOREM LimitsCorrect == QuotaSpec => []WithinLimits
<1>1. QuotaInit => WithinLimits
  BY DEF QuotaInit, WithinLimits, Limited, Registered
<1>2. QED BY <1>1, LimitsStep, QuotaTypeCorrect, QuotaPendingCorrect, PTL DEF QuotaSpec
-----------------------------------------------------------------------------
\* check_and_record() never takes a usage up beyond its limit, even when the limit was
\* lowered below the usage.
THEOREM PushedCorrect == QuotaSpec => NeverPushedOver
<1> DEFINE
  Step == ~Split /\ ~Unchecked =>
            \A a \in Agents : \A d \in Limited(a) :
              usage'[a][d] > usage[a][d] => usage'[a][d] <= quota[a][d]
<1>1. QuotaTypeOK /\ NothingPending /\ [QuotaNext]_quotaVars => [Step]_quotaVars
  <2> SUFFICES ASSUME QuotaTypeOK, NothingPending, [QuotaNext]_quotaVars, ~Split, ~Unchecked,
                      NEW a \in Agents, NEW d \in Limited(a), usage'[a][d] > usage[a][d]
               PROVE  usage'[a][d] <= quota[a][d]
    OBVIOUS
  <2>1. usage[a][d] \in Int /\ quota[a][d] \in Nat
    BY QuotasAssumption DEF QuotaTypeOK, Limited, Registered
  <2>2. usage'[a][d] \in Int
    BY QuotaTypeStep DEF QuotaTypeOK, Limited
  <2>3. QED BY <2>1, <2>2, BookedWithinLimit
<1>2. QED BY <1>1, QuotaTypeCorrect, QuotaPendingCorrect, PTL DEF QuotaSpec, NeverPushedOver

\* Usage falls only when the account is cleared by reset(), reset_all() or
\* unregister(), never because a quota was replaced.
THEOREM ForgivenCorrect == QuotaSpec => ForgivenOnPurpose
<1> DEFINE
  Step == ~Negative =>
            \A a \in Agents :
              (\E d \in Dimensions : usage'[a][d] < usage[a][d]) =>
                usage'[a] = Zero /\ quota'[a] \in {quota[a], NoQuota}
<1>1. QuotaTypeOK /\ [QuotaNext]_quotaVars => [Step]_quotaVars
  <2> SUFFICES ASSUME QuotaTypeOK, [QuotaNext]_quotaVars, ~Negative, NEW a \in Agents,
                      NEW d \in Dimensions, usage'[a][d] < usage[a][d]
               PROVE  usage'[a] = Zero /\ quota'[a] \in {quota[a], NoQuota}
    OBVIOUS
  <2> USE ZeroType DEF QuotaTypeOK, Registered
  <2>0. usage[a][d] \in Int
    OBVIOUS
  <2>1. ASSUME NEW b \in Agents, NEW q \in Quotas, Register(b, q) PROVE FALSE
    BY <2>0, <2>1 DEF Register, UsageKept
  <2>2. ASSUME NEW b \in Agents, Unregister(b) \/ Reset(b)
        PROVE  usage'[a] = Zero /\ quota'[a] \in {quota[a], NoQuota}
    BY <2>0, <2>2 DEF Unregister, Reset
  <2>3. ASSUME NEW b \in Agents, NEW r \in Requests, NonNegative(r), Book(b, r) PROVE FALSE
    BY <2>0, <2>3, PlusType, RequestsAssumption DEF Book, NonNegative
  <2>4. ASSUME NEW b \in Agents, NEW r \in Asked,
               CheckAndRecord(b, r) \/ RecordUnchecked(b, r)
        PROVE  FALSE
    BY <2>3, <2>4 DEF CheckAndRecord, RecordUnchecked, Asked
  <2>5. ASSUME NEW c \in Clients, Record(c) PROVE FALSE
    BY <2>3, <2>5 DEF Record
  <2>6. CASE ResetAll
    BY <2>6 DEF ResetAll
  <2>7. ASSUME usage' = usage PROVE FALSE
    BY <2>0, <2>7
  <2>8. QED
    BY <2>1, <2>2, <2>4, <2>5, <2>6, <2>7 DEF QuotaNext, quotaVars, Check, RecordRaises
<1>2. QED BY <1>1, QuotaTypeCorrect, PTL DEF QuotaSpec, ForgivenOnPurpose
-----------------------------------------------------------------------------
\* The clients that have checked a request of an agent, and what they have checked.
Checked(a) == {c \in Clients : pending[c] # Nothing /\ pending[c].agent = a}
CheckedAmount(d) == [c \in Clients |-> pending[c].amount[d]]

\* The overshoot that OvershootBounded allows.
Slack(d) == Cardinality(Clients) * LargestRequest(d)

\* What is checked is a request that is not negative, unless callers use negative ones.
CheckedAsked ==
  ~Negative => \A c \in Clients : pending[c] # Nothing => NonNegative(pending[c].amount)

\* LargestRequest is what its name says.
LEMMA LargestIsLargest ==
  ASSUME NEW d \in Dimensions
  PROVE  LargestRequest(d) \in Nat /\ \A r \in Requests : r[d] \in Int /\ r[d] <= LargestRequest(d)
<1> DEFINE f == [r \in Requests |-> r[d]]
           T == {r[d] : r \in Requests}
<1>1. f \in Surjection(Requests, T)
  BY DEF Surjection
<1>2. IsFiniteSet(T) /\ T \subseteq Int
  <2>1. T \subseteq Int
    BY RequestsAssumption
  <2> HIDE DEF f, T
  <2>2. QED BY <1>1, <2>1, FS_Surjection, RequestsAssumption
<1>3. \A r \in Requests : r[d] \in T
  OBVIOUS
<1>4. LargestRequest(d) = Max(T \union {0})
  BY DEF LargestRequest
<1> HIDE DEF f, T
<1>5. IsFiniteSet(T \union {0}) /\ T \union {0} \subseteq Int /\ T \union {0} # {}
  BY <1>2, FS_AddElement
<1> DEFINE m == Max(T \union {0})
<1>6. m \in T \union {0} /\ \A y \in T \union {0} : y <= m
  BY <1>5, MaxIsLargest
<1> HIDE DEF m
<1>7. m \in Int /\ 0 <= m
  BY <1>5, <1>6
<1>8. ASSUME NEW r \in Requests PROVE r[d] \in Int /\ r[d] <= m
  <2>1. r[d] \in T \union {0} /\ r[d] \in Int
    BY <1>2, <1>3
  <2>2. QED BY <1>6, <2>1
<1>9. m \in Nat
  BY <1>7
<1>10. QED BY <1>4, <1>8, <1>9 DEF m

\* Every action keeps CheckedAsked.
LEMMA CheckedAskedStep == CheckedAsked /\ QuotaTypeOK /\ [QuotaNext]_quotaVars => CheckedAsked'
<1> SUFFICES ASSUME CheckedAsked, QuotaTypeOK, [QuotaNext]_quotaVars, ~Negative,
                    NEW e \in Clients, pending'[e] # Nothing
             PROVE  NonNegative(pending'[e].amount)
  BY QuotaEnvironmentStays DEF CheckedAsked, Negative
<1>1. CASE pending'[e] = pending[e]
  BY <1>1 DEF CheckedAsked
<1>2. CASE pending'[e] # pending[e]
  <2>1. PICK a \in Agents, r \in Asked : Check(e, a, r)
    BY <1>2
    DEF QuotaNext, quotaVars, Register, Unregister, CheckAndRecord, Check, Record, RecordRaises,
        RecordUnchecked, Reset, ResetAll, QuotaTypeOK
  <2>2. pending'[e].amount = r
    BY <2>1 DEF Check, QuotaTypeOK
  <2>3. QED BY <2>2 DEF Asked
<1>3. QED BY <1>1, <1>2

\* The sum of OvershootBounded, in the form that FiniteLemmas is about.
LEMMA OutstandingIs ==
  \A a \in Agents, d \in Dimensions :
    Outstanding(a, d) = SumOver(CheckedAmount(d), Checked(a))
<1> TAKE a \in Agents, d \in Dimensions
<1> DEFINE g == [c \in Checked(a) |-> pending[c].amount[d]]
<1>1. Outstanding(a, d) = SumFunction(g)
  BY DEF Outstanding, Checked
<1>2. DOMAIN g = Checked(a) /\ \A c \in Checked(a) : g[c] = CheckedAmount(d)[c]
  BY DEF Checked, CheckedAmount
<1>3. IsFiniteSet(Checked(a))
  BY RequestsAssumption, FS_Subset DEF Checked
<1> HIDE DEF g
<1>4. QED BY <1>1, <1>2, <1>3, SumIsSumFunction, SumSame

\* The same in the next state.
LEMMA OutstandingIsNext ==
  \A a \in Agents, d \in Dimensions :
    Outstanding(a, d)' = SumOver(CheckedAmount(d)', Checked(a)')
<1> TAKE a \in Agents, d \in Dimensions
<1> DEFINE g == [c \in Checked(a)' |-> pending'[c].amount[d]]
<1>1. Outstanding(a, d)' = SumFunction(g)
  BY DEF Outstanding, Checked
<1>2. DOMAIN g = Checked(a)' /\ \A c \in Checked(a)' : g[c] = CheckedAmount(d)'[c]
  BY DEF Checked, CheckedAmount
<1>3. IsFiniteSet(Checked(a)')
  BY RequestsAssumption, FS_Subset DEF Checked
<1> HIDE DEF g
<1>4. QED BY <1>1, <1>2, <1>3, SumIsSumFunction, SumSame

\* What is checked and not recorded is at most one request per client.
LEMMA OutstandingSmall ==
  ASSUME QuotaTypeOK, CheckedAsked, ~Negative, NEW a \in Agents, NEW d \in Dimensions
  PROVE  /\ IsFiniteSet(Checked(a))
         /\ \A c \in Checked(a) : CheckedAmount(d)[c] \in Nat
         /\ Outstanding(a, d) \in 0..Slack(d) /\ Slack(d) \in Nat
<1>1. /\ IsFiniteSet(Checked(a)) /\ IsFiniteSet(Clients)
      /\ Cardinality(Checked(a)) <= Cardinality(Clients)
  BY RequestsAssumption, FS_Subset DEF Checked
<1>2. Cardinality(Checked(a)) \in Nat /\ Cardinality(Clients) \in Nat
  BY <1>1, FS_CardinalityType
<1>3. ASSUME NEW c \in Checked(a) PROVE CheckedAmount(d)[c] \in 0..LargestRequest(d)
  <2>1. c \in Clients /\ pending[c] \in [agent: Agents, amount: Requests]
    BY DEF Checked, QuotaTypeOK
  <2>2. pending[c].amount \in Requests /\ pending[c].amount[d] >= 0
    BY <2>1 DEF CheckedAsked, NonNegative, Checked
  <2>3. QED BY <2>1, <2>2, LargestIsLargest DEF CheckedAmount
<1>4. SumOver(CheckedAmount(d), Checked(a)) \in 0..(Cardinality(Checked(a)) * LargestRequest(d))
  BY <1>1, <1>3, LargestIsLargest, SumBounds
<1> DEFINE k == Cardinality(Checked(a))
           n == Cardinality(Clients)
           l == LargestRequest(d)
<1>5. k \in Nat /\ n \in Nat /\ l \in Nat /\ k <= n
  BY <1>1, <1>2, LargestIsLargest
<1> HIDE DEF k, n, l
<1>6. k * l <= n * l /\ k * l \in Nat /\ n * l \in Nat
  <2>1. n * l = k * l + (n - k) * l
    BY <1>5
  <2>2. (n - k) * l \in Nat /\ k * l \in Nat /\ n * l \in Nat
    BY <1>5
  <2>3. QED BY <2>1, <2>2
<1>7. Outstanding(a, d) \in 0..(n * l)
  BY <1>4, <1>6, OutstandingIs DEF k, l
<1>8. Slack(d) = n * l
  BY DEF Slack, n, l
<1>9. \A c \in Checked(a) : CheckedAmount(d)[c] \in Nat
  BY <1>3, LargestIsLargest
<1>10. QED BY <1>1, <1>6, <1>7, <1>8, <1>9

\* Every action keeps OvershootBounded.
LEMMA OvershootStep ==
  ASSUME QuotaTypeOK, CheckedAsked, OvershootBounded, [QuotaNext]_quotaVars
  PROVE  OvershootBounded'
<1> SUFFICES ASSUME ~Unchecked, ~Replacing, ~Negative, NEW a \in Agents, NEW d \in Limited(a)'
             PROVE  usage'[a][d] + Outstanding(a, d)' <= quota'[a][d] + Slack(d)
  BY QuotaEnvironmentStays DEF OvershootBounded, Unchecked, Replacing, Negative, Slack
<1>0. QuotaTypeOK' /\ d \in Dimensions
  BY QuotaTypeStep DEF Limited
<1>1. /\ quota'[a] \in Quotas /\ quota'[a] # NoQuota
      /\ quota'[a][d] \in Nat /\ usage'[a][d] \in Int
  BY <1>0, QuotasAssumption DEF Limited, Registered, QuotaTypeOK
<1> DEFINE S == Checked(a)
           f == CheckedAmount(d)
           O == Outstanding(a, d)
           L == Slack(d)
<1>2. /\ IsFiniteSet(S) /\ \A c \in S : f[c] \in Nat
      /\ O \in 0..L /\ L \in Nat /\ O = SumOver(f, S)
  BY <1>0, OutstandingSmall, OutstandingIs
<1>3. Outstanding(a, d)' = SumOver(f', S')
  BY <1>0, OutstandingIsNext
<1>4. ASSUME quota'[a] = quota[a] PROVE usage[a][d] + O <= quota[a][d] + L /\ usage[a][d] \in Int
  BY <1>0, <1>1, <1>4 DEF OvershootBounded, Limited, Registered, QuotaTypeOK, Slack
<1>5. ASSUME pending' = pending PROVE Outstanding(a, d)' = O
  BY <1>2, <1>3, <1>5 DEF Checked, CheckedAmount
<1>6. ASSUME NEW r \in Asked, Registered(a), Allowed(a, r), quota' = quota
      PROVE  usage[a][d] + O + r[d] <= quota[a][d] + L /\ r[d] \in Nat
  <2>1. r[d] \in Nat
    BY <1>0, <1>6, RequestsAssumption DEF Asked, NonNegative
  <2>2. CASE r[d] = 0
    BY <1>2, <1>4, <1>6, <2>1, <2>2
  <2>3. CASE r[d] > 0
    <3>1. r[d] <= Remaining(a, d)
      BY <1>0, <1>1, <1>6, <2>3, QuotasAssumption DEF Allowed
    <3>2. quota[a][d] \in Nat /\ usage[a][d] \in Int
      BY <1>1, <1>4, <1>6
    <3>3. usage[a][d] + r[d] <= quota[a][d]
      BY <2>1, <2>3, <3>1, <3>2 DEF Remaining
    <3>4. QED BY <1>2, <2>1, <3>2, <3>3
  <2>4. QED BY <2>1, <2>2, <2>3
<1>7. ASSUME NEW b \in Agents, NEW q \in Quotas, Register(b, q)
      PROVE  usage'[a][d] + Outstanding(a, d)' <= quota'[a][d] + L
  <2>1. Outstanding(a, d)' = O
    BY <1>5, <1>7 DEF Register
  <2>2. CASE b = a
    <3>1. usage'[a][d] = 0
      BY <1>0, <1>7, <2>2, ZeroType DEF Register, UsageKept, QuotaTypeOK
    <3>2. QED BY <1>1, <1>2, <2>1, <3>1
  <2>3. CASE b # a
    <3>1. quota'[a] = quota[a] /\ usage'[a] = usage[a]
      BY <1>7, <2>3 DEF Register, QuotaTypeOK
    <3>2. QED BY <1>4, <2>1, <3>1
  <2>4. QED BY <2>2, <2>3
<1>8. ASSUME NEW b \in Agents, Unregister(b) \/ Reset(b) \/ ResetAll
      PROVE  usage'[a][d] + Outstanding(a, d)' <= quota'[a][d] + L
  <2>1. Outstanding(a, d)' = O
    BY <1>5, <1>8 DEF Unregister, Reset, ResetAll
  <2>2. CASE usage'[a] = Zero
    <3>1. usage'[a][d] = 0
      BY <1>0, <2>2, ZeroType
    <3>2. QED BY <1>1, <1>2, <2>1, <3>1
  <2>3. CASE usage'[a] # Zero
    <3>1. quota'[a] = quota[a] /\ usage'[a] = usage[a]
      BY <1>8, <2>3 DEF Unregister, Reset, ResetAll, QuotaTypeOK
    <3>2. QED BY <1>4, <2>1, <3>1
  <2>4. QED BY <2>2, <2>3
<1>9. ASSUME NEW b \in Agents, NEW r \in Asked, CheckAndRecord(b, r)
      PROVE  usage'[a][d] + Outstanding(a, d)' <= quota'[a][d] + L
  <2>1. Outstanding(a, d)' = O /\ quota' = quota
    BY <1>5, <1>9 DEF CheckAndRecord
  <2>2. CASE b = a
    <3>1. usage'[a][d] = usage[a][d] + r[d]
      BY <1>0, <1>9, <2>2 DEF CheckAndRecord, Book, Plus, QuotaTypeOK
    <3>2. usage[a][d] + O + r[d] <= quota[a][d] + L /\ r[d] \in Nat
      BY <1>6, <1>9, <2>1, <2>2 DEF CheckAndRecord
    <3>3. QED BY <1>1, <1>2, <1>4, <2>1, <3>1, <3>2
  <2>3. CASE b # a
    <3>1. usage'[a] = usage[a]
      BY <1>9, <2>3 DEF CheckAndRecord, Book, QuotaTypeOK
    <3>2. QED BY <1>4, <2>1, <3>1
  <2>4. QED BY <2>2, <2>3
<1>10. ASSUME NEW b \in Agents, NEW r \in Asked, NEW c \in Clients, Check(c, b, r)
       PROVE  usage'[a][d] + Outstanding(a, d)' <= quota'[a][d] + L
  <2>1. /\ quota' = quota /\ usage' = usage /\ pending[c] = Nothing
        /\ pending' = [pending EXCEPT ![c] = [agent |-> b, amount |-> r]]
    BY <1>10 DEF Check
  <2>2. /\ [agent |-> b, amount |-> r] # Nothing
        /\ pending'[c] = [agent |-> b, amount |-> r]
        /\ \A e \in Clients \ {c} : pending'[e] = pending[e]
    BY <2>1, RequestsAssumption DEF QuotaTypeOK, Asked
  <2>3. c \notin S /\ \A e \in S : f'[e] = f[e] /\ e \in Clients
    BY <2>1, <2>2 DEF Checked, CheckedAmount
  <2>4. CASE b = a
    <3>1. S' = S \union {c} /\ f'[c] = r[d]
      BY <2>1, <2>2, <2>4 DEF Checked, CheckedAmount
    <3>2. usage[a][d] + O + r[d] <= quota[a][d] + L /\ r[d] \in Nat
      BY <1>6, <1>10, <2>1, <2>4 DEF Check
    <3>3. Outstanding(a, d)' = O + r[d]
      <4> HIDE DEF S, f, O
      <4>0. (\A e \in S : f[e] = f'[e] /\ f[e] \in Int) /\ f'[c] \in Int /\ c \notin S
        BY <1>2, <2>3, <3>1, <3>2
      <4>1. SumOver(f', S \union {c}) = SumOver(f, S) + f'[c]
        <5> DEFINE g == f'
        <5>1. IsFiniteSet(S) /\ c \notin S /\ g[c] \in Int
          BY <1>2, <4>0
        <5>2. (\A e \in S : f[e] \in Int) /\ \A e \in S : f[e] = g[e]
          BY <4>0
        <5> HIDE DEF g
        <5>3. SumOver(g, S \union {c}) = SumOver(f, S) + g[c]
          BY <5>1, <5>2, SumAdd
        <5>4. QED BY <5>3 DEF g
      <4>2. QED BY <1>2, <1>3, <3>1, <4>1
    <3>4. QED BY <1>1, <1>2, <1>4, <2>1, <3>2, <3>3
  <2>5. CASE b # a
    <3>1. S' = S
      BY <2>1, <2>2, <2>5 DEF Checked
    <3>2. Outstanding(a, d)' = O
      <4> HIDE DEF S, f, O
      <4> QED BY <1>2, <1>3, <2>3, <3>1, SumSame
    <3>3. QED BY <1>4, <2>1, <3>2
  <2>6. QED BY <2>4, <2>5
<1>11. ASSUME NEW c \in Clients, Record(c) \/ RecordRaises(c)
       PROVE  usage'[a][d] + Outstanding(a, d)' <= quota'[a][d] + L
  <2>1. /\ quota' = quota /\ pending[c] # Nothing
        /\ pending' = [pending EXCEPT ![c] = Nothing]
    BY <1>11 DEF Record, RecordRaises
  <2>2. /\ pending'[c] = Nothing /\ \A e \in Clients \ {c} : pending'[e] = pending[e]
        /\ pending[c].agent \in Agents /\ pending[c].amount \in Requests
    BY <2>1 DEF QuotaTypeOK
  <2>3. S' = S \ {c} /\ \A e \in S \ {c} : f'[e] = f[e]
    BY <2>1, <2>2 DEF Checked, CheckedAmount
  <2>4. CASE pending[c].agent = a
    <3>1. c \in S /\ f[c] = pending[c].amount[d]
      BY <2>1, <2>4 DEF Checked, CheckedAmount
    <3>2. Outstanding(a, d)' = O - f[c] /\ f[c] \in Nat
      <4> HIDE DEF S, f, O
      <4>1. SumOver(f', S \ {c}) = SumOver(f, S) - f[c]
        <5> DEFINE g == f'
        <5>1. IsFiniteSet(S) /\ c \in S
          BY <1>2, <3>1
        <5>2. (\A e \in S : f[e] \in Int) /\ \A e \in S \ {c} : f[e] = g[e]
          BY <1>2, <2>3
        <5> HIDE DEF g
        <5>3. SumOver(f, S) = f[c] + SumOver(f, S \ {c})
          BY <5>1, <5>2, SumSplit
        <5>4. IsFiniteSet(S \ {c})
          BY <5>1, FS_RemoveElement
        <5>5. SumOver(g, S \ {c}) = SumOver(f, S \ {c}) /\ SumOver(f, S \ {c}) \in Int
          BY <5>2, <5>4, SumSame, SumType
        <5>6. f[c] \in Int
          BY <5>1, <5>2
        <5>7. SumOver(g, S \ {c}) = SumOver(f, S) - f[c]
          BY <5>3, <5>5, <5>6
        <5>8. QED BY <5>7 DEF g
      <4>2. QED BY <1>2, <1>3, <2>3, <3>1, <4>1
    <3>3. usage'[a][d] \in {usage[a][d], usage[a][d] + f[c]}
      BY <1>0, <1>11, <2>2, <2>4, <3>1 DEF Record, RecordRaises, Book, Plus, QuotaTypeOK
    <3> HIDE DEF S, f, O, L
    <3>4. QED BY <1>1, <1>2, <1>4, <2>1, <3>2, <3>3
  <2>5. CASE pending[c].agent # a
    <3>1. usage'[a] = usage[a]
      BY <1>11, <2>2, <2>5 DEF Record, RecordRaises, Book, QuotaTypeOK
    <3>2. S' = S
      BY <2>3, <2>5 DEF Checked
    <3>3. Outstanding(a, d)' = O
      <4>1. \A e \in S : f'[e] = f[e]
        BY <2>3, <3>2
      <4> HIDE DEF S, f, O
      <4> QED BY <1>2, <1>3, <3>2, <4>1, SumSame
    <3>4. QED BY <1>4, <2>1, <3>1, <3>3
  <2>6. QED BY <2>4, <2>5
<1>12. CASE UNCHANGED quotaVars
  <2>1. Outstanding(a, d)' = O /\ quota' = quota /\ usage' = usage
    BY <1>5, <1>12 DEF quotaVars
  <2>2. QED BY <1>4, <2>1
<1>13. ASSUME NEW b \in Agents, NEW r \in Asked, RecordUnchecked(b, r) PROVE FALSE
  BY <1>13 DEF RecordUnchecked
<1>14. QED BY <1>7, <1>8, <1>9, <1>10, <1>11, <1>12, <1>13 DEF QuotaNext

\* The two-step idiom overshoots a limit by at most one request per client, whatever is
\* reset or re-registered between the two steps.
THEOREM OvershootCorrect == QuotaSpec => []OvershootBounded
<1>1. QuotaInit => CheckedAsked /\ OvershootBounded
  BY DEF QuotaInit, CheckedAsked, OvershootBounded, Limited, Registered
<1>2. QuotaTypeOK /\ CheckedAsked /\ OvershootBounded /\ [QuotaNext]_quotaVars
        => CheckedAsked' /\ OvershootBounded'
  BY CheckedAskedStep, OvershootStep
<1>3. QED BY <1>1, <1>2, QuotaTypeCorrect, PTL DEF QuotaSpec

-----------------------------------------------------------------------------
(***************************************************************************)
(* Operator, for every number of creations, edits and faults.              *)
(***************************************************************************)

\* The objects are well formed: one that is there has a uid and a spec.
CROK(cr, specs) ==
  /\ cr \in [state: {"absent", "present", "deleting"}, uid: Nat, spec: Nat, created: BOOLEAN,
             handled: Nat]
  /\ cr.state # "absent" => cr.uid # 0 /\ cr.spec \in specs

\* A handler runs for an object that is there, and knows it and the event.
HandlerOK(cr, kind, specs) ==
  handler.kind = kind =>
    /\ handler.uid = cr.uid /\ cr.state # "absent"
    /\ handler.event \in {"create", "update", "delete", "timer"}
    /\ handler.event = "create" => ~cr.created /\ handler.seen \in specs
    /\ handler.event = "update" => cr.created /\ handler.seen \in specs
    /\ handler.event = "delete" => cr.state = "deleting"
    /\ handler.event = "timer" => kind = "agent" /\ handler.call > 1

\* A handler is the agent's, the mesh's or none.
HandlersOK ==
  /\ handler \in [kind: {"none", "agent", "mesh"},
                  event: {"none", "create", "update", "delete", "timer"},
                  call: Nat, seen: Nat, uid: Nat]
  /\ handler.kind = "none" => handler = NoHandler
  /\ HandlerOK(agentCR, "agent", ReplicaCounts) /\ HandlerOK(meshCR, "mesh", Versions)

\* What the operator creates for an agent has an owner.
ResourcesOK ==
  /\ deployment \in [exists: BOOLEAN, owner: Nat, replicas: Nat, wired: BOOLEAN]
  /\ service \in [exists: BOOLEAN, owner: Nat]
  /\ configmap \in [exists: BOOLEAN, owner: Nat, version: Nat]
  /\ deployment.exists => deployment.owner # 0
  /\ service.exists => service.owner # 0

\* The state stays in its types.
OperatorTypeOK ==
  /\ CROK(agentCR, ReplicaCounts) /\ CROK(meshCR, Versions)
  /\ ResourcesOK
  /\ HandlersOK
  /\ suspended \in BOOLEAN
  /\ hurt \in [{"agent", "mesh"} -> {"no", "stale", "left"}]

\* The handler of this event is past its n-th call.
Past(kind, event, n) == handler.kind = kind /\ handler.event = event /\ handler.call > n

\* The agent's deployment and service, unless a clean-up failed: they are its own, are there
\* once its creation was handled, and have the replicas that the last handler asked for.
AgentPresent ==
  /\ deployment.exists => deployment.owner = agentCR.uid
  /\ service.exists => service.owner = agentCR.uid
  /\ agentCR.created => deployment.exists /\ service.exists
  /\ Past("agent", "create", 1) => deployment.exists
  /\ Past("agent", "create", 2) => service.exists
  /\ Past("agent", "update", 1) => deployment.replicas = handler.seen /\ ~suspended
  /\ hurt["agent"] = "no" =>
       /\ ~agentCR.created /\ ~Past("agent", "create", 1) => ~deployment.exists
       /\ Past("agent", "create", 1) => deployment.replicas = handler.seen /\ ~suspended
       /\ agentCR.created /\ ~Past("agent", "update", 1) =>
            deployment.replicas = IF suspended THEN 0 ELSE agentCR.handled

\* What is kept of an agent: an object that is gone has left nothing, unless its clean-up
\* failed.
AgentKept ==
  /\ agentCR.state = "present" /\ hurt["agent"] # "left" => AgentPresent
  /\ agentCR.state = "absent" => hurt["agent"] # "stale"
  /\ agentCR.state = "absent" /\ hurt["agent"] = "no" => ~deployment.exists /\ ~service.exists
  /\ Past("agent", "delete", 1) => hurt["agent"] # "stale"
  /\ Past("agent", "delete", 1) /\ hurt["agent"] = "no" => ~deployment.exists
  /\ Past("agent", "delete", 2) /\ hurt["agent"] = "no" => ~service.exists

\* The mesh's ConfigMap, likewise; an update mends what went wrong before.
MeshPresent ==
  /\ Past("mesh", "update", 1) =>
       configmap.exists /\ configmap.owner = 0 /\ configmap.version = handler.seen
  /\ hurt["mesh"] = "no" =>
       /\ configmap.exists => configmap.owner \in {0, meshCR.uid}
       /\ ~meshCR.created /\ ~Past("mesh", "create", 1) => ~configmap.exists
       /\ Past("mesh", "create", 1) => configmap.exists /\ configmap.version = handler.seen
       /\ meshCR.created /\ ~Past("mesh", "update", 1) =>
            configmap.exists /\ configmap.version = meshCR.handled

\* What is kept of a mesh.
MeshKept ==
  /\ meshCR.state = "present" => MeshPresent
  /\ meshCR.state = "absent" => hurt["mesh"] # "stale"
  /\ meshCR.state = "absent" /\ hurt["mesh"] = "no" => ~configmap.exists
  /\ Past("mesh", "delete", 1) => hurt["mesh"] # "stale"
  /\ Past("mesh", "delete", 1) /\ hurt["mesh"] = "no" => ~configmap.exists

\* What a user's change of an object leaves as it was.
LEMMA ChangedIs ==
  ASSUME NEW specs, specs \subseteq Nat, NEW cr, CROK(cr, specs), NEW c \in Changed(cr, specs)
  PROVE  /\ CROK(c, specs)
         /\ \/ cr.state = "absent" /\ c.state = "present" /\ ~c.created
            \/ /\ cr.state = "present" /\ c.state \in {"present", "deleting"}
               /\ c.uid = cr.uid /\ c.created = cr.created /\ c.handled = cr.handled
<1>1. CASE /\ cr.state = "absent"
           /\ \E s \in specs :
                c = [NoCR EXCEPT !.state = "present", !.uid = cr.uid + 1, !.spec = s]
  <2>1. PICK s \in specs : c = [NoCR EXCEPT !.state = "present", !.uid = cr.uid + 1, !.spec = s]
    BY <1>1
  <2>2. c = [state |-> "present", uid |-> cr.uid + 1, spec |-> s, created |-> FALSE, handled |-> 0]
    BY <2>1 DEF NoCR
  <2>3. cr.uid + 1 \in Nat \ {0} /\ s \in Nat
    BY DEF CROK
  <2>4. QED BY <1>1, <2>2, <2>3 DEF CROK
<1>2. CASE cr.state = "present" /\ \E s \in specs : c = [cr EXCEPT !.spec = s]
  BY <1>2 DEF CROK
<1>3. CASE cr.state = "present" /\ c = [cr EXCEPT !.state = "deleting"]
  BY <1>3 DEF CROK
<1>4. QED BY <1>1, <1>2, <1>3 DEF Changed

\* What the end of a handler leaves of an object.
LEMMA AfterIs ==
  ASSUME NEW specs, specs \subseteq Nat, NEW kind, NEW cr, CROK(cr, specs),
         HandlerOK(cr, kind, specs)
  PROVE  /\ CROK(After(cr, kind), specs)
         /\ \/ (handler.kind # kind \/ handler.event = "timer") /\ After(cr, kind) = cr
            \/ /\ handler.kind = kind /\ handler.event = "delete"
               /\ After(cr, kind).state = "absent"
            \/ /\ handler.kind = kind /\ handler.event \in {"create", "update"}
               /\ After(cr, kind).state = cr.state /\ After(cr, kind).uid = cr.uid
               /\ After(cr, kind).created /\ After(cr, kind).handled = handler.seen
<1>1. CASE handler.kind # kind \/ handler.event = "timer"
  BY <1>1 DEF After
<1>2. CASE handler.kind = kind /\ handler.event = "delete"
  <2>1. After(cr, kind) = [NoCR EXCEPT !.uid = cr.uid]
    BY <1>2 DEF After
  <2>2. After(cr, kind) = [state |-> "absent", uid |-> cr.uid, spec |-> 0, created |-> FALSE,
                           handled |-> 0]
    BY <2>1 DEF NoCR
  <2>3. QED BY <1>2, <2>2 DEF CROK
<1>3. CASE handler.kind = kind /\ handler.event \in {"create", "update"}
  <2>1. After(cr, kind) = [cr EXCEPT !.created = TRUE, !.handled = handler.seen]
    BY <1>3 DEF After
  <2>2. handler.seen \in specs
    BY <1>3 DEF HandlerOK
  <2>3. QED BY <1>3, <2>1, <2>2 DEF CROK
<1>4. QED BY <1>1, <1>2, <1>3 DEF HandlerOK

\* The next call of a handler.
LEMMA NextCallIs ==
  ASSUME OperatorTypeOK, handler.kind # "none", NextCall
  PROVE  /\ handler' \in [kind: {"none", "agent", "mesh"},
                          event: {"none", "create", "update", "delete", "timer"},
                          call: Nat, seen: Nat, uid: Nat]
         /\ handler'.kind = handler.kind /\ handler'.event = handler.event
         /\ handler'.seen = handler.seen /\ handler'.uid = handler.uid
         /\ handler'.call = handler.call + 1
BY DEF OperatorTypeOK, HandlersOK, NextCall

\* No handler is no agent's and no mesh's.
LEMMA NoHandlerIs ==
  /\ NoHandler.kind = "none"
  /\ NoHandler \in [kind: {"none", "agent", "mesh"},
                    event: {"none", "create", "update", "delete", "timer"},
                    call: Nat, seen: Nat, uid: Nat]
BY DEF NoHandler

\* A call leaves the handler well formed.
LEMMA CallHandler ==
  ASSUME OperatorTypeOK, handler.kind # "none", NextCall, UNCHANGED <<agentCR, meshCR>>
  PROVE  HandlersOK' /\ CROK(agentCR, ReplicaCounts)' /\ CROK(meshCR, Versions)'
<1>1. /\ handler' \in [kind: {"none", "agent", "mesh"},
                       event: {"none", "create", "update", "delete", "timer"},
                       call: Nat, seen: Nat, uid: Nat]
      /\ handler'.kind = handler.kind /\ handler'.event = handler.event
      /\ handler'.seen = handler.seen /\ handler'.uid = handler.uid
      /\ handler'.call = handler.call + 1
  BY NextCallIs
<1>2. handler.call \in Nat
  BY DEF OperatorTypeOK, HandlersOK
<1>3. HandlersOK'
  BY <1>1, <1>2 DEF OperatorTypeOK, HandlersOK, HandlerOK
<1>4. QED BY <1>3 DEF OperatorTypeOK, CROK

\* Missing resources are resources.
LEMMA MissingIs ==
  /\ NoDeployment \in [exists: BOOLEAN, owner: Nat, replicas: Nat, wired: BOOLEAN]
  /\ NoService \in [exists: BOOLEAN, owner: Nat]
  /\ NoConfigMap \in [exists: BOOLEAN, owner: Nat, version: Nat]
  /\ ~NoDeployment.exists /\ ~NoService.exists /\ ~NoConfigMap.exists
BY DEF NoDeployment, NoService, NoConfigMap

\* What the operator creates are resources.
LEMMA ManifestIs ==
  ASSUME NEW uid \in Nat, NEW n \in Nat
  PROVE  /\ DeploymentManifest(uid, n) \in [exists: BOOLEAN, owner: Nat, replicas: Nat, wired: BOOLEAN]
         /\ DeploymentManifest(uid, n).exists /\ DeploymentManifest(uid, n).owner = uid
         /\ DeploymentManifest(uid, n).replicas = n
         /\ ServiceManifest(uid) \in [exists: BOOLEAN, owner: Nat]
         /\ ServiceManifest(uid).exists /\ ServiceManifest(uid).owner = uid
BY DEF DeploymentManifest, ServiceManifest

\* And so is the ConfigMap.
LEMMA RoutingConfigMapIs ==
  ASSUME NEW uid \in Nat, NEW n \in Nat
  PROVE  /\ RoutingConfigMap(uid, n) \in [exists: BOOLEAN, owner: Nat, version: Nat]
         /\ RoutingConfigMap(uid, n).exists /\ RoutingConfigMap(uid, n).owner = uid
         /\ RoutingConfigMap(uid, n).version = n
BY DEF RoutingConfigMap

\* What the operator patches remains the same resource.
LEMMA ReplicatedIs ==
  ASSUME NEW d \in [exists: BOOLEAN, owner: Nat, replicas: Nat, wired: BOOLEAN], NEW n \in Nat
  PROVE  /\ Replicated(d, n) \in [exists: BOOLEAN, owner: Nat, replicas: Nat, wired: BOOLEAN]
         /\ Replicated(d, n).exists = d.exists /\ Replicated(d, n).owner = d.owner
         /\ Replicated(d, n).replicas = IF d.exists THEN n ELSE d.replicas
BY DEF Replicated

\* Every step keeps the types.
LEMMA OperatorTypeStep ==
  ASSUME OperatorTypeOK, [OperatorNext]_operatorVars
  PROVE  OperatorTypeOK'
<1>0. ReplicaCounts \subseteq Nat /\ Versions \subseteq Nat
  BY OperatorAssumption
<1>1. CROK(agentCR, ReplicaCounts) /\ CROK(meshCR, Versions) /\ HandlersOK /\ ResourcesOK
      /\ hurt \in [{"agent", "mesh"} -> {"no", "stale", "left"}] /\ suspended \in BOOLEAN
  BY DEF OperatorTypeOK
<1>2. CASE UserChangesAgent
  <2>1. agentCR' \in Changed(agentCR, ReplicaCounts)
        /\ UNCHANGED <<meshCR, deployment, service, configmap, handler, suspended, hurt>>
    BY <1>2 DEF UserChangesAgent
  <2>2. PICK c \in Changed(agentCR, ReplicaCounts) : agentCR' = c
    BY <2>1
  <2>3. /\ CROK(c, ReplicaCounts)
        /\ \/ agentCR.state = "absent" /\ c.state = "present" /\ ~c.created
           \/ /\ agentCR.state = "present" /\ c.state \in {"present", "deleting"}
              /\ c.uid = agentCR.uid /\ c.created = agentCR.created
              /\ c.handled = agentCR.handled
    BY <1>0, <1>1, ChangedIs
  <2>4. HandlersOK'
    BY <1>1, <2>1, <2>2, <2>3 DEF HandlersOK, HandlerOK
  <2>5. ResourcesOK' /\ CROK(meshCR, Versions)' /\ CROK(agentCR, ReplicaCounts)'
    BY <1>1, <2>1, <2>2, <2>3 DEF ResourcesOK, CROK
  <2>6. QED BY <1>1, <2>1, <2>4, <2>5 DEF OperatorTypeOK
<1>3. CASE UserChangesMesh
  <2>1. meshCR' \in Changed(meshCR, Versions)
        /\ UNCHANGED <<agentCR, deployment, service, configmap, handler, suspended, hurt>>
    BY <1>3 DEF UserChangesMesh
  <2>2. PICK c \in Changed(meshCR, Versions) : meshCR' = c
    BY <2>1
  <2>3. /\ CROK(c, Versions)
        /\ \/ meshCR.state = "absent" /\ c.state = "present" /\ ~c.created
           \/ /\ meshCR.state = "present" /\ c.state \in {"present", "deleting"}
              /\ c.uid = meshCR.uid /\ c.created = meshCR.created
              /\ c.handled = meshCR.handled
    BY <1>0, <1>1, ChangedIs
  <2>4. HandlersOK'
    BY <1>1, <2>1, <2>2, <2>3 DEF HandlersOK, HandlerOK
  <2>5. ResourcesOK' /\ CROK(meshCR, Versions)' /\ CROK(agentCR, ReplicaCounts)'
    BY <1>1, <2>1, <2>2, <2>3 DEF ResourcesOK, CROK
  <2>6. QED BY <1>1, <2>1, <2>4, <2>5 DEF OperatorTypeOK
<1>4. CASE UNCHANGED <<agentCR, meshCR, handler, suspended, hurt>> /\ (Spend \/ Collect \/ UNCHANGED operatorVars)
  <2>1. ResourcesOK'
    BY <1>1, <1>4, MissingIs DEF ResourcesOK, Spend, Collect, operatorVars
  <2>2. HandlersOK' /\ CROK(meshCR, Versions)' /\ CROK(agentCR, ReplicaCounts)'
    BY <1>1, <1>4 DEF HandlersOK, HandlerOK, CROK
  <2>3. QED BY <1>1, <1>4, <2>1, <2>2 DEF OperatorTypeOK
<1>5. CASE Begin
  <2>1. /\ UNCHANGED <<agentCR, meshCR, deployment, service, configmap, suspended, hurt>>
        /\ handler' \in {Owed(agentCR, "agent"), Owed(meshCR, "mesh")} \ {NoHandler}
    BY <1>5 DEF Begin
  <2>2. ResourcesOK' /\ CROK(meshCR, Versions)' /\ CROK(agentCR, ReplicaCounts)'
    BY <1>1, <2>1 DEF ResourcesOK, CROK
  <2>3. CASE handler' = Owed(agentCR, "agent")
    <3>1. /\ handler' \in [kind: {"agent"}, event: {"create", "update", "delete"},
                           call: {1}, seen: {agentCR.spec}, uid: {agentCR.uid}]
          /\ agentCR.state # "absent"
          /\ handler'.event = "create" => ~agentCR.created
          /\ handler'.event = "update" => agentCR.created
          /\ handler'.event = "delete" => agentCR.state = "deleting"
      <4>1. Owed(agentCR, "agent") # NoHandler
        BY <2>1, <2>3
      <4>2. QED BY <1>0, <1>1, <2>3, <4>1 DEF Owed, CROK
    <3>2. HandlersOK'
      BY <1>0, <1>1, <2>1, <3>1 DEF HandlersOK, HandlerOK, CROK
    <3>3. QED BY <1>1, <2>1, <2>2, <3>2 DEF OperatorTypeOK
  <2>4. CASE handler' = Owed(meshCR, "mesh")
    <3>1. /\ handler' \in [kind: {"mesh"}, event: {"create", "update", "delete"},
                           call: {1}, seen: {meshCR.spec}, uid: {meshCR.uid}]
          /\ meshCR.state # "absent"
          /\ handler'.event = "create" => ~meshCR.created
          /\ handler'.event = "update" => meshCR.created
          /\ handler'.event = "delete" => meshCR.state = "deleting"
      <4>1. Owed(meshCR, "mesh") # NoHandler
        BY <2>1, <2>4
      <4>2. QED BY <1>0, <1>1, <2>4, <4>1 DEF Owed, CROK
    <3>2. HandlersOK'
      BY <1>0, <1>1, <2>1, <3>1 DEF HandlersOK, HandlerOK, CROK
    <3>3. QED BY <1>1, <2>1, <2>2, <3>2 DEF OperatorTypeOK
  <2>5. QED BY <2>1, <2>3, <2>4
<1>6. CASE ReconcileRead
  <2>1. /\ UNCHANGED <<agentCR, meshCR, deployment, service, configmap, suspended, hurt>>
        /\ agentCR.state = "present"
        /\ handler' = [kind |-> "agent", event |-> "timer", call |-> 2, seen |-> 0, uid |-> agentCR.uid]
    BY <1>6 DEF ReconcileRead
  <2>2. ResourcesOK' /\ CROK(meshCR, Versions)' /\ CROK(agentCR, ReplicaCounts)'
    BY <1>1, <2>1 DEF ResourcesOK, CROK
  <2>3. HandlersOK'
    BY <1>1, <2>1 DEF HandlersOK, HandlerOK, CROK
  <2>4. QED BY <1>1, <2>1, <2>2, <2>3 DEF OperatorTypeOK
<1>7. CASE Calls \/ FailingCalls
  <2>1. handler.kind # "none" /\ NextCall /\ UNCHANGED <<agentCR, meshCR>>
    BY <1>7 DEF Calls, FailingCalls, CreateDeployment, CreateService, UpdateDeployment, Suspend,
                CreateConfigMap, ReplaceConfigMap, DeleteDeployment, DeleteService,
                DeleteConfigMap, Wire, At
  <2>2. HandlersOK' /\ CROK(meshCR, Versions)' /\ CROK(agentCR, ReplicaCounts)'
    BY <2>1, CallHandler
  <2>3. hurt' \in [{"agent", "mesh"} -> {"no", "stale", "left"}] /\ suspended' \in BOOLEAN
    BY <1>1, <1>7 DEF Calls, FailingCalls, CreateDeployment, CreateService, UpdateDeployment, Suspend,
                CreateConfigMap, ReplaceConfigMap, DeleteDeployment, DeleteService,
                DeleteConfigMap, Wire, ResourcesOK
  <2>4. handler.seen \in Nat /\ handler.uid \in Nat /\ (handler.kind = "agent" => handler.uid # 0)
    BY <1>1 DEF HandlersOK, HandlerOK, CROK
  <2>5. ResourcesOK'
    <3> DEFINE D == [exists: BOOLEAN, owner: Nat, replicas: Nat, wired: BOOLEAN]
    <3>0. deployment \in D /\ 0 \in Nat
      BY <1>1 DEF ResourcesOK
    <3>1. CASE CreateDeployment \/ UpdateDeployment \/ Suspend
      <4>1. service' = service /\ configmap' = configmap /\ handler.kind = "agent"
        BY <3>1 DEF CreateDeployment, UpdateDeployment, Suspend, At
      <4>2. deployment' \in {deployment, DeploymentManifest(handler.uid, handler.seen),
                             Replicated(deployment, handler.seen), Replicated(deployment, 0)}
        BY <3>1 DEF CreateDeployment, UpdateDeployment, Suspend
      <4>3. deployment' \in D /\ (deployment'.exists => deployment'.owner # 0)
        <5> HIDE DEF D
        <5>1. ASSUME NEW n \in Nat
              PROVE  /\ Replicated(deployment, n) \in D
                     /\ Replicated(deployment, n).exists = deployment.exists
                     /\ Replicated(deployment, n).owner = deployment.owner
          BY <3>0, ReplicatedIs DEF D
        <5>2. DeploymentManifest(handler.uid, handler.seen) \in D
              /\ DeploymentManifest(handler.uid, handler.seen).owner = handler.uid
          BY <2>4, ManifestIs DEF D
        <5>3. QED BY <1>1, <2>4, <3>0, <4>1, <4>2, <5>1, <5>2 DEF ResourcesOK
      <4>4. QED BY <1>1, <4>1, <4>3 DEF ResourcesOK
    <3>2. CASE CreateService
      <4>1. deployment' = deployment /\ configmap' = configmap /\ handler.kind = "agent"
        BY <3>2 DEF CreateService, At
      <4>2. service' \in {service, ServiceManifest(handler.uid)}
        BY <3>2 DEF CreateService
      <4>3. ServiceManifest(handler.uid) \in [exists: BOOLEAN, owner: Nat]
            /\ ServiceManifest(handler.uid).owner = handler.uid
        BY <2>4, ManifestIs
      <4>4. QED BY <1>1, <2>4, <4>1, <4>2, <4>3 DEF ResourcesOK
    <3>3. CASE CreateConfigMap \/ ReplaceConfigMap
      <4>1. deployment' = deployment /\ service' = service
        BY <3>3 DEF CreateConfigMap, ReplaceConfigMap
      <4>2. configmap' \in {configmap, RoutingConfigMap(handler.uid, handler.seen),
                            RoutingConfigMap(0, handler.seen)}
        BY <3>3 DEF CreateConfigMap, ReplaceConfigMap, Replaced
      <4>3. \A u \in Nat :
              RoutingConfigMap(u, handler.seen) \in [exists: BOOLEAN, owner: Nat, version: Nat]
        BY <2>4, RoutingConfigMapIs
      <4>4. QED BY <1>1, <2>4, <3>0, <4>1, <4>2, <4>3 DEF ResourcesOK
    <3>4. ASSUME NEW f \in BOOLEAN,
                 DeleteDeployment(f) \/ DeleteService(f) \/ DeleteConfigMap(f) \/ Wire(f)
          PROVE  ResourcesOK'
      <4>1. /\ deployment' \in {deployment, NoDeployment, [deployment EXCEPT !.wired = TRUE]}
            /\ service' \in {service, NoService} /\ configmap' \in {configmap, NoConfigMap}
        BY <3>4 DEF DeleteDeployment, DeleteService, DeleteConfigMap, Wire
      <4>2. deployment' \in D /\ (deployment'.exists => deployment'.owner # 0)
        BY <1>1, <4>1, MissingIs DEF ResourcesOK
      <4>3. QED BY <1>1, <4>1, <4>2, MissingIs DEF ResourcesOK
    <3>5. QED BY <1>7, <3>1, <3>2, <3>3, <3>4 DEF Calls, FailingCalls
  <2>6. QED BY <2>2, <2>3, <2>5 DEF OperatorTypeOK
<1>8. CASE Finish
  <2>1. /\ UNCHANGED <<deployment, service, configmap, suspended>>
        /\ agentCR' = After(agentCR, "agent") /\ meshCR' = After(meshCR, "mesh")
        /\ handler' = NoHandler
    BY <1>8 DEF Finish
  <2>2. CROK(agentCR', ReplicaCounts) /\ CROK(meshCR', Versions)
    BY <1>0, <1>1, <2>1, AfterIs DEF HandlersOK
  <2>3. HandlersOK'
    BY <2>1, NoHandlerIs DEF HandlersOK, HandlerOK
  <2>4. ResourcesOK' /\ CROK(meshCR, Versions)' /\ CROK(agentCR, ReplicaCounts)'
    BY <1>1, <2>1, <2>2 DEF ResourcesOK, CROK
  <2>5. hurt' \in [{"agent", "mesh"} -> {"no", "stale", "left"}]
    BY <1>1, <1>8 DEF Finish
  <2>6. QED BY <1>1, <2>1, <2>3, <2>4, <2>5 DEF OperatorTypeOK
<1>9. CASE Abort
  <2>1. UNCHANGED <<agentCR, meshCR, deployment, service, configmap, suspended>>
        /\ handler' = NoHandler
    BY <1>9 DEF Abort
  <2>2. HandlersOK'
    BY <2>1, NoHandlerIs DEF HandlersOK, HandlerOK
  <2>3. ResourcesOK' /\ CROK(meshCR, Versions)' /\ CROK(agentCR, ReplicaCounts)'
    BY <1>1, <2>1 DEF ResourcesOK, CROK
  <2>4. hurt' \in [{"agent", "mesh"} -> {"no", "stale", "left"}]
    BY <1>1, <1>9 DEF Abort
  <2>5. QED BY <1>1, <2>1, <2>2, <2>3, <2>4 DEF OperatorTypeOK
<1>10. CASE Spend \/ Collect \/ UNCHANGED operatorVars
  <2>1. UNCHANGED <<agentCR, meshCR, handler, suspended, hurt>>
    BY <1>10 DEF Spend, Collect, operatorVars
  <2>2. QED BY <1>4, <1>10, <2>1
<1>11. QED BY <1>2, <1>3, <1>5, <1>6, <1>7, <1>8, <1>9, <1>10 DEF OperatorNext

\* What leaves the agent, its resources and its handler alone keeps the agent's invariant.
LEMMA AgentUnaffected ==
  ASSUME AgentKept, agentCR' = agentCR, suspended' = suspended, hurt'["agent"] = hurt["agent"],
         deployment'.exists = deployment.exists, deployment'.owner = deployment.owner,
         deployment'.replicas = deployment.replicas,
         service'.exists = service.exists, service'.owner = service.owner,
         handler'.kind = "agent" /\ handler'.event # "timer" /\ handler'.call > 1 =>
           handler' = handler,
         handler.kind = "agent" /\ handler.event # "timer" /\ handler.call > 1 =>
           handler' = handler,
         handler.call \in Nat, handler'.call \in Nat
  PROVE  AgentKept'
<1>1. \A e \in {"create", "update", "delete"} : \A n \in {1, 2} :
        Past("agent", e, n)' <=> Past("agent", e, n)
  BY DEF Past
<1>2. \A e \in {"create", "update"} : Past("agent", e, 1)' => handler'.seen = handler.seen
  BY DEF Past
<1>3. \A e \in {"create", "update"} : Past("agent", e, 1)' <=> Past("agent", e, 1)
  BY <1>1
<1>4. /\ Past("agent", "create", 2)' <=> Past("agent", "create", 2)
      /\ Past("agent", "delete", 1)' <=> Past("agent", "delete", 1)
      /\ Past("agent", "delete", 2)' <=> Past("agent", "delete", 2)
  BY <1>1
<1>5. AgentPresent => AgentPresent'
  BY <1>2, <1>3, <1>4 DEF AgentPresent
<1>6. QED BY <1>4, <1>5 DEF AgentKept

\* A call of the agent's handlers.
LEMMA AgentCalls ==
  ASSUME OperatorTypeOK, OperatorTypeOK', AgentKept,
         \/ CreateDeployment \/ CreateService \/ UpdateDeployment \/ Suspend
         \/ \E f \in BOOLEAN : DeleteDeployment(f) \/ DeleteService(f)
  PROVE  AgentKept'
<1>0. ResourcesOK /\ HandlersOK /\ hurt \in [{"agent", "mesh"} -> {"no", "stale", "left"}]
      /\ CROK(agentCR, ReplicaCounts) /\ suspended \in BOOLEAN /\ agentCR' = agentCR
  BY DEF OperatorTypeOK, CreateDeployment, CreateService, UpdateDeployment, Suspend,
         DeleteDeployment, DeleteService
<1>1. handler.kind = "agent" /\ NextCall
  BY DEF CreateDeployment, CreateService, UpdateDeployment, Suspend,
         DeleteDeployment, DeleteService, At
<1>2. /\ handler'.kind = "agent" /\ handler'.event = handler.event
      /\ handler'.seen = handler.seen /\ handler'.uid = handler.uid
      /\ handler'.call = handler.call + 1 /\ handler.call \in Nat
  BY <1>0, <1>1, NextCallIs DEF HandlersOK
<1>3. /\ handler.uid = agentCR.uid /\ handler.uid \in Nat /\ handler.seen \in Nat
      /\ agentCR.state # "absent"
      /\ handler.event = "create" => ~agentCR.created
      /\ handler.event = "update" => agentCR.created
      /\ handler.event = "delete" => agentCR.state = "deleting"
      /\ deployment \in [exists: BOOLEAN, owner: Nat, replicas: Nat, wired: BOOLEAN]
  BY <1>0, <1>1 DEF HandlersOK, HandlerOK, ResourcesOK
<1>4. CASE CreateDeployment
  <2>1. /\ handler.event = "create" /\ handler.call = 1 /\ hurt' = hurt /\ service' = service
        /\ deployment' = IF deployment.exists THEN deployment
                         ELSE DeploymentManifest(handler.uid, handler.seen)
        /\ suspended' = (suspended /\ deployment.exists)
    BY <1>4 DEF CreateDeployment, At
  <2>2. /\ deployment'.exists
        /\ deployment'.owner = IF deployment.exists THEN deployment.owner ELSE handler.uid
        /\ ~deployment.exists => deployment'.replicas = handler.seen /\ ~suspended'
    BY <1>3, <2>1, ManifestIs
  <2>3. /\ Past("agent", "create", 1)' /\ ~Past("agent", "create", 2)'
        /\ ~Past("agent", "create", 1)
        /\ ~Past("agent", "update", 1)' /\ ~Past("agent", "delete", 1)' /\ ~Past("agent", "delete", 2)'
    BY <1>1, <1>2, <2>1 DEF Past
  <2>4. AgentPresent => AgentPresent'
    BY <1>0, <1>2, <1>3, <2>1, <2>2, <2>3 DEF AgentPresent
  <2>5. QED BY <1>0, <1>3, <2>1, <2>3, <2>4 DEF AgentKept
<1>5. CASE CreateService
  <2>1. /\ handler.event = "create" /\ handler.call = 2 /\ hurt' = hurt /\ suspended' = suspended
        /\ deployment' = deployment
        /\ service' = IF service.exists THEN service ELSE ServiceManifest(handler.uid)
    BY <1>5 DEF CreateService, At
  <2>2. /\ service'.exists
        /\ service'.owner = IF service.exists THEN service.owner ELSE handler.uid
    BY <1>3, <2>1, ManifestIs
  <2>3. /\ Past("agent", "create", 1)' /\ Past("agent", "create", 1)
        /\ ~Past("agent", "update", 1)' /\ ~Past("agent", "delete", 1)' /\ ~Past("agent", "delete", 2)'
    BY <1>1, <1>2, <2>1 DEF Past
  <2>4. AgentPresent => AgentPresent'
    BY <1>0, <1>2, <1>3, <2>1, <2>2, <2>3 DEF AgentPresent
  <2>5. QED BY <1>0, <1>3, <2>1, <2>3, <2>4 DEF AgentKept
<1>6. CASE UpdateDeployment
  <2>1. /\ handler.event = "update" /\ handler.call = 1 /\ hurt' = hurt /\ suspended' = FALSE
        /\ service' = service /\ deployment' = Replicated(deployment, handler.seen)
    BY <1>6 DEF UpdateDeployment, At
  <2>2. /\ deployment'.exists = deployment.exists /\ deployment'.owner = deployment.owner
        /\ deployment.exists => deployment'.replicas = handler.seen
    BY <1>3, <2>1, ReplicatedIs
  <2>3. /\ Past("agent", "update", 1)' /\ ~Past("agent", "update", 1)
        /\ ~Past("agent", "create", 1)' /\ ~Past("agent", "create", 2)'
        /\ ~Past("agent", "delete", 1)' /\ ~Past("agent", "delete", 2)'
    BY <1>1, <1>2, <2>1 DEF Past
  <2>4. AgentPresent => AgentPresent'
    BY <1>0, <1>2, <1>3, <2>1, <2>2, <2>3 DEF AgentPresent
  <2>5. QED BY <1>0, <1>3, <2>1, <2>3, <2>4 DEF AgentKept
<1>7. CASE Suspend
  <2>1. /\ handler.event = "timer" /\ hurt' = hurt /\ service' = service
        /\ suspended' = (suspended \/ deployment.exists)
        /\ deployment' = Replicated(deployment, 0)
    BY <1>7 DEF Suspend, At
  <2>2. /\ deployment'.exists = deployment.exists /\ deployment'.owner = deployment.owner
        /\ deployment.exists => deployment'.replicas = 0 /\ suspended'
    BY <1>3, <2>1, ReplicatedIs
  <2>3. /\ ~Past("agent", "update", 1)' /\ ~Past("agent", "update", 1)
        /\ ~Past("agent", "create", 1)' /\ ~Past("agent", "create", 2)'
        /\ ~Past("agent", "create", 1)
        /\ ~Past("agent", "delete", 1)' /\ ~Past("agent", "delete", 2)'
    BY <1>1, <1>2, <2>1 DEF Past
  <2>4. AgentPresent => AgentPresent'
    BY <1>0, <1>2, <1>3, <2>1, <2>2, <2>3 DEF AgentPresent
  <2>5. QED BY <1>0, <1>3, <2>1, <2>3, <2>4 DEF AgentKept
<1>8. ASSUME NEW f \in BOOLEAN, DeleteDeployment(f) PROVE AgentKept'
  <2>1. /\ handler.event = "delete" /\ handler.call = 1 /\ service' = service
        /\ hurt' = [hurt EXCEPT !["agent"] = IF f THEN "left" ELSE "no"]
        /\ deployment' = IF f THEN deployment ELSE NoDeployment
    BY <1>8 DEF DeleteDeployment, At
  <2>2. hurt'["agent"] = "left" \/ (hurt'["agent"] = "no" /\ ~deployment'.exists)
    BY <1>0, <2>1, MissingIs
  <2>3. ~Past("agent", "delete", 2)'
    BY <1>2, <2>1 DEF Past
  <2>4. QED BY <1>0, <1>3, <2>1, <2>2, <2>3 DEF AgentKept
<1>9. ASSUME NEW f \in BOOLEAN, DeleteService(f) PROVE AgentKept'
  <2>1. /\ handler.event = "delete" /\ handler.call = 2 /\ deployment' = deployment
        /\ hurt' = [hurt EXCEPT !["agent"] = IF f THEN "left" ELSE @]
        /\ service' = IF f THEN service ELSE NoService
    BY <1>9 DEF DeleteService, At
  <2>2. hurt'["agent"] = "left" \/ (hurt'["agent"] = hurt["agent"] /\ ~service'.exists)
    BY <1>0, <2>1, MissingIs
  <2>3. Past("agent", "delete", 1)
    BY <1>1, <2>1 DEF Past
  <2>4. QED BY <1>0, <1>3, <2>1, <2>2, <2>3 DEF AgentKept
<1>10. QED BY <1>4, <1>5, <1>6, <1>7, <1>8, <1>9

\* Every step keeps the agent's invariant.
LEMMA AgentStep ==
  ASSUME OperatorTypeOK, OperatorTypeOK', AgentKept, [OperatorNext]_operatorVars
  PROVE  AgentKept'
<1>0. /\ ResourcesOK /\ HandlersOK /\ hurt \in [{"agent", "mesh"} -> {"no", "stale", "left"}]
      /\ CROK(agentCR, ReplicaCounts) /\ CROK(meshCR, Versions) /\ suspended \in BOOLEAN
      /\ handler.call \in Nat /\ handler'.call \in Nat
      /\ HandlerOK(agentCR, "agent", ReplicaCounts)
      /\ ReplicaCounts \subseteq Nat
  BY OperatorAssumption DEF OperatorTypeOK, HandlersOK
<1>1. CASE UserChangesAgent
  <2>1. agentCR' \in Changed(agentCR, ReplicaCounts)
        /\ UNCHANGED <<deployment, service, handler, suspended, hurt>>
    BY <1>1 DEF UserChangesAgent
  <2>2. PICK c \in Changed(agentCR, ReplicaCounts) : agentCR' = c
    BY <2>1
  <2>3. \/ agentCR.state = "absent" /\ c.state = "present" /\ ~c.created
        \/ /\ agentCR.state = "present" /\ c.state \in {"present", "deleting"}
           /\ c.uid = agentCR.uid /\ c.created = agentCR.created
           /\ c.handled = agentCR.handled
    BY <1>0, ChangedIs
  <2>4. \A e, n : Past("agent", e, n)' <=> Past("agent", e, n)
    BY <2>1 DEF Past
  <2>5. CASE agentCR.state = "absent" /\ c.state = "present" /\ ~c.created
    <3>1. \A e, n : ~Past("agent", e, n)
      BY <1>0, <2>5 DEF Past, HandlerOK
    <3>2. QED BY <1>0, <2>1, <2>2, <2>4, <2>5, <3>1 DEF AgentKept, AgentPresent
  <2>6. CASE agentCR.state = "present" /\ c.state \in {"present", "deleting"}
             /\ c.uid = agentCR.uid /\ c.created = agentCR.created
             /\ c.handled = agentCR.handled
    <3>1. AgentPresent => AgentPresent'
      BY <2>1, <2>2, <2>4, <2>6 DEF AgentPresent
    <3>2. QED BY <2>1, <2>2, <2>4, <2>6, <3>1 DEF AgentKept
  <2>7. QED BY <2>3, <2>5, <2>6
<1>2. CASE Collect
  <2>1. UNCHANGED <<agentCR, handler, suspended, hurt>>
    BY <1>2 DEF Collect
  <2>2. \A e, n : Past("agent", e, n)' <=> Past("agent", e, n)
    BY <2>1 DEF Past
  <2>3. /\ deployment' = deployment \/ (Collectable(deployment, agentCR) /\ deployment' = NoDeployment)
        /\ service' = service \/ (Collectable(service, agentCR) /\ service' = NoService)
    BY <1>2 DEF Collect
  <2>4. (deployment'.exists => deployment.exists) /\ (service'.exists => service.exists)
    BY <2>3, MissingIs
  <2>5. ASSUME agentCR.state = "present", hurt["agent"] # "left" PROVE AgentPresent'
    <3>1. AgentPresent
      BY <2>5 DEF AgentKept
    <3>2. deployment' = deployment /\ service' = service
      BY <2>3, <2>5, <3>1 DEF AgentPresent, Collectable
    <3>3. QED BY <2>1, <2>2, <3>1, <3>2 DEF AgentPresent
  <2>6. QED BY <2>1, <2>2, <2>4, <2>5 DEF AgentKept
<1>3. CASE UserChangesMesh \/ Spend \/ UNCHANGED operatorVars
  <2>1. UNCHANGED <<agentCR, deployment, service, handler, suspended, hurt>>
    BY <1>3 DEF UserChangesMesh, Spend, operatorVars
  <2>2. QED BY <1>0, <2>1, AgentUnaffected
<1>4. CASE Begin \/ ReconcileRead
  <2>1. UNCHANGED <<agentCR, deployment, service, suspended, hurt>> /\ handler = NoHandler
    BY <1>4 DEF Begin, ReconcileRead
  <2>2. handler.kind # "agent"
    BY <2>1, NoHandlerIs
  <2>3. ~(handler'.kind = "agent" /\ handler'.event # "timer" /\ handler'.call > 1)
    <3>1. CASE ReconcileRead
      BY <3>1 DEF ReconcileRead
    <3>2. CASE Begin
      <4>1. handler' \in {Owed(agentCR, "agent"), Owed(meshCR, "mesh")} \ {NoHandler}
        BY <3>2 DEF Begin
      <4>2. handler'.call = 1
        BY <4>1 DEF Owed
      <4>3. QED BY <4>2
    <3>3. QED BY <1>4, <3>1, <3>2
  <2>4. QED BY <1>0, <2>1, <2>2, <2>3, AgentUnaffected
<1>5. CASE CreateConfigMap \/ ReplaceConfigMap \/ \E f \in BOOLEAN : DeleteConfigMap(f) \/ Wire(f)
  <2>1. /\ UNCHANGED <<agentCR, service, suspended>> /\ NextCall /\ handler.kind = "mesh"
        /\ deployment' \in {deployment, [deployment EXCEPT !.wired = TRUE]}
        /\ hurt'["agent"] = hurt["agent"]
    BY <1>0, <1>5 DEF CreateConfigMap, ReplaceConfigMap, DeleteConfigMap, Wire, At
  <2>2. handler'.kind = "mesh"
    BY <2>1, NextCallIs
  <2>3. deployment'.exists = deployment.exists /\ deployment'.owner = deployment.owner
        /\ deployment'.replicas = deployment.replicas
    BY <1>0, <2>1 DEF ResourcesOK
  <2>4. QED BY <1>0, <2>1, <2>2, <2>3, AgentUnaffected
<1>6. CASE \/ CreateDeployment \/ CreateService \/ UpdateDeployment \/ Suspend
           \/ \E f \in BOOLEAN : DeleteDeployment(f) \/ DeleteService(f)
  BY <1>6, AgentCalls
<1>7. CASE Finish
  <2>1. /\ UNCHANGED <<deployment, service, suspended>> /\ handler' = NoHandler
        /\ agentCR' = After(agentCR, "agent") /\ handler.call > LastCall
        /\ hurt' = IF handler.event = "update" /\ (handler.kind = "mesh" \/ hurt["agent"] = "stale")
                     THEN [hurt EXCEPT ![handler.kind] = "no"] ELSE hurt
    BY <1>7 DEF Finish
  <2>2. \A e, n : ~Past("agent", e, n)'
    BY <2>1, NoHandlerIs DEF Past
  <2>3. PICK c : c = After(agentCR, "agent")
    OBVIOUS
  <2>4. \/ (handler.kind # "agent" \/ handler.event = "timer") /\ c = agentCR
        \/ handler.kind = "agent" /\ handler.event = "delete" /\ c.state = "absent"
        \/ /\ handler.kind = "agent" /\ handler.event \in {"create", "update"}
           /\ c.state = agentCR.state /\ c.uid = agentCR.uid /\ c.created /\ c.handled = handler.seen
    <3>1. CASE handler.kind # "agent" \/ handler.event = "timer"
      BY <2>3, <3>1 DEF After
    <3>2. CASE handler.kind = "agent" /\ handler.event = "delete"
      BY <2>3, <3>2 DEF After, NoCR
    <3>3. CASE handler.kind = "agent" /\ handler.event \in {"create", "update"}
      BY <1>0, <2>3, <3>3 DEF After, CROK
    <3>4. QED BY <1>0, <3>1, <3>2, <3>3 DEF HandlerOK
  <2>5. CASE (handler.kind # "agent" \/ handler.event = "timer") /\ c = agentCR
    <3>1. hurt'["agent"] = hurt["agent"]
      BY <1>0, <2>1, <2>5 DEF HandlersOK
    <3>2. QED BY <1>0, <2>1, <2>3, <2>5, <3>1, NoHandlerIs, AgentUnaffected
  <2>6. CASE handler.kind = "agent" /\ handler.event = "delete" /\ c.state = "absent"
    <3>1. hurt' = hurt /\ Past("agent", "delete", 1) /\ Past("agent", "delete", 2)
      BY <1>0, <2>1, <2>6 DEF Past, LastCall
    <3>2. QED BY <2>1, <2>2, <2>3, <2>6, <3>1 DEF AgentKept
  <2>7. CASE handler.kind = "agent" /\ handler.event \in {"create", "update"}
             /\ c.state = agentCR.state /\ c.uid = agentCR.uid /\ c.created /\ c.handled = handler.seen
    <3>1. agentCR.state # "absent"
      BY <1>0, <2>7 DEF HandlerOK
    <3>2. CASE handler.event = "create"
      <4>1. hurt' = hurt /\ Past("agent", "create", 1) /\ Past("agent", "create", 2)
        BY <1>0, <2>1, <2>7, <3>2 DEF Past, LastCall
      <4>2. AgentPresent => AgentPresent'
        BY <2>1, <2>2, <2>3, <2>7, <3>1, <4>1 DEF AgentPresent
      <4>3. QED BY <2>1, <2>2, <2>3, <2>7, <3>1, <4>1, <4>2 DEF AgentKept
    <3>3. CASE handler.event = "update"
      <4>1. Past("agent", "update", 1) /\ agentCR.created
        BY <1>0, <2>1, <2>7, <3>3 DEF Past, LastCall, HandlerOK
      <4>2. hurt'["agent"] = "left" => hurt["agent"] = "left"
        BY <1>0, <2>1
      <4>3. AgentPresent => AgentPresent'
        BY <2>1, <2>2, <2>3, <2>7, <3>1, <4>1 DEF AgentPresent
      <4>4. hurt["agent"] = "left" => hurt'["agent"] = "left"
        BY <1>0, <2>1, <2>7
      <4>5. QED BY <2>1, <2>2, <2>3, <2>7, <3>1, <4>2, <4>3, <4>4 DEF AgentKept
    <3>4. QED BY <2>7, <3>2, <3>3
  <2>8. QED BY <2>4, <2>5, <2>6, <2>7
<1>8. CASE Abort
  <2>1. /\ UNCHANGED <<agentCR, deployment, service, suspended>> /\ handler' = NoHandler
        /\ hurt' = IF /\ handler.event \in {"create", "update"} /\ handler.call > 1
                      /\ hurt[handler.kind] = "no"
                     THEN [hurt EXCEPT ![handler.kind] = "stale"] ELSE hurt
    BY <1>8 DEF Abort
  <2>2. \A e, n : ~Past("agent", e, n)'
    BY <2>1, NoHandlerIs DEF Past
  <2>3. CASE handler.kind = "agent" /\ handler.event \in {"create", "update"} /\ handler.call > 1
    <3>1. /\ hurt'["agent"] # "no" /\ agentCR.state # "absent"
          /\ hurt["agent"] = "left" <=> hurt'["agent"] = "left"
      BY <1>0, <2>1, <2>3 DEF HandlerOK
    <3>2. AgentPresent => AgentPresent'
      BY <2>1, <2>2, <3>1 DEF AgentPresent
    <3>3. QED BY <2>1, <2>2, <3>1, <3>2 DEF AgentKept
  <2>4. CASE ~(handler.kind = "agent" /\ handler.event \in {"create", "update"} /\ handler.call > 1)
    <3>1. hurt'["agent"] = hurt["agent"]
      BY <1>0, <2>1, <2>4 DEF HandlersOK
    <3>2. ~Past("agent", "create", 1) /\ ~Past("agent", "update", 1)
      BY <2>4 DEF Past
    <3>3. AgentPresent => AgentPresent'
      BY <2>1, <2>2, <3>1, <3>2 DEF AgentPresent
    <3>4. QED BY <2>1, <2>2, <3>1, <3>3 DEF AgentKept
  <2>5. QED BY <2>3, <2>4
<1>9. QED BY <1>1, <1>2, <1>3, <1>4, <1>5, <1>6, <1>7, <1>8 DEF OperatorNext, Calls, FailingCalls

\* What leaves the mesh, its ConfigMap and its handler alone keeps the mesh's invariant.
LEMMA MeshUnaffected ==
  ASSUME MeshKept, meshCR' = meshCR, configmap' = configmap, hurt'["mesh"] = hurt["mesh"],
         handler'.kind = "mesh" /\ handler'.call > 1 => handler' = handler,
         handler.kind = "mesh" /\ handler.call > 1 => handler' = handler,
         handler.call \in Nat, handler'.call \in Nat
  PROVE  MeshKept'
<1>1. \A e : Past("mesh", e, 1)' <=> Past("mesh", e, 1)
  BY DEF Past
<1>2. \A e : Past("mesh", e, 1) => handler'.seen = handler.seen
  BY DEF Past
<1>3. MeshPresent => MeshPresent'
  BY <1>1, <1>2 DEF MeshPresent
<1>4. QED BY <1>1, <1>3 DEF MeshKept

\* Every step keeps the mesh's invariant.
LEMMA MeshCRStep ==
  ASSUME OperatorTypeOK, OperatorTypeOK', MeshKept, [OperatorNext]_operatorVars
  PROVE  MeshKept'
<1>0. /\ ResourcesOK /\ HandlersOK /\ hurt \in [{"agent", "mesh"} -> {"no", "stale", "left"}]
      /\ CROK(agentCR, ReplicaCounts) /\ CROK(meshCR, Versions)
      /\ handler.call \in Nat /\ handler'.call \in Nat
      /\ HandlerOK(meshCR, "mesh", Versions)
      /\ Versions \subseteq Nat
  BY OperatorAssumption DEF OperatorTypeOK, HandlersOK
<1>1. CASE UserChangesMesh
  <2>1. meshCR' \in Changed(meshCR, Versions) /\ UNCHANGED <<configmap, handler, hurt>>
    BY <1>1 DEF UserChangesMesh
  <2>2. PICK c \in Changed(meshCR, Versions) : meshCR' = c
    BY <2>1
  <2>3. \/ meshCR.state = "absent" /\ c.state = "present" /\ ~c.created
        \/ /\ meshCR.state = "present" /\ c.state \in {"present", "deleting"}
           /\ c.uid = meshCR.uid /\ c.created = meshCR.created
           /\ c.handled = meshCR.handled
    BY <1>0, ChangedIs
  <2>4. \A e, n : Past("mesh", e, n)' <=> Past("mesh", e, n)
    BY <2>1 DEF Past
  <2>5. CASE meshCR.state = "absent" /\ c.state = "present" /\ ~c.created
    <3>1. \A e, n : ~Past("mesh", e, n)
      BY <1>0, <2>5 DEF Past, HandlerOK
    <3>2. QED BY <1>0, <2>1, <2>2, <2>4, <2>5, <3>1 DEF MeshKept, MeshPresent
  <2>6. CASE meshCR.state = "present" /\ c.state \in {"present", "deleting"}
             /\ c.uid = meshCR.uid /\ c.created = meshCR.created
             /\ c.handled = meshCR.handled
    <3>1. MeshPresent => MeshPresent'
      BY <2>1, <2>2, <2>4, <2>6 DEF MeshPresent
    <3>2. QED BY <1>0, <2>1, <2>2, <2>4, <2>6, <3>1 DEF MeshKept, HandlerOK, Past
  <2>7. QED BY <2>3, <2>5, <2>6
<1>2. CASE Collect
  <2>1. UNCHANGED <<meshCR, handler, hurt>>
    BY <1>2 DEF Collect
  <2>2. \A e, n : Past("mesh", e, n)' <=> Past("mesh", e, n)
    BY <2>1 DEF Past
  <2>3. configmap' = configmap \/ (Collectable(configmap, meshCR) /\ configmap' = NoConfigMap)
    BY <1>2 DEF Collect
  <2>4. configmap'.exists => configmap.exists
    BY <2>3, MissingIs
  <2>5. ASSUME meshCR.state = "present" PROVE MeshPresent'
    <3>1. MeshPresent
      BY <2>5 DEF MeshKept
    <3>2. CASE configmap' = configmap
      BY <2>1, <2>2, <3>1, <3>2 DEF MeshPresent
    <3>3. CASE Collectable(configmap, meshCR)
      <4>1. configmap.owner \notin {0, meshCR.uid} /\ configmap.exists
        BY <2>5, <3>3 DEF Collectable
      <4>2. hurt'["mesh"] # "no" /\ ~Past("mesh", "update", 1)
        BY <2>1, <3>1, <4>1 DEF MeshPresent
      <4>3. QED BY <2>2, <4>2 DEF MeshPresent
    <3>4. QED BY <2>3, <3>2, <3>3
  <2>6. QED BY <2>1, <2>2, <2>4, <2>5 DEF MeshKept
<1>3. CASE UserChangesAgent \/ Spend \/ UNCHANGED operatorVars
  <2>1. UNCHANGED <<meshCR, configmap, handler, hurt>>
    BY <1>3 DEF UserChangesAgent, Spend, operatorVars
  <2>2. QED BY <1>0, <2>1, MeshUnaffected
<1>4. CASE Begin \/ ReconcileRead
  <2>1. UNCHANGED <<meshCR, configmap, hurt>> /\ handler = NoHandler
    BY <1>4 DEF Begin, ReconcileRead
  <2>2. handler.kind # "mesh"
    BY <2>1, NoHandlerIs
  <2>3. ~(handler'.kind = "mesh" /\ handler'.call > 1)
    <3>1. CASE ReconcileRead
      BY <3>1 DEF ReconcileRead
    <3>2. CASE Begin
      <4>1. handler' \in {Owed(agentCR, "agent"), Owed(meshCR, "mesh")} \ {NoHandler}
        BY <3>2 DEF Begin
      <4>2. handler'.call = 1
        BY <4>1 DEF Owed
      <4>3. QED BY <4>2
    <3>3. QED BY <1>4, <3>1, <3>2
  <2>4. QED BY <1>0, <2>1, <2>2, <2>3, MeshUnaffected
<1>5. CASE \/ CreateDeployment \/ CreateService \/ UpdateDeployment \/ Suspend
           \/ \E f \in BOOLEAN : DeleteDeployment(f) \/ DeleteService(f)
  <2>1. /\ UNCHANGED <<meshCR, configmap>> /\ NextCall /\ handler.kind = "agent"
        /\ hurt'["mesh"] = hurt["mesh"]
    BY <1>0, <1>5 DEF CreateDeployment, CreateService, UpdateDeployment, Suspend,
                      DeleteDeployment, DeleteService, At
  <2>2. handler'.kind = "agent"
    BY <2>1, NextCallIs
  <2>3. QED BY <1>0, <2>1, <2>2, MeshUnaffected
<1>6. CASE CreateConfigMap \/ ReplaceConfigMap \/ \E f \in BOOLEAN : DeleteConfigMap(f) \/ Wire(f)
  <2>1. handler.kind = "mesh" /\ NextCall /\ meshCR' = meshCR
    BY <1>6 DEF CreateConfigMap, ReplaceConfigMap, DeleteConfigMap, Wire, At
  <2>2. /\ handler'.kind = "mesh" /\ handler'.event = handler.event
        /\ handler'.seen = handler.seen /\ handler'.call = handler.call + 1
    BY <2>1, NextCallIs
  <2>3. /\ handler.uid = meshCR.uid /\ handler.uid \in Nat /\ handler.seen \in Nat
        /\ meshCR.state # "absent"
        /\ handler.event = "create" => ~meshCR.created
        /\ handler.event = "update" => meshCR.created
        /\ handler.event = "delete" => meshCR.state = "deleting"
    BY <1>0, <2>1 DEF HandlersOK, HandlerOK
  <2>4. CASE CreateConfigMap
    <3>1. /\ handler.event = "create" /\ handler.call = 1 /\ hurt' = hurt
          /\ configmap' = IF configmap.exists THEN configmap
                          ELSE RoutingConfigMap(handler.uid, handler.seen)
      BY <2>4 DEF CreateConfigMap, At
    <3>2. ~configmap.exists => /\ configmap'.exists /\ configmap'.owner = meshCR.uid
                               /\ configmap'.version = handler.seen
      BY <2>3, <3>1, RoutingConfigMapIs
    <3>3. /\ Past("mesh", "create", 1)' /\ ~Past("mesh", "create", 1)
          /\ ~Past("mesh", "update", 1)' /\ ~Past("mesh", "delete", 1)'
      BY <2>1, <2>2, <3>1 DEF Past
    <3>4. MeshPresent => MeshPresent'
      BY <2>1, <2>2, <2>3, <3>1, <3>2, <3>3 DEF MeshPresent
    <3>5. QED BY <2>1, <2>3, <3>1, <3>3, <3>4 DEF MeshKept
  <2>5. CASE ReplaceConfigMap
    <3>1. /\ handler.event = "update" /\ handler.call = 1 /\ hurt' = hurt
          /\ configmap' = RoutingConfigMap(0, handler.seen)
      BY <2>5 DEF ReplaceConfigMap, Replaced, At
    <3>2. configmap'.exists /\ configmap'.owner = 0 /\ configmap'.version = handler.seen
      BY <2>3, <3>1, RoutingConfigMapIs
    <3>3. /\ Past("mesh", "update", 1)' /\ ~Past("mesh", "create", 1)'
          /\ ~Past("mesh", "delete", 1)'
      BY <2>1, <2>2, <3>1 DEF Past
    <3>4. MeshPresent'
      BY <2>1, <2>2, <2>3, <3>1, <3>2, <3>3 DEF MeshPresent
    <3>5. QED BY <2>1, <2>3, <3>1, <3>3, <3>4 DEF MeshKept
  <2>6. ASSUME NEW f \in BOOLEAN, DeleteConfigMap(f) PROVE MeshKept'
    <3>1. /\ handler.event = "delete" /\ handler.call = 1
          /\ hurt' = [hurt EXCEPT !["mesh"] = IF f THEN "left" ELSE "no"]
          /\ configmap' = IF f THEN configmap ELSE NoConfigMap
      BY <2>6 DEF DeleteConfigMap, At
    <3>2. hurt'["mesh"] = "left" \/ (hurt'["mesh"] = "no" /\ ~configmap'.exists)
      BY <1>0, <3>1, MissingIs
    <3>3. QED BY <2>1, <2>3, <3>1, <3>2 DEF MeshKept
  <2>7. ASSUME NEW f \in BOOLEAN, Wire(f) PROVE MeshKept'
    <3>1. /\ handler.event \in {"create", "update"} /\ handler.call = 2 /\ hurt' = hurt
          /\ configmap' = configmap
      BY <2>7 DEF Wire, At
    <3>2. /\ \A e : Past("mesh", e, 1)' <=> Past("mesh", e, 1)
      BY <2>1, <2>2, <3>1 DEF Past
    <3>3. MeshPresent => MeshPresent'
      BY <2>1, <2>2, <3>1, <3>2 DEF MeshPresent
    <3>4. QED BY <2>1, <3>1, <3>2, <3>3 DEF MeshKept
  <2>8. QED BY <1>6, <2>4, <2>5, <2>6, <2>7
<1>7. CASE Finish
  <2>1. /\ configmap' = configmap /\ handler' = NoHandler
        /\ meshCR' = After(meshCR, "mesh") /\ handler.call > LastCall
        /\ hurt' = IF handler.event = "update" /\ (handler.kind = "mesh" \/ hurt["agent"] = "stale")
                     THEN [hurt EXCEPT ![handler.kind] = "no"] ELSE hurt
    BY <1>7 DEF Finish
  <2>2. \A e, n : ~Past("mesh", e, n)'
    BY <2>1, NoHandlerIs DEF Past
  <2>3. PICK c : c = After(meshCR, "mesh")
    OBVIOUS
  <2>4. CASE handler.kind # "mesh"
    <3>1. hurt'["mesh"] = hurt["mesh"] /\ c = meshCR
      BY <1>0, <2>1, <2>3, <2>4 DEF HandlersOK, After
    <3>2. QED BY <1>0, <2>1, <2>3, <2>4, <3>1, NoHandlerIs, MeshUnaffected
  <2>5. CASE handler.kind = "mesh" /\ handler.event = "delete"
    <3>1. hurt' = hurt /\ Past("mesh", "delete", 1)
      BY <1>0, <2>1, <2>5 DEF Past, LastCall
    <3>2. c.state = "absent"
      BY <2>3, <2>5 DEF After, NoCR
    <3>3. QED BY <2>1, <2>2, <2>3, <3>1, <3>2 DEF MeshKept
  <2>6. CASE handler.kind = "mesh" /\ handler.event \in {"create", "update"}
    <3>1. /\ c.state = meshCR.state /\ c.uid = meshCR.uid /\ c.created /\ c.handled = handler.seen
          /\ meshCR.state # "absent"
      BY <1>0, <2>3, <2>6 DEF After, CROK, HandlerOK
    <3>2. CASE handler.event = "create"
      <4>1. hurt' = hurt /\ Past("mesh", "create", 1)
        BY <1>0, <2>1, <2>6, <3>2 DEF Past, LastCall
      <4>2. MeshPresent => MeshPresent'
        BY <2>1, <2>2, <2>3, <3>1, <4>1 DEF MeshPresent
      <4>3. QED BY <2>1, <2>2, <2>3, <3>1, <4>1, <4>2 DEF MeshKept
    <3>3. CASE handler.event = "update"
      <4>1. Past("mesh", "update", 1)
        BY <1>0, <2>1, <2>6, <3>3 DEF Past, LastCall
      <4>2. MeshPresent => MeshPresent'
        BY <2>1, <2>2, <2>3, <3>1, <4>1 DEF MeshPresent
      <4>3. QED BY <2>1, <2>2, <2>3, <3>1, <4>2 DEF MeshKept
    <3>4. QED BY <2>6, <3>2, <3>3
  <2>7. handler.kind = "mesh" => handler.event \in {"create", "update", "delete"}
    BY <1>0 DEF HandlerOK
  <2>8. QED BY <2>4, <2>5, <2>6, <2>7
<1>8. CASE Abort
  <2>1. /\ UNCHANGED <<meshCR, configmap>> /\ handler' = NoHandler
        /\ hurt' = IF /\ handler.event \in {"create", "update"} /\ handler.call > 1
                      /\ hurt[handler.kind] = "no"
                     THEN [hurt EXCEPT ![handler.kind] = "stale"] ELSE hurt
    BY <1>8 DEF Abort
  <2>2. \A e, n : ~Past("mesh", e, n)'
    BY <2>1, NoHandlerIs DEF Past
  <2>3. CASE handler.kind = "mesh" /\ handler.event \in {"create", "update"} /\ handler.call > 1
    <3>1. hurt'["mesh"] # "no" /\ meshCR.state # "absent"
      BY <1>0, <2>1, <2>3 DEF HandlerOK
    <3>2. MeshPresent'
      BY <2>2, <3>1 DEF MeshPresent
    <3>3. QED BY <2>1, <2>2, <3>1, <3>2 DEF MeshKept
  <2>4. CASE ~(handler.kind = "mesh" /\ handler.event \in {"create", "update"} /\ handler.call > 1)
    <3>1. hurt'["mesh"] = hurt["mesh"]
      BY <1>0, <2>1, <2>4 DEF HandlersOK
    <3>2. ~Past("mesh", "create", 1) /\ ~Past("mesh", "update", 1)
      BY <2>4 DEF Past
    <3>3. MeshPresent => MeshPresent'
      BY <2>1, <2>2, <3>1, <3>2 DEF MeshPresent
    <3>4. QED BY <2>1, <2>2, <3>1, <3>3 DEF MeshKept
  <2>5. QED BY <2>3, <2>4
<1>9. QED BY <1>1, <1>2, <1>3, <1>4, <1>5, <1>6, <1>7, <1>8 DEF OperatorNext, Calls, FailingCalls

\* The operator's objects and its handler stay in their types.
THEOREM OperatorTypeCorrect == OperatorSpec => []OperatorTypeOK
<1>1. OperatorInit => OperatorTypeOK
  <2> SUFFICES ASSUME OperatorInit PROVE OperatorTypeOK
    OBVIOUS
  <2>1. CROK(agentCR, ReplicaCounts) /\ CROK(meshCR, Versions)
    BY DEF OperatorInit, CROK, NoCR
  <2>2. HandlersOK /\ ResourcesOK
    BY NoHandlerIs, MissingIs DEF OperatorInit, HandlersOK, HandlerOK, ResourcesOK
  <2>3. QED BY <2>1, <2>2 DEF OperatorInit, OperatorTypeOK
<1>2. QED BY <1>1, OperatorTypeStep, PTL DEF OperatorSpec

\* For any number of creations, edits and faults: whenever the operator owes an object
\* nothing more, the cluster is what the object's spec says.
THEOREM ClusterCorrect == OperatorSpec => []ClusterSettles
<1>1. OperatorInit => AgentKept /\ MeshKept
  <2> SUFFICES ASSUME OperatorInit PROVE AgentKept /\ MeshKept
    OBVIOUS
  <2>1. agentCR.state = "absent" /\ meshCR.state = "absent"
        /\ hurt["agent"] = "no" /\ hurt["mesh"] = "no"
    BY DEF OperatorInit, NoCR
  <2>2. ~deployment.exists /\ ~service.exists /\ ~configmap.exists /\ handler.kind = "none"
    BY MissingIs, NoHandlerIs DEF OperatorInit
  <2>3. QED BY <2>1, <2>2 DEF AgentKept, MeshKept, Past
<1>2. OperatorTypeOK /\ AgentKept /\ MeshKept => ClusterSettles
  <2> SUFFICES ASSUME OperatorTypeOK, AgentKept, MeshKept PROVE ClusterSettles
    OBVIOUS
  <2>1. CROK(agentCR, ReplicaCounts) /\ CROK(meshCR, Versions) /\ ResourcesOK
    BY DEF OperatorTypeOK
  <2>2. Owed(agentCR, "agent") = NoHandler =>
          \/ agentCR.state = "absent"
          \/ agentCR.state = "present" /\ agentCR.handled = agentCR.spec /\ agentCR.created
    BY <2>1 DEF Owed, CROK, NoHandler
  <2>3. Owed(meshCR, "mesh") = NoHandler =>
          \/ meshCR.state = "absent"
          \/ meshCR.state = "present" /\ meshCR.handled = meshCR.spec /\ meshCR.created
    BY <2>1 DEF Owed, CROK, NoHandler
  <2>4. ASSUME Settled(agentCR, "agent"), hurt["agent"] = "no"
        PROVE  IF agentCR.state = "present"
                 THEN /\ deployment.exists /\ deployment.owner = agentCR.uid
                      /\ service.exists /\ service.owner = agentCR.uid
                      /\ deployment.replicas = IF suspended THEN 0 ELSE agentCR.spec
                 ELSE ~deployment.exists /\ ~service.exists
    BY <2>2, <2>4 DEF Settled, AgentKept, AgentPresent, Past
  <2>5. ASSUME Settled(meshCR, "mesh"), hurt["mesh"] = "no"
        PROVE  IF meshCR.state = "present"
                 THEN configmap.exists /\ configmap.version = meshCR.spec
                 ELSE ~configmap.exists
    <3>1. ~Past("mesh", "update", 1)
      BY <2>5 DEF Settled, Past, OperatorTypeOK, HandlersOK, HandlerOK
    <3>2. QED BY <2>3, <2>5, <3>1 DEF Settled, MeshKept, MeshPresent
  <2>6. ASSUME agentCR.state = "absent"
        PROVE  /\ deployment.exists => Collectable(deployment, agentCR)
               /\ service.exists => Collectable(service, agentCR)
    BY <2>1, <2>6 DEF ResourcesOK, Collectable
  <2>7. QED BY <2>4, <2>5, <2>6 DEF ClusterSettles
<1>3. QED BY <1>1, <1>2, AgentStep, MeshCRStep, OperatorTypeCorrect, PTL DEF OperatorSpec

-----------------------------------------------------------------------------
(***************************************************************************)
(* Voting, for every set of voters and options, every confidence and ratio *)
(* that the constructors accept and any number of votes.                   *)
(***************************************************************************)

\* What a vote is, and the type invariant.
VoteRecords == [agent: Voters, option: Options, confidence: Confidences]

VotesTyped == protocol \in Protocols /\ votes \in Seq(VoteRecords)

\* A tally as resolve() builds it: finitely many options, ordered by their names.
IsTally(tally) ==
  /\ IsFiniteSet(DOMAIN tally)
  /\ DOMAIN tally \subseteq Nat
  /\ DOMAIN tally # {}
  /\ \A o \in DOMAIN tally : tally[o] \in Nat

\* The winner leads, and has the least name of those who do.
LEMMA WinnerLeads ==
  ASSUME NEW tally, IsTally(tally)
  PROVE  /\ Winner(tally) \in DOMAIN tally
         /\ \A o \in DOMAIN tally : tally[o] <= tally[Winner(tally)]
         /\ \A o \in DOMAIN tally : tally[o] = tally[Winner(tally)] => Winner(tally) <= o
<1> DEFINE Values == {tally[o] : o \in DOMAIN tally}
           Top == {o \in DOMAIN tally : \A other \in DOMAIN tally : tally[other] <= tally[o]}
<1>1. IsFiniteSet(Values)
  BY ImageFinite DEF IsTally
<1>2. Values \subseteq Int /\ Values # {}
  BY DEF IsTally
<1>3. Max(Values) \in Values /\ \A v \in Values : v <= Max(Values)
  <2> HIDE DEF Values
  <2> QED BY <1>1, <1>2, MaxIsLargest
<1>4. Top # {} /\ Top \subseteq Nat
  BY <1>3 DEF IsTally
<1>5. PICK w \in Top : \A o \in Top : w <= o
  <2> HIDE DEF Top
  <2> QED BY <1>4, LeastNumber
<1>6. Winner(tally) \in Top /\ \A o \in Top : Winner(tally) <= o
  <2>1. Winner(tally) = CHOOSE x \in Top : \A y \in Top : x <= y
    BY DEF Winner, Min
  <2> HIDE DEF Top
  <2>2. QED BY <1>5, <2>1
<1>7. \A o \in DOMAIN tally : tally[o] = tally[Winner(tally)] => o \in Top
  BY <1>6
<1>8. QED BY <1>6, <1>7

\* There is only one such option.
LEMMA WinnerUnique ==
  ASSUME NEW tally, IsTally(tally), NEW w \in DOMAIN tally,
         \A o \in DOMAIN tally : tally[o] <= tally[w],
         \A o \in DOMAIN tally : tally[o] = tally[w] => w <= o
  PROVE  Winner(tally) = w
<1>1. /\ Winner(tally) \in DOMAIN tally
      /\ \A o \in DOMAIN tally : tally[o] <= tally[Winner(tally)]
      /\ \A o \in DOMAIN tally : tally[o] = tally[Winner(tally)] => Winner(tally) <= o
  BY WinnerLeads
<1>2. tally[w] = tally[Winner(tally)]
  BY <1>1 DEF IsTally
<1>3. w \in Nat /\ Winner(tally) \in Nat
  BY <1>1 DEF IsTally
<1>4. QED BY <1>1, <1>2, <1>3

\* The places of the votes, and how many votes two options can have together.
LEMMA VotesFor ==
  ASSUME NEW list \in Seq(VoteRecords)
  PROVE  /\ Len(list) \in Nat /\ DOMAIN list = 1..Len(list)
         /\ \A i \in DOMAIN list : list[i].option \in Nat /\ list[i].option \in Options
                                   /\ list[i].confidence \in Nat
         /\ \A o : /\ IsFiniteSet(For(list, o))
                   /\ For(list, o) \subseteq DOMAIN list
                   /\ Count(list, o) \in 0..Len(list)
                   /\ o \in Voted(list) <=> Count(list, o) # 0
         /\ \A o, p : o # p => Count(list, o) + Count(list, p) <= Len(list)
<1>1. Len(list) \in Nat /\ DOMAIN list = 1..Len(list)
  OBVIOUS
<1>2. \A i \in DOMAIN list : list[i] \in VoteRecords
  BY <1>1
<1>3. \A i \in DOMAIN list : /\ list[i].option \in Nat /\ list[i].option \in Options
                             /\ list[i].confidence \in Nat
  <2>1. Options \subseteq Nat /\ Sure \in Nat /\ Confidences \subseteq 0..Sure
    BY VotingAssumption, Zenon
  <2>2. Options \subseteq Nat /\ Confidences \subseteq Nat
    BY <2>1
  <2>3. QED BY <1>2, <2>2, Zenon DEF VoteRecords
<1>4. IsFiniteSet(1..Len(list)) /\ Cardinality(1..Len(list)) = Len(list)
  BY <1>1, FS_Interval
<1>5. \A o : For(list, o) \subseteq 1..Len(list)
  BY <1>1 DEF For
<1>6. \A o : IsFiniteSet(For(list, o)) /\ Count(list, o) \in 0..Len(list)
  <2> TAKE o
  <2>1. IsFiniteSet(For(list, o)) /\ Cardinality(For(list, o)) <= Len(list)
    BY <1>4, <1>5, FS_Subset
  <2>2. QED BY <1>1, <2>1, FS_CardinalityType DEF Count
<1>7. \A o : o \in Voted(list) <=> For(list, o) # {}
  BY DEF For, Voted
<1>8. \A o : o \in Voted(list) <=> Count(list, o) # 0
  BY <1>6, <1>7, FS_EmptySet DEF Count
<1>9. ASSUME NEW o, NEW p, o # p PROVE Count(list, o) + Count(list, p) <= Len(list)
  <2>1. For(list, o) \cap For(list, p) = {}
    BY <1>9 DEF For
  <2>2. /\ IsFiniteSet(For(list, o) \union For(list, p))
        /\ Cardinality(For(list, o) \union For(list, p)) =
             Cardinality(For(list, o)) + Cardinality(For(list, p))
               - Cardinality(For(list, o) \cap For(list, p))
    BY <1>6, FS_Union
  <2>3. Cardinality(For(list, o) \cap For(list, p)) = 0
    BY <2>1, FS_EmptySet
  <2>4. For(list, o) \union For(list, p) \subseteq 1..Len(list)
    BY <1>5
  <2>5. Cardinality(For(list, o) \union For(list, p)) <= Len(list)
    BY <1>4, <2>4, FS_Subset
  <2>6. QED BY <1>6, <2>2, <2>3, <2>5 DEF Count
<1>10. QED BY <1>1, <1>3, <1>5, <1>6, <1>8, <1>9

\* The confidences of a list of votes.
ConfidencesOf(list) == [i \in DOMAIN list |-> list[i].confidence]

\* The weight of an option covers every vote for it.
LEMMA WeightCovers ==
  ASSUME NEW list \in Seq(VoteRecords), NEW o
  PROVE  /\ Weight(list, o) = SumOver(ConfidencesOf(list), For(list, o))
         /\ Weight(list, o) \in Nat
         /\ \A i \in DOMAIN list : list[i].option = o => list[i].confidence <= Weight(list, o)
         /\ (\A i \in DOMAIN list : list[i].confidence = 0) => Weight(list, o) = 0
<1>1. Weight(list, o) = SumOver(ConfidencesOf(list), For(list, o))
  BY SumIsSumOnSet DEF Weight, ConfidencesOf
<1>2. /\ IsFiniteSet(For(list, o)) /\ For(list, o) \subseteq DOMAIN list
      /\ \A i \in DOMAIN list : ConfidencesOf(list)[i] \in Nat
      /\ \A i \in DOMAIN list : ConfidencesOf(list)[i] = list[i].confidence
  BY VotesFor DEF ConfidencesOf
<1>3. Weight(list, o) \in Nat
  BY <1>1, <1>2, SumNatural
<1>4. ASSUME NEW i \in DOMAIN list, list[i].option = o
      PROVE  list[i].confidence <= Weight(list, o)
  <2>1. i \in For(list, o)
    BY <1>4 DEF For
  <2>2. SumOver(ConfidencesOf(list), For(list, o)) >= ConfidencesOf(list)[i]
    BY <1>2, <2>1, SumAboveEach
  <2>3. QED BY <1>1, <1>2, <1>3, <2>2
<1>5. ASSUME \A i \in DOMAIN list : list[i].confidence = 0 PROVE Weight(list, o) = 0
  BY <1>1, <1>2, <1>5, SumOfZeros
<1>6. QED BY <1>1, <1>3, <1>4, <1>5

\* What resolve() makes of votes is a tally.
LEMMA TalliesAre ==
  ASSUME NEW list \in Seq(VoteRecords), list # <<>>
  PROVE  /\ IsTally(Counts(list)) /\ DOMAIN Counts(list) = Voted(list)
         /\ IsTally(Tally(list)) /\ DOMAIN Tally(list) = Voted(list)
         /\ \A o \in Voted(list) :
              /\ Counts(list)[o] = Count(list, o)
              /\ Tally(list)[o] = IF \A i \in DOMAIN list : list[i].confidence = 0
                                    THEN Count(list, o) ELSE Weight(list, o)
<1> DEFINE opt == [i \in DOMAIN list |-> list[i].option]
<1>1. IsFiniteSet(1..Len(list)) /\ DOMAIN list = 1..Len(list)
  BY VotesFor, FS_Interval
<1>2. Voted(list) = {opt[i] : i \in DOMAIN list}
  BY DEF Voted
<1>3. IsFiniteSet(Voted(list))
  <2> HIDE DEF opt
  <2> QED BY <1>1, <1>2, ImageFinite
<1>4. Voted(list) \subseteq Nat /\ Voted(list) # {}
  <2>1. 1 \in DOMAIN list
    OBVIOUS
  <2>2. QED BY <2>1, VotesFor DEF Voted
<1>5. \A o \in Voted(list) : Count(list, o) \in Nat /\ Weight(list, o) \in Nat
  BY VotesFor, WeightCovers
<1>6. QED BY <1>3, <1>4, <1>5 DEF IsTally, Counts, Tally

\* MajorityVote.resolve() announces a majority exactly if there is one.
LEMMA MajorityJust ==
  ASSUME NEW list \in Seq(VoteRecords), list # <<>>, NEW strict \in BOOLEAN
  PROVE  LET result == MajorityVote(list, strict) IN
         /\ result.winner \in Voted(list)
         /\ strict => result.reached = (\/ \E o \in Options : 2 * Count(list, o) > Len(list)
                                      \/ Len(list) = 1)
<1> DEFINE w == Winner(Counts(list))
<1>1. /\ w \in Voted(list)
      /\ \A o \in Voted(list) : Count(list, o) <= Count(list, w)
  BY TalliesAre, WinnerLeads
<1>2. w \in Options
  BY <1>1, VotesFor DEF Voted
<1> HIDE DEF w
<1>3. ASSUME NEW o \in Options, 2 * Count(list, o) > Len(list)
      PROVE  2 * Count(list, w) > Len(list)
  <2>1. Len(list) \in Nat /\ Count(list, o) \in Nat /\ Count(list, w) \in Nat
    BY VotesFor
  <2>2. Count(list, o) # 0
    BY <1>3, <2>1
  <2>3. o \in Voted(list)
    BY <2>2, VotesFor
  <2>4. QED BY <1>1, <1>3, <2>1, <2>3
<1>4. MajorityVote(list, strict) =
        Outcome(w, ~strict \/ 2 * Count(list, w) > Len(list) \/ Len(list) = 1)
  BY DEF MajorityVote, w, IsMajority
<1>5. QED BY <1>1, <1>2, <1>3, <1>4 DEF Outcome

\* ConfidenceWeighted.resolve(): an agreement of 100% leaves nobody with confidence in
\* anything else, and votes count if none has weight.
LEMMA WeightedJust ==
  ASSUME NEW list \in Seq(VoteRecords), list # <<>>, NEW p \in Nat, NEW q \in Nat \ {0}
  PROVE  LET result == ConfidenceWeighted(list, <<p, q>>) IN
         /\ result.winner \in Voted(list)
         /\ p = q /\ result.reached =>
              \A i \in DOMAIN list : list[i].option = result.winner \/ list[i].confidence = 0
         /\ (\A o \in Voted(list) : Weight(list, o) = 0) =>
              result.winner = Winner(Counts(list))
<1> DEFINE tally == Tally(list)
           w == Winner(tally)
           total == TotalOf(tally)
<1>0. ConfidenceWeighted(list, <<p, q>>) = Outcome(w, tally[w] * q >= p * total)
  BY DEF ConfidenceWeighted
<1>1. IsTally(tally) /\ DOMAIN tally = Voted(list) /\ w \in DOMAIN tally
  BY TalliesAre, WinnerLeads
<1>2. total = SumOver(tally, Voted(list))
  BY <1>1, SumIsSumFunction DEF TotalOf
<1>3. ASSUME p = q, tally[w] * q >= p * total,
             NEW i \in DOMAIN list, list[i].option # w
      PROVE  list[i].confidence = 0
  <2> DEFINE o == list[i].option
  <2>1. o \in Voted(list)
    BY DEF Voted
  <2>2. /\ IsFiniteSet(Voted(list)) /\ \A x \in Voted(list) : tally[x] \in Nat
    BY <1>1 DEF IsTally
  <2> HIDE DEF o, w, tally, total
  <2>3. /\ total \in Nat /\ total >= tally[w] /\ tally[w] \in Nat
        /\ total = tally[w] => \A x \in Voted(list) \ {w} : tally[x] = 0
    BY <1>1, <1>2, <2>2, SumAboveEach
  <2>4. total = tally[w]
    <3>1. \A a, b \in Nat : a * q >= q * b => a >= b
      OBVIOUS
    <3>2. QED BY <1>3, <2>3, <3>1
  <2>5. tally[o] = 0
    BY <1>3, <2>1, <2>3, <2>4 DEF o
  <2>6. CASE \A j \in DOMAIN list : list[j].confidence = 0
    BY <2>6
  <2>7. CASE ~\A j \in DOMAIN list : list[j].confidence = 0
    <3>1. Weight(list, o) = 0
      BY <2>1, <2>5, <2>7, TalliesAre DEF tally
    <3>2. list[i].confidence <= Weight(list, o)
      BY WeightCovers DEF o
    <3>3. list[i].confidence \in Nat
      BY VotesFor
    <3>4. QED BY <3>1, <3>2, <3>3
  <2>8. QED BY <2>6, <2>7
<1>4. ASSUME \A o \in Voted(list) : Weight(list, o) = 0 PROVE w = Winner(Counts(list))
  <2>1. ASSUME NEW i \in DOMAIN list PROVE list[i].confidence = 0
    <3>1. list[i].option \in Voted(list)
      BY DEF Voted
    <3>2. list[i].confidence <= Weight(list, list[i].option)
      BY WeightCovers
    <3>3. list[i].confidence \in Nat
      BY VotesFor
    <3>4. QED BY <1>4, <3>1, <3>2, <3>3
  <2>2. QED BY <2>1 DEF Tally
<1> HIDE DEF w, tally, total
<1>5. /\ ConfidenceWeighted(list, <<p, q>>).winner = w
      /\ ConfidenceWeighted(list, <<p, q>>).reached = (tally[w] * q >= p * total)
  <2>1. \A a, b : Outcome(a, b).winner = a /\ Outcome(a, b).reached = b
    BY DEF Outcome
  <2>2. QED BY <1>0, <2>1, Zenon
<1>6. QED BY <1>1, <1>3, <1>4, <1>5, Zenon

\* The last vote of the authority.
LEMMA DecisiveIsLast ==
  ASSUME NEW list \in Seq(VoteRecords), NEW i \in 1..Len(list), list[i].agent = Authority,
         \A j \in (i + 1)..Len(list) : list[j].agent # Authority
  PROVE  AuthorityVotes(list) # {} /\ Decisive(list) = list[i].option
<1> DEFINE A == AuthorityVotes(list)
<1>0. Len(list) \in Nat /\ DOMAIN list = 1..Len(list)
  OBVIOUS
<1>1. A \subseteq 1..Len(list) /\ i \in A /\ \A j \in A : j <= i
  BY <1>0 DEF AuthorityVotes
<1> HIDE DEF A
<1>2. IsFiniteSet(A) /\ A \subseteq Int /\ A # {}
  <2>1. IsFiniteSet(1..Len(list)) /\ 1..Len(list) \subseteq Int
    BY <1>0, FS_Interval
  <2>2. IsFiniteSet(A)
    BY <1>1, <2>1, FS_Subset, Zenon
  <2>3. QED BY <1>1, <2>1, <2>2, Zenon
<1>3. Max(A) \in A /\ \A j \in A : j <= Max(A)
  BY <1>2, MaxIsLargest
<1>4. Max(A) = i
  <2>1. Max(A) \in Int /\ i \in Int /\ Max(A) <= i /\ i <= Max(A)
    BY <1>1, <1>2, <1>3, Zenon
  <2>2. QED BY <2>1
<1>5. QED BY <1>1, <1>4 DEF Decisive, A

\* Whoever won was voted for, also if the authority decided.
LEMMA HierarchicalJust ==
  ASSUME NEW list \in Seq(VoteRecords), list # <<>>
  PROVE  Hierarchical(list).winner \in Voted(list)
<1>1. CASE AuthorityVotes(list) = {}
  BY <1>1, MajorityJust DEF Hierarchical
<1>2. CASE AuthorityVotes(list) # {}
  <2> DEFINE A == AuthorityVotes(list)
  <2>0. Len(list) \in Nat /\ DOMAIN list = 1..Len(list)
    OBVIOUS
  <2>1. A \subseteq 1..Len(list)
    BY <2>0 DEF AuthorityVotes
  <2>2. IsFiniteSet(A) /\ A \subseteq Int /\ A # {}
    <3>1. IsFiniteSet(1..Len(list)) /\ 1..Len(list) \subseteq Int
      BY <2>0, FS_Interval
    <3>2. A # {}
      BY <1>2
    <3> HIDE DEF A
    <3>3. IsFiniteSet(A)
      BY <2>1, <3>1, FS_Subset, Zenon
    <3>4. QED BY <2>1, <3>1, <3>2, <3>3, Zenon
  <2>3. Max(A) \in A
    <3> HIDE DEF A
    <3> QED BY <2>2, MaxIsLargest
  <2>4. Hierarchical(list).winner = list[Max(A)].option
    BY <1>2 DEF Hierarchical, Outcome, Decisive
  <2>5. QED BY <2>0, <2>1, <2>3, <2>4 DEF Voted
<1>3. QED BY <1>1, <1>2

\* What protocols there are.
LEMMA ProtocolIs ==
  ASSUME VotesTyped
  PROVE  \/ protocol.name = "majority_vote" /\ protocol.require_majority \in BOOLEAN
         \/ /\ protocol.name = "confidence_weighted"
            /\ protocol.min_ratio \in Nat \X (Nat \ {0})
            /\ protocol.min_ratio[1] <= protocol.min_ratio[2]
         \/ protocol.name = "hierarchical"
BY VotingAssumption DEF VotesTyped

\* The outcome is justified by the votes alone.
LEMMA OutcomesJust == VotesTyped => OutcomeJustified
<1> SUFFICES ASSUME VotesTyped, votes # <<>> PROVE OutcomeJustified
  BY DEF OutcomeJustified
<1>1. votes \in Seq(VoteRecords)
  BY DEF VotesTyped
<1>2. CASE protocol.name = "majority_vote"
  <2>1. protocol.require_majority \in BOOLEAN
    BY <1>2, ProtocolIs
  <2>2. Resolve(votes) = MajorityVote(votes, protocol.require_majority)
    BY <1>2 DEF Resolve
  <2>3. QED BY <1>1, <1>2, <2>1, <2>2, MajorityJust DEF OutcomeJustified
<1>3. CASE protocol.name = "confidence_weighted"
  <2>1. PICK p \in Nat, q \in Nat \ {0} : protocol.min_ratio = <<p, q>>
    BY <1>3, ProtocolIs
  <2>2. Resolve(votes) = ConfidenceWeighted(votes, <<p, q>>)
    BY <1>3, <2>1 DEF Resolve
  <2>3. protocol.min_ratio[1] = p /\ protocol.min_ratio[2] = q
    BY <2>1
  <2>4. /\ Resolve(votes).winner \in Voted(votes)
        /\ p = q /\ Resolve(votes).reached =>
             \A i \in DOMAIN votes :
               votes[i].option = Resolve(votes).winner \/ votes[i].confidence = 0
        /\ (\A o \in Voted(votes) : Weight(votes, o) = 0) =>
             Resolve(votes).winner = Winner(Counts(votes))
    BY <1>1, <2>2, WeightedJust
  <2>5. QED BY <1>3, <2>3, <2>4 DEF OutcomeJustified, Range
<1>4. CASE protocol.name = "hierarchical"
  <2>1. Resolve(votes) = Hierarchical(votes)
    BY <1>4 DEF Resolve
  <2>2. \A i \in 1..Len(votes) :
          /\ votes[i].agent = Authority
          /\ \A j \in (i + 1)..Len(votes) : votes[j].agent # Authority
          => Hierarchical(votes) = Outcome(votes[i].option, TRUE)
    BY <1>1, DecisiveIsLast DEF Hierarchical
  <2>3. QED BY <1>1, <1>4, <2>1, <2>2, HierarchicalJust DEF OutcomeJustified
<1>5. QED BY <1>2, <1>3, <1>4, ProtocolIs

\* Votes keep their types.
LEMMA VotesTypedStep == VotesTyped /\ [VotingNext]_votingVars => VotesTyped'
<1>1. ASSUME VotesTyped, NEW a \in Voters, NEW o \in Options, NEW c \in Confidences, Vote(a, o, c)
      PROVE  VotesTyped'
  <2>1. [agent |-> a, option |-> o, confidence |-> c] \in VoteRecords
    BY DEF VoteRecords
  <2>2. votes' = Append(votes, [agent |-> a, option |-> o, confidence |-> c]) /\ protocol' = protocol
    BY <1>1 DEF Vote
  <2>3. QED BY <1>1, <2>1, <2>2 DEF VotesTyped
<1>2. ASSUME VotesTyped, UNCHANGED votingVars PROVE VotesTyped'
  BY <1>2 DEF VotesTyped, votingVars
<1>3. QED BY <1>1, <1>2 DEF VotingNext

\* Every outcome is justified (consensus/protocol.py): an announced majority is
\* one, an agreement of 100% has no dissenter with confidence, votes count when none has
\* weight, and the authority's last vote decides.
THEOREM OutcomesJustified == VotingSpec => []OutcomeJustified
<1>1. VotingInit => VotesTyped
  BY DEF VotingInit, VotesTyped
<1>2. QED BY <1>1, VotesTypedStep, OutcomesJust, PTL DEF VotingSpec

\* One more vote adds to its option, and to nothing else.
LEMMA OneMoreVote ==
  ASSUME NEW list \in Seq(VoteRecords), NEW v \in VoteRecords
  PROVE  LET next == Append(list, v) IN
         /\ next \in Seq(VoteRecords) /\ next # <<>> /\ Len(next) = Len(list) + 1
         /\ v.confidence \in Nat
         /\ \A o : o # v.option => /\ Count(next, o) = Count(list, o)
                                  /\ Weight(next, o) = Weight(list, o)
         /\ Count(next, v.option) = Count(list, v.option) + 1
         /\ Weight(next, v.option) = Weight(list, v.option) + v.confidence
         /\ v.option \in Voted(list) => Voted(next) = Voted(list)
         /\ next[Len(next)] = v /\ \A i \in 1..Len(list) : next[i] = list[i]
         /\ (\A i \in DOMAIN next : next[i].confidence = 0) <=>
              v.confidence = 0 /\ \A i \in DOMAIN list : list[i].confidence = 0
<1> DEFINE n == Len(list) + 1
<1>1. PICK next \in Seq(VoteRecords) : next = Append(list, v)
  <2>1. Append(list, v) \in Seq(VoteRecords)
    OBVIOUS
  <2>2. QED BY <2>1, Zenon
<1>2. /\ n \in Nat /\ Len(next) = n /\ DOMAIN list = 1..Len(list) /\ next[n] = v
      /\ \A i \in DOMAIN list : next[i] = list[i]
      /\ DOMAIN next = DOMAIN list \union {n} /\ n \notin DOMAIN list
  BY <1>1
<1>3. next # <<>>
  BY <1>1
<1> HIDE DEF n
<1>4. \A o : For(next, o) = IF o = v.option THEN For(list, o) \union {n} ELSE For(list, o)
  BY <1>2 DEF For
<1>5. \A o : /\ IsFiniteSet(For(list, o)) /\ n \notin For(list, o)
             /\ Count(list, o) \in Nat /\ For(list, o) \subseteq DOMAIN list
  BY <1>2, VotesFor
<1>6. Count(next, v.option) = Count(list, v.option) + 1
  <2>1. Cardinality(For(list, v.option) \union {n}) = Cardinality(For(list, v.option)) + 1
    BY <1>5, FS_AddElement
  <2>2. QED BY <1>4, <2>1 DEF Count
<1>7. \A o : o # v.option => Count(next, o) = Count(list, o)
  BY <1>4 DEF Count
<1>8. /\ \A i \in DOMAIN list : /\ ConfidencesOf(list)[i] \in Nat
                                 /\ ConfidencesOf(next)[i] = ConfidencesOf(list)[i]
      /\ ConfidencesOf(next)[n] = v.confidence /\ v.confidence \in Nat
  BY <1>2, VotesFor DEF ConfidencesOf
<1>9. ASSUME NEW o, o # v.option PROVE Weight(next, o) = Weight(list, o)
  <2>1. Weight(next, o) = SumOver(ConfidencesOf(next), For(list, o))
    BY <1>4, <1>9, WeightCovers
  <2>2. Weight(list, o) = SumOver(ConfidencesOf(list), For(list, o))
    BY WeightCovers
  <2>3. \A i \in For(list, o) : ConfidencesOf(next)[i] = ConfidencesOf(list)[i]
    BY <1>5, <1>8
  <2>4. QED BY <1>5, <2>1, <2>2, <2>3, SumSame
<1>10. Weight(next, v.option) = Weight(list, v.option) + v.confidence
  <2> DEFINE o == v.option
  <2>1. Weight(next, o) = SumOver(ConfidencesOf(next), For(list, o) \union {n})
    BY <1>4, WeightCovers
  <2>2. Weight(list, o) = SumOver(ConfidencesOf(list), For(list, o))
    BY WeightCovers
  <2>3. /\ \A i \in For(list, o) : ConfidencesOf(list)[i] = ConfidencesOf(next)[i]
        /\ \A i \in For(list, o) : ConfidencesOf(list)[i] \in Int
        /\ ConfidencesOf(next)[n] \in Int
    <3>1. For(list, o) \subseteq DOMAIN list
      BY <1>5
    <3> HIDE DEF o
    <3>2. QED BY <1>8, <3>1
  <2> HIDE DEF o
  <2>4. SumOver(ConfidencesOf(next), For(list, o) \union {n}) =
          SumOver(ConfidencesOf(list), For(list, o)) + ConfidencesOf(next)[n]
    <3>1. IsFiniteSet(For(list, o)) /\ n \notin For(list, o)
      BY <1>5
    <3>2. PICK S, f, g : S = For(list, o) /\ f = ConfidencesOf(list) /\ g = ConfidencesOf(next)
      OBVIOUS
    <3>3. SumOver(g, S \union {n}) = SumOver(f, S) + g[n]
      <4>1. /\ IsFiniteSet(S) /\ n \notin S
            /\ (\A i \in S : f[i] \in Int) /\ (\A i \in S : f[i] = g[i]) /\ g[n] \in Int
        BY <2>3, <3>1, <3>2
      <4>2. QED BY <4>1, SumAdd
    <3>4. QED BY <3>2, <3>3
  <2>5. QED BY <1>8, <2>1, <2>2, <2>4 DEF o
<1>11. v.option \in Voted(list) => Voted(next) = Voted(list)
  BY <1>2 DEF Voted
<1>12. (\A i \in DOMAIN next : next[i].confidence = 0) <=>
         v.confidence = 0 /\ \A i \in DOMAIN list : list[i].confidence = 0
  BY <1>2
<1>13. QED BY <1>1, <1>2, <1>3, <1>6, <1>7, <1>8, <1>9, <1>10, <1>11, <1>12 DEF n

\* The winner of a tally wins the next one as well if only it has gained, and the
\* total grows by as much.
LEMMA WinnerStays ==
  ASSUME NEW t, NEW u, IsTally(t), IsTally(u), DOMAIN t = DOMAIN u,
         NEW gain \in Nat, u[Winner(t)] = t[Winner(t)] + gain,
         \A o \in DOMAIN t \ {Winner(t)} : u[o] = t[o]
  PROVE  /\ Winner(u) = Winner(t)
         /\ TotalOf(u) = TotalOf(t) + gain
         /\ TotalOf(t) \in Nat
<1>1. PICK w : w = Winner(t)
  OBVIOUS
<1>2. /\ w \in DOMAIN t
      /\ \A o \in DOMAIN t : t[o] <= t[w]
      /\ \A o \in DOMAIN t : t[o] = t[w] => w <= o
  BY <1>1, WinnerLeads
<1>3. /\ u[w] = t[w] + gain /\ \A o \in DOMAIN t \ {w} : u[o] = t[o]
      /\ \A o \in DOMAIN t : t[o] \in Nat /\ u[o] \in Nat
      /\ w \in Nat /\ IsFiniteSet(DOMAIN t)
  BY <1>1, <1>2 DEF IsTally
<1>4. \A o \in DOMAIN u : u[o] <= u[w] /\ (u[o] = u[w] => w <= o)
  <2> TAKE o \in DOMAIN u
  <2>1. CASE o = w
    BY <2>1, <1>3
  <2>2. CASE o # w
    <3>1. u[o] = t[o] /\ t[o] <= t[w] /\ t[o] \in Nat /\ t[w] \in Nat /\ u[w] = t[w] + gain
      BY <1>2, <1>3, <2>2
    <3>2. u[o] = u[w] => t[o] = t[w]
      BY <3>1
    <3>3. QED BY <1>2, <3>1, <3>2
  <2>3. QED BY <2>1, <2>2
<1>5. Winner(u) = w
  BY <1>2, <1>4, WinnerUnique
<1>6. /\ TotalOf(t) = SumOver(t, DOMAIN t) /\ TotalOf(u) = SumOver(u, DOMAIN t)
  BY SumIsSumFunction DEF TotalOf
<1>7. /\ SumOver(t, DOMAIN t) = t[w] + SumOver(t, DOMAIN t \ {w})
      /\ SumOver(u, DOMAIN t) = u[w] + SumOver(u, DOMAIN t \ {w})
  BY <1>2, <1>3, SumSplit
<1>8. IsFiniteSet(DOMAIN t \ {w})
  BY <1>3, FS_RemoveElement
<1>9. SumOver(t, DOMAIN t \ {w}) = SumOver(u, DOMAIN t \ {w})
  BY <1>3, <1>8, SumSame
<1>10. SumOver(t, DOMAIN t \ {w}) \in Nat /\ SumOver(t, DOMAIN t) \in Nat
  BY <1>3, <1>8, SumNatural
<1>11. QED BY <1>1, <1>2, <1>3, <1>5, <1>6, <1>7, <1>9, <1>10

\* An option that alone has anything wins it all.
LEMMA WinnerAlone ==
  ASSUME NEW u, IsTally(u), NEW w \in DOMAIN u, u[w] > 0,
         \A o \in DOMAIN u \ {w} : u[o] = 0
  PROVE  Winner(u) = w /\ TotalOf(u) = u[w]
<1>1. IsFiniteSet(DOMAIN u) /\ (\A o \in DOMAIN u : u[o] \in Nat) /\ w \in Nat
  BY DEF IsTally
<1>2. \A o \in DOMAIN u : u[o] <= u[w] /\ (u[o] = u[w] => o = w)
  BY <1>1
<1>3. Winner(u) = w
  BY <1>1, <1>2, WinnerUnique
<1>4. IsFiniteSet(DOMAIN u \ {w})
  BY <1>1, FS_RemoveElement
<1>5. SumOver(u, DOMAIN u \ {w}) = 0
  BY <1>4, SumOfZeros
<1>6. SumOver(u, DOMAIN u) = u[w] + SumOver(u, DOMAIN u \ {w})
  BY <1>1, SumSplit
<1>7. QED BY <1>1, <1>3, <1>5, <1>6, SumIsSumFunction DEF TotalOf

\* Support keeps a ratio that is at most one.
LEMMA RatioKept ==
  ASSUME NEW p \in Nat, NEW q \in Nat, p <= q, NEW a \in Nat, NEW b \in Nat, NEW gain \in Nat,
         a * q >= p * b
  PROVE  (a + gain) * q >= p * (b + gain)
<1>1. gain * q >= p * gain
  OBVIOUS
<1>2. (a + gain) * q = a * q + gain * q /\ p * (b + gain) = p * b + p * gain
  OBVIOUS
<1>3. a * q \in Nat /\ p * b \in Nat /\ gain * q \in Nat /\ p * gain \in Nat
  OBVIOUS
<1>4. QED BY <1>1, <1>2, <1>3

\* One more vote for the winner of MajorityVote.
LEMMA MajoritySupport ==
  ASSUME NEW list \in Seq(VoteRecords), list # <<>>, NEW v \in VoteRecords, NEW strict \in BOOLEAN,
         v.option = MajorityVote(list, strict).winner
  PROVE  LET after == MajorityVote(Append(list, v), strict) IN
         /\ after.winner = v.option
         /\ MajorityVote(list, strict).reached /\ Len(list) > 1 => after.reached
<1>1. PICK next \in Seq(VoteRecords) :
        /\ next = Append(list, v) /\ next # <<>> /\ Len(next) = Len(list) + 1
        /\ \A o : o # v.option => Count(next, o) = Count(list, o)
        /\ Count(next, v.option) = Count(list, v.option) + 1
        /\ v.option \in Voted(list) => Voted(next) = Voted(list)
  BY OneMoreVote
<1>2. \A a, b : Outcome(a, b).winner = a /\ Outcome(a, b).reached = b
  BY DEF Outcome
<1>3. v.option = Winner(Counts(list))
  BY <1>2 DEF MajorityVote
<1>4. /\ IsTally(Counts(list)) /\ DOMAIN Counts(list) = Voted(list)
      /\ \A o \in Voted(list) : Counts(list)[o] = Count(list, o)
  BY TalliesAre
<1>5. v.option \in Voted(list)
  BY <1>3, <1>4, WinnerLeads
<1>6. /\ IsTally(Counts(next)) /\ DOMAIN Counts(next) = Voted(list)
      /\ \A o \in Voted(list) : Counts(next)[o] = Count(next, o)
  BY <1>1, <1>5, TalliesAre
<1>7. /\ Counts(next)[Winner(Counts(list))] = Counts(list)[Winner(Counts(list))] + 1
      /\ \A o \in DOMAIN Counts(list) \ {Winner(Counts(list))} : Counts(next)[o] = Counts(list)[o]
  BY <1>1, <1>3, <1>4, <1>5, <1>6
<1>8. Winner(Counts(next)) = v.option
  BY <1>3, <1>4, <1>6, <1>7, WinnerStays
<1>9. /\ MajorityVote(list, strict) =
           Outcome(v.option, ~strict \/ 2 * Count(list, v.option) > Len(list) \/ Len(list) = 1)
      /\ MajorityVote(next, strict) =
           Outcome(v.option, ~strict \/ 2 * Count(next, v.option) > Len(next) \/ Len(next) = 1)
  BY <1>3, <1>8 DEF MajorityVote, IsMajority
<1>10. Len(list) \in Nat /\ Count(list, v.option) \in Nat
  BY VotesFor
<1>11. 2 * Count(list, v.option) > Len(list) => 2 * Count(next, v.option) > Len(next)
  BY <1>1, <1>10
<1>12. Len(list) > 1 => Len(list) # 1
  <2>1. \A k \in Nat : k > 1 => k # 1
    OBVIOUS
  <2>2. QED BY <1>10, <2>1, Zenon
<1>13. /\ MajorityVote(list, strict).reached =
            (~strict \/ 2 * Count(list, v.option) > Len(list) \/ Len(list) = 1)
       /\ MajorityVote(next, strict).reached =
            (~strict \/ 2 * Count(next, v.option) > Len(next) \/ Len(next) = 1)
       /\ MajorityVote(next, strict).winner = v.option
  BY <1>9 DEF Outcome
<1>14. MajorityVote(list, strict).reached /\ Len(list) > 1 => MajorityVote(next, strict).reached
  BY <1>11, <1>12, <1>13, Zenon
<1>15. QED BY <1>1, <1>13, <1>14, Zenon

\* One more vote for the winner of ConfidenceWeighted, also if it is the first vote with
\* any confidence and weights replace the counts.
LEMMA WeightedSupport ==
  ASSUME NEW list \in Seq(VoteRecords), list # <<>>, NEW v \in VoteRecords,
         NEW p \in Nat, NEW q \in Nat \ {0}, p <= q,
         v.option = ConfidenceWeighted(list, <<p, q>>).winner
  PROVE  LET after == ConfidenceWeighted(Append(list, v), <<p, q>>) IN
         /\ after.winner = v.option
         /\ ConfidenceWeighted(list, <<p, q>>).reached => after.reached
<1>1. PICK next \in Seq(VoteRecords) :
        /\ next = Append(list, v) /\ next # <<>> /\ v.confidence \in Nat
        /\ \A o : o # v.option => /\ Count(next, o) = Count(list, o)
                                 /\ Weight(next, o) = Weight(list, o)
        /\ Count(next, v.option) = Count(list, v.option) + 1
        /\ Weight(next, v.option) = Weight(list, v.option) + v.confidence
        /\ v.option \in Voted(list) => Voted(next) = Voted(list)
        /\ (\A i \in DOMAIN next : next[i].confidence = 0) <=>
             v.confidence = 0 /\ \A i \in DOMAIN list : list[i].confidence = 0
  BY OneMoreVote
<1>2. \A a, b : Outcome(a, b).winner = a /\ Outcome(a, b).reached = b
  BY DEF Outcome
<1>3. PICK w, t, u : w = v.option /\ t = Tally(list) /\ u = Tally(next)
  OBVIOUS
<1>4. w = Winner(t)
  BY <1>2, <1>3 DEF ConfidenceWeighted
<1>5. /\ IsTally(t) /\ DOMAIN t = Voted(list)
      /\ \A o \in Voted(list) :
           t[o] = IF \A i \in DOMAIN list : list[i].confidence = 0
                    THEN Count(list, o) ELSE Weight(list, o)
  BY <1>3, TalliesAre
<1>6. w \in Voted(list)
  BY <1>4, <1>5, WinnerLeads
<1>7. /\ IsTally(u) /\ DOMAIN u = Voted(list)
      /\ \A o \in Voted(list) :
           u[o] = IF \A i \in DOMAIN next : next[i].confidence = 0
                    THEN Count(next, o) ELSE Weight(next, o)
  BY <1>1, <1>3, <1>6, TalliesAre
<1>8. t[w] \in Nat /\ u[w] \in Nat
  BY <1>5, <1>6, <1>7 DEF IsTally
<1>9. Winner(u) = w /\ (t[w] * q >= p * TotalOf(t) => u[w] * q >= p * TotalOf(u))
  <2>1. ASSUME NEW gain \in Nat, u[w] = t[w] + gain, \A o \in Voted(list) \ {w} : u[o] = t[o]
        PROVE  /\ Winner(u) = w
               /\ t[w] * q >= p * TotalOf(t) => u[w] * q >= p * TotalOf(u)
    <3>1. Winner(u) = w /\ TotalOf(u) = TotalOf(t) + gain /\ TotalOf(t) \in Nat
      BY <1>4, <1>5, <1>7, <2>1, WinnerStays
    <3>2. QED BY <1>8, <2>1, <3>1, RatioKept
  <2>2. CASE \A i \in DOMAIN next : next[i].confidence = 0
    <3>1. \A i \in DOMAIN list : list[i].confidence = 0
      BY <1>1, <2>2, Zenon
    <3>2. \A o \in Voted(list) : u[o] = Count(next, o) /\ t[o] = Count(list, o)
      BY <1>5, <1>7, <2>2, <3>1, Zenon
    <3>3. Count(next, w) = Count(list, w) + 1 /\ \A o : o # w => Count(next, o) = Count(list, o)
      BY <1>1, <1>3, Zenon
    <3>4. u[w] = t[w] + 1 /\ \A o \in Voted(list) \ {w} : u[o] = t[o]
      BY <1>6, <3>2, <3>3
    <3>5. QED BY <2>1, <3>4
  <2>3. CASE ~\A i \in DOMAIN list : list[i].confidence = 0
    <3>1. ~\A i \in DOMAIN next : next[i].confidence = 0
      BY <1>1, <2>3, Zenon
    <3>2. \A o \in Voted(list) : u[o] = Weight(next, o) /\ t[o] = Weight(list, o)
      BY <1>5, <1>7, <2>3, <3>1, Zenon
    <3>3. /\ Weight(next, w) = Weight(list, w) + v.confidence /\ v.confidence \in Nat
          /\ \A o : o # w => Weight(next, o) = Weight(list, o)
      BY <1>1, <1>3, Zenon
    <3>4. u[w] = t[w] + v.confidence /\ \A o \in Voted(list) \ {w} : u[o] = t[o]
      BY <1>6, <3>2, <3>3
    <3>5. QED BY <2>1, <3>3, <3>4
  <2>4. CASE /\ ~\A i \in DOMAIN next : next[i].confidence = 0
             /\ \A i \in DOMAIN list : list[i].confidence = 0
    <3>1. v.confidence > 0
      BY <1>1, <2>4
    <3>2. \A o \in Voted(list) : Weight(list, o) = 0
      BY <2>4, WeightCovers
    <3>3. u[w] > 0 /\ \A o \in Voted(list) \ {w} : u[o] = 0
      <4>1. \A o \in Voted(list) : u[o] = Weight(next, o)
        BY <1>7, <2>4, Zenon
      <4>2. /\ Weight(next, w) = Weight(list, w) + v.confidence /\ v.confidence \in Nat
            /\ \A o : o # w => Weight(next, o) = Weight(list, o)
        BY <1>1, <1>3, Zenon
      <4>3. QED BY <1>6, <3>1, <3>2, <4>1, <4>2
    <3>4. Winner(u) = w /\ TotalOf(u) = u[w]
      BY <1>6, <1>7, <3>3, WinnerAlone
    <3>5. \A a \in Nat : a * q >= p * a
      OBVIOUS
    <3>6. QED BY <1>8, <3>4, <3>5
  <2>5. QED BY <2>2, <2>3, <2>4
<1>10. /\ ConfidenceWeighted(list, <<p, q>>) = Outcome(w, t[w] * q >= p * TotalOf(t))
       /\ ConfidenceWeighted(next, <<p, q>>) = Outcome(w, u[w] * q >= p * TotalOf(u))
  <2>1. ASSUME NEW l, NEW y, NEW z, y = Tally(l), z = Winner(y)
        PROVE  ConfidenceWeighted(l, <<p, q>>) = Outcome(z, y[z] * q >= p * TotalOf(y))
    BY <2>1 DEF ConfidenceWeighted
  <2>2. QED BY <1>3, <1>4, <1>9, <2>1
<1>11. /\ ConfidenceWeighted(list, <<p, q>>).reached = (t[w] * q >= p * TotalOf(t))
       /\ ConfidenceWeighted(next, <<p, q>>).reached = (u[w] * q >= p * TotalOf(u))
       /\ ConfidenceWeighted(next, <<p, q>>).winner = w
  BY <1>10 DEF Outcome
<1>12. ConfidenceWeighted(list, <<p, q>>).reached => ConfidenceWeighted(next, <<p, q>>).reached
  BY <1>9, <1>11, Zenon
<1>13. QED BY <1>1, <1>3, <1>11, <1>12, Zenon

\* One more vote for the winner of Hierarchical, of the authority or of somebody else.
LEMMA HierarchicalSupport ==
  ASSUME NEW list \in Seq(VoteRecords), list # <<>>, NEW v \in VoteRecords,
         v.option = Hierarchical(list).winner
  PROVE  LET after == Hierarchical(Append(list, v)) IN
         after.winner = v.option /\ after.reached
<1>1. PICK next \in Seq(VoteRecords) :
        /\ next = Append(list, v) /\ Len(next) = Len(list) + 1
        /\ next[Len(next)] = v /\ \A i \in 1..Len(list) : next[i] = list[i]
  BY OneMoreVote
<1>2. \A a, b : Outcome(a, b).winner = a /\ Outcome(a, b).reached = b
  BY DEF Outcome
<1>3. /\ Len(list) \in Nat /\ DOMAIN list = 1..Len(list) /\ DOMAIN next = 1..Len(next)
      /\ DOMAIN next = DOMAIN list \union {Len(next)}
  <2>1. Len(list) \in Nat /\ DOMAIN list = 1..Len(list) /\ DOMAIN next = 1..Len(next)
    BY VotesFor
  <2>2. QED BY <1>1, <2>1
<1>4. CASE v.agent = Authority
  <2>1. Len(next) \in 1..Len(next) /\ (Len(next) + 1)..Len(next) = {}
    BY <1>1, <1>3
  <2>2. AuthorityVotes(next) # {} /\ Decisive(next) = v.option
    BY <1>1, <1>4, <2>1, DecisiveIsLast
  <2>3. QED BY <1>1, <1>2, <2>2 DEF Hierarchical
<1>5. CASE v.agent # Authority
  <2>1. AuthorityVotes(next) = AuthorityVotes(list)
    BY <1>1, <1>3, <1>5 DEF AuthorityVotes
  <2>2. CASE AuthorityVotes(list) = {}
    <3>1. Hierarchical(list) = MajorityVote(list, FALSE)
      BY <2>2 DEF Hierarchical
    <3>2. Hierarchical(next) = MajorityVote(next, FALSE)
      BY <2>1, <2>2 DEF Hierarchical
    <3>3. MajorityVote(next, FALSE).winner = v.option
      <4>1. v.option = MajorityVote(list, FALSE).winner
        BY <3>1
      <4>2. QED BY <1>1, <4>1, MajoritySupport
    <3>4. MajorityVote(next, FALSE).reached
      BY <1>2 DEF MajorityVote
    <3>5. QED BY <1>1, <3>2, <3>3, <3>4
  <2>3. CASE AuthorityVotes(list) # {}
    <3>1. PICK A : A = AuthorityVotes(list)
      OBVIOUS
    <3>2. A \subseteq 1..Len(list) /\ A # {}
      BY <1>3, <2>3, <3>1 DEF AuthorityVotes
    <3>3. IsFiniteSet(1..Len(list)) /\ 1..Len(list) \subseteq Int
      BY <1>3, FS_Interval
    <3>4. IsFiniteSet(A) /\ A \subseteq Int
      BY <3>2, <3>3, FS_Subset, Zenon
    <3>5. Max(A) \in A
      BY <3>2, <3>4, MaxIsLargest
    <3>6. next[Max(A)].option = list[Max(A)].option
      BY <1>1, <3>2, <3>5
    <3>7. Decisive(next) = Decisive(list)
      BY <2>1, <3>1, <3>6 DEF Decisive
    <3>8. Hierarchical(list) = Outcome(Decisive(list), TRUE)
      BY <2>3 DEF Hierarchical
    <3>9. Hierarchical(next) = Outcome(Decisive(list), TRUE)
      BY <2>1, <2>3, <3>7 DEF Hierarchical
    <3>10. QED BY <1>1, <1>2, <3>8, <3>9
  <2>4. QED BY <2>2, <2>3
<1>6. QED BY <1>4, <1>5

\* One more vote for the winner never makes it lose or takes its consensus away
\* (consensus/protocol.py, resolve() of all three protocols).
THEOREM SupportIsMonotone == VotingSpec => SupportNeverHurts
<1> DEFINE Kept == LET before == Resolve(votes)
                       after == Resolve(votes')
                   IN  votes # <<>> /\ Last(votes').option = before.winner =>
                         /\ after.winner = before.winner
                         /\ before.reached /\ Len(votes) > 1 => after.reached
<1>1. ASSUME VotesTyped, NEW a \in Voters, NEW o \in Options, NEW c \in Confidences, Vote(a, o, c),
             votes # <<>>, Last(votes').option = Resolve(votes).winner
      PROVE  /\ Resolve(votes').winner = Resolve(votes).winner
             /\ Resolve(votes).reached /\ Len(votes) > 1 => Resolve(votes').reached
  <2>1. PICK v \in VoteRecords : votes' = Append(votes, v)
    BY <1>1 DEF Vote, VoteRecords
  <2>2. votes \in Seq(VoteRecords)
    BY <1>1 DEF VotesTyped
  <2>3. v.option = Resolve(votes).winner
    BY <1>1, <2>1, <2>2 DEF Last
  <2>4. CASE protocol.name = "majority_vote"
    <3>1. protocol.require_majority \in BOOLEAN
      BY <1>1, <2>4, ProtocolIs
    <3>2. /\ Resolve(votes) = MajorityVote(votes, protocol.require_majority)
          /\ Resolve(votes') = MajorityVote(votes', protocol.require_majority)
      BY <2>4 DEF Resolve
    <3>3. QED BY <1>1, <2>1, <2>2, <2>3, <3>1, <3>2, MajoritySupport
  <2>5. CASE protocol.name = "confidence_weighted"
    <3>1. PICK p \in Nat, q \in Nat \ {0} : protocol.min_ratio = <<p, q>> /\ p <= q
      BY <1>1, <2>5, ProtocolIs
    <3>2. /\ Resolve(votes) = ConfidenceWeighted(votes, <<p, q>>)
          /\ Resolve(votes') = ConfidenceWeighted(votes', <<p, q>>)
      BY <2>5, <3>1 DEF Resolve
    <3>3. QED BY <1>1, <2>1, <2>2, <2>3, <3>1, <3>2, WeightedSupport
  <2>6. CASE protocol.name = "hierarchical"
    <3>1. Resolve(votes) = Hierarchical(votes) /\ Resolve(votes') = Hierarchical(votes')
      BY <2>6 DEF Resolve
    <3>2. QED BY <1>1, <2>1, <2>2, <2>3, <3>1, HierarchicalSupport
  <2>7. QED BY <1>1, <2>4, <2>5, <2>6, ProtocolIs
<1>2. VotesTyped /\ [VotingNext]_votingVars => [Kept]_votingVars
  BY <1>1 DEF VotingNext
<1>3. VotingInit => VotesTyped
  BY DEF VotingInit, VotesTyped
<1>4. QED BY <1>2, <1>3, VotesTypedStep, PTL DEF VotingSpec, SupportNeverHurts
=============================================================================
