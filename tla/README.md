# A formal model of agent-mesh-router

TLA+ modules for the parts of agent-mesh-router that keep state, TLC configurations
that check them on small instances, and TLAPS proofs of the results that hold for
every configuration. Paths below are relative to `src/src/agent_mesh_router/`, those
that begin with `k8s/` to `src/`; `PROJECT.json` maps every definition to its lines.

## 1. Inventory

| Component | Module | State | Operations | Interacts with | What is hard | What makes it correct |
|---|---|---|---|---|---|---|
| Circuit breaker `resilience/circuit_breaker.py` | CircuitBreaker, BreakerContract | state, three counters, opening time, metrics; one lock | execute, record_success, record_failure, reset, state | the wrapped callables | the lock is released while the callable runs: outcomes arrive in another state than the call was admitted in; HALF_OPEN has no timeout | probe slots balance, the circuit never wedges and recovers, callers see a breaker |
| Task queue `backpressure/task_queue.py` | BackpressureQueue | a `queue.Queue`, counters, pressure flag; one lock | enqueue, dequeue, drain | reports to the monitor | the queue changes outside the lock, the bookkeeping samples it later | no task lost by the counters, flag right once calls are over |
| Monitor `backpressure/monitor.py` | AdaptiveThrottle, BackpressureQueue | an entry per queue | register, deregister, update, score | read by the throttle | entries are read after the lock is released | score within what was reported |
| Throttle `backpressure/throttle.py` | AdaptiveThrottle | token bucket | try_acquire, acquire_async | the monitor's score | the rate changes under waiters | grants within the rate, waiters answered |
| Message broker `broker/message_broker.py` | MessageBroker | handlers, subscriptions, worker tasks | publish, subscribe, dispatch, start, stop | priority and dead-letter queue, handlers | retries, fan-out, cancellation, start against stop | every message ends once, every target is answered, delivery goes on |
| Priority queue `broker/queue.py` | MessageBroker | heap, sequence numbers, unfinished count | put, get, task_done, join | the broker | waiting puts, discarded heads | join() counts right |
| Dead-letter queue `broker/dead_letter.py` | MessageBroker | bounded sequence | push, pop, clear | the broker | eviction | targets find their entries |
| Topic manager `broker/pubsub.py` | TopicManager | two mirrored indexes | subscribe, unsubscribe, publish | handlers | publish reads the registry in several sections | whoever stays subscribed is notified |
| Quotas `quotas/resource_quota.py` | QuotaEnforcer | quota and usage per agent; one lock | register, unregister, check, record, check_and_record, reset | calling threads | check and record are two sections | bounded overshoot, none with the one-step operation |
| Health checker `resilience/health_check.py` | HealthChecker | counts and results per target | check, clear_history | | thresholds in two directions, a short history | status follows the outcomes |
| Load balancer `resilience/load_balancer.py` | LoadBalancer | members, health, weights, connections | select, add, remove, health, connections | health checker's users | selection state outlives the membership | shares follow the weights, counts the connections |
| Retry, recovery tester, HTTP transport `resilience/retry.py`, `resilience/recovery_tester.py`, `adapters/http.py` | Attempts | local variables of a loop | execute, test_recovery, send | callables, servers | a lost answer is not a lost request | the loop ends for a reason |
| Fleet `fleet/registry.py`, `fleet/health.py` | Fleet | nodes, heartbeats, status | register, heartbeat, check, prune | load balancer | status written from a stale read | a live node is not reported dead |
| Deadlock detector `deadlock/detector.py` | DeadlockDetector | wait-for graph and edge records | add, remove, clear, detect | agents | two structures, search on a snapshot | cycles found are real, none missed |
| Workflows `workflows/` | Workflows | results per step | execute | agents | completion order, failure policies, quorum | result is determined by the policy |
| YAML workflows `workflows/yaml_workflow.py` | YamlWorkflow | context, lists of completed steps and errors | parse, execute | handlers | failures inside nested steps | the report is what happened |
| Consensus `consensus/protocol.py` | Voting | none | three votings | workflows | ties, thresholds, zero weights | outcome justified and monotone |
| Routing `routing/` | Routing | agent records, round robin counter | add, update, remove, resolve | the API | records are read after the lock is released | answer justified by the table during the call |
| A2A tasks `a2a/task_lifecycle.py` | TaskLifecycle | tasks with histories | create, transition, cancel, add artifact | adapters | rounds of input, cancellations | the history tells the life of the task |
| Kubernetes operator, resources `k8s/operator/controllers/` | Operator | objects of the cluster | create, update and delete handlers, budget timer | kopf, Kubernetes API, users, garbage collector | several calls per handler, faults between them, handlers run again | the cluster ends up as the spec says |
| Kubernetes operator, mesh status `k8s/operator/controllers/mesh_controller.py` | MeshStatus | a breaker per mesh in memory | status timer, delete handler | agents' status | configuration edited, operator restarted | counts and states of the breaker fit |
| Messages `messages/` | in MessageBroker: TTL, priority | none | envelope, serialiser | everywhere | expiry | expiry |
| Fallback registry, fleet load balancer, A2A data and discovery, other adapters, tracing, plugins, CLI, convenience API, the operator's entry point | not modelled | little or none | | | I/O and formatting | see section 6 |

`PROJECT.json` lists the hazards found, each at its line, with the properties that
would catch it.

## 2. The modules

A component module with optional behaviour declares `CONSTANT Environments` and a
variable `env` chosen once in `Init`: it names optional behaviour of the users of the
component (drain calls, negative amounts, ...). No action changes it. One run thus covers
several settings, and a property that needs a restriction says so in its own text, so
that the theorem about it needs no further hypothesis. Other modules choose a
configuration (a strategy, a policy, thresholds) once in the same way.

Definitions whose comment begins with "Mutant of" are plausible bugs of the definition
that follows them. They are not part of the specification; replacing the definition
by its mutant must break the property that `PROJECT.json` pairs it with.

`MCCoordination`, `MCResilience` and `MCServices` (with the workflows in the first and the quotas
in the last) each put several components that share
nothing side by side: a behaviour is about one of them, chosen in `Init`, and the others
rest in one initial state. The modules' own specifications (`TopicSpec`, `DetectorSpec`,
`TasksSpec`, `MeshSpec`, ...) are what the proofs are about. The proof modules
`CoordinationProofs`, `ResilienceProofs` and `ServicesProofs` put components side by side in
the same way.

### CircuitBreaker and BreakerContract

`cb` holds the fields of the breaker, `total` its metrics. `execute()` is two critical
sections with the callable in between: `ExecuteRejected` or `ExecuteAdmitted`, then
`ExecuteSucceeded`, `ExecuteFailed` or `ExecuteInterrupted` (an exception that
`except Exception` does not catch). `_opened_at` is only compared with the recovery
timeout, so the model keeps the elapsed time, saturated there. `probing` and
`verdicts` are history: the callers that hold a slot of the current half-open window,
and how many of its probes have succeeded.

`env` may contain `"manual"` (record_ methods called directly) and `"interrupt"`.

`BreakerContract` is what a breaker promises without saying how it counts: an open gate
lets nobody in before the recovery timeout, a half-open one at most
`half_open_max_calls` callers until it is decided. `Contract` in CircuitBreaker is its instance
under the mapping gate = state, waited = elapsed time if open, used = half-open call count,
inside = running callers; `ImplementsContract` is checked by TLC and proved.

### BackpressureQueue

The `queue.Queue` is its size, as tasks are opaque. Every call is split where another
thread may run: change of the queue, sampling of `qsize()` under the lock, acting on
the sample, release. `HighMark` and `LowMark` are the least sizes whose fill ratio
reaches the watermarks. The monitor is the one entry for this queue. `lost` is
history. `env` may contain `"drain"` and `"churn"` (the monitor's owner deregisters
and re-registers the queue).

### MessageBroker

One event loop: an action is what a task does between two awaits that may suspend it.
Worker tasks are `loop`, `waiting` in `queue.get()`, `got` (the message has left the
queue and the `wait_for` has not resumed yet), `handling`, `backoff` or `exited`.
Choices worth knowing:

- a worker in `got` is not reached by a cancellation: `wait_for` around a completed
  `get()` returns the message (Python before 3.12);
- the order in which targets are met is that of a set, so any order;
- a waiting `put()` may resume in any order, each after its sequence number is taken;
- TTLs elapse at any time, back-offs end at any time, join()'s timeout may fire at any
  time;
- the targets' dead-letter entries that are pushed without an await in between are
  pushed in one step;
- metric counters, which nothing tests, and `get_nowait()`, which nothing calls, are
  left out.

`resolved`, `acked`, `dead` and `fate` are history. `env` may contain `"cancel"`
(handlers raise CancelledError) and `"discard"` (discard_expired).

### QuotaEnforcer

`quota`, `usage` and `pending`, the request a thread has checked and not recorded.
`check_and_record()` is one action; the documented idiom `if check(): record()` is two.
The four dimensions are treated alike by the code and are a set here; amounts are
whole numbers. `env` may contain `"split"` (the two-step idiom), `"unchecked"`
(record() alone), `"replace"` (register() of a registered agent) and `"negative"`.

### Fleet

The registry maps agents to node objects; the monitor gets the objects and reads and
writes them without the registry's lock. A check is split at each of those accesses
(`CheckBegin`, `CheckAge`, `CheckStatus`), `record_heartbeat()` and `prune_stale()` where
they read before they lock. Times appear as ages; a `now` that was read earlier is the
set of nodes that were too old then, from which a heartbeat removes its node. That
is exact: `now - last_heartbeat > timeout` holds at the comparison iff it held at
`now` and the stamp was not renewed since. `accused` is history. `env` may contain
`"restore"` (restore_on_heartbeat). One task starts and stops the monitor.

### Workflows

One execution by one of the five executors, chosen in `Init` with its dependency
graph, its quorum and include_all_results. `task` is each step's `_run_step()`,
`results` what execute() has recorded, `batch` the tasks that it awaits. A turn of the
loop up to its await is one action (`SequentialTurn`, `ParallelTurn`,
`HierarchicalTurn`), the return from `gather()` or `wait()` another (`WaveDone`, `Wake`),
and `Gathered` the return from the gathering of cancelled tasks. `wait()` returns the tasks
that are done when execute() runs again, iterated as a set: `CompetitiveWins` picks
any success as the first met. A cancelled task may still end with a result. A
CancelledError of an agent ends execute() of the first three executors and
leaves the siblings running (`StepRaises`). Validation is the count of Kahn's algorithm
(parallel) or a path from a step to itself (hierarchical), written round by round.
Outputs, their merging and the extra `__consensus__` result are left out.

### TopicManager

Subscriptions by pattern and by agent, as the code keeps them, with a key only while its
set is not empty. `publish()` is `PublishBegin`, which copies the patterns that match, one
step per pattern, and the return; subscriptions change in between. fnmatch is a relation,
`str.lower()` a function. `kept` and `seen` are history: the subscriptions held
since a call began, and everyone who had a matching one since then.

### DeadlockDetector

The adjacency sets and the `WaitEdge` records, and `detect()`, which searches a snapshot
taken under the lock after it is released. The depth-first search with its bound on the
length and its rotation to the least name is a recursive function over path lengths
(`Pushed` is what the search pushes after the paths of one length); the reference
definition enumerates simple cycles.

### AdaptiveThrottle

The token bucket with the monitor that sets its rate. A refill holds the throttle's lock
while `pressure_score()` reads the entries one by one outside the monitor's lock; entries
that are deregistered meanwhile are still read (`frozen`). Scores, rates and amounts are whole
multiples of a unit. `fast` and `slow` are history: buckets with the same clock readings and
payments, at the base and at the minimum rate.

### HealthChecker

`history` as the statuses of its results, cut to max_history, and the two counters.
`outcomes` is history: what the probes answered since the last clearing.

### LoadBalancer

Every operation is one critical section. Weights are whole numbers and the round robin
counter is kept modulo a common multiple of the possible numbers of endpoints. `held`, what
callers really hold, `removed` and `renewed` are history.

### Attempts

The loops of `RetryPolicy`, `HttpTransport.send()` and `RecoveryTester.test_recovery()`, with
the answers they get and the pauses they make. A POST whose answer is lost may
or may not have been received, and an interruption may come in a call or in a sleep.

### Routing

The table with its mutable records, changed by other threads, and one `resolve()` split at
every read of a record: filter, sort key, scores of a composite strategy's parts.
A refused `update_agent()` leaves the fields it has assigned before the refusal.
`call` also records which agents stayed untouched and which were healthy at some moment
since it began. Filtered and sorted lists are defined by what they are, not by how they are
computed: `InOrder` is the list of a finite set in a strict order, and `Those` and `Sorted`
are instances of it.

### Voting

The protocols as functions of a list of votes that grows vote by vote. Tallies are functions
from options to counts or weights; ratios are compared by cross-multiplication.

### TaskLifecycle

One thread's calls on the `TaskManager`. `steps` is history: the transitions that a task
has really made.

### YamlWorkflow

What makes a document invalid, and `execute()` with the call stack of the nested steps as
`todo`. A failed step is noted and those after it run all the same, on a context without
its outputs. Reading YAML text and what handlers get as input are left out.

### Operator

The handlers for an Agent and for the AgentMesh that refers to it, one API call a step,
with users' edits, the garbage collector, a failing call and a restart of the operator
between any two. The handlers block the event loop, so one runs at a time. kopf is external:
it runs a handler again until it succeeds, and the update handler while the spec differs
from the one last handled. Choices worth knowing:

- replicas may be 0, which is how a user suspends an agent (`k8s/crds/agent.yaml:53`); the
  budget timer leaves such an agent alone, as the code does;
- `over` says that the reported cost has reached the budget. It only rises while the spec
  stays as it is, as `totalCost` is cumulative (`k8s/crds/agent.yaml:166`); an edit of the
  replicas may come with another budget. Edits that leave the replicas alone are left out,
  and so are specs that the handlers refuse with a PermanentError;
- replacing the ConfigMap and creating it after a 404 is one step: the 404 changes nothing
  and nobody but this handler creates the ConfigMap.

### MeshStatus

`reconcile_mesh_status()`: one request per agent, then the breaker and the status in the
order of the code. The breaker lives in memory, so a restart forgets it, and it keeps the
configuration it was made with. `failed` and `clean` are history. The phases it reads are
written by `reconcile_agent_status()`; here any agent may show any phase at any time, which
allows more than that handler does. Time is the wall clock (`datetime.now(timezone.utc)`); one
that is set back makes the breaker wait longer, which is allowed, as nothing makes time pass.

## 3. The runs

| Run | Properties | Shows |
|---|---|---|
| breaker | SlotsAccountedFor, NeverWedged, Recovers, ImplementsContract | three callers, all four environments: probe slots are neither lost nor doubled although outcomes arrive late, the circuit recovers under traffic, and callers see the contract |
| task_queue | TasksConserved, PressureRight, PressureSettles | three threads, all four environments: bookkeeping from stale samples accounts for every task and leaves the pressure flag right |
| broker | UnfinishedCounted, InOnePlace, EveryTargetAnswered, StopQuiesces | two workers, a bounded queue, retries, fan-out, TTL, start and stop: nothing lost or doubled, every target answered, join() counts right, stop() leaves nobody behind |
| broker_live | EventuallySettled | while the broker runs, queued messages are taken and taken ones settled |
| broker_expired (violation) | ExpiredAreDeadLettered | an expired message disappears without a dead letter |
| fleet | OnlySilentAccused, PrunedWereSilent, SilentDetected, AliveRestored | checks that hold node objects without the lock, against heartbeats, re-registration and pruning |
| coordination | MirrorsAgree, SteadyAreNotified, BooksAgree, DetectsExactly, RateRespected, TaskAnswered, RefusedExactly, DependenciesFollowed, RaceJust, DecidedReturns | topics: a publisher against moving subscribers; detector: books and search; throttle: rate bounds, and answers for those who wait; workflows: four steps, five executors, every quorum |
| resilience | TypeOK, StatusExplained, BooksHonest, AttemptsJustified, RouteJust | health checker, load balancer, retry loops, and resolve() on a table that changes |
| health_threshold (violation) | HealthyNeedsThreshold | two successes lead from UNHEALTHY to HEALTHY where three are asked for |
| recovery_consecutive (violation) | ClosesOnConsecutive | three successes with a failure among them recommend closing where three consecutive ones are asked for |
| services | OutcomeJustified, SupportNeverHurts, HistoryTold, WorkflowTold, OvershootBounded, NeverPushedOver, ClusterSettles, OverBudgetStops, BreakerHonest | voting, A2A tasks, YAML workflows, the operator's handlers and its mesh breaker; quotas in five environments: the two-step idiom overshoots by at most one request per thread, the one-step operation never |
| budget_zero (violation) | SuspendedWhenExceeded | an agent set to 0 replicas whose deployment is stale is never suspended |

The comment above each property states it in full. The four violations are disagreements
between a sentence of the source and the code; `PROJECT.json` quotes the sentences
under `findings`. Others were met and have no run (the
properties named with them follow the code, and do not catch the disagreement):

- a callable that raises a `BaseException` keeps its half-open slot, and enough of them
  wedge the circuit until reset() (`circuit_breaker.py:247`); `SlotsAccountedFor` and
  `NeverWedged` except interrupted callables;
- a success of a call that was admitted before the circuit opened counts as a probe's
  success (`circuit_breaker.py:266` against line 7);
- dequeue() of a queue that the monitor has forgotten removes the task and raises
  (`task_queue.py:284`); `TasksConserved` excepts it;
- drain() overwrites depth and flag with 0 after a later enqueue has been booked
  (`task_queue.py:374` against "reports its depth ... after every enqueue / dequeue"
  in the module's docstring); `PressureRaised` and `DepthFresh` exclude drained queues;
- stop() clears the running flag before it waits for the queue, so idle workers leave and
  nobody drains it (`message_broker.py:140`);
- start() during stop() ends with a broker that runs without workers
  (`message_broker.py:148`); the runs have one task that starts and stops;
- a node marked UNHEALTHY is not restored by `FleetRegistry.heartbeat()`, only by
  `record_heartbeat()` (`fleet/health.py:8` says "on the next heartbeat call through
  the registry");
- `default_status` of the registry (`fleet/registry.py:106`, "Status assigned to newly
  registered nodes") is never read;
- include_all_results of the competitive workflow omits steps that ended in the
  winner's batch and are met after it, as the `break` drops them
  (`competitive.py:182` against lines 74-76);
- an agent that changes from one matching pattern to another during publish() may be
  missed (`pubsub.py:224`);
- the sequential and the racing executors ignore `depends_on`, which `workflows/base.py:73`
  says of every step; `DependenciesFollowed` and `RaceJust` are about steps without
  dependencies there;
- a YAML conditional whose chosen branch failed is listed in `steps_completed`, "Names of steps
  that completed successfully" (`yaml_workflow.py:123`); `WorkflowTold` follows the code;
- the round robin router goes by `agent_id` (`routing/strategy.py:225`), not "in registration
  order" (lines 19 and 205); `RouteJust` says who may be chosen, not in which order;
- the operator compares `maxCostPerHour`, a cost "per hour" (`k8s/crds/agent.yaml:80`), with
  `totalCost`, which is cumulative "since creation" (line 166), at
  `k8s/operator/controllers/agent_controller.py:417`;
- acquire_async() without a timeout for more than bucket_capacity waits for ever
  (`throttle.py:199`);
- the operator: a mesh that is handled before its agents' deployments exist wires nothing and does
  not come back to it; an existing object is taken as it is on a 409, stale spec
  included; a ConfigMap that is replaced loses its ownerReferences, and a failing
  deletion of it is swallowed (`hurt` in the model); a suspended agent is
  started again only by an edit; a breaker keeps the configuration it was made with; and it
  counts failing reconciliations, consecutive or not, where
  `k8s/crds/agentmesh.yaml:84` says "Consecutive failures".

### Bounds

- Breaker: thresholds and timeout of 2 distinguish "first", "last" and "one short";
  three callers are two probes and one straggler. `MaxTotal` saturates metrics that
  no guard reads; `CallsAccountedFor` speaks of the counters below it.
- Task queue: three slots with marks 3 and 2; `MaxEnqueues` and `MaxDrops` stop new
  puts once that many are booked, so more may be in flight, and the queue fills,
  drains and refills. Three threads are a sampler and one racing it in each direction.
- Broker: two messages, of two priorities or of one, with one slot: the second waits,
  is refused or overtakes. Two attempts are a retry and an exhaustion. A dead-letter
  queue of two evicts with a fan-out to two agents. The live run has one worker.
- Quotas: one account and three threads, as accounts have nothing in common but
  reset_all(). `MaxUsage` is beyond the largest limit plus one largest request for each
  thread, so the bound never hides an overshoot of the two-step idiom.
- Fleet: one agent with two node objects, so that it registers anew while checks hold
  the other; timeouts 1 and 2, ages to 3. Objects nobody refers to are used again, so
  the number of registrations is not bounded. Several agents are left to the proofs.
- Workflows: four steps have chains, diamonds, joins and cycles of every length up
  to four; all graphs are tried in which no step depends on itself, and some in which one
  does; quorums 1 to 4 of 4.
- Topics: two agents and three patterns, two of which differ in case only; an agent can
  leave one matching pattern and join another, in both orders, during one publish().
- Detector: three agents, two resources and four records are cycles of two and
  three that share agents, and a pair that waits for two resources; max_cycle_length 2
  hides the longer ones.
- Throttle: two queues whose scores go from calm over half to critical between the reads
  of one refill; requests of the bucket's capacity and beyond it.
- Health: five probes are all sequences in which an endpoint goes down and comes back
  with thresholds up to 3; histories of 1 and 2 are shorter than the thresholds.
- Load balancer: weights 3, 2, 1, with which a credit leaves the range of plus or minus
  the full weight, and stays within the proved one; two connections per endpoint. Attempts: one call, or
  four, where the third pause meets the ceiling. Routing: two agents and two changes during a
  call, at any of its reads.
- Services: three votes are a tie, a majority and a tie that the authority breaks; five
  transitions reach every state, with a second round of input; the YAML document nests
  three kinds of steps with tasks before and after them; three creations let one of the two
  objects come back, with one fault at any place; replicas 0 and 2 let an agent be set to 0,
  started again, and left with a stale deployment; mesh thresholds 1 and 2.

Symmetry is used only in runs without liveness properties. Deadlock checking is off
only where users may stop calling or a call ends for good: the task queue, and the
three modules with several components.

### Fairness

- Breaker: the clock advances, traffic keeps coming (some caller that would be
  admitted is), and every callable ends. Without traffic the lazy transition to
  HALF_OPEN is never made, so this assumption is necessary.
- Task queue: a thread that has changed the queue reaches its bookkeeping. Nobody is
  assumed to call anything.
- Broker: the event loop runs the worker tasks, handlers end, and waiting puts resume.
  Nobody is assumed to publish, subscribe, start or stop.
- Fleet: the monitor loop goes on while it runs, and a record_heartbeat() that began
  ends. `AliveRestored` assumes of an agent, and only there, that it goes on reporting.
- Workflows: the event loop resumes execute() when what it awaits is there, and a
  cancelled task ends. A step that is not cancelled may run for ever.
- Throttle: the clock runs, a refill that holds the lock ends, deadlines pass. A task that
  polls gets the lock again and again (strong fairness), as others hold it only for
  the length of a refill.
- Operator: kopf begins the handler that is due and handlers go on; the budget timer fires
  again and again, and gets its turn between other handlers (strong fairness).

## 4. The proofs

Eight modules hold theorems, for every value of the constants that satisfies the
`ASSUME`s. These state what the constructors of the code check, with two additions about
their callers (`HttpTransport` gets a base delay that is not negative, `AdaptiveThrottle` gets
thresholds in order; neither is checked there), and that what exists at a
time is finite: threads, clients, workers, queues, agents and endpoints, and the requests that
are compared. `Turns` and `RoundTrip`, the units of scores and of round robin counters, are
common multiples of the possible lengths. The throttle's assumption that amounts are not
negative is what its methods' callers observe; `try_acquire()` itself does not check it. None
of the bounds that TLC needs (`MaxProbes`, `MaxEnqueues`, `MaxCreations`, ...) matters to a proof: the theorems
hold whatever their values are.

| Module | About | Theorems |
|---|---|---|
| CircuitBreakerProofs | CircuitBreaker | SlotsCorrect, NeverWedgedCorrect, ContractKept, CountersCorrect, CallsCorrect, DiagramCorrect |
| BackpressureQueueProofs | BackpressureQueue | TasksCorrect, PressureCorrect, SampleCorrect, DepthCorrect |
| MessageBrokerProofs | MessageBroker | PlacesCorrect, CountCorrect, AnswersCorrect, StopCorrect |
| ResilienceProofs | Fleet, HealthChecker, Attempts, LoadBalancer | AccusedCorrect, PrunedCorrect, StatusCorrect, AttemptsCorrect, BooksAreHonest |
| RoutingProofs | Routing | RoutesCorrect, RecordsCorrect |
| CoordinationProofs | TopicManager, DeadlockDetector, AdaptiveThrottle, Workflows | MirrorsCorrect, SteadyCorrect, BooksCorrect, DetectionCorrect, RateCorrect, RefusedCorrect, DependenciesCorrect, RaceCorrect |
| ServicesProofs | TaskLifecycle, MeshStatus, QuotaEnforcer, Operator, Voting | HistoryCorrect, BreakerCorrect, LimitsCorrect, PushedCorrect, ForgivenCorrect, OvershootCorrect, ClusterCorrect, OutcomesJustified, SupportIsMonotone |
| FiniteLemmas | library | lemmas only |

The types of each of these components are part of its inductive invariant, and most are
theorems of their own as well.

- **Breaker.** `TypeOK /\ CountersMatchState` is inductive, by lemmas on what each
  operation does to the record (`OperationsType`, `OperationsConsistent`). With it,
  `SlotsAccountedFor` is inductive: the probes and verdicts of a window change as
  the slot counter does, and a transition clears all of them (`OperationsOnSlots`,
  `NoProbesOutside`). `NeverWedged` follows: if no slot is free and nobody probes,
  all slots were given up by successes, which reach the success threshold, because the
  configuration requires `success_threshold <= half_open_max_calls`. The metrics, the
  diagram and "open lets nobody in" are further theorems. For `ContractKept`, lemmas say
  what each operation on the record looks like to the contract (a verdict, an
  admission, nothing); each action is then a step of the contract or a stutter.
- **Task queue.** `TypeOK` and `Setting` (what each environment excludes) are inductive.
  `SampleFresh` is the key: whoever makes a sample stale has its own bookkeeping
  ahead. From it `PressureRaised`, `PressureRelieved` and `DepthFresh` are each
  inductive; alone none of them is, because acting on a sample would be unconstrained.
  `PressureRight` is the first two together. `TasksConserved` is inductive with the types:
  each action moves one task between the five terms of its equation, or, for a drain, moves
  what one thread has taken, which the lemmas about sums follow.
- **Broker.** `BrokerTypeOK` says what a worker holds at each point of its loop.
  `PlacesDistinct` (the places of a message exclude each other, and only accepted messages
  are in one) gives `InOnePlace`. `CountKept` adds that only finitely many messages are
  lost; a cancellation turns busy workers into lost messages one for one, because no two
  hold the same. `AnswersKept` follows a message through its dispatch: before it nobody has
  answered, during it exactly the targets that are no longer open have, once each.
  `WorkersKnown` says that a running broker, or one that is being stopped, tracks its
  workers. It needs the hypothesis `OneController` of `StopCorrect`: with a second task,
  start() during the other's stop() replaces the workers that stop() is about to wait
  for, and `StopQuiesces` fails. The runs have one controller.
- **Quotas.** `NothingPending` (without the two-step idiom nothing is ever pending)
  and `BookedWithinLimit` (what a successful test allows to be booked) give
  `WithinLimits` by induction and `NeverPushedOver` and `ForgivenOnPurpose` as step
  properties. `OvershootBounded` is inductive with `CheckedAsked` (what was checked is not
  negative): a record() moves an amount from the outstanding sum to the usage, and after a
  successful check() the usage alone is within the limit, so that the outstanding sum, at
  most one largest request per client, is the whole excess.
- **Fleet.** `Accusations` says of every node that is UNHEALTHY, too old, or held by a check
  as too old that it was silent once; it is inductive because a node object is only
  registered when no check refers to it. `StillTooOld` says that what prune_stale()
  has found and no heartbeat renewed is still too old at the removal.
- **Workflows.** That a graph is refused exactly if it cannot be ordered is proved for both
  tests. An order leads Kahn's rounds through all steps (`OrderVisits`), and rounds that
  visit all steps are an order (`VisitedOrders`). An order rules out a step above itself
  (`OrderAbove`); conversely the sets of steps above each step grow until they are closed,
  within as many rounds as there are steps (`AboveGrows`, `AboveCloses`), and their sizes
  are then an order (`AboveOrders`). Depths in a graph that was not refused are stable and
  have no gap (`DepthStable`, `LevelsWithoutGap`), so that waves by depth run every step
  after its dependencies. `Kept` is the inductive invariant of the executors: what has run,
  what is recorded, which steps are in the batch that is awaited, and that recorded skips
  have their reason. `RaceKept` does the same for the two races: the votes and the failures
  that are counted are those of finished steps, and a decision once made stays justified
  while the losers are cancelled and gathered.
- **Topics.** `MirrorsAgree` is inductive together with the types. `SteadyAreNotified`
  speaks of the end of a call; its strengthening `Collecting` says of a call in progress that a
  subscription held since it began belongs to a pattern that is still to be looked up
  or to an agent that was collected, and that whoever matches now has been seen.
- **Detector.** `PairsAgree` says of each pair of agents that it has a record exactly if it has
  an arrow. It is inductive, action by action, and gives `BooksAgree`, which states
  the same as an equality of sets. For the search, `PathsAre` shows that the recursive function
  gives, for each length, the simple paths from the start whose nodes are not smaller than it;
  `CyclesFound` and `CanonicalAlready` turn those that close into the simple cycles of the
  reference definition. That a cycle is reported exactly if some agents wait for each other
  needs the converse of the obvious direction: whoever waits within a set of waiting agents can
  follow an arrow for ever, hence comes back to an agent within as many steps as there are
  agents (`DeadlockReturns`), and a shortest return is a simple cycle (`ReturnGivesCycle`).
- **Throttle.** The three buckets move in step: `RateBetween` shows that the rate of any
  score lies between the minimum and the base rate, with the integer divisions of the
  model, and every refill and payment keeps the order.
- **Tasks.** `Story` describes a history with the present state at its end; `StoryGrows` shows
  that an allowed transition extends a story, so `HistoryTold` is inductive with the types.
- **Mesh breaker.** `BreakerKept` adds to `BreakerHonest` that a breaker that is not closed has
  counted exactly its threshold of failures, since nothing but a closing resets the count,
  and that a roll-up in progress belongs to a mesh that exists.
- **Operator.** `ClusterSettles` speaks of moments when no handler is due; `AgentKept` and
  `MeshKept` say for each moment in between what the calls already made have established:
  which object exists, with which contents and owner, after how many calls of which
  handler (`Past`), and what a deletion has removed. What a swallowed failure leaves is
  excepted by `hurt`, as in the property.
- **Health checker.** `FailsLast` ties the count of failures to the outcomes, `DownIs` says what
  `Down` means in terms of it, and `ProbeExplained` goes through the decision of
  `_compute_status()` case by case. A success after UNHEALTHY always finds the count of
  successes at 1, which is why the threshold matters for one probe only (see the run
  `health_threshold`).
- **Retry loops.** `LoopKept`, `PausesKept` and `ProbesKept` say how each kind of loop stands
  while it runs, among them that each pause was one of the delays for its number. `GrownIs`
  and `DelaysGrow` show that the delays exist, grow and stay below the ceiling.
- **Load balancer.** The counts of connections are inductive as they stand. A bound on one
  credit is not: a selection takes the total weight of the healthy endpoints from the winner,
  and how far the winner can fall depends on what the others hold. `CreditsKept` therefore
  bounds the sum of the credits of every group of endpoints, a group of k endpoints by
  (n - 1) + (n - 2) + ... to k terms, in units of the full weight. If the winner is in a
  group, its credit is at least that of each outsider, which relates the group to the ones that
  are smaller and larger by one (`GroupMoves`, `GroupStep`); removing and re-adding an endpoint
  sets a credit to zero and keeps all bounds (`GroupForgets`). Groups of one give plus or minus
  (n - 1) times the full weight. The attempt to prove plus or minus one full weight, which an
  instance with weights 2, 1, 1 satisfies, showed that it does not hold in general.
- **Routing.** `RoutingKept` has six parts. `RoutingTyped` and `HistoryKept` are about the table
  and about who was untouched or healthy since the call began. `LineKept` describes a ranking
  in progress: the records still to be filtered, those whose keys are still to be read and the
  readings are in the order of the table and come one after the other, untouched agents pass
  the filter and have the key that was read, and every acceptable untouched agent is
  in one of the three. `ScoresKept` says that after k parts of a composite strategy an agent
  that beats another in all of them has the higher score, and that a part with a weight
  has given each agent it accepts a positive score. `StageKept` and `AnswerKept` are about the
  receiver and the final list. A change of the table by another thread is handled once for all
  four operations (`TableChanges`, `TableKeeps`): what is said of untouched agents only loses
  agents. `SortedIs` and `ThoseAre` say what a stable sort and a filter return, for lists of
  any length; they rest on `ListExists`, which places each element of a finite ordered set by the
  number of those before it.
- **Voting.** `OutcomeJustified` follows from the types of the votes alone: `WinnerLeads` and
  `WinnerUnique` say whom the tally and the tie-break pick, `VotesFor` and `WeightCovers` that
  tallies are the sums of votes and of weights. `SupportNeverHurts` is a step property:
  one more vote for the winner adds to its entry and to nothing else (`OneMoreVote`), keeps it the
  winner (`WinnerStays`), and does not lower a ratio that is at most one (`RatioKept`); the
  last case is a weighted vote whose weights were all zero before, where counts are
  replaced by weights.
- **FiniteLemmas.** Induction over numbers from the existence of a least counterexample,
  as the library's induction theorems take an operator and cannot be used; recursive
  functions and finite sums (`MapThenSumSet`, `SumFunction`) are shown to exist and to
  satisfy their equations from there.

The inductive invariants `Kept`, `AgentKept` and `MeshKept` were checked with TLC on small
instances before they were proved.

Only model-checked: all liveness properties, which need fairness; `WorkflowTold`, whose
documents nest to any depth and are unfolded by recursion over their structure; and the joint
type invariant of `MCResilience`, whose conjuncts are theorems about their own
specifications (`HealthTypeCorrect`, `BalancerTypeCorrect`, `RecordsCorrect`). The counts and
sums of `Voting` and `LoadBalancer` and the lists of `Routing` are proved about as
functions on finite sets and sequences, without induction over data.

## 5. Plan

1. A mesh of several agents in `Operator`, and its roll-up in `MeshStatus` reading the
   phases that the agent controller writes.
2. `WorkflowTold` for documents of a bounded depth, with the depth as a constant.

## 6. Not modelled

- Serialisation, adapters other than HTTP, tracing, plugin lookup, command line, convenience
  API and the operator's entry point are I/O, formatting and wiring over the parts above.
- A2A models, discovery, cards and bridge are data classes and conversions, field by field.
- The fallback registry is two dictionaries whose operations do not depend on each other; the
  fleet load balancer sorts a snapshot of the registry and keeps one counter.
- Floating-point rounding: ratios, scores, weights and costs are whole multiples of a unit.
- Counters that are only reported, timestamps and latencies.
