------------------------------- MODULE Fleet -------------------------------
(***************************************************************************)
(* fleet/registry.py and fleet/health.py: the FleetRegistry and the        *)
(* HealthMonitor that writes statuses into its nodes.                      *)
(*                                                                         *)
(* The registry has a lock, but get() and list_nodes() hand out the node   *)
(* objects themselves.  The monitor reads and writes those without the     *)
(* lock, while agents send heartbeats, are pruned and register anew with   *)
(* another object.  An object nobody refers to any more may be used again. *)
(*                                                                         *)
(* last_heartbeat is kept as the node's age, saturated beyond the longer   *)
(* timeout.  A "now" that was read before the stamps are compared is kept  *)
(* as the set of nodes that were too old then: a node counts as too old    *)
(* at the comparison iff it was so at "now" and has had no heartbeat since.*)
(***************************************************************************)
EXTENDS Integers

CONSTANTS
  Agents,
  Nodes,             \* AgentNode objects
  Owner,             \* their agent_id
  NoNode,
  Checkers,          \* tasks and threads that call check_all() and check_node()
  Loop,              \* the one that runs _monitor_loop
  HeartbeatTimeout,  \* heartbeat_timeout_seconds, in clock ticks
  PruneTimeout,      \* the argument of prune_stale(), in clock ticks
  Reported,          \* the statuses that agents give themselves
  Environments       \* the environments considered, see env

Statuses == {"HEALTHY", "UNHEALTHY", "DEGRADED", "STARTING", "STOPPING"}

ASSUME FleetAssumption ==
  /\ Owner \in [Nodes -> Agents]
  /\ NoNode \notin Nodes
  /\ Loop \in Checkers
  /\ HeartbeatTimeout \in Nat \ {0}
  /\ PruneTimeout \in Nat
  /\ Reported \subseteq Statuses
  /\ Environments \subseteq SUBSET {"restore"}

VARIABLES
  registry,  \* self._nodes
  age,       \* time.time() - last_heartbeat of each node
  status,    \* status of each node
  running,   \* HealthMonitor._running
  check,     \* the checks in progress
  beat,      \* the record_heartbeat() in progress for each agent
  prune,     \* the prune_stale() in progress
  accused,   \* history: nodes that were too old once, or called themselves UNHEALTHY
  env        \* the monitor's configuration, chosen once for a behaviour

vars == <<registry, age, status, running, check, beat, prune, accused, env>>

\* restore_on_heartbeat
Restoring == "restore" \in env

MaxAge == 1 + IF HeartbeatTimeout > PruneTimeout THEN HeartbeatTimeout ELSE PruneTimeout

Registered == {registry[a] : a \in Agents} \ {NoNode}

\* A check has still to visit todo; those of them in silent were too old at its "now"; it
\* has found suspect too old and not yet looked at its status.
NoCheck == [silent |-> {}, todo |-> {}, suspect |-> NoNode]

\* prune_stale() between reading the time and taking the lock.
NoPrune == [active |-> FALSE, silent |-> {}]

Referenced ==
  Registered \union prune.silent \union
  UNION {check[k].silent \union check[k].todo \union {check[k].suspect} : k \in Checkers}

Init ==
  /\ registry = [a \in Agents |-> NoNode]
  /\ age = [n \in Nodes |-> 0]
  /\ status = [n \in Nodes |-> "HEALTHY"]
  /\ running = FALSE
  /\ check = [k \in Checkers |-> NoCheck]
  /\ beat = [a \in Agents |-> "none"]
  /\ prune = NoPrune
  /\ accused = {}
  /\ env \in Environments
-----------------------------------------------------------------------------
\* now - last_heartbeat > timeout
TooOld(n, timeout) == age[n] > timeout

\* Time passes.
Tick ==
  /\ \E n \in Nodes : age[n] < MaxAge
  /\ age' = [n \in Nodes |-> IF age[n] < MaxAge THEN age[n] + 1 ELSE age[n]]
  /\ accused' = accused \union {n \in Nodes : age'[n] > HeartbeatTimeout}
  /\ UNCHANGED <<registry, status, running, check, beat, prune, env>>

\* register() of a new node: "If a node with the same agent_id already exists, it is
\* overwritten with the new node object".
Register(n, s) ==
  /\ n \notin Referenced
  /\ registry' = [registry EXCEPT ![Owner[n]] = n]
  /\ age' = [age EXCEPT ![n] = 0]
  /\ status' = [status EXCEPT ![n] = s]
  /\ accused' = IF s = "UNHEALTHY" THEN accused \union {n} ELSE accused \ {n}
  /\ UNCHANGED <<running, check, beat, prune, env>>

Deregister(a) ==
  /\ registry[a] # NoNode
  /\ registry' = [registry EXCEPT ![a] = NoNode]
  /\ UNCHANGED <<age, status, running, check, beat, prune, accused, env>>

\* Mutant of Freshened: the comparisons in progress have read the old stamp.
FreshenedLate(n) == UNCHANGED <<check, prune>>

\* What a new stamp does to the comparisons that are still to come.
Freshened(n) ==
  /\ check' = [k \in Checkers |-> [check[k] EXCEPT !.silent = @ \ {n}]]
  /\ prune' = [prune EXCEPT !.silent = @ \ {n}]

\* FleetRegistry.heartbeat(), with the status the node has from then on.
Stamp(n, s) ==
  /\ age' = [age EXCEPT ![n] = 0]
  /\ status' = [status EXCEPT ![n] = s]
  /\ Freshened(n)

\* heartbeat() called by an agent, with its status or (s = status[n]) without.
Heartbeat(n, s) ==
  /\ n \in Registered
  /\ Stamp(n, s)
  /\ accused' = IF s = "UNHEALTHY" THEN accused \union {n} ELSE accused
  /\ UNCHANGED <<registry, running, beat, env>>

\* Mutant of Restores: degraded agents are restored.
RestoresDegraded(s) == Restoring /\ s = "DEGRADED"

\* restore_to_healthy
Restores(s) == Restoring /\ s = "UNHEALTHY"

\* record_heartbeat(): the node is looked up and its status read.  (An unknown agent is
\* ignored.)
BeatBegin(a) ==
  /\ beat[a] = "none"
  /\ registry[a] # NoNode
  /\ beat' = [beat EXCEPT ![a] = IF Restores(status[registry[a]]) THEN "restore" ELSE "keep"]
  /\ UNCHANGED <<registry, age, status, running, check, prune, accused, env>>

\* The status a heartbeat leaves, "if status is not None".
StatusLeft(n, decision) == IF decision = "restore" THEN "HEALTHY" ELSE status[n]

\* record_heartbeat(): the registry's heartbeat(), for the node it holds by now.
BeatEnd(a) ==
  LET n == registry[a]
  IN  /\ beat[a] # "none"
      /\ n # NoNode
      /\ Stamp(n, StatusLeft(n, beat[a]))
      /\ beat' = [beat EXCEPT ![a] = "none"]
      /\ UNCHANGED <<registry, running, accused, env>>

\* record_heartbeat() of an agent that has gone since: AgentNodeNotFoundError.
BeatRaises(a) ==
  /\ beat[a] # "none"
  /\ registry[a] = NoNode
  /\ beat' = [beat EXCEPT ![a] = "none"]
  /\ UNCHANGED <<registry, age, status, running, check, prune, accused, env>>

\* prune_stale() reads the time.
PruneBegin ==
  /\ ~prune.active
  /\ prune' = [active |-> TRUE, silent |-> {n \in Registered : TooOld(n, PruneTimeout)}]
  /\ UNCHANGED <<registry, age, status, running, check, beat, accused, env>>

\* prune_stale(): the locked block.
PruneEnd ==
  /\ prune.active
  /\ registry' = [a \in Agents |-> IF registry[a] \in prune.silent THEN NoNode ELSE registry[a]]
  /\ prune' = NoPrune
  /\ UNCHANGED <<age, status, running, check, beat, accused, env>>
-----------------------------------------------------------------------------
\* HealthMonitor.start() and stop().  The loop has no await inside check_all(), so stop()
\* only ever cancels its sleep.
Start ==
  /\ ~running
  /\ running' = TRUE
  /\ UNCHANGED <<registry, age, status, check, beat, prune, accused, env>>

Stop ==
  /\ running
  /\ check[Loop] = NoCheck
  /\ running' = FALSE
  /\ UNCHANGED <<registry, age, status, check, beat, prune, accused, env>>

\* check_all() (of every node) or check_node() (of one) reads the time and the registry.
CheckBegin(k, ns) ==
  /\ k = Loop => running /\ ns = Registered
  /\ check[k] = NoCheck
  /\ check' = [check EXCEPT ![k] =
                 [NoCheck EXCEPT !.todo = ns,
                                 !.silent = {n \in ns : TooOld(n, HeartbeatTimeout)}]]
  /\ UNCHANGED <<registry, age, status, running, beat, prune, accused, env>>

\* The check reads a node's stamp.
CheckAge(k, n) ==
  /\ n \in check[k].todo
  /\ check[k].suspect = NoNode
  /\ check' = [check EXCEPT ![k] =
                 [silent |-> @.silent \ {n}, todo |-> @.todo \ {n},
                  suspect |-> IF n \in @.silent THEN n ELSE NoNode]]
  /\ UNCHANGED <<registry, age, status, running, beat, prune, accused, env>>

\* Mutant of Marks: only healthy nodes are marked.
MarksHealthy(n) == status[n] = "HEALTHY"

\* The second half of the test for a node that is too old.
Marks(n) == status[n] # "UNHEALTHY"

\* Mutant of Marked: the node is looked up again by its agent_id.
MarkedById(n) == registry[Owner[n]]

\* The object that _mark_unhealthy() writes to.
Marked(n) == n

\* The check reads a suspect's status and marks it.
CheckStatus(k) ==
  LET n == check[k].suspect
  IN  /\ n # NoNode
      /\ status' = [m \in Nodes |-> IF m = Marked(n) /\ Marks(n) THEN "UNHEALTHY" ELSE status[m]]
      /\ check' = [check EXCEPT ![k].suspect = NoNode]
      /\ UNCHANGED <<registry, age, running, beat, prune, accused, env>>

CheckStep(k) == CheckStatus(k) \/ \E n \in Nodes : CheckAge(k, n)

Next ==
  \/ Tick
  \/ \E n \in Nodes, s \in Reported : Register(n, s) \/ Heartbeat(n, s)
  \/ \E n \in Nodes : Heartbeat(n, status[n])
  \/ \E a \in Agents : Deregister(a) \/ BeatBegin(a) \/ BeatEnd(a) \/ BeatRaises(a)
  \/ PruneBegin \/ PruneEnd
  \/ Start \/ Stop
  \/ \E k \in Checkers : CheckBegin(k, Registered) \/ CheckStep(k)
  \/ \E k \in Checkers, n \in Registered : CheckBegin(k, {n})

Spec == Init /\ [][Next]_vars

\* The monitor's loop goes on while the monitor runs, and a call that has begun ends.
\* Nobody has to send a heartbeat.
Fairness ==
  /\ WF_vars(CheckBegin(Loop, Registered))
  /\ WF_vars(CheckStep(Loop))
  /\ \A a \in Agents : WF_vars(BeatEnd(a) \/ BeatRaises(a))

FairSpec == Spec /\ Fairness
-----------------------------------------------------------------------------
\* The state stays in its types, and a node is registered under its own agent_id.
TypeOK ==
  /\ registry \in [Agents -> Nodes \union {NoNode}]
  /\ age \in [Nodes -> 0..MaxAge]
  /\ status \in [Nodes -> Statuses]
  /\ running \in BOOLEAN
  /\ check \in [Checkers -> [silent: SUBSET Nodes, todo: SUBSET Nodes,
                             suspect: Nodes \union {NoNode}]]
  /\ beat \in [Agents -> {"none", "keep", "restore"}]
  /\ prune \in [active: BOOLEAN, silent: SUBSET Nodes]
  /\ accused \subseteq Nodes
  /\ env \in Environments
  /\ \A a \in Agents : registry[a] # NoNode => Owner[registry[a]] = a

\* The monitor only accuses the silent: a node that never let the timeout pass without a
\* heartbeat, and did not call itself UNHEALTHY, is not UNHEALTHY, even if checks
\* of a node that its agent had before are still under way.
OnlySilentAccused == \A n \in Registered : status[n] = "UNHEALTHY" => n \in accused

\* prune_stale() reads the time before it takes the lock, and still removes no node that
\* has had a heartbeat within the timeout by the moment it is removed.
PrunedWereSilent ==
  [][PruneEnd => \A a \in Agents : registry[a] # NoNode /\ registry'[a] = NoNode =>
       age[registry[a]] > PruneTimeout]_vars

\* While the monitor runs, a node that stays silent is eventually UNHEALTHY, whatever its
\* status was.
SilentDetected ==
  \A n \in Nodes :
    (running /\ n \in Registered /\ age[n] > HeartbeatTimeout)
      ~> (~running \/ n \notin Registered \/ age[n] <= HeartbeatTimeout
            \/ status[n] = "UNHEALTHY")

\* With restore_on_heartbeat, an agent that goes on reporting through record_heartbeat()
\* does not stay UNHEALTHY: a mark that a check sets after the heartbeat it
\* has not seen is taken back by a later one.
AliveRestored ==
  \A a \in Agents : WF_vars(BeatBegin(a)) =>
    \A n \in Nodes :
      (Restoring /\ registry[a] = n /\ status[n] = "UNHEALTHY")
        ~> (registry[a] # n \/ status[n] # "UNHEALTHY")
=============================================================================
