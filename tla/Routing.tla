------------------------------- MODULE Routing -------------------------------
(***************************************************************************)
(* routing/table.py, routing/strategy.py and routing/resolver.py: the      *)
(* RoutingTable, which other threads change, and a resolve() call, which   *)
(* takes a list of the table's mutable records under the lock and reads    *)
(* the records one by one after it has let go of the lock.                 *)
(*                                                                         *)
(* Loads are units of 1/FullLoad, a budget is the cost per token that it   *)
(* can pay, and the scores of the composite strategy are multiples of      *)
(* 1/Turns.  The round robin counter is kept modulo Turns.                 *)
(***************************************************************************)
EXTENDS Integers, Sequences, SequencesExt, FiniteSets, FiniteSetsExt

CONSTANTS
  MeshAgents,   \* agent ids: natural numbers, ordered as their names
  Capabilities, \* the names of capabilities
  FullLoad,     \* the load 1.0
  NewRecords,   \* records of capabilities, cost and load to register with
  Updates,      \* the arguments of update_agent() that are not None
  Messages,     \* records of receiver, required and budget
  Routers,      \* the strategies considered, with their parts and weights
  Turns,        \* a common multiple of 1..Cardinality(MeshAgents)
  MaxChanges    \* bound: the changes of the table during a call

\* What an AgentRecord holds.
FieldType ==
  [capabilities |-> SUBSET Capabilities, cost |-> Int, load |-> Int, healthy |-> BOOLEAN]

\* CompositeRouter refuses an empty list of strategies and a negative weight.
ASSUME RoutingAssumption ==
  /\ MeshAgents \subseteq Nat /\ IsFiniteSet(MeshAgents)
  /\ FullLoad \in Nat
  /\ Turns \in Nat \ {0} /\ \A n \in 1..Cardinality(MeshAgents) : Turns % n = 0
  /\ \A new \in NewRecords : DOMAIN new = {"capabilities", "cost", "load"}
  /\ \A u \in Updates : DOMAIN u \subseteq DOMAIN FieldType
  /\ \A u \in NewRecords \union Updates : \A f \in DOMAIN u : u[f] \in FieldType[f]
  /\ \A m \in Messages : \A a, b \in m.receiver : a = b
  /\ \A r \in Routers :
       /\ Len(r.parts) \in Nat \ {0} /\ DOMAIN r.parts = 1..Len(r.parts)
       /\ Len(r.weights) = Len(r.parts)
       /\ \A k \in 1..Len(r.parts) :
            /\ r.parts[k].name \in {"capability", "cost", "least_loaded", "round_robin"}
            /\ r.weights[k] \in Nat
       /\ ~r.composite => Len(r.parts) = 1

VARIABLES
  router,   \* RouteResolver._strategy
  order,    \* the keys of RoutingTable._agents, in their order
  records,  \* its AgentRecords
  counter,  \* RoundRobinRouter._counter
  call      \* the resolve() call in progress, with what happened since it began

routingVars == <<router, order, records, counter, call>>

\* Optional values are sets of at most one element: receiver and budget of a message.

Blank == [capabilities |-> {}, cost |-> 0, load |-> 0, healthy |-> FALSE]

Idle_ == [stage |-> "idle", message |-> [receiver |-> {}, required |-> {}, budget |-> {}],
          part |-> 1, base |-> <<>>, listed |-> <<>>, kept |-> <<>>, keyed |-> <<>>,
          scores |-> [a \in MeshAgents |-> 0], ranked |-> <<>>, missing |-> FALSE,
          steady |-> {}, reachable |-> {}, changes |-> 0]

HealthyOnes(names, recs) == {a \in names : recs[a].healthy}

\* History of a call: the agents that nobody has touched since it began, and those that
\* were registered and healthy at some moment.
Followed(c) ==
  IF c.stage = "idle" THEN c ELSE
    [c EXCEPT !.changes = @ + 1,
              !.steady = {a \in @ : a \in Range(order') /\ records'[a] = records[a]},
              !.reachable = @ \union HealthyOnes(Range(order'), records')]
-----------------------------------------------------------------------------
(***************************************************************************)
(* The table.                                                              *)
(***************************************************************************)
RoutingInit ==
  /\ router \in Routers
  /\ order = <<>>
  /\ records = [a \in MeshAgents |-> Blank]
  /\ counter = 0
  /\ call = Idle_

CostOk(cost) == cost >= 0

LoadOk(load) == load \in 0..FullLoad

\* register_agent(): refused for a bad load or cost and for an agent that is there.
RegisterAgent(a, new) ==
  /\ LoadOk(new.load) /\ CostOk(new.cost)
  /\ a \notin Range(order)
  /\ order' = Append(order, a)
  /\ records' = [records EXCEPT ![a] = [capabilities |-> new.capabilities, cost |-> new.cost,
                                        load |-> new.load, healthy |-> TRUE]]
  /\ call' = Followed(call)
  /\ UNCHANGED <<router, counter>>

\* A call keeps the record objects it has listed: of an agent that leaves, as they were.
Keep(list, a) ==
  [i \in DOMAIN list |->
    IF list[i].agent = a /\ list[i].live THEN [agent |-> a, live |-> FALSE, was |-> records[a]]
                                         ELSE list[i]]

DeregisterAgent(a) ==
  /\ \E i \in DOMAIN order : order[i] = a /\ order' = RemoveAt(order, i)
  /\ records' = [records EXCEPT ![a] = Blank]
  /\ call' = Followed([call EXCEPT !.listed = Keep(@, a), !.kept = Keep(@, a)])
  /\ UNCHANGED <<router, counter>>

\* Mutant of Applied: cost and load are assigned before they are validated.
AppliedFirst(u) ==
  IF "cost" \in DOMAIN u /\ ~CostOk(u["cost"]) THEN DOMAIN u \intersect {"capabilities", "cost"}
  ELSE IF "load" \in DOMAIN u /\ ~LoadOk(u["load"]) THEN DOMAIN u \ {"healthy"}
  ELSE DOMAIN u

\* The fields that update_agent() assigns: it validates as it goes, so that an update
\* that is refused is half done.
Applied(u) ==
  IF "cost" \in DOMAIN u /\ ~CostOk(u["cost"]) THEN DOMAIN u \intersect {"capabilities"}
  ELSE IF "load" \in DOMAIN u /\ ~LoadOk(u["load"])
    THEN DOMAIN u \intersect {"capabilities", "cost"}
  ELSE DOMAIN u

\* update_agent() and update_load().
UpdateAgent(a, u) ==
  /\ a \in Range(order)
  /\ records' = [records EXCEPT ![a] =
       [f \in DOMAIN @ |-> IF f \in Applied(u) THEN u[f] ELSE @[f]]]
  /\ UNCHANGED <<router, order, counter>>
  /\ call' = Followed(call)

\* upsert_agent(): of an agent that is there, the health stays as it is.
UpsertAgent(a, new) ==
  IF a \in Range(order) THEN UpdateAgent(a, new) ELSE RegisterAgent(a, new)
-----------------------------------------------------------------------------
(***************************************************************************)
(* The strategies.                                                         *)
(***************************************************************************)

\* The elements of a finite set, from the least to the greatest.
InOrder(set, less) ==
  CHOOSE list \in [1..Cardinality(set) -> set] :
    \A i, j \in 1..Cardinality(set) : i < j => <<list[i], list[j]>> \in less

\* [x for x in list if x in set]
Those(list, set) ==
  LET places == InOrder({i \in DOMAIN list : list[i] \in set},
                        {p \in (DOMAIN list) \X (DOMAIN list) : p[1] < p[2]})
  IN  [i \in DOMAIN places |-> list[places[i]]]

\* list_agents(healthy_only=True): references to the healthy records.
Listing ==
  LET agents == Those(order, HealthyOnes(Range(order), records))
  IN  [i \in DOMAIN agents |-> [agent |-> agents[i], live |-> TRUE, was |-> Blank]]

\* What a record reference shows now.
Shown(entry) == IF entry.live THEN records[entry.agent] ELSE entry.was

\* The filter of a strategy: matches_capabilities() or any overlap, the budget, the ceiling.
Passes(part, message, record) ==
  CASE part.name = "capability" ->
         \/ message.required = {}
         \/ part.require_all /\ message.required \subseteq record.capabilities
         \/ ~part.require_all /\ message.required \intersect record.capabilities # {}
    [] part.name = "cost" -> \A budget \in message.budget : record.cost <= budget
    [] part.name = "least_loaded" -> record.load <= part.load_ceiling
    [] part.name = "round_robin" -> TRUE

\* The sort key of a strategy.
Key(part, agent, record) ==
  CASE part.name = "capability" -> IF part.tie_break_by_load THEN record.load ELSE 0
    [] part.name = "cost" -> record.cost
    [] part.name = "least_loaded" -> record.load
    [] part.name = "round_robin" -> agent

\* list.sort() is stable.
Sorted(keyed) ==
  LET places == InOrder(DOMAIN keyed,
                        {p \in (DOMAIN keyed) \X (DOMAIN keyed) :
                           \/ keyed[p[1]].key < keyed[p[2]].key
                           \/ keyed[p[1]].key = keyed[p[2]].key /\ p[1] < p[2]})
  IN  [i \in DOMAIN places |-> keyed[places[i]].agent]

\* candidates[index:] + candidates[:index]
Rotated(list, index) == SubSeq(list, index + 1, Len(list)) \o SubSeq(list, 1, index)

\* What one part of the strategy makes of the keys it has read.
Ranking(part, keyed) ==
  IF part.name = "round_robin" /\ keyed # <<>>
    THEN Rotated(Sorted(keyed), counter % Len(keyed))
    ELSE Sorted(keyed)

\* The scores of CompositeRouter after one more part.
Scored(scores, ranking, weight_) ==
  [a \in MeshAgents |->
    IF a \in Range(ranking) /\ a \in Range(call.base)
      THEN scores[a] + weight_ * (Turns \div Len(ranking))
                               * (Len(ranking) + 1 - Min({i \in DOMAIN ranking : ranking[i] = a}))
      ELSE scores[a]]

\* The candidates with a positive score, highest first.
ByScore(scores) ==
  LET agents == Those(call.base, {a \in MeshAgents : scores[a] > 0})
  IN  Sorted([i \in DOMAIN agents |-> [agent |-> agents[i], key |-> -scores[agents[i]]]])
-----------------------------------------------------------------------------
(***************************************************************************)
(* RouteResolver.resolve(), in the steps that the lock leaves apart.       *)
(***************************************************************************)

\* rank_candidates() begins.
StartRanking(c) == [c EXCEPT !.stage = IF router.composite THEN "base" ELSE "list"]

\* resolve() begins; the receiver is looked up in the table.
Resolve_(message) ==
  /\ call.stage = "idle"
  /\ LET c == [Idle_ EXCEPT !.message = message, !.steady = Range(order),
                            !.reachable = HealthyOnes(Range(order), records)]
     IN  call' = IF message.receiver # {} /\ message.receiver \subseteq Range(order)
                   THEN [c EXCEPT !.stage = "receiver"]
                   ELSE StartRanking(c)
  /\ UNCHANGED <<router, order, records, counter>>

\* Mutant of Direct: the receiver is chosen whether it is healthy or not.
DirectAlways(record) == TRUE

\* if record.healthy
Direct(record) == record.healthy

\* get_agent() raises if the receiver has left; otherwise a healthy one is the result.
GetReceiver ==
  /\ call.stage = "receiver"
  /\ \E a \in call.message.receiver :
       call' = CASE a \notin Range(order) -> [call EXCEPT !.stage = "done", !.missing = TRUE]
                 [] a \in Range(order) /\ Direct(records[a]) ->
                      [call EXCEPT !.stage = "done", !.ranked = <<a>>]
                 [] OTHER -> StartRanking(call)
  /\ UNCHANGED <<router, order, records, counter>>

\* CompositeRouter takes the candidates that it may return.
ListBase ==
  /\ call.stage = "base"
  /\ call' = [call EXCEPT !.base = [i \in DOMAIN Listing |-> Listing[i].agent],
                          !.stage = IF Listing = <<>> THEN "done" ELSE "list"]
  /\ UNCHANGED <<router, order, records, counter>>

\* A part of the strategy takes its list.
List ==
  /\ call.stage = "list"
  /\ call' = [call EXCEPT !.listed = Listing, !.kept = <<>>, !.keyed = <<>>, !.stage = "rank"]
  /\ UNCHANGED <<router, order, records, counter>>

\* The filter looks at the next record.
ReadFilter ==
  /\ call.stage = "rank" /\ call.listed # <<>>
  /\ LET entry == Head(call.listed)
         passes == Passes(router.parts[call.part], call.message, Shown(entry))
     IN  call' = [call EXCEPT !.listed = Tail(@),
                              !.kept = IF passes THEN Append(@, entry) ELSE @]
  /\ UNCHANGED <<router, order, records, counter>>

\* The sort takes the key of the next record.
ReadKey ==
  /\ call.stage = "rank" /\ call.listed = <<>> /\ call.kept # <<>>
  /\ LET entry == Head(call.kept)
         key == Key(router.parts[call.part], entry.agent, Shown(entry))
     IN  call' = [call EXCEPT !.kept = Tail(@),
                              !.keyed = Append(@, [agent |-> entry.agent, key |-> key])]
  /\ UNCHANGED <<router, order, records, counter>>

\* A part of the strategy has its ranking: the result, or scores for the composite one.
EndPart ==
  LET part == router.parts[call.part]
      ranking == Ranking(part, call.keyed)
      scores == Scored(call.scores, ranking, router.weights[call.part])
  IN  /\ call.stage = "rank" /\ call.listed = <<>> /\ call.kept = <<>>
      /\ counter' = IF part.name = "round_robin" /\ ranking # <<>>
                      THEN (counter + 1) % Turns ELSE counter
      /\ call' = CASE ~router.composite ->
                        [call EXCEPT !.stage = "done", !.ranked = ranking]
                   [] router.composite /\ call.part < Len(router.parts) ->
                        [call EXCEPT !.stage = "list", !.part = @ + 1, !.scores = scores]
                   [] OTHER ->
                        [call EXCEPT !.stage = "done", !.ranked = ByScore(scores)]
      /\ UNCHANGED <<router, order, records>>

\* resolve() returns the first of the ranking as the primary agent.
Return ==
  /\ call.stage = "done"
  /\ call' = Idle_
  /\ UNCHANGED <<router, order, records, counter>>

RoutingNext ==
  \/ \E a \in MeshAgents :
       /\ call.changes < MaxChanges
       /\ \/ \E new \in NewRecords : RegisterAgent(a, new) \/ UpsertAgent(a, new)
          \/ DeregisterAgent(a)
          \/ \E u \in Updates : UpdateAgent(a, u)
  \/ \E message \in Messages : Resolve_(message)
  \/ GetReceiver \/ ListBase \/ List \/ ReadFilter \/ ReadKey \/ EndPart \/ Return

RoutingSpec == RoutingInit /\ [][RoutingNext]_routingVars
-----------------------------------------------------------------------------
\* Whatever updates are refused half way, registered records hold a valid cost and load.
RoutingTypeOK ==
  /\ IsInjective(order)
  /\ counter \in 0..(Turns - 1)
  /\ \A a \in Range(order) : CostOk(records[a].cost) /\ LoadOk(records[a].load)
  /\ \A a \in MeshAgents \ Range(order) : records[a] = Blank

\* An agent that nobody touched and that this part of the strategy accepts.
Accepts(part, a) ==
  /\ a \in call.steady
  /\ records[a].healthy
  /\ Passes(part, call.message, records[a])

\* Nobody registered, left or changed while the call went on.
Undisturbed == call.steady = Range(order) /\ call.reachable \subseteq call.steady

\* What resolve() answers is justified by the table during the call, however the table
\* changes under it: every agent named was healthy at some moment; a receiver that stays
\* healthy is the answer, and AgentNotFoundError means that it left; every acceptable agent
\* that stays untouched is named, in the order of the strategy's key and, of equals, of the
\* table; and a composite answer that nobody disturbed is not beaten in every part.
RouteJust ==
  call.stage = "done" =>
    LET ranked == call.ranked
        part == router.parts[1]
        healthySteady == HealthyOnes(call.steady, records)
        direct == call.message.receiver \intersect healthySteady # {}
        asked == call.missing \/ Range(ranked) = call.message.receiver
    IN  /\ Range(ranked) \subseteq call.reachable
        /\ IsInjective(ranked)
        /\ call.missing => call.message.receiver \intersect call.steady = {}
        /\ direct => Range(ranked) = call.message.receiver
        /\ asked \/ \A k \in DOMAIN router.parts : router.weights[k] > 0 =>
             {a \in MeshAgents : Accepts(router.parts[k], a)} \subseteq Range(ranked)
        /\ ~router.composite /\ part.name # "round_robin" =>
             \A i, j \in DOMAIN ranked :
               i < j /\ {ranked[i], ranked[j]} \subseteq call.steady =>
                 LET k1 == Key(part, ranked[i], records[ranked[i]])
                     k2 == Key(part, ranked[j], records[ranked[j]])
                 IN  \/ k1 < k2
                     \/ k1 = k2 /\ \E x, y \in DOMAIN order :
                                     x < y /\ order[x] = ranked[i] /\ order[y] = ranked[j]
        /\ router.composite /\ Undisturbed /\ ~asked /\ ranked # <<>> =>
             LET first == Head(ranked)
             IN  \A a \in healthySteady : \E k \in DOMAIN router.parts :
                   \/ router.weights[k] = 0
                   \/ router.parts[k].name = "round_robin"
                   \/ ~Accepts(router.parts[k], a)
                   \/ /\ Accepts(router.parts[k], first)
                      /\ Key(router.parts[k], a, records[a])
                           >= Key(router.parts[k], first, records[first])
=============================================================================
