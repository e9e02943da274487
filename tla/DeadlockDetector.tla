-------------------------- MODULE DeadlockDetector --------------------------
(***************************************************************************)
(* deadlock/detector.py: the DeadlockDetector.  The wait-for graph is kept *)
(* as adjacency sets for the search and as WaitEdge records for reporting. *)
(* detect() copies the graph under the lock and searches the copy after    *)
(* the lock is released.                                                   *)
(*                                                                         *)
(* Agents are numbers, as the search compares names.  Equal WaitEdge        *)
(* records are one.                                                        *)
(***************************************************************************)
EXTENDS Naturals, Sequences, SequencesExt

CONSTANTS
  Waiters,           \* agents: natural numbers, ordered as their names
  Resources,         \* resource ids
  MaxEdges,          \* bound: nobody starts to wait when there are so many records
  MaxCycleLengths    \* the values of max_cycle_length considered

\* __init__() refuses a max_cycle_length below 2.
ASSUME DetectorAssumption ==
  Waiters \subseteq Nat /\ MaxCycleLengths \subseteq Nat \ {0, 1}

VARIABLES
  max_cycle_length,  \* DeadlockDetector._max_cycle_length
  graph,             \* DeadlockDetector._graph: agent -> agents it waits for
  edges,             \* DeadlockDetector._edges
  detecting,         \* whether a detect() is searching
  snapshot           \* its graph_snapshot

detectorVars == <<max_cycle_length, graph, edges, detecting, snapshot>>

NoGraph == [a \in {} |-> {}]
-----------------------------------------------------------------------------
DetectorInit ==
  /\ max_cycle_length \in MaxCycleLengths
  /\ graph = NoGraph
  /\ edges = {}
  /\ detecting = FALSE
  /\ snapshot = NoGraph

AddWait(waiter, holder, resource) ==
  /\ waiter # holder
  /\ Cardinality(edges) < MaxEdges
  /\ graph' = [a \in DOMAIN graph \union {waiter, holder} |->
       (IF a \in DOMAIN graph THEN graph[a] ELSE {})
         \union (IF a = waiter THEN {holder} ELSE {})]
  /\ edges' = edges \union {[waiter |-> waiter, holder |-> holder, resource |-> resource]}
  /\ UNCHANGED <<max_cycle_length, detecting, snapshot>>

\* Mutant of EdgesWithout: only one of the pair's records is removed.
EdgesWithoutOne(waiter, holder) ==
  edges \ {CHOOSE e \in edges : e.waiter = waiter /\ e.holder = holder}

\* The records that remove_wait() keeps.
EdgesWithout(waiter, holder) == {e \in edges : ~(e.waiter = waiter /\ e.holder = holder)}

\* remove_wait(): the pair's wait is over, whatever resources it was about.
RemoveWait(waiter, holder) ==
  /\ waiter \in DOMAIN graph
  /\ holder \in graph[waiter]
  /\ graph' = [graph EXCEPT ![waiter] = @ \ {holder}]
  /\ edges' = EdgesWithout(waiter, holder)
  /\ UNCHANGED <<max_cycle_length, detecting, snapshot>>

ClearAgent(agent) ==
  /\ graph' = [a \in DOMAIN graph \ {agent} |-> graph[a] \ {agent}]
  /\ edges' = {e \in edges : e.waiter # agent /\ e.holder # agent}
  /\ UNCHANGED <<max_cycle_length, detecting, snapshot>>

Clear ==
  /\ graph' = NoGraph
  /\ edges' = {}
  /\ UNCHANGED <<max_cycle_length, detecting, snapshot>>
-----------------------------------------------------------------------------
\* Mutant of TooLong: the limit counts the repeated closing node as well.
TooLongClosed(path) == Len(path) + 1 > max_cycle_length

\* The test that abandons a path.
TooLong(path) == Len(path) > max_cycle_length

\* What _find_all_cycles() pushes when it pops these paths: each goes on to nodes that are
\* new to it and larger than the start.
Pushed(g, start, paths) ==
  UNION {{Append(path, next) : next \in {m \in g[Last(path)] :
            m \notin Range(path) /\ m > start}} :
         path \in {q \in paths : ~TooLong(q)}}

\* The paths that it pushes with "start" at the bottom of its stack, by length.
PathsFrom(g, start) ==
  LET paths[n \in 1..Cardinality(DOMAIN g)] ==
        IF n = 1 THEN {<<start>>} ELSE Pushed(g, start, paths[n - 1])
  IN  UNION {paths[n] : n \in DOMAIN paths}

\* The cycles that _find_all_cycles() yields, without the repeated closing node.
FindAllCycles(g) ==
  UNION {{path \in PathsFrom(g, start) :
            Len(path) >= 2 /\ ~TooLong(path) /\ start \in g[Last(path)]} :
         start \in DOMAIN g}

\* _canonical_cycle(): the rotation that begins with the least node.
CanonicalCycle(path) ==
  LET first == CHOOSE i \in DOMAIN path : \A j \in DOMAIN path : path[i] <= path[j]
  IN  [i \in DOMAIN path |-> path[((first + i - 2) % Len(path)) + 1]]

\* detect(), under the lock.
DetectBegin ==
  /\ ~detecting
  /\ detecting' = TRUE
  /\ snapshot' = graph
  /\ UNCHANGED <<max_cycle_length, graph, edges>>

\* The cycles that detect() returns.
Detected == {CanonicalCycle(path) : path \in FindAllCycles(snapshot)}

\* detect() returns, after a search without the lock.
DetectEnd ==
  /\ detecting
  /\ detecting' = FALSE
  /\ snapshot' = NoGraph
  /\ UNCHANGED <<max_cycle_length, graph, edges>>

DetectorNext ==
  \/ \E w, h \in Waiters : RemoveWait(w, h) \/ \E r \in Resources : AddWait(w, h, r)
  \/ \E a \in Waiters : ClearAgent(a)
  \/ Clear
  \/ DetectBegin
  \/ DetectEnd

DetectorSpec == DetectorInit /\ [][DetectorNext]_detectorVars
-----------------------------------------------------------------------------
\* The graph and its copy map agents to agents.
DetectorTypeOK ==
  /\ max_cycle_length \in MaxCycleLengths
  /\ DOMAIN graph \subseteq Waiters
  /\ edges \subseteq [waiter: Waiters, holder: Waiters, resource: Resources]
  /\ detecting \in BOOLEAN
  /\ DOMAIN snapshot \subseteq Waiters

\* The adjacency sets and the edge records describe the same waits, through every
\* order of additions, removals of a pair that waits for several resources, and
\* departures of agents; nobody waits for an agent that the graph does not know.
BooksAgree ==
  /\ {<<e.waiter, e.holder>> : e \in edges} =
       {w \in (DOMAIN graph) \X (DOMAIN graph) : w[2] \in graph[w[1]]}
  /\ \A a \in DOMAIN graph : graph[a] \subseteq DOMAIN graph \ {a}

\* The simple cycles of a graph, written from their least node.
SimpleCycles(g, bound) ==
  UNION {{c \in [1..n -> DOMAIN g] :
            /\ IsInjective(c)
            /\ \A i \in 1..n : c[(i % n) + 1] \in g[c[i]]
            /\ \A i \in 1..n : c[1] <= c[i]} : n \in 2..bound}

\* A set of agents each of which waits for another of the set.
Deadlocked(g) == \E s \in SUBSET DOMAIN g : s # {} /\ \A a \in s : g[a] \intersect s # {}

\* detect() reports every cycle of its snapshot up to max_cycle_length once and
\* nothing else; unless the limit hides it, a deadlock is reported exactly if some agents
\* really wait for each other.
DetectsExactly ==
  detecting =>
    /\ Detected = SimpleCycles(snapshot, max_cycle_length)
    /\ Cardinality(DOMAIN snapshot) <= max_cycle_length =>
         (Detected # {} <=> Deadlocked(snapshot))
=============================================================================
