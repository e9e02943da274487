------------------------- MODULE CoordinationProofs -------------------------
(***************************************************************************)
(* Proofs about the components through which agents work together:         *)
(* TopicManager, for every set of agents, patterns, topics and publishing  *)
(* threads and every way in which topics match patterns; DeadlockDetector, *)
(* for every set of agents and resources; AdaptiveThrottle, for every      *)
(* rate, capacity and pair of thresholds; Workflows, for every number of   *)
(* steps, every dependency graph and every quorum.  The four share         *)
(* nothing.                                                                *)
(***************************************************************************)
EXTENDS TopicManager, DeadlockDetector, AdaptiveThrottle, Workflows, FiniteLemmas

-----------------------------------------------------------------------------
(***************************************************************************)
(* The topic manager.                                                      *)
(***************************************************************************)

\* What is read after dict[key].add(item).
LEMMA LookupInsert ==
  ASSUME NEW dict, NEW key, NEW item, NEW k
  PROVE  Lookup(Insert(dict, key, item), k) =
           IF k = key THEN Lookup(dict, key) \union {item} ELSE Lookup(dict, k)
  BY DEF Lookup, Insert

\* What is read after dict[key].discard(item) for several keys, emptied keys included.
LEMMA LookupDiscard ==
  ASSUME NEW dict, NEW keys, NEW item, NEW k
  PROVE  Lookup(Discard(dict, keys, item), k) =
           IF k \in keys THEN Lookup(dict, k) \ {item} ELSE Lookup(dict, k)
  BY DEF Lookup, Discard

\* Neither operation leaves a key with an empty set.
LEMMA NoEmptySets ==
  ASSUME NEW dict, NEW keys, NEW key, NEW item, \A k \in DOMAIN dict : dict[k] # {}
  PROVE  /\ \A k \in DOMAIN Insert(dict, key, item) : Insert(dict, key, item)[k] # {}
         /\ \A k \in DOMAIN Discard(dict, keys, item) : Discard(dict, keys, item)[k] # {}
  BY DEF Insert, Discard, Lookup

\* A normalised pattern is a pattern.
LEMMA NormalizeType == ASSUME NEW p \in Patterns PROVE Normalize(p) \in Patterns
  BY TopicAssumption DEF Normalize

\* A change of the subscriptions keeps the history variables in their types.
LEMMA WitnessType ==
  ASSUME TopicTypeOK, Witness
  PROVE  /\ kept' \in [Publishers -> SUBSET (Agents \X Patterns)]
         /\ seen' \in [Publishers -> SUBSET Agents]
<1>1. \A t \in Publishers : Subscribed(t)' \subseteq Agents \X Patterns
  BY DEF Subscribed
<1>2. \A t \in Publishers : {s[1] : s \in Subscribed(t)'} \subseteq Agents
  BY <1>1
<1>3. QED BY <1>2 DEF TopicTypeOK, Witness

\* Every action keeps the registries and the calls in progress in their types.
LEMMA TopicTypeStep == TopicTypeOK /\ [TopicNext]_topicVars => TopicTypeOK'
<1> SUFFICES ASSUME TopicTypeOK, [TopicNext]_topicVars PROVE TopicTypeOK'
  OBVIOUS
<1>1. ASSUME NEW a \in Agents, NEW p \in Patterns, Subscribe(a, p) \/ Unsubscribe(a, p)
      PROVE  TopicTypeOK'
  <2> DEFINE np == Normalize(p)
             Good(sub, pat) ==
               /\ DOMAIN sub \subseteq Patterns
               /\ \A q \in DOMAIN sub : sub[q] \subseteq Agents
               /\ DOMAIN pat \subseteq Agents
               /\ \A b \in DOMAIN pat : pat[b] \subseteq Patterns
  <2>1. np \in Patterns
    BY NormalizeType
  <2>2. Good(Insert(subscriptions, np, a), Insert(agent_patterns, a, np))
    BY <2>1 DEF TopicTypeOK, Insert, Lookup
  <2>3. Good(Discard(subscriptions, {np}, a), Discard(agent_patterns, {a}, np))
    BY DEF TopicTypeOK, Discard
  <2>4. Good(subscriptions', agent_patterns')
    BY <1>1, <2>2, <2>3 DEF Subscribe, Unsubscribe
  <2>5. UNCHANGED <<case_sensitive, publishing>> /\ Witness
    BY <1>1 DEF Subscribe, Unsubscribe
  <2>6. QED BY <2>4, <2>5, WitnessType DEF TopicTypeOK
<1>2. ASSUME NEW a \in Agents, UnsubscribeAll(a) PROVE TopicTypeOK'
  <2>1. LET d == Discard(subscriptions, Lookup(agent_patterns, a), a)
        IN  DOMAIN d \subseteq Patterns /\ \A k \in DOMAIN d : d[k] \subseteq Agents
    BY DEF TopicTypeOK, Discard
  <2>2. QED BY <1>2, <2>1, WitnessType DEF TopicTypeOK, UnsubscribeAll
<1>3. ASSUME NEW t \in Publishers, NEW topic \in Topics, PublishBegin(t, topic)
      PROVE  TopicTypeOK'
  <2>1. Subscribed(t)' \in SUBSET (Agents \X Patterns)
    BY DEF Subscribed
  <2>2. {s[1] : s \in Subscribed(t)'} \in SUBSET Agents
    BY <2>1
  <2>3. QED BY <1>3, <2>1, <2>2 DEF TopicTypeOK, PublishBegin
<1>4. ASSUME NEW t \in Publishers, PublishPattern(t) PROVE TopicTypeOK'
  <2>1. PICK p \in publishing[t].patterns :
          publishing' = [publishing EXCEPT ![t].patterns = @ \ {p},
                                           ![t].matched = Collected(@, p)]
    BY <1>4 DEF PublishPattern
  <2>2. Lookup(subscriptions, p) \subseteq Agents
    BY DEF TopicTypeOK, Lookup
  <2>3. [publishing[t] EXCEPT !.patterns = @ \ {p}, !.matched = Collected(@, p)]
          \in [topic: Topics \union {"none"}, patterns: SUBSET Patterns, matched: SUBSET Agents]
    BY <2>2 DEF TopicTypeOK, Collected
  <2>4. publishing' = [publishing EXCEPT ![t] =
          [publishing[t] EXCEPT !.patterns = @ \ {p}, !.matched = Collected(@, p)]]
    BY <2>1 DEF TopicTypeOK
  <2>5. QED BY <1>4, <2>3, <2>4 DEF TopicTypeOK, PublishPattern
<1>5. ASSUME NEW t \in Publishers, PublishEnd(t) PROVE TopicTypeOK'
  BY <1>5 DEF TopicTypeOK, PublishEnd, Idle
<1>6. CASE UNCHANGED topicVars
  BY <1>6 DEF TopicTypeOK, topicVars
<1>7. QED BY <1>1, <1>2, <1>3, <1>4, <1>5, <1>6 DEF TopicNext

\* The registries and the calls in progress stay in their types.
THEOREM TopicTypeCorrect == TopicSpec => []TopicTypeOK
<1>1. TopicInit => TopicTypeOK
  BY DEF TopicInit, TopicTypeOK, Idle
<1>2. QED BY <1>1, TopicTypeStep, PTL DEF TopicSpec
-----------------------------------------------------------------------------
\* Every action keeps the two registries in agreement.
LEMMA MirrorsStep == TopicTypeOK /\ MirrorsAgree /\ [TopicNext]_topicVars => MirrorsAgree'
<1> SUFFICES ASSUME TopicTypeOK, MirrorsAgree, [TopicNext]_topicVars PROVE MirrorsAgree'
  OBVIOUS
<1>1. ASSUME NEW a \in Agents, NEW raw \in Patterns, Subscribe(a, raw) PROVE MirrorsAgree'
  <2> DEFINE p == Normalize(raw)
  <2>1. /\ subscriptions' = Insert(subscriptions, p, a)
        /\ agent_patterns' = Insert(agent_patterns, a, p)
    BY <1>1 DEF Subscribe
  <2>2. ASSUME NEW b \in Agents, NEW q \in Patterns
        PROVE  b \in Lookup(subscriptions', q) <=> q \in Lookup(agent_patterns', b)
    BY <2>1, LookupInsert DEF MirrorsAgree
  <2>3. QED BY <2>1, <2>2, NoEmptySets DEF MirrorsAgree, Lookup
<1>2. ASSUME NEW a \in Agents, NEW raw \in Patterns, Unsubscribe(a, raw) PROVE MirrorsAgree'
  <2> DEFINE p == Normalize(raw)
  <2>1. /\ subscriptions' = Discard(subscriptions, {p}, a)
        /\ agent_patterns' = Discard(agent_patterns, {a}, p)
    BY <1>2 DEF Unsubscribe
  <2>2. ASSUME NEW b \in Agents, NEW q \in Patterns
        PROVE  b \in Lookup(subscriptions', q) <=> q \in Lookup(agent_patterns', b)
    BY <2>1, LookupDiscard DEF MirrorsAgree
  <2>3. QED BY <2>1, <2>2, NoEmptySets DEF MirrorsAgree, Lookup
<1>3. ASSUME NEW a \in Agents, UnsubscribeAll(a) PROVE MirrorsAgree'
  <2>1. /\ subscriptions' = Discard(subscriptions, Lookup(agent_patterns, a), a)
        /\ agent_patterns' = [b \in DOMAIN agent_patterns \ {a} |-> agent_patterns[b]]
    BY <1>3 DEF UnsubscribeAll
  <2>2. \A b : Lookup(agent_patterns', b) = IF b = a THEN {} ELSE Lookup(agent_patterns, b)
    BY <2>1 DEF Lookup
  <2>3. ASSUME NEW b \in Agents, NEW q \in Patterns
        PROVE  b \in Lookup(subscriptions', q) <=> q \in Lookup(agent_patterns', b)
    <3>1. Lookup(subscriptions', q) =
            IF q \in Lookup(agent_patterns, a) THEN Lookup(subscriptions, q) \ {a}
                                               ELSE Lookup(subscriptions, q)
      BY <2>1, LookupDiscard
    <3>2. \A c \in Agents :
            c \in Lookup(subscriptions, q) <=> q \in Lookup(agent_patterns, c)
      BY DEF MirrorsAgree
    <3>3. QED BY <2>2, <3>1, <3>2
  <2>4. \A q \in DOMAIN subscriptions' : subscriptions'[q] # {}
    BY <2>1, NoEmptySets DEF MirrorsAgree
  <2>5. \A b \in DOMAIN agent_patterns' : agent_patterns'[b] # {}
    BY <2>1 DEF MirrorsAgree
  <2>6. QED BY <2>3, <2>4, <2>5 DEF MirrorsAgree, Lookup
<1>4. CASE UNCHANGED <<subscriptions, agent_patterns>>
  BY <1>4 DEF MirrorsAgree, Lookup
<1>5. QED
  BY <1>1, <1>2, <1>3, <1>4
  DEF TopicNext, PublishBegin, PublishPattern, PublishEnd, topicVars

\* The registry by pattern and the registry by agent always tell the same.
THEOREM MirrorsCorrect == TopicSpec => []MirrorsAgree
<1>1. TopicInit => MirrorsAgree
  BY DEF TopicInit, MirrorsAgree, Lookup
<1>2. QED BY <1>1, MirrorsStep, TopicTypeCorrect, PTL DEF TopicSpec
-----------------------------------------------------------------------------
\* What a publish() in progress has collected and has still to do: the patterns left
\* match its topic, whoever matches now was seen, and a subscription held since it began
\* belongs to a pattern that is left or to an agent that was collected.
Collecting(t) ==
  t \in Active =>
    /\ publishing[t].patterns \subseteq Matches(publishing[t].topic)
    /\ publishing[t].matched \subseteq seen[t]
    /\ \A s \in Subscribed(t) : s[1] \in seen[t]
    /\ \A s \in kept[t] : /\ s \in Subscribed(t)
                          /\ s[2] \in publishing[t].patterns \/ s[1] \in publishing[t].matched

\* Whatever subscriptions change, the calls in progress keep collecting.
LEMMA CollectingWitness ==
  ASSUME TopicTypeOK, NEW t \in Publishers, Collecting(t), Witness,
         UNCHANGED <<case_sensitive, publishing>>
  PROVE  Collecting(t)'
<1> SUFFICES ASSUME t \in Active PROVE Collecting(t)'
  BY DEF Collecting, Active
<1>1. kept'[t] = kept[t] \intersect Subscribed(t)'
  BY DEF Witness
<1>2. seen'[t] = seen[t] \union {s[1] : s \in Subscribed(t)'}
  BY DEF Witness
<1>3. Matches(publishing[t].topic)' = Matches(publishing[t].topic)
  BY DEF Matches, Normalize
<1>4. QED BY <1>1, <1>2, <1>3 DEF Collecting, Active

\* Every action keeps every call collecting.
LEMMA CollectingStep ==
  ASSUME TopicTypeOK, NEW t \in Publishers, Collecting(t), [TopicNext]_topicVars
  PROVE  Collecting(t)'
<1>1. CASE Witness /\ UNCHANGED <<case_sensitive, publishing>>
  BY <1>1, CollectingWitness
<1>2. ASSUME UNCHANGED <<case_sensitive, subscriptions>>, publishing'[t] = publishing[t],
             kept'[t] = kept[t], seen'[t] = seen[t]
      PROVE  Collecting(t)'
  <2>1. Subscribed(t)' = Subscribed(t)
    BY <1>2 DEF Subscribed, Matches, Normalize, Lookup
  <2>2. Matches(publishing[t].topic)' = Matches(publishing[t].topic)
    BY <1>2 DEF Matches, Normalize
  <2>3. QED BY <1>2, <2>1, <2>2 DEF Collecting, Active
<1>3. ASSUME NEW topic \in Topics, PublishBegin(t, topic) PROVE Collecting(t)'
  <2>1. /\ publishing'[t] = [topic |-> topic, matched |-> {},
                             patterns |-> DOMAIN subscriptions \intersect Matches(topic)]
        /\ kept'[t] = Subscribed(t)'
        /\ seen'[t] = {s[1] : s \in Subscribed(t)'}
        /\ UNCHANGED <<case_sensitive, subscriptions>>
    BY <1>3 DEF PublishBegin, TopicTypeOK
  <2>2. Matches(topic)' = Matches(topic)
    BY <2>1 DEF Matches, Normalize
  <2>3. \A s \in Subscribed(t)' : s[2] \in Matches(topic) /\ s[2] \in DOMAIN subscriptions
    BY <2>1, <2>2 DEF Subscribed, Lookup
  <2>4. QED BY <2>1, <2>2, <2>3 DEF Collecting
<1>4. CASE PublishPattern(t)
  <2>1. PICK p \in publishing[t].patterns :
          publishing' = [publishing EXCEPT ![t].patterns = @ \ {p},
                                           ![t].matched = Collected(@, p)]
    BY <1>4 DEF PublishPattern
  <2>2. /\ publishing'[t].topic = publishing[t].topic
        /\ publishing'[t].patterns = publishing[t].patterns \ {p}
        /\ publishing'[t].matched = publishing[t].matched \union Lookup(subscriptions, p)
    BY <2>1 DEF TopicTypeOK, Collected
  <2>3. UNCHANGED <<case_sensitive, subscriptions, kept, seen>>
    BY <1>4 DEF PublishPattern
  <2>4. t \in Active
    BY <2>1 DEF Active, Idle
  <2>5. Subscribed(t)' = Subscribed(t)
    BY <2>2, <2>3 DEF Subscribed, Matches, Normalize, Lookup
  <2>6. Matches(publishing[t].topic)' = Matches(publishing[t].topic)
    BY <2>2, <2>3 DEF Matches, Normalize
  <2>7. Lookup(subscriptions, p) \subseteq seen[t]
    <3>1. SUFFICES ASSUME NEW a \in Lookup(subscriptions, p) PROVE a \in seen[t]
      OBVIOUS
    <3>2. a \in Agents /\ p \in Patterns
      BY DEF TopicTypeOK, Lookup
    <3>3. <<a, p>> \in Subscribed(t)
      BY <2>4, <3>2 DEF Subscribed, Collecting
    <3>4. QED BY <2>4, <3>3 DEF Collecting
  <2>8. ASSUME NEW s \in kept[t]
        PROVE  s[2] \in publishing'[t].patterns \/ s[1] \in publishing'[t].matched
    BY <2>2, <2>4 DEF Collecting, Subscribed
  <2>9. QED BY <2>2, <2>3, <2>4, <2>5, <2>6, <2>7, <2>8 DEF Collecting
<1>5. CASE PublishEnd(t)
  BY <1>5 DEF PublishEnd, TopicTypeOK, Collecting, Active
<1>6. ASSUME NEW u \in Publishers, u # t,
             PublishPattern(u) \/ PublishEnd(u) \/ \E topic \in Topics : PublishBegin(u, topic)
      PROVE  Collecting(t)'
  BY <1>2, <1>6 DEF TopicTypeOK, PublishPattern, PublishEnd, PublishBegin
<1>7. CASE UNCHANGED topicVars
  BY <1>2, <1>7 DEF topicVars
<1>8. QED
  BY <1>1, <1>3, <1>4, <1>5, <1>6, <1>7
  DEF TopicNext, Subscribe, Unsubscribe, UnsubscribeAll

\* publish() returns everyone who held a matching subscription throughout the call and
\* nobody who had none at any moment of it, for any number of threads that change
\* subscriptions and publish meanwhile.
THEOREM SteadyCorrect == TopicSpec => []SteadyAreNotified
<1> DEFINE AllCollecting == \A t \in Publishers : Collecting(t)
<1>1. TopicInit => AllCollecting
  BY DEF TopicInit, Collecting, Active
<1>2. TopicTypeOK /\ AllCollecting /\ [TopicNext]_topicVars => AllCollecting'
  BY CollectingStep
<1>3. AllCollecting => SteadyAreNotified
  BY DEF Collecting, SteadyAreNotified, Active
<1> HIDE DEF AllCollecting
<1>4. QED BY <1>1, <1>2, <1>3, TopicTypeCorrect, PTL DEF TopicSpec
-----------------------------------------------------------------------------
(***************************************************************************)
(* The deadlock detector: the graph that is searched and the records that  *)
(* are reported never drift apart.                                         *)
(***************************************************************************)

\* Every action keeps the graph, the records and the copy in their types.
LEMMA DetectorTypeStep == DetectorTypeOK /\ [DetectorNext]_detectorVars => DetectorTypeOK'
<1> SUFFICES ASSUME DetectorTypeOK, [DetectorNext]_detectorVars PROVE DetectorTypeOK'
  OBVIOUS
<1> USE DEF DetectorTypeOK
<1>1. ASSUME NEW w \in Waiters, NEW h \in Waiters, NEW r \in Resources, AddWait(w, h, r)
      PROVE  DetectorTypeOK'
  BY <1>1 DEF AddWait
<1>2. ASSUME NEW w \in Waiters, NEW h \in Waiters, RemoveWait(w, h) PROVE DetectorTypeOK'
  BY <1>2 DEF RemoveWait, EdgesWithout
<1>3. ASSUME NEW a \in Waiters, ClearAgent(a) PROVE DetectorTypeOK'
  BY <1>3 DEF ClearAgent
<1>4. CASE Clear
  BY <1>4 DEF Clear, NoGraph
<1>5. CASE DetectBegin \/ DetectEnd
  BY <1>5 DEF DetectBegin, DetectEnd, NoGraph
<1>6. CASE UNCHANGED detectorVars
  BY <1>6 DEF detectorVars
<1>7. QED BY <1>1, <1>2, <1>3, <1>4, <1>5, <1>6 DEF DetectorNext

\* The graph, the records and the copy stay in their types.
THEOREM DetectorTypeCorrect == DetectorSpec => []DetectorTypeOK
<1>1. DetectorInit => DetectorTypeOK
  BY DEF DetectorInit, DetectorTypeOK, NoGraph
<1>2. QED BY <1>1, DetectorTypeStep, PTL DEF DetectorSpec
-----------------------------------------------------------------------------
\* The pair is in the graph.
InGraph(w, h) == w \in DOMAIN graph /\ h \in graph[w]

\* The pair has a record.
RecordedWait(w, h) == \E e \in edges : e.waiter = w /\ e.holder = h

\* The books agree, pair by pair, and the graph knows everybody that is waited for.
PairsAgree ==
  /\ \A w, h : RecordedWait(w, h) <=> InGraph(w, h)
  /\ \A a \in DOMAIN graph : graph[a] \subseteq DOMAIN graph \ {a}

\* A new wait is entered in both books.
LEMMA AddWaitAgrees ==
  ASSUME PairsAgree, NEW w \in Waiters, NEW h \in Waiters, NEW r \in Resources,
         AddWait(w, h, r)
  PROVE  PairsAgree'
<1>1. ASSUME NEW v, NEW g
      PROVE  InGraph(v, g)' <=> InGraph(v, g) \/ (v = w /\ g = h)
  BY DEF AddWait, InGraph
<1>2. ASSUME NEW v, NEW g
      PROVE  RecordedWait(v, g)' <=> RecordedWait(v, g) \/ (v = w /\ g = h)
  <2> DEFINE new == [waiter |-> w, holder |-> h, resource |-> r]
  <2>1. edges' = edges \union {new}
    BY DEF AddWait
  <2>2. new.waiter = w /\ new.holder = h
    OBVIOUS
  <2> HIDE DEF new
  <2>3. RecordedWait(v, g)' <=> \E e \in edges \union {new} : e.waiter = v /\ e.holder = g
    BY <2>1 DEF RecordedWait
  <2>4. QED BY <2>2, <2>3 DEF RecordedWait
<1>3. \A a \in DOMAIN graph' : graph'[a] \subseteq DOMAIN graph' \ {a}
  BY DEF AddWait, PairsAgree
<1>4. QED BY <1>1, <1>2, <1>3 DEF PairsAgree

\* A wait that is over leaves both books, with all the records of its pair.
LEMMA RemoveWaitAgrees ==
  ASSUME PairsAgree, NEW w \in Waiters, NEW h \in Waiters, RemoveWait(w, h)
  PROVE  PairsAgree'
<1>1. ASSUME NEW v, NEW g
      PROVE  InGraph(v, g)' <=> InGraph(v, g) /\ ~(v = w /\ g = h)
  BY DEF RemoveWait, InGraph
<1>2. ASSUME NEW v, NEW g
      PROVE  RecordedWait(v, g)' <=> RecordedWait(v, g) /\ ~(v = w /\ g = h)
  BY DEF RemoveWait, EdgesWithout, RecordedWait
<1>3. \A a \in DOMAIN graph' : graph'[a] \subseteq DOMAIN graph' \ {a}
  BY DEF RemoveWait, PairsAgree
<1>4. QED BY <1>1, <1>2, <1>3 DEF PairsAgree

\* An agent that leaves takes its waits, and the waits for it, out of both books.
LEMMA ClearAgentAgrees ==
  ASSUME PairsAgree, NEW a \in Waiters, ClearAgent(a)
  PROVE  PairsAgree'
<1>1. ASSUME NEW v, NEW g
      PROVE  InGraph(v, g)' <=> InGraph(v, g) /\ v # a /\ g # a
  BY DEF ClearAgent, InGraph
<1>2. ASSUME NEW v, NEW g
      PROVE  RecordedWait(v, g)' <=> RecordedWait(v, g) /\ v # a /\ g # a
  BY DEF ClearAgent, RecordedWait
<1>3. \A b \in DOMAIN graph' : graph'[b] \subseteq DOMAIN graph' \ {b}
  BY DEF ClearAgent, PairsAgree
<1>4. QED BY <1>1, <1>2, <1>3 DEF PairsAgree

\* Every action keeps the pairs in agreement.
LEMMA PairsStep == PairsAgree /\ [DetectorNext]_detectorVars => PairsAgree'
<1> SUFFICES ASSUME PairsAgree, [DetectorNext]_detectorVars PROVE PairsAgree'
  OBVIOUS
<1>1. CASE Clear
  BY <1>1 DEF Clear, NoGraph, PairsAgree, InGraph, RecordedWait
<1>2. CASE UNCHANGED <<graph, edges>>
  BY <1>2 DEF PairsAgree, InGraph, RecordedWait
<1>3. QED
  BY <1>1, <1>2, AddWaitAgrees, RemoveWaitAgrees, ClearAgentAgrees
  DEF DetectorNext, DetectBegin, DetectEnd, detectorVars

\* The pairs of the records are the pairs of the graph.
LEMMA PairsGiveBooks == PairsAgree => BooksAgree
<1> SUFFICES ASSUME PairsAgree PROVE BooksAgree
  OBVIOUS
<1> DEFINE Records == {<<e.waiter, e.holder>> : e \in edges}
           Waits == {w \in (DOMAIN graph) \X (DOMAIN graph) : w[2] \in graph[w[1]]}
<1>1. Records \subseteq Waits
  <2>1. SUFFICES ASSUME NEW e \in edges PROVE <<e.waiter, e.holder>> \in Waits
    OBVIOUS
  <2>2. InGraph(e.waiter, e.holder)
    BY DEF PairsAgree, RecordedWait
  <2>3. QED BY <2>2 DEF InGraph, PairsAgree
<1>2. Waits \subseteq Records
  <2>1. SUFFICES ASSUME NEW w \in Waits PROVE w \in Records
    OBVIOUS
  <2>2. RecordedWait(w[1], w[2])
    BY DEF InGraph, PairsAgree
  <2>3. PICK e \in edges : e.waiter = w[1] /\ e.holder = w[2]
    BY <2>2 DEF RecordedWait
  <2>4. w = <<e.waiter, e.holder>>
    BY <2>3
  <2>5. QED BY <2>4
<1>3. QED BY <1>1, <1>2 DEF BooksAgree, PairsAgree

\* The adjacency sets that detect() searches and the records that it reports from
\* describe the same waits, after any sequence of additions, removals and departures.
THEOREM BooksCorrect == DetectorSpec => []BooksAgree
<1>1. DetectorInit => PairsAgree
  BY DEF DetectorInit, NoGraph, PairsAgree, InGraph, RecordedWait
<1>2. QED BY <1>1, PairsStep, PairsGiveBooks, PTL DEF DetectorSpec
-----------------------------------------------------------------------------
(***************************************************************************)
(* The search of detect().  The paths it pushes, by length, are the simple *)
(* paths upwards from the start, so it yields the simple cycles from their *)
(* least node.  Agents that wait for each other give such a cycle: follow  *)
(* the waits until an agent comes again, and take the shortest return.     *)
(***************************************************************************)

\* What detect() can find in a graph: numbered agents, each of which waits for others.
WaitGraph(g) ==
  /\ DOMAIN g \subseteq Nat /\ IsFiniteSet(DOMAIN g)
  /\ \A a \in DOMAIN g : g[a] \subseteq DOMAIN g \ {a}

\* A path of n nodes that the search can push: it begins with start, follows the waits,
\* and has no node twice and none below start; without its last node it is short enough.
SearchPaths(g, start, n) ==
  {p \in [1..n -> DOMAIN g] :
     /\ p[1] = start
     /\ IsInjective(p)
     /\ \A i \in 1..(n - 1) : p[i + 1] \in g[p[i]]
     /\ \A i \in 1..n : start <= p[i]
     /\ n - 1 <= max_cycle_length}

\* The search begins with the path of its start.
LEMMA FirstPath ==
  ASSUME NEW g, NEW start \in DOMAIN g, WaitGraph(g), max_cycle_length \in Nat
  PROVE  SearchPaths(g, start, 1) = {<<start>>}
<1>1. start \in Nat
  BY DEF WaitGraph
<1>2. <<start>> \in SearchPaths(g, start, 1)
  BY <1>1 DEF SearchPaths, IsInjective
<1>3. ASSUME NEW p \in SearchPaths(g, start, 1) PROVE p = <<start>>
  BY <1>3 DEF SearchPaths
<1>4. QED BY <1>2, <1>3

\* What is pushed after the paths of n nodes are the paths of n + 1 nodes.
LEMMA NextPaths ==
  ASSUME NEW g, NEW start \in DOMAIN g, WaitGraph(g), max_cycle_length \in Nat,
         NEW n \in Nat \ {0}
  PROVE  Pushed(g, start, SearchPaths(g, start, n)) = SearchPaths(g, start, n + 1)
<1>0. start \in Nat /\ \A a \in DOMAIN g : a \in Nat /\ g[a] \subseteq DOMAIN g
  BY DEF WaitGraph
<1>1. ASSUME NEW path \in SearchPaths(g, start, n), ~TooLong(path),
             NEW next \in g[Last(path)], next \notin Range(path), next > start
      PROVE  Append(path, next) \in SearchPaths(g, start, n + 1)
  <2>1. /\ path \in [1..n -> DOMAIN g] /\ path[1] = start /\ IsInjective(path)
        /\ \A i \in 1..(n - 1) : path[i + 1] \in g[path[i]]
        /\ \A i \in 1..n : start <= path[i]
    BY DEF SearchPaths
  <2>2. path \in Seq(DOMAIN g) /\ Len(path) = n /\ Last(path) = path[n]
    BY <2>1 DEF Last
  <2>3. next \in DOMAIN g /\ next \in g[path[n]] /\ n <= max_cycle_length
    BY <1>0, <1>1, <2>1, <2>2 DEF TooLong
  <2>4. PICK p : p = Append(path, next)
    OBVIOUS
  <2>5. /\ p \in [1..(n + 1) -> DOMAIN g] /\ p[n + 1] = next
        /\ \A i \in 1..n : p[i] = path[i]
    <3>1. p \in Seq(DOMAIN g) /\ Len(p) = n + 1
      BY <2>2, <2>3, <2>4
    <3>2. p[n + 1] = next /\ \A i \in 1..n : p[i] = path[i]
      BY <2>2, <2>3, <2>4
    <3>3. QED BY <3>1, <3>2
  <2>6. \A i \in 1..n : path[i] # next
    BY <1>1, <2>1 DEF Range
  <2>7. IsInjective(p)
    <3>1. \A i, j \in 1..n : path[i] = path[j] => i = j
      BY <2>1 DEF IsInjective
    <3>2. \A i, j \in 1..(n + 1) : p[i] = p[j] => i = j
      BY <2>5, <2>6, <3>1
    <3>3. QED BY <2>5, <3>2 DEF IsInjective
  <2>8. ASSUME NEW i \in 1..n PROVE p[i + 1] \in g[p[i]]
    <3>1. CASE i = n
      BY <2>3, <2>5, <3>1
    <3>2. CASE i # n
      <4>1. i \in 1..(n - 1) /\ i + 1 \in 1..n
        BY <3>2
      <4>2. QED BY <2>1, <2>5, <4>1
    <3>3. QED BY <3>1, <3>2
  <2>9. p[1] = start /\ \A i \in 1..(n + 1) : start <= p[i]
    <3>1. next \in Nat /\ start <= next
      BY <1>0, <1>1, <2>3
    <3>2. QED BY <2>1, <2>5, <3>1
  <2>10. n + 1 - 1 = n
    OBVIOUS
  <2>11. p \in SearchPaths(g, start, n + 1)
    BY <2>3, <2>5, <2>7, <2>8, <2>9, <2>10 DEF SearchPaths
  <2>12. QED BY <2>4, <2>11
<1>2. ASSUME NEW p \in SearchPaths(g, start, n + 1)
      PROVE  \E path \in SearchPaths(g, start, n) : \E next \in g[Last(path)] :
               ~TooLong(path) /\ p = Append(path, next) /\ next \notin Range(path) /\ next > start
  <2>1. /\ p \in [1..(n + 1) -> DOMAIN g] /\ p[1] = start /\ IsInjective(p)
        /\ \A i \in 1..(n + 1 - 1) : p[i + 1] \in g[p[i]]
        /\ \A i \in 1..(n + 1) : start <= p[i]
        /\ n + 1 - 1 <= max_cycle_length
    BY DEF SearchPaths
  <2>2. n <= max_cycle_length /\ \A i \in 1..n : p[i + 1] \in g[p[i]]
    BY <2>1
  <2>3. \A i, j \in 1..(n + 1) : p[i] = p[j] => i = j
    BY <2>1 DEF IsInjective
  <2>4. PICK q \in [1..n -> DOMAIN g] : \A i \in 1..n : q[i] = p[i]
    <3>1. [i \in 1..n |-> p[i]] \in [1..n -> DOMAIN g]
      BY <2>1
    <3>2. QED BY <3>1
  <2>5. q \in Seq(DOMAIN g) /\ Len(q) = n /\ Last(q) = p[n]
    BY <2>4 DEF Last
  <2>6. Append(q, p[n + 1]) = p
    <3>1. p \in Seq(DOMAIN g) /\ Len(p) = n + 1 /\ p[n + 1] \in DOMAIN g
      BY <2>1
    <3>2. PICK r \in Seq(DOMAIN g) : r = Append(q, p[n + 1])
      <4>1. Append(q, p[n + 1]) \in Seq(DOMAIN g)
        BY <2>5, <3>1
      <4>2. QED BY <4>1, Zenon
    <3>3. Len(r) = n + 1 /\ r[n + 1] = p[n + 1] /\ \A i \in 1..n : r[i] = q[i]
      BY <2>5, <3>1, <3>2
    <3>4. \A i \in 1..(n + 1) : r[i] = p[i]
      BY <2>4, <3>3
    <3>5. r = p
      BY <3>1, <3>3, <3>4
    <3>6. QED BY <3>2, <3>5
  <2>7. p[n + 1] \notin Range(q)
    BY <2>3, <2>4 DEF Range
  <2>8. p[n + 1] > start
    <3>1. p[n + 1] # p[1] /\ start <= p[n + 1] /\ p[n + 1] \in Nat
      BY <1>0, <2>1, <2>3
    <3>2. QED BY <1>0, <2>1, <3>1
  <2>9. p[n + 1] \in g[Last(q)]
    BY <2>2, <2>5
  <2>10. q \in SearchPaths(g, start, n)
    <3>1. IsInjective(q)
      BY <2>3, <2>4 DEF IsInjective
    <3>2. \A i \in 1..(n - 1) : q[i + 1] \in g[q[i]]
      BY <2>2, <2>4
    <3>3. q[1] = start /\ \A i \in 1..n : start <= q[i]
      BY <2>1, <2>4
    <3>4. n - 1 <= max_cycle_length
      BY <2>2
    <3>5. QED BY <3>1, <3>2, <3>3, <3>4 DEF SearchPaths
  <2>11. ~TooLong(q)
    BY <2>2, <2>5 DEF TooLong
  <2>12. QED BY <2>6, <2>7, <2>8, <2>9, <2>10, <2>11
<1>3. PICK P : P = SearchPaths(g, start, n)
  OBVIOUS
<1>4. \A p : p \in Pushed(g, start, P) <=>
        \E path \in P : \E next \in g[Last(path)] :
          ~TooLong(path) /\ p = Append(path, next) /\ next \notin Range(path) /\ next > start
  BY DEF Pushed
<1>5. ASSUME NEW p \in Pushed(g, start, P) PROVE p \in SearchPaths(g, start, n + 1)
  <2>1. PICK path \in P : \E next \in g[Last(path)] :
          ~TooLong(path) /\ p = Append(path, next) /\ next \notin Range(path) /\ next > start
    BY <1>4
  <2>2. QED BY <1>1, <1>3, <2>1
<1>6. ASSUME NEW p \in SearchPaths(g, start, n + 1) PROVE p \in Pushed(g, start, P)
  BY <1>2, <1>3, <1>4
<1>7. Pushed(g, start, P) = SearchPaths(g, start, n + 1)
  BY <1>5, <1>6
<1>8. QED BY <1>3, <1>7

\* The paths of the search, by length, are what their recursive definition says.
LEMMA PathsAre ==
  ASSUME NEW g, NEW start \in DOMAIN g, WaitGraph(g), max_cycle_length \in Nat
  PROVE  PathsFrom(g, start) =
           UNION {SearchPaths(g, start, n) : n \in 1..Cardinality(DOMAIN g)}
<1>1. PICK Size \in Nat : Size = Cardinality(DOMAIN g)
  BY FS_CardinalityType DEF WaitGraph
<1> DEFINE Fix(f) == f = [n \in 1..Size |-> IF n = 1 THEN {<<start>>}
                                         ELSE Pushed(g, start, f[n - 1])]
           Paths == CHOOSE f : Fix(f)
           S == [n \in 1..Size |-> SearchPaths(g, start, n)]
<1>2. PathsFrom(g, start) = UNION {Paths[n] : n \in DOMAIN Paths}
  BY <1>1 DEF PathsFrom
<1>3. ASSUME NEW n \in 1..Size
      PROVE  S[n] = IF n = 1 THEN {<<start>>} ELSE Pushed(g, start, S[n - 1])
  <2>1. CASE n = 1
    BY <2>1, FirstPath
  <2>2. CASE n # 1
    <3>1. n - 1 \in 1..Size /\ n - 1 \in Nat \ {0} /\ n - 1 + 1 = n
      BY <2>2
    <3>2. Pushed(g, start, SearchPaths(g, start, n - 1)) = SearchPaths(g, start, n - 1 + 1)
      BY <3>1, NextPaths
    <3>3. QED BY <2>2, <3>1, <3>2
  <2>3. QED BY <2>1, <2>2
<1>4. Fix(S)
  <2> HIDE DEF S
  <2>1. DOMAIN S = 1..Size /\ S = [n \in 1..Size |-> S[n]]
    BY DEF S
  <2>2. QED BY <1>3, <2>1
<1>5. Fix(Paths)
  <2> HIDE DEF Fix, S
  <2> QED BY <1>4 DEF Paths
<1>6. DOMAIN Paths = 1..Size /\ \A n \in 1..Size :
        Paths[n] = IF n = 1 THEN {<<start>>} ELSE Pushed(g, start, Paths[n - 1])
  <2> HIDE DEF Paths
  <2> QED BY <1>5
<1> HIDE DEF Paths, Fix
<1> DEFINE T == {m \in 0..Size : m = 0 \/ Paths[m] = S[m]}
<1>7. 0 \in T
  OBVIOUS
<1>8. ASSUME NEW m \in 1..Size, m - 1 \in T PROVE m \in T
  <2> HIDE DEF S
  <2>1. CASE m = 1
    <3>1. Paths[1] = {<<start>>} /\ S[1] = {<<start>>}
      BY <1>3, <1>6, <2>1
    <3>2. Paths[m] = S[m]
      BY <2>1, <3>1
    <3>3. QED BY <3>2
  <2>2. CASE m # 1
    <3>1. Paths[m - 1] = S[m - 1]
      BY <1>8, <2>2
    <3>2. Paths[m] = S[m]
      BY <1>3, <1>6, <2>2, <3>1
    <3>3. QED BY <3>2
  <2>3. QED BY <2>1, <2>2
<1>9. 0..Size \subseteq T
  <2> HIDE DEF T
  <2> QED BY <1>7, <1>8, Induction
<1>10. \A n \in 1..Size : Paths[n] = SearchPaths(g, start, n)
  <2>1. SUFFICES ASSUME NEW n \in 1..Size PROVE Paths[n] = SearchPaths(g, start, n)
    OBVIOUS
  <2>2. n \in T
    <3> HIDE DEF T
    <3> QED BY <1>9
  <2>3. Paths[n] = S[n]
    BY <2>2
  <2>4. QED BY <2>3
<1>11. QED BY <1>1, <1>2, <1>6, <1>10

\* The nodes that follow each other on a closed path.
LEMMA AfterNode ==
  ASSUME NEW n \in Nat \ {0}, NEW i \in 1..n
  PROVE  (i % n) + 1 = IF i = n THEN 1 ELSE i + 1
OBVIOUS

\* The cycles that the search yields are the simple cycles up to max_cycle_length.
LEMMA CyclesFound ==
  ASSUME NEW g, WaitGraph(g), max_cycle_length \in Nat
  PROVE  FindAllCycles(g) = SimpleCycles(g, max_cycle_length)
<1>0. PICK M \in Nat : M = max_cycle_length
  OBVIOUS
<1>1. PICK Size \in Nat : Size = Cardinality(DOMAIN g)
  BY FS_CardinalityType DEF WaitGraph
<1>2. ASSUME NEW path \in FindAllCycles(g) PROVE path \in SimpleCycles(g, M)
  <2>1. PICK start \in DOMAIN g : /\ path \in PathsFrom(g, start)
                                  /\ Len(path) >= 2 /\ ~TooLong(path)
                                  /\ start \in g[Last(path)]
    BY DEF FindAllCycles
  <2>2. PICK n \in 1..Size : path \in SearchPaths(g, start, n)
    <3>1. path \in UNION {SearchPaths(g, start, n) : n \in 1..Cardinality(DOMAIN g)}
      BY <1>0, <2>1, PathsAre
    <3>2. QED BY <1>1, <3>1
  <2>3. /\ path \in [1..n -> DOMAIN g] /\ path[1] = start /\ IsInjective(path)
        /\ \A i \in 1..(n - 1) : path[i + 1] \in g[path[i]]
        /\ \A i \in 1..n : start <= path[i]
    BY <2>2 DEF SearchPaths
  <2>4. path \in Seq(DOMAIN g) /\ Len(path) = n
    BY <2>3
  <2>5. n \in 2..M /\ start \in g[path[n]]
    BY <1>0, <2>1, <2>4 DEF TooLong, Last
  <2>6. ASSUME NEW i \in 1..n PROVE path[(i % n) + 1] \in g[path[i]]
    <3>1. CASE i = n
      <4>1. n \in Nat \ {0}
        OBVIOUS
      <4>2. (i % n) + 1 = 1
        BY <3>1, <4>1, AfterNode
      <4>3. QED BY <2>3, <2>5, <3>1, <4>2
    <3>2. CASE i # n
      <4>1. i \in 1..(n - 1) /\ n \in Nat \ {0}
        BY <3>2
      <4>2. (i % n) + 1 = i + 1
        BY <3>2, <4>1, AfterNode
      <4>3. QED BY <2>3, <4>1, <4>2
    <3>3. QED BY <3>1, <3>2
  <2>7. \A i \in 1..n : path[1] <= path[i]
    BY <2>3
  <2>8. path \in {c \in [1..n -> DOMAIN g] :
                   /\ IsInjective(c)
                   /\ \A i \in 1..n : c[(i % n) + 1] \in g[c[i]]
                   /\ \A i \in 1..n : c[1] <= c[i]}
    BY <2>3, <2>6, <2>7
  <2>9. QED BY <2>5, <2>8, Zenon DEF SimpleCycles
<1>3. ASSUME NEW path \in SimpleCycles(g, M) PROVE path \in FindAllCycles(g)
  <2>1. PICK n \in 2..M : /\ path \in [1..n -> DOMAIN g] /\ IsInjective(path)
                          /\ \A i \in 1..n : path[(i % n) + 1] \in g[path[i]]
                          /\ \A i \in 1..n : path[1] <= path[i]
    BY DEF SimpleCycles
  <2>2. n \in 1..Size
    <3>1. path \in Injection(1..n, DOMAIN g)
      BY <2>1 DEF Injection, IsInjective
    <3>2. Cardinality(1..n) <= Size
      BY <1>1, <3>1, FS_Injection DEF WaitGraph
    <3>3. Cardinality(1..n) = n
      BY FS_Interval
    <3>4. QED BY <3>2, <3>3
  <2>3. path \in Seq(DOMAIN g) /\ Len(path) = n /\ path[1] \in DOMAIN g
    BY <2>1
  <2>4. \A i \in 1..(n - 1) : path[i + 1] \in g[path[i]]
    <3>1. SUFFICES ASSUME NEW i \in 1..(n - 1) PROVE path[i + 1] \in g[path[i]]
      OBVIOUS
    <3>2. i \in 1..n /\ i # n /\ n \in Nat \ {0}
      OBVIOUS
    <3>3. (i % n) + 1 = i + 1
      BY <3>2, AfterNode
    <3>4. QED BY <2>1, <3>2, <3>3
  <2>5. path[1] \in g[path[n]]
    <3>1. n \in 1..n /\ (n % n) + 1 = 1
      BY AfterNode
    <3>2. QED BY <2>1, <3>1
  <2>6. path \in SearchPaths(g, path[1], n)
    BY <1>0, <2>1, <2>4 DEF SearchPaths
  <2>7. path \in PathsFrom(g, path[1])
    <3>1. path \in UNION {SearchPaths(g, path[1], m) : m \in 1..Cardinality(DOMAIN g)}
      BY <1>1, <2>2, <2>6
    <3>2. QED BY <1>0, <2>3, <3>1, PathsAre
  <2>8. Len(path) >= 2 /\ ~TooLong(path) /\ path[1] \in g[Last(path)]
    BY <1>0, <2>1, <2>3, <2>5 DEF TooLong, Last
  <2>9. QED BY <2>3, <2>7, <2>8 DEF FindAllCycles
<1>4. QED BY <1>0, <1>2, <1>3

\* A cycle that begins with its least node is its own canonical form.
LEMMA CanonicalAlready ==
  ASSUME NEW g, WaitGraph(g), max_cycle_length \in Nat,
         NEW path \in SimpleCycles(g, max_cycle_length)
  PROVE  CanonicalCycle(path) = path
<1>1. PICK n \in Nat : /\ n >= 2 /\ path \in [1..n -> DOMAIN g] /\ IsInjective(path)
                       /\ \A i \in 1..n : path[1] <= path[i]
  <2>1. PICK n \in 2..max_cycle_length :
          /\ path \in [1..n -> DOMAIN g] /\ IsInjective(path)
          /\ \A i \in 1..n : path[1] <= path[i]
    BY DEF SimpleCycles
  <2>2. n \in Nat /\ n >= 2
    OBVIOUS
  <2>3. QED BY <2>1, <2>2
<1>2. /\ DOMAIN path = 1..n /\ Len(path) = n /\ 1 \in 1..n
      /\ \A i, j \in 1..n : path[i] = path[j] => i = j
      /\ \A i \in 1..n : path[i] \in Nat
  BY <1>1 DEF IsInjective, WaitGraph
<1> DEFINE First == CHOOSE i \in DOMAIN path : \A j \in DOMAIN path : path[i] <= path[j]
<1>3. First \in 1..n /\ \A j \in 1..n : path[First] <= path[j]
  BY <1>1, <1>2
<1>4. First = 1
  <2> HIDE DEF First
  <2>1. path[First] = path[1]
    BY <1>1, <1>2, <1>3
  <2>2. QED BY <1>2, <1>3, <2>1
<1>5. CanonicalCycle(path) = [i \in 1..n |-> path[((First + i - 2) % n) + 1]]
  BY <1>2 DEF CanonicalCycle
<1> HIDE DEF First
<1>6. ASSUME NEW i \in 1..n PROVE ((First + i - 2) % n) + 1 = i
  BY <1>4
<1>7. QED BY <1>1, <1>5, <1>6

-----------------------------------------------------------------------------
\* Agents of a simple cycle wait for each other.
LEMMA CycleDeadlocks ==
  ASSUME NEW g, WaitGraph(g), NEW bound \in Nat, SimpleCycles(g, bound) # {}
  PROVE  Deadlocked(g)
<1>0. PICK n \in 2..bound : \E c \in [1..n -> DOMAIN g] :
        \A i \in 1..n : c[(i % n) + 1] \in g[c[i]]
  BY DEF SimpleCycles
<1>1. PICK c \in [1..n -> DOMAIN g] : \A i \in 1..n : c[(i % n) + 1] \in g[c[i]]
  BY <1>0
<1>2. n \in Nat \ {0}
  OBVIOUS
<1> DEFINE s == {c[i] : i \in 1..n}
<1>3. s \in SUBSET DOMAIN g /\ s # {}
  BY <1>1, <1>2
<1>4. ASSUME NEW a \in s PROVE g[a] \intersect s # {}
  <2>1. PICK i \in 1..n : a = c[i]
    OBVIOUS
  <2>2. (i % n) + 1 \in 1..n
    <3>1. (i % n) + 1 = IF i = n THEN 1 ELSE i + 1
      BY <1>2, AfterNode
    <3>2. QED BY <1>2, <3>1
  <2>3. c[(i % n) + 1] \in g[a] /\ c[(i % n) + 1] \in s
    BY <1>1, <2>1, <2>2
  <2>4. QED BY <2>3
<1> HIDE DEF s
<1>5. QED BY <1>3, <1>4 DEF Deadlocked

\* f follows the waits of g for Size steps and comes back to where it was after i steps
\* after d more, and never sooner.
Returns(g, f, Size, i, d) ==
  /\ Size \in Nat /\ i \in 0..Size /\ d \in 1..Size /\ i + d \in 0..Size
  /\ f \in [0..Size -> DOMAIN g]
  /\ \A k \in 1..Size : f[k] \in g[f[k - 1]]
  /\ f[i] = f[i + d]
  /\ \A k, m \in 0..Size : k < m /\ f[k] = f[m] => d <= m - k

\* Agents that wait for each other: following the waits comes back to some agent, within
\* as many steps as there are agents.
LEMMA DeadlockReturns ==
  ASSUME NEW g, WaitGraph(g), Deadlocked(g)
  PROVE  \E f, i, d : Returns(g, f, Cardinality(DOMAIN g), i, d)
<1>1. PICK Size \in Nat : Size = Cardinality(DOMAIN g)
  BY FS_CardinalityType DEF WaitGraph
<1>2. PICK s \in SUBSET DOMAIN g : s # {} /\ \A a \in s : g[a] \intersect s # {}
  BY DEF Deadlocked
<1> DEFINE G == [a \in s |-> CHOOSE b : b \in g[a] \intersect s]
<1>3. G \in [s -> s] /\ \A a \in s : G[a] \in g[a]
  <2>1. \A a \in s : G[a] \in g[a] \intersect s
    BY <1>2
  <2> HIDE DEF G
  <2>2. G = [a \in s |-> G[a]]
    BY DEF G
  <2>3. QED BY <2>1, <2>2
<1>4. PICK a \in s : TRUE
  BY <1>2
<1>5. PICK f \in [0..Size -> s] : \A k \in 1..Size : f[k] = G[f[k - 1]]
  <2> HIDE DEF G
  <2>1. \E h : Iterates(h, s, a, G, Size)
    BY <1>3, Recursion
  <2>2. QED BY <2>1 DEF Iterates
<1> HIDE DEF G
<1>6. f \in [0..Size -> DOMAIN g] /\ \A k \in 1..Size : f[k] \in g[f[k - 1]]
  <2>1. ASSUME NEW k \in 1..Size PROVE f[k] \in g[f[k - 1]]
    <3>1. k - 1 \in 0..Size
      OBVIOUS
    <3>2. f[k - 1] \in s
      BY <3>1
    <3>3. QED BY <1>3, <1>5, <3>2
  <2>2. QED BY <2>1, <1>2
<1> DEFINE Gaps == {d \in 1..Size : \E i \in 0..Size : i + d \in 0..Size /\ f[i] = f[i + d]}
<1>7. Gaps # {}
  <2>1. IsFiniteSet(0..Size) /\ Cardinality(0..Size) = Size + 1
    BY FS_Interval
  <2>2. PICK x \in 0..Size, y \in 0..Size : x # y /\ f[x] = f[y]
    <3>1. IsFiniteSet(DOMAIN g) /\ Cardinality(DOMAIN g) < Cardinality(0..Size)
      BY <1>1, <2>1 DEF WaitGraph
    <3>2. QED BY <1>6, <2>1, <3>1, FS_PigeonHole
  <2>3. CASE x < y
    <3>1. y - x \in 1..Size /\ x + (y - x) = y
      BY <2>3
    <3>2. QED BY <2>2, <3>1
  <2>4. CASE y < x
    <3>1. x - y \in 1..Size /\ y + (x - y) = x
      BY <2>4
    <3>2. QED BY <2>2, <3>1
  <2>5. QED BY <2>2, <2>3, <2>4
<1>8. PICK d \in Gaps : \A e \in Gaps : d <= e
  <2>1. Gaps \subseteq Nat
    OBVIOUS
  <2> HIDE DEF Gaps
  <2>2. QED BY <1>7, <2>1, LeastNumber
<1>9. PICK i \in 0..Size : i + d \in 0..Size /\ f[i] = f[i + d]
  BY <1>8
<1>10. ASSUME NEW k \in 0..Size, NEW m \in 0..Size, k < m, f[k] = f[m] PROVE d <= m - k
  <2>1. m - k \in 1..Size /\ k + (m - k) = m
    BY <1>10
  <2>2. m - k \in Gaps
    BY <1>10, <2>1
  <2>3. QED BY <1>8, <2>2
<1>11. d \in 1..Size
  BY <1>8
<1>12. Returns(g, f, Size, i, d)
  <2> HIDE DEF Gaps
  <2> QED BY <1>6, <1>9, <1>10, <1>11 DEF Returns
<1>13. QED BY <1>1, <1>12

\* The steps from an agent back to it are a simple cycle, once they are written from its
\* least agent.
LEMMA ReturnGivesCycle ==
  ASSUME NEW g, WaitGraph(g), NEW f, NEW Size, NEW i, NEW d, Returns(g, f, Size, i, d),
         NEW bound \in Nat, Size <= bound
  PROVE  SimpleCycles(g, bound) # {}
<1>1. /\ Size \in Nat /\ i \in Nat /\ d \in Nat /\ d >= 1 /\ i + d <= Size
      /\ f \in [0..Size -> DOMAIN g] /\ f[i] = f[i + d]
      /\ \A k \in 1..Size : f[k] \in g[f[k - 1]]
      /\ \A k, m \in 0..Size : k < m /\ f[k] = f[m] => d <= m - k
  BY DEF Returns
<1>2. d \in 2..bound
  <2>1. ASSUME d = 1 PROVE FALSE
    <3>1. i + 1 \in 1..Size /\ i + 1 - 1 = i /\ i \in 0..Size
      BY <1>1, <2>1
    <3>2. f[i + 1] \in g[f[i]] /\ f[i] = f[i + 1] /\ f[i] \in DOMAIN g
      BY <1>1, <2>1, <3>1
    <3>3. QED BY <3>2 DEF WaitGraph
  <2>2. QED BY <1>1, <2>1
<1> DEFINE V == {f[i + k] : k \in 0..(d - 1)}
<1>3. PICK m \in 0..(d - 1) : \A k \in 0..(d - 1) : f[i + m] <= f[i + k]
  <2>1. \A k \in 0..(d - 1) : i + k \in 0..Size
    BY <1>1
  <2>2. V \subseteq Nat
    BY <1>1, <2>1 DEF WaitGraph
  <2>3. V # {}
    <3>1. 0 \in 0..(d - 1)
      BY <1>1
    <3>2. QED BY <3>1
  <2>4. PICK v \in V : \A w \in V : v <= w
    <3> HIDE DEF V
    <3> QED BY <2>2, <2>3, LeastNumber
  <2>5. PICK m \in 0..(d - 1) : v = f[i + m]
    BY <2>4
  <2>6. \A k \in 0..(d - 1) : f[i + k] \in V
    OBVIOUS
  <2> HIDE DEF V
  <2>7. QED BY <2>4, <2>5, <2>6
<1> HIDE DEF V
<1> DEFINE P(k) == IF m + k - 1 < d THEN i + m + k - 1 ELSE i + m + k - 1 - d
           c == [k \in 1..d |-> f[P(k)]]
<1>4. \A k \in 1..d : P(k) \in 0..Size /\ i <= P(k) /\ P(k) < i + d
  BY <1>1
<1>5. ASSUME NEW j \in 1..d, NEW k \in 1..d, P(j) = P(k) PROVE j = k
  <2>1. /\ i \in Int /\ d \in Int /\ m \in Int /\ m >= 0 /\ m < d
        /\ j \in Int /\ j >= 1 /\ j <= d /\ k \in Int /\ k >= 1 /\ k <= d
    BY <1>1
  <2>2. CASE m + j - 1 < d
    BY <1>5, <2>1, <2>2
  <2>3. CASE ~(m + j - 1 < d)
    BY <1>5, <2>1, <2>3
  <2>4. QED BY <2>2, <2>3
<1>6. \A k \in 1..d :
        LET next == IF k = d THEN 1 ELSE k + 1
        IN  IF P(k) + 1 = i + d THEN P(next) = i ELSE P(next) = P(k) + 1
  <2>1. SUFFICES ASSUME NEW k \in 1..d, NEW next, next = IF k = d THEN 1 ELSE k + 1
                 PROVE  IF P(k) + 1 = i + d THEN P(next) = i ELSE P(next) = P(k) + 1
    OBVIOUS
  <2>2. /\ i \in Int /\ d \in Int /\ m \in Int /\ m >= 0 /\ m < d
        /\ k \in Int /\ k >= 1 /\ k <= d
    BY <1>1
  <2>3. CASE k = d
    <3>1. next = 1
      BY <2>1, <2>3
    <3>2. QED BY <2>2, <2>3, <3>1
  <2>4. CASE k # d
    <3>1. next = k + 1
      BY <2>1, <2>4
    <3>2. QED BY <2>2, <2>4, <3>1
  <2>5. QED BY <2>3, <2>4
<1>7. P(1) = i + m
  BY <1>1
<1> HIDE DEF P
<1>8. c \in [1..d -> DOMAIN g] /\ \A k \in 1..d : c[k] = f[P(k)]
  BY <1>1, <1>4
<1> HIDE DEF c
<1>9. IsInjective(c)
  <2>1. SUFFICES ASSUME NEW j \in 1..d, NEW k \in 1..d, c[j] = c[k] PROVE j = k
    BY <1>8 DEF IsInjective
  <2>2. f[P(j)] = f[P(k)]
    BY <1>8, <2>1
  <2>3. PICK x \in 0..Size, y \in 0..Size : x = P(j) /\ y = P(k)
    BY <1>4
  <2>4. x = y
    <3>1. i <= x /\ x < i + d /\ i <= y /\ y < i + d /\ f[x] = f[y]
      BY <1>4, <2>2, <2>3
    <3>2. CASE x < y
      <4>1. d <= y - x
        BY <1>1, <3>1, <3>2
      <4>2. QED BY <1>1, <3>1, <4>1
    <3>3. CASE y < x
      <4>1. d <= x - y
        BY <1>1, <3>1, <3>3
      <4>2. QED BY <1>1, <3>1, <4>1
    <3>4. QED BY <1>1, <3>2, <3>3
  <2>5. QED BY <1>5, <2>3, <2>4
<1>10. ASSUME NEW k \in 1..d PROVE c[(k % d) + 1] \in g[c[k]]
  <2>1. PICK next \in 1..d : next = (k % d) + 1 /\ next = IF k = d THEN 1 ELSE k + 1
    <3>1. d \in Nat \ {0}
      BY <1>1
    <3>2. (k % d) + 1 = IF k = d THEN 1 ELSE k + 1
      BY <3>1, AfterNode
    <3>3. (IF k = d THEN 1 ELSE k + 1) \in 1..d
      BY <1>1
    <3>4. QED BY <3>2, <3>3
  <2>2. PICK x \in 0..Size : x = P(k) /\ i <= x /\ x < i + d
    BY <1>4
  <2>3. IF x + 1 = i + d THEN P(next) = i ELSE P(next) = x + 1
    BY <1>6, <2>1, <2>2
  <2>4. x + 1 \in 1..Size /\ x + 1 - 1 = x
    BY <1>1, <2>2
  <2>5. f[x + 1] \in g[f[x]]
    BY <1>1, <2>4
  <2>6. f[P(next)] = f[x + 1]
    BY <1>1, <2>3
  <2>7. c[k] = f[x] /\ c[next] = f[P(next)]
    BY <1>8, <2>1, <2>2
  <2>8. QED BY <2>1, <2>5, <2>6, <2>7
<1>11. ASSUME NEW k \in 1..d PROVE c[1] <= c[k]
  <2>1. 1 \in 1..d /\ P(k) - i \in 0..(d - 1) /\ i + (P(k) - i) = P(k)
    BY <1>1, <1>4
  <2>2. f[i + m] <= f[P(k)]
    BY <1>3, <2>1
  <2>3. QED BY <1>7, <1>8, <2>1, <2>2
<1>12. c \in SimpleCycles(g, bound)
  BY <1>2, <1>8, <1>9, <1>10, <1>11 DEF SimpleCycles
<1>13. QED BY <1>12

-----------------------------------------------------------------------------
\* The graph and the copy that a detect() searches are finite, and know everybody that
\* is waited for.
GraphsKept ==
  /\ max_cycle_length \in MaxCycleLengths
  /\ DOMAIN graph \subseteq Waiters /\ IsFiniteSet(DOMAIN graph)
  /\ \A a \in DOMAIN graph : graph[a] \subseteq DOMAIN graph \ {a}
  /\ WaitGraph(snapshot)

\* An empty graph has nobody who waits.
LEMMA NobodyWaits == DOMAIN NoGraph = {} /\ WaitGraph(NoGraph)
<1>1. DOMAIN NoGraph = {}
  BY DEF NoGraph
<1>2. QED BY <1>1, FS_EmptySet DEF WaitGraph

\* Every action keeps the graph and the copy well formed.
LEMMA GraphsStep == GraphsKept /\ [DetectorNext]_detectorVars => GraphsKept'
<1> SUFFICES ASSUME GraphsKept, [DetectorNext]_detectorVars PROVE GraphsKept'
  OBVIOUS
<1>1. ASSUME NEW w \in Waiters, NEW h \in Waiters, NEW r \in Resources, AddWait(w, h, r)
      PROVE  GraphsKept'
  <2>1. DOMAIN graph' = (DOMAIN graph \union {w}) \union {h}
    BY <1>1 DEF AddWait
  <2>2. IsFiniteSet(DOMAIN graph')
    <3>1. IsFiniteSet(DOMAIN graph \union {w})
      BY FS_AddElement DEF GraphsKept
    <3>2. QED BY <2>1, <3>1, FS_AddElement
  <2>3. \A a \in DOMAIN graph' : graph'[a] \subseteq DOMAIN graph' \ {a}
    BY <1>1 DEF AddWait, GraphsKept
  <2>4. QED BY <1>1, <2>1, <2>2, <2>3 DEF AddWait, GraphsKept
<1>2. ASSUME NEW w \in Waiters, NEW h \in Waiters, RemoveWait(w, h) PROVE GraphsKept'
  BY <1>2 DEF RemoveWait, GraphsKept
<1>3. ASSUME NEW a \in Waiters, ClearAgent(a) PROVE GraphsKept'
  <2>1. DOMAIN graph' = DOMAIN graph \ {a}
    BY <1>3 DEF ClearAgent
  <2>2. IsFiniteSet(DOMAIN graph')
    BY <2>1, FS_RemoveElement DEF GraphsKept
  <2>3. QED BY <1>3, <2>1, <2>2 DEF ClearAgent, GraphsKept
<1>4. CASE Clear
  <2>1. graph' = NoGraph /\ UNCHANGED <<max_cycle_length, snapshot>>
    BY <1>4 DEF Clear
  <2>2. QED BY <2>1, NobodyWaits DEF GraphsKept, WaitGraph
<1>5. CASE DetectBegin
  <2>1. WaitGraph(graph)
    BY DetectorAssumption DEF GraphsKept, WaitGraph
  <2>2. QED BY <1>5, <2>1 DEF DetectBegin, GraphsKept
<1>6. CASE DetectEnd
  BY <1>6, NobodyWaits DEF DetectEnd, GraphsKept
<1>7. CASE UNCHANGED detectorVars
  BY <1>7 DEF detectorVars, GraphsKept
<1>8. QED BY <1>1, <1>2, <1>3, <1>4, <1>5, <1>6, <1>7 DEF DetectorNext

\* A well-formed copy is searched exactly.
LEMMA SearchIsExact == GraphsKept => DetectsExactly
<1> SUFFICES ASSUME GraphsKept PROVE DetectsExactly
  OBVIOUS
<1>1. PICK M \in Nat : M = max_cycle_length
  BY DetectorAssumption DEF GraphsKept
<1>2. PICK g : g = snapshot /\ WaitGraph(g)
  BY DEF GraphsKept
<1>3. Detected = SimpleCycles(g, M)
  <2>1. FindAllCycles(g) = SimpleCycles(g, M)
    BY <1>1, <1>2, CyclesFound
  <2>2. \A path \in SimpleCycles(g, M) : CanonicalCycle(path) = path
    BY <1>1, <1>2, CanonicalAlready
  <2>3. Detected = {CanonicalCycle(path) : path \in SimpleCycles(g, M)}
    BY <1>2, <2>1 DEF Detected
  <2>4. QED BY <2>2, <2>3
<1>4. ASSUME Cardinality(DOMAIN g) <= M
      PROVE  SimpleCycles(g, M) # {} <=> Deadlocked(g)
  <2>1. ASSUME Deadlocked(g) PROVE SimpleCycles(g, M) # {}
    <3>1. PICK f, i, d : Returns(g, f, Cardinality(DOMAIN g), i, d)
      BY <1>2, <2>1, DeadlockReturns
    <3>2. QED BY <1>2, <1>4, <3>1, ReturnGivesCycle
  <2>2. QED BY <1>2, <2>1, CycleDeadlocks
<1>5. QED BY <1>1, <1>2, <1>3, <1>4 DEF DetectsExactly

\* detect() reports each simple cycle of its copy of the graph, up to the limit, once and
\* in its canonical form, and nothing else; unless the limit is below the number of
\* agents, it reports a cycle exactly if some agents wait for each other.
THEOREM DetectionCorrect == DetectorSpec => []DetectsExactly
<1>1. DetectorInit => GraphsKept
  BY NobodyWaits, FS_EmptySet DEF DetectorInit, GraphsKept
<1>2. QED BY <1>1, GraphsStep, SearchIsExact, PTL DEF DetectorSpec
-----------------------------------------------------------------------------
(***************************************************************************)
(* The adaptive throttle.                                                  *)
(***************************************************************************)

\* QueueMetrics, and dictionaries from names to them.
QueueEntries == [depth: Nat, max_depth: Nat, weight: Nat]
EntryMaps == UNION {[names -> QueueEntries] : names \in SUBSET Queues}

\* What a refill in progress consists of.  An entry that it has still to read is
\* frozen or registered.
ThrottleTypeOK ==
  /\ queues \in EntryMaps
  /\ tokens \in Int /\ fast \in Int /\ slow \in Int
  /\ idle \in Nat
  /\ request \in Nat
  /\ meter \in [caller: {"nobody", "task", "rival"}, amount: Nat, elapsed: Nat,
                left: SUBSET Queues, frozen: EntryMaps, weight: Nat, sum: Int]
  /\ meter.left \subseteq DOMAIN meter.frozen \union DOMAIN queues

\* What it takes to be a dictionary of entries.
LEMMA EntryMapsType ==
  ASSUME NEW m
  PROVE  m \in EntryMaps <=> /\ m = [q \in DOMAIN m |-> m[q]]
                             /\ DOMAIN m \subseteq Queues
                             /\ \A q \in DOMAIN m : m[q] \in QueueEntries
<1>1. ASSUME m \in EntryMaps
      PROVE  /\ m = [q \in DOMAIN m |-> m[q]] /\ DOMAIN m \subseteq Queues
             /\ \A q \in DOMAIN m : m[q] \in QueueEntries
  <2>1. PICK names \in SUBSET Queues : m \in [names -> QueueEntries]
    BY <1>1 DEF EntryMaps
  <2>2. QED BY <2>1
<1>2. ASSUME m = [q \in DOMAIN m |-> m[q]], DOMAIN m \subseteq Queues,
             \A q \in DOMAIN m : m[q] \in QueueEntries
      PROVE  m \in EntryMaps
  <2>1. m \in [DOMAIN m -> QueueEntries]
    BY <1>2
  <2>2. QED BY <1>2, <2>1 DEF EntryMaps
<1>3. QED BY <1>1, <1>2

\* The quotient of pressure and weight is a score.
LEMMA QuotientType ==
  ASSUME NEW a \in Int, NEW b \in Nat \ {0}
  PROVE  a \div b \in Int
OBVIOUS

\* A quotient stays below what the dividend is at most.
LEMMA QuotientBounds ==
  ASSUME NEW a \in Nat, NEW b \in Nat \ {0}, NEW n \in Nat, a <= n * b
  PROVE  a \div b \in 0..n
OBVIOUS

\* Products with a duration keep the order of rates.
LEMMA ProductsOrdered ==
  ASSUME NEW e \in Nat, NEW x \in Int, NEW y \in Int, x <= y
  PROVE  e * x <= e * y /\ e * x \in Int /\ e * y \in Int
OBVIOUS

\* _compute_rate() stays between the minimum rate and base_rate, for any score.
LEMMA RateBetween ==
  ASSUME NEW score \in Int
  PROVE  ComputeRate(score) \in Int /\ MinRate <= ComputeRate(score) /\ ComputeRate(score) <= BaseRate
<1> USE ThrottleAssumption
<1>0. MinRate \in Nat /\ BaseRate \in Nat /\ MinRate <= BaseRate
  OBVIOUS
<1>1. CASE score >= CriticalAt \/ ~(score >= WarnAt)
  BY <1>0, <1>1 DEF ComputeRate
<1>2. CASE score < CriticalAt /\ score >= WarnAt
  <2> DEFINE n == BaseRate - MinRate
             k == score - WarnAt
             b == CriticalAt - WarnAt
             drop == (n * k) \div b
  <2>1. n \in Nat /\ k \in Nat /\ b \in Nat \ {0} /\ k <= b
    BY <1>0, <1>2
  <2>2. ComputeRate(score) = BaseRate - drop
    BY <1>2 DEF ComputeRate
  <2>3. drop \in 0..n
    <3> HIDE DEF n, k, b
    <3>1. n * k <= n * b /\ n * k \in Nat
      BY <2>1, ProductsOrdered
    <3>2. QED BY <2>1, <3>1, QuotientBounds
  <2> HIDE DEF drop
  <2>4. QED BY <1>0, <2>2, <2>3
<1>3. QED BY <1>1, <1>2

\* The utilization of an entry and the score are numbers.
LEMMA ScoreType ==
  ASSUME ThrottleTypeOK
  PROVE  Score \in Int
<1>1. meter.weight \in Nat /\ meter.sum \in Int
  BY DEF ThrottleTypeOK
<1>2. QED BY <1>1, QuotientType DEF Score

\* An entry's share of the pressure is a number.
LEMMA UtilizationType ==
  ASSUME NEW entry \in QueueEntries
  PROVE  Utilization(entry) * entry.weight \in Int
<1>1. entry.depth \in Nat /\ entry.max_depth \in Nat /\ entry.weight \in Nat /\ ScoreUnit \in Nat
  BY ThrottleAssumption DEF QueueEntries
<1>2. ScoreUnit * entry.depth \in Int
  BY <1>1
<1>3. Utilization(entry) \in Int
  BY <1>1, <1>2, QuotientType DEF Utilization, Least
<1>4. QED BY <1>1, <1>3

\* The total weight of the registered queues.
LEMMA WeightType ==
  ASSUME ThrottleTypeOK
  PROVE  WeightOf(DOMAIN queues) \in Nat
<1> DEFINE f == [q \in DOMAIN queues |-> queues[q].weight]
<1>1. DOMAIN queues \subseteq Queues /\ \A q \in DOMAIN queues : queues[q] \in QueueEntries
  BY EntryMapsType DEF ThrottleTypeOK
<1>2. \A q \in DOMAIN f : f[q] \in Nat
  BY <1>1 DEF QueueEntries
<1>3. IsFiniteSet(DOMAIN f)
  BY <1>1, ThrottleAssumption, FS_Subset
<1>4. WeightOf(DOMAIN queues) = SumOver(f, DOMAIN f)
  BY SumIsSumFunction DEF WeightOf
<1> HIDE DEF f
<1>5. SumOver(f, DOMAIN f) \in Nat
  BY <1>2, <1>3, SumNatural
<1>6. QED BY <1>4, <1>5

\* Freezing an entry keeps the refill in its type.
LEMMA FreezeType ==
  ASSUME ThrottleTypeOK, NEW q \in Queues, Freeze(q)
  PROVE  /\ meter' \in [caller: {"nobody", "task", "rival"}, amount: Nat, elapsed: Nat,
                        left: SUBSET Queues, frozen: EntryMaps, weight: Nat, sum: Int]
         /\ meter'.left = meter.left
         /\ DOMAIN meter.frozen \subseteq DOMAIN meter'.frozen
         /\ q \in meter.left => q \in DOMAIN meter'.frozen
<1> USE DEF ThrottleTypeOK
<1>1. CASE q \in meter.left /\ q \notin DOMAIN meter.frozen
  <2> DEFINE m == [r \in DOMAIN meter.frozen \union {q} |->
                     IF r = q THEN queues[q] ELSE meter.frozen[r]]
  <2>1. meter' = [meter EXCEPT !.frozen = m]
    BY <1>1 DEF Freeze
  <2>2. queues[q] \in QueueEntries
    BY <1>1, EntryMapsType
  <2>3. DOMAIN m \subseteq Queues /\ \A r \in DOMAIN m : m[r] \in QueueEntries
    BY <2>2, EntryMapsType
  <2>4. m \in EntryMaps
    BY <2>3, EntryMapsType
  <2>5. DOMAIN m = DOMAIN meter.frozen \union {q}
    OBVIOUS
  <2> HIDE DEF m
  <2>6. QED BY <2>1, <2>4, <2>5
<1>2. CASE ~(q \in meter.left /\ q \notin DOMAIN meter.frozen)
  <2>1. meter' = meter
    BY <1>2 DEF Freeze
  <2>2. QED BY <1>2, <2>1
<1>3. QED BY <1>1, <1>2

\* A payment leaves numbers behind.
LEMMA PayType ==
  ASSUME ThrottleTypeOK, NEW paid \in Nat, Pay(paid)
  PROVE  tokens' \in Int /\ fast' \in Int /\ slow' \in Int
<1>1. /\ meter.elapsed \in Nat /\ ComputeRate(Score) \in Int
      /\ BaseRate \in Int /\ MinRate \in Int /\ Capacity \in Int
  BY ScoreType, RateBetween, ThrottleAssumption DEF ThrottleTypeOK
<1>2. /\ meter.elapsed * ComputeRate(Score) \in Int /\ meter.elapsed * BaseRate \in Int
      /\ meter.elapsed * MinRate \in Int
  BY <1>1
<1>3. tokens \in Int /\ fast \in Int /\ slow \in Int
  BY DEF ThrottleTypeOK
<1>4. QED BY <1>1, <1>2, <1>3 DEF Pay, Refilled, Least, Most

\* Every action keeps ThrottleTypeOK.
LEMMA ThrottleTypeStep == ThrottleTypeOK /\ [ThrottleNext]_throttleVars => ThrottleTypeOK'
<1> SUFFICES ASSUME ThrottleTypeOK, [ThrottleNext]_throttleVars PROVE ThrottleTypeOK'
  OBVIOUS
<1>0. /\ queues = [q \in DOMAIN queues |-> queues[q]] /\ DOMAIN queues \subseteq Queues
      /\ \A q \in DOMAIN queues : queues[q] \in QueueEntries
  BY EntryMapsType DEF ThrottleTypeOK
<1>1. CASE Tick
  BY <1>1 DEF Tick, ThrottleTypeOK
<1>2. ASSUME NEW q \in Queues, NEW offer \in Offers, RegisterQueue(q, offer) PROVE ThrottleTypeOK'
  <2>1. offer.max_depth \in Nat /\ offer.weight \in Nat
    BY ThrottleAssumption
  <2> DEFINE entry == [depth |-> 0, max_depth |-> offer.max_depth, weight |-> offer.weight]
  <2>2. entry \in QueueEntries
    BY <2>1 DEF QueueEntries
  <2>3. queues' = [r \in DOMAIN queues \union {q} |-> IF r = q THEN entry ELSE queues[r]]
    BY <1>2 DEF RegisterQueue
  <2> HIDE DEF entry
  <2>4. queues' \in EntryMaps /\ DOMAIN queues \subseteq DOMAIN queues'
    BY <1>0, <2>2, <2>3, EntryMapsType
  <2>5. QED BY <1>2, <2>4, FreezeType DEF RegisterQueue, ThrottleTypeOK
<1>3. ASSUME NEW q \in Queues, DeregisterQueue(q) PROVE ThrottleTypeOK'
  <2>1. queues' = [r \in DOMAIN queues \ {q} |-> queues[r]]
    BY <1>3 DEF DeregisterQueue
  <2>2. queues' \in EntryMaps /\ DOMAIN queues \ {q} \subseteq DOMAIN queues'
    BY <1>0, <2>1, EntryMapsType
  <2>3. QED BY <1>3, <2>2, FreezeType DEF DeregisterQueue, ThrottleTypeOK
<1>4. ASSUME NEW q \in Queues, NEW depth \in Depths, UpdateDepth(q, depth) PROVE ThrottleTypeOK'
  <2>1. depth \in Nat /\ queues[q] \in QueueEntries /\ queues' = [queues EXCEPT ![q].depth = depth]
    BY <1>0, <1>4, ThrottleAssumption DEF UpdateDepth
  <2>2. [queues[q] EXCEPT !.depth = depth] \in QueueEntries
    BY <2>1 DEF QueueEntries
  <2>3. queues' = [queues EXCEPT ![q] = [queues[q] EXCEPT !.depth = depth]]
    BY <2>1
  <2>4. queues' \in EntryMaps /\ DOMAIN queues' = DOMAIN queues
    BY <1>0, <2>2, <2>3, EntryMapsType
  <2>5. QED BY <1>4, <2>4 DEF UpdateDepth, ThrottleTypeOK
<1>5. ASSUME NEW depths \in [Queues -> Depths \union {-1}], UpdateDepths(depths)
      PROVE  ThrottleTypeOK'
  <2> DEFINE After(q) == IF q \in DOMAIN depths
                           THEN [queues[q] EXCEPT !.depth = Most(0, depths[q])]
                           ELSE queues[q]
  <2>1. queues' = [q \in DOMAIN queues |-> After(q)]
    BY <1>5 DEF UpdateDepths
  <2>2. ASSUME NEW q \in DOMAIN queues PROVE After(q) \in QueueEntries
    <3>1. queues[q] \in QueueEntries /\ q \in Queues
      BY <1>0
    <3>2. Most(0, depths[q]) \in Nat
      <4>1. depths[q] \in Depths \/ depths[q] = -1
        BY <3>1
      <4>2. depths[q] \in Int
        <5>1. Depths \subseteq Nat
          BY ThrottleAssumption
        <5>2. CASE depths[q] \in Depths
          BY <5>1, <5>2, \A n \in Nat : n \in Int
        <5>3. CASE depths[q] = -1
          BY <5>3
        <5>4. QED BY <4>1, <5>2, <5>3
      <4>3. QED BY <4>2 DEF Most
    <3>3. QED BY <3>1, <3>2 DEF QueueEntries
  <2> HIDE DEF After
  <2>3. queues' \in EntryMaps /\ DOMAIN queues' = DOMAIN queues
    BY <1>0, <2>1, <2>2, EntryMapsType
  <2>4. QED BY <1>5, <2>3 DEF UpdateDepths, ThrottleTypeOK
<1>6. ASSUME NEW amount \in Amounts, Ask(amount) PROVE ThrottleTypeOK'
  BY <1>6, ThrottleAssumption DEF Ask, ThrottleTypeOK
<1>7. CASE DeadlinePasses
  BY <1>7 DEF DeadlinePasses, ThrottleTypeOK
<1>8. ASSUME NEW caller \in {"task", "rival"}, NEW amount \in Nat, RefillBegin(caller, amount)
      PROVE  ThrottleTypeOK'
  <2> DEFINE none == [q \in {} |-> 0]
             total == WeightOf(DOMAIN queues)
  <2>1. meter' = [caller |-> caller, amount |-> amount, elapsed |-> idle,
                  left |-> DOMAIN queues, frozen |-> none, weight |-> total, sum |-> 0]
    BY <1>8 DEF RefillBegin
  <2>2. none \in EntryMaps
    BY EntryMapsType
  <2>3. total \in Nat
    BY WeightType
  <2> HIDE DEF none, total
  <2>4. QED BY <1>0, <1>8, <2>1, <2>2, <2>3 DEF RefillBegin, ThrottleTypeOK
<1>9. CASE ReadEntry
  <2>1. PICK q \in meter.left :
          meter' = [meter EXCEPT !.left = @ \ {q},
                      !.frozen = [r \in DOMAIN @ \ {q} |-> @[r]],
                      !.sum = @ + Utilization(IF q \in DOMAIN meter.frozen THEN meter.frozen[q]
                                                                           ELSE queues[q])
                                * (IF q \in DOMAIN meter.frozen THEN meter.frozen[q]
                                                                ELSE queues[q]).weight]
    BY <1>9 DEF ReadEntry
  <2> DEFINE entry == IF q \in DOMAIN meter.frozen THEN meter.frozen[q] ELSE queues[q]
             share == Utilization(entry) * entry.weight
             rest == [r \in DOMAIN meter.frozen \ {q} |-> meter.frozen[r]]
  <2>2. meter.frozen \in EntryMaps /\ meter.sum \in Int
    BY DEF ThrottleTypeOK
  <2>3. entry \in QueueEntries
    BY <1>0, <2>2, EntryMapsType DEF ThrottleTypeOK
  <2>4. share \in Int
    <3> HIDE DEF entry
    <3> QED BY <2>3, UtilizationType
  <2>5. rest \in EntryMaps /\ DOMAIN rest = DOMAIN meter.frozen \ {q}
    BY <2>2, EntryMapsType
  <2>6. meter' = [meter EXCEPT !.left = meter.left \ {q}, !.frozen = rest,
                               !.sum = meter.sum + share]
    BY <2>1
  <2> HIDE DEF entry, share, rest
  <2>7. UNCHANGED <<queues, tokens, idle, request, fast, slow>>
    BY <1>9 DEF ReadEntry
  <2>8. /\ meter' \in [caller: {"nobody", "task", "rival"}, amount: Nat, elapsed: Nat,
                       left: SUBSET Queues, frozen: EntryMaps, weight: Nat, sum: Int]
        /\ meter'.left = meter.left \ {q} /\ meter'.frozen = rest
    <3> DEFINE total == meter.sum + share
               others == meter.left \ {q}
    <3>1. total \in Int /\ others \in SUBSET Queues
      BY <2>2, <2>4 DEF ThrottleTypeOK
    <3>2. meter' = [meter EXCEPT !.left = others, !.frozen = rest, !.sum = total]
      BY <2>6
    <3> HIDE DEF total, others
    <3>3. /\ meter' \in [caller: {"nobody", "task", "rival"}, amount: Nat, elapsed: Nat,
                         left: SUBSET Queues, frozen: EntryMaps, weight: Nat, sum: Int]
          /\ meter'.left = others /\ meter'.frozen = rest
      BY <2>5, <3>1, <3>2 DEF ThrottleTypeOK
    <3>4. QED BY <3>3 DEF others
  <2>9. meter'.left \subseteq DOMAIN meter'.frozen \union DOMAIN queues'
    BY <2>5, <2>7, <2>8 DEF ThrottleTypeOK
  <2>10. QED BY <2>7, <2>8, <2>9 DEF ThrottleTypeOK
<1>10. CASE RefillEnd
  <2>1. PICK paid \in Nat : Pay(paid)
    BY <1>10 DEF RefillEnd, ThrottleTypeOK
  <2>2. tokens' \in Int /\ fast' \in Int /\ slow' \in Int
    BY <2>1, PayType
  <2>3. meter' = NoRefill /\ request' \in {0, request} /\ UNCHANGED <<queues, idle>>
    BY <1>10 DEF RefillEnd
  <2> DEFINE none == [q \in {} |-> 0]
  <2>4. none \in EntryMaps
    BY EntryMapsType
  <2>5. meter' = [caller |-> "nobody", amount |-> 0, elapsed |-> 0, left |-> {},
                  frozen |-> none, weight |-> 0, sum |-> 0]
    BY <2>3 DEF NoRefill
  <2> HIDE DEF none
  <2>6. QED BY <2>2, <2>3, <2>4, <2>5 DEF ThrottleTypeOK
<1>11. CASE UNCHANGED throttleVars
  BY <1>11 DEF throttleVars, ThrottleTypeOK
<1>12. ASSUME NEW amount \in Amounts, RivalBegin(amount) PROVE ThrottleTypeOK'
  BY <1>8, <1>12, ThrottleAssumption DEF RivalBegin
<1>13. CASE AcquireBegin
  BY <1>8, <1>13 DEF AcquireBegin, ThrottleTypeOK
<1>14. CASE AvailableBegin
  BY <1>8, <1>14 DEF AvailableBegin
<1>15. QED
  BY <1>1, <1>2, <1>3, <1>4, <1>5, <1>6, <1>7, <1>9, <1>10, <1>11, <1>12, <1>13, <1>14
  DEF ThrottleNext

\* The throttle's state stays in its types, and every entry that a refill has still to
\* read can be read.
THEOREM ThrottleTypeCorrect == ThrottleSpec => []ThrottleTypeOK
<1>1. ThrottleInit => ThrottleTypeOK
  <2> SUFFICES ASSUME ThrottleInit PROVE ThrottleTypeOK
    OBVIOUS
  <2> DEFINE none == [q \in {} |-> 0]
  <2>1. none \in EntryMaps
    BY EntryMapsType
  <2>2. /\ queues = none /\ meter = [caller |-> "nobody", amount |-> 0, elapsed |-> 0,
             left |-> {}, frozen |-> none, weight |-> 0, sum |-> 0]
    BY DEF ThrottleInit, NoRefill
  <2> HIDE DEF none
  <2>3. QED BY <2>1, <2>2, ThrottleAssumption DEF ThrottleInit, ThrottleTypeOK
<1>2. QED BY <1>1, ThrottleTypeStep, PTL DEF ThrottleSpec

\* A refill and a payment keep the bucket between the two that it is compared with.
LEMMA RateStep ==
  ASSUME ThrottleTypeOK, RateRespected, [ThrottleNext]_throttleVars
  PROVE  RateRespected'
<1>1. CASE RefillEnd
  <2> DEFINE e == meter.elapsed
             rate == ComputeRate(Score)
             paid == IF Refilled >= meter.amount THEN meter.amount ELSE 0
  <2>1. /\ e \in Nat /\ rate \in Int /\ MinRate <= rate /\ rate <= BaseRate /\ meter.amount \in Nat
        /\ MinRate \in Nat /\ BaseRate \in Nat /\ Capacity \in Nat
    BY ScoreType, RateBetween, ThrottleAssumption DEF ThrottleTypeOK
  <2> DEFINE x == e * MinRate
             y == e * rate
             z == e * BaseRate
  <2>2. x \in Int /\ y \in Int /\ z \in Int /\ 0 <= x /\ x <= y /\ y <= z
    <3> HIDE DEF e, rate
    <3> QED BY <2>1, ProductsOrdered
  <2>3. Refilled = Least(Capacity, tokens + y)
    BY DEF Refilled
  <2>4. Pay(paid)
    BY <1>1 DEF RefillEnd
  <2>5. /\ tokens' = Least(Capacity, tokens + y) - paid
        /\ fast' = Least(Capacity, fast + z) - paid
        /\ slow' = Most(0, Least(Capacity, slow + x) - paid)
    BY <2>3, <2>4 DEF Pay
  <2>6. /\ tokens \in Int /\ fast \in Int /\ slow \in Int
        /\ slow <= tokens /\ tokens <= fast /\ 0 <= tokens /\ tokens <= Capacity
    BY DEF ThrottleTypeOK, RateRespected
  <2>7. paid \in Nat /\ paid <= Least(Capacity, tokens + y)
    <3> HIDE DEF x, y, z, e, rate
    <3> QED BY <2>1, <2>2, <2>3, <2>6 DEF Least
  <2> HIDE DEF x, y, z, e, rate, paid
  <2>8. QED BY <2>1, <2>2, <2>5, <2>6, <2>7 DEF Least, Most, RateRespected
<1>2. CASE UNCHANGED <<tokens, fast, slow>>
  BY <1>2 DEF RateRespected
<1>3. QED
  BY <1>1, <1>2
  DEF ThrottleNext, throttleVars, Tick, RegisterQueue, DeregisterQueue, UpdateDepth,
      UpdateDepths, Ask, RivalBegin, DeadlinePasses, AcquireBegin, AvailableBegin,
      RefillBegin, ReadEntry

\* For every rate, capacity, pair of thresholds and sequence of pressure readings the
\* bucket holds at most what one refilled at base_rate would and at least what one
\* refilled at the minimum rate would, never overflows and never owes tokens.
THEOREM RateCorrect == ThrottleSpec => []RateRespected
<1>1. ThrottleInit => RateRespected
  BY ThrottleAssumption DEF ThrottleInit, RateRespected
<1>2. ThrottleTypeOK /\ RateRespected /\ [ThrottleNext]_throttleVars => RateRespected'
  BY RateStep
<1>3. QED BY <1>1, <1>2, ThrottleTypeCorrect, PTL DEF ThrottleSpec

-----------------------------------------------------------------------------
\* The state stays in its types.
WorkflowTypeOK ==
  /\ executor \in Executors
  /\ include_all \in BOOLEAN
  /\ deps \in [Steps -> SUBSET (Steps \union {Unknown})]
  /\ quorum \in Steps
  /\ phase \in {"new", "refused", "turn", "running", "cancelling", "returned", "raised"}
  /\ task \in [Steps -> {"idle", "running", "cancelling", "ok", "failed", "cancelled"}]
  /\ results \in [Steps -> {"none", "ok", "failed", "cancelled", "skipped"}]
  /\ batch \subseteq Steps
  /\ level \in Nat
  /\ votes \subseteq Steps
  /\ status \in {"none", "success", "partial", "failed"}
  /\ reported \subseteq Steps

\* The steps are finitely many.
LEMMA StepsFinite ==
  /\ IsFiniteSet(Steps) /\ Cardinality(Steps) = N
  /\ \A S \in SUBSET Steps : IsFiniteSet(S) /\ Cardinality(S) \in 0..N
<1>1. IsFiniteSet(Steps) /\ Cardinality(Steps) = N
  BY FS_Interval, WorkflowAssumption DEF Steps
<1>2. ASSUME NEW S \in SUBSET Steps PROVE IsFiniteSet(S) /\ Cardinality(S) \in 0..N
  BY <1>1, FS_Subset, FS_CardinalityType
<1>3. QED BY <1>1, <1>2

\* The results of steps that are done are outcomes.
LEMMA RecordType ==
  ASSUME WorkflowTypeOK, NEW S \in SUBSET Steps, \A s \in S : Done(s)
  PROVE  Record(S) \in [Steps -> {"none", "ok", "failed", "cancelled", "skipped"}]
BY DEF WorkflowTypeOK, Record, Done

\* Every action keeps WorkflowTypeOK.
LEMMA WorkflowTypeStep == WorkflowTypeOK /\ [WorkflowNext]_workflowVars => WorkflowTypeOK'
<1> SUFFICES ASSUME WorkflowTypeOK, [WorkflowNext]_workflowVars PROVE WorkflowTypeOK'
  OBVIOUS
<1> USE DEF setting
<1>1. CASE Begin
  BY <1>1 DEF Begin, Launch, WorkflowTypeOK
<1>2. CASE SequentialTurn
  <2> DEFINE next == Cardinality(Recorded(results)) + 1
             over == next > N \/ \E s \in Steps : results[s] = "failed"
  <2>1. Recorded(results) \subseteq Steps /\ next \in Nat \ {0}
    BY StepsFinite DEF Recorded
  <2>2. CASE ~over
    <3>1. Launch({next}) /\ UNCHANGED <<status, reported, setting, results, level, votes>>
      BY <1>2, <2>2 DEF SequentialTurn
    <3>2. {next} \subseteq Steps
      BY <2>1, <2>2, WorkflowAssumption DEF Steps
    <3> HIDE DEF next
    <3>3. QED BY <3>1, <3>2 DEF Launch, WorkflowTypeOK
  <2>3. CASE over
    <3>1. /\ Return(IF Recorded(results) = Succeeded(results) THEN "success" ELSE "failed",
                    Recorded(results))
          /\ UNCHANGED <<task, batch, setting, results, level, votes>>
      BY <1>2, <2>3 DEF SequentialTurn
    <3>2. QED BY <2>1, <3>1 DEF Return, WorkflowTypeOK
  <2>4. QED BY <2>2, <2>3
<1>3. ASSUME NEW skip \in SUBSET Steps PROVE
        Skipped(skip) \in [Steps -> {"none", "ok", "failed", "cancelled", "skipped"}]
  BY DEF Skipped, WorkflowTypeOK
<1>4. Aggregate(results) \in {"success", "partial", "failed"} /\ Recorded(results) \subseteq Steps
  BY DEF Aggregate, Recorded
<1>5. CASE ParallelTurn
  <2> DEFINE known == {s \in Steps \ Recorded(results) : deps[s] \subseteq Recorded(results)}
             skip == {s \in known : Blocked(s)}
             ready == known \ skip
  <2>1. known \subseteq Steps /\ skip \in SUBSET Steps /\ ready \subseteq Steps
    OBVIOUS
  <2>2. /\ results' = Skipped(skip)
        /\ \/ Launch(ready) /\ UNCHANGED <<status, reported>>
           \/ UNCHANGED <<phase, task, batch, status, reported>>
           \/ Return(Aggregate(results), Recorded(results)) /\ UNCHANGED <<task, batch>>
        /\ UNCHANGED <<setting, level, votes>>
    BY <1>5 DEF ParallelTurn
  <2> HIDE DEF known, skip, ready
  <2>3. QED BY <1>3, <1>4, <2>1, <2>2 DEF Launch, Return, WorkflowTypeOK
<1>6. CASE HierarchicalTurn
  <2> DEFINE here == {s \in Steps : Depth[N][s] = level}
             skip == {s \in here : Blocked(s)}
             run == here \ skip
  <2>1. here \subseteq Steps /\ skip \in SUBSET Steps /\ run \subseteq Steps
    OBVIOUS
  <2>2. /\ results' = Skipped(skip)
        /\ level' = level + 1
        /\ \/ Launch(run) /\ UNCHANGED <<status, reported>>
           \/ UNCHANGED <<phase, task, batch, status, reported>>
           \/ Return(Aggregate(results), Recorded(results)) /\ UNCHANGED <<task, batch>>
        /\ UNCHANGED <<setting, votes>>
    BY <1>6 DEF HierarchicalTurn
  <2> HIDE DEF here, skip, run
  <2>3. QED BY <1>3, <1>4, <2>1, <2>2 DEF Launch, Return, WorkflowTypeOK
<1>7. CASE WaveDone
  <2>1. results' \in [Steps -> {"none", "ok", "failed", "cancelled", "skipped"}]
    BY <1>7, RecordType DEF WaveDone, WaveOver, WorkflowTypeOK
  <2>2. QED BY <1>7, <2>1 DEF WaveDone, WorkflowTypeOK
<1>8. ASSUME NEW rest \in SUBSET Steps, CancelRest(rest)
      PROVE  /\ task' \in [Steps -> {"idle", "running", "cancelling", "ok", "failed", "cancelled"}]
             /\ batch' \subseteq Steps /\ phase' = "cancelling"
  BY <1>8 DEF CancelRest, WorkflowTypeOK
<1>9. CASE Wake
  <2> DEFINE done == {s \in batch : Done(s)}
  <2>1. /\ done \subseteq Steps /\ batch \ done \in SUBSET Steps
        /\ \A S \in SUBSET done : S \in SUBSET Steps /\ \A s \in S : Done(s)
    BY DEF WorkflowTypeOK
  <2>2. \/ ConsensusCounts(done) \/ CompetitiveLoses(done)
        \/ \E w \in done, met \in SUBSET done : CompetitiveWins(done, w, met)
    BY <1>9 DEF Wake
  <2>3. UNCHANGED <<setting, level>>
    BY <1>9 DEF Wake
  <2> HIDE DEF done
  <2>4. \A S \in SUBSET done :
          Record(S) \in [Steps -> {"none", "ok", "failed", "cancelled", "skipped"}]
    BY <2>1, RecordType
  <2>5. CASE ConsensusCounts(done)
    <3>1. /\ results' = Record(done)
          /\ votes' = votes \union {s \in done : task[s] = "ok"}
          /\ CancelRest(batch \ done) \/ (batch' = batch \ done /\ UNCHANGED <<task, phase>>)
          /\ UNCHANGED <<status, reported>>
      BY <2>5 DEF ConsensusCounts
    <3>2. QED BY <1>8, <2>1, <2>3, <2>4, <3>1 DEF WorkflowTypeOK
  <2>6. CASE CompetitiveLoses(done)
    <3>1. /\ results' = Record(done) /\ batch' = batch \ done /\ UNCHANGED <<task, votes>>
          /\ Return("failed", Recorded(results')) \/ UNCHANGED <<phase, status, reported>>
      BY <2>6 DEF CompetitiveLoses
    <3>2. Recorded(results') \subseteq Steps
      BY DEF Recorded
    <3>3. QED BY <2>1, <2>3, <2>4, <3>1, <3>2 DEF Return, WorkflowTypeOK
  <2>7. ASSUME NEW w \in done, NEW met \in SUBSET done, CompetitiveWins(done, w, met)
        PROVE  WorkflowTypeOK'
    <3>1. met \union {w} \in SUBSET done /\ votes' \subseteq Steps
      BY <2>1, <2>7 DEF CompetitiveWins
    <3>2. results' \in [Steps -> {"none", "ok", "failed", "cancelled", "skipped"}]
      BY <2>4, <2>7, <3>1 DEF CompetitiveWins
    <3>3. CancelRest(batch \ done) /\ UNCHANGED <<status, reported>>
      BY <2>7 DEF CompetitiveWins
    <3>4. QED BY <1>8, <2>1, <2>3, <3>1, <3>2, <3>3 DEF WorkflowTypeOK
  <2>8. QED BY <2>2, <2>5, <2>6, <2>7
<1>10. CASE Gathered
  <2> DEFINE final == IF executor = "consensus" /\ ~QuorumMet THEN results ELSE Record(batch)
  <2>1. final \in [Steps -> {"none", "ok", "failed", "cancelled", "skipped"}]
    BY <1>10, RecordType DEF Gathered, WorkflowTypeOK
  <2>2. Recorded(final) \subseteq Steps
    BY DEF Recorded
  <2>3. /\ results' = final
        /\ \/ Return("success", IF include_all THEN Recorded(final) ELSE votes)
           \/ \E st \in {"success", "partial", "failed"} : Return(st, Recorded(final))
        /\ UNCHANGED <<setting, task, batch, level, votes>>
    BY <1>10 DEF Gathered
  <2> HIDE DEF final
  <2>4. QED BY <2>1, <2>2, <2>3 DEF Return, WorkflowTypeOK
<1>11. ASSUME NEW s \in Steps, StepEnds(s) \/ StepRaises(s) \/ CancelEnds(s)
       PROVE  WorkflowTypeOK'
  BY <1>11 DEF StepEnds, StepRaises, CancelEnds, WorkflowTypeOK
<1>12. CASE UNCHANGED workflowVars
  BY <1>12 DEF workflowVars, WorkflowTypeOK
<1>13. QED
  BY <1>1, <1>2, <1>5, <1>6, <1>7, <1>9, <1>10, <1>11, <1>12 DEF WorkflowNext, Turn, Finished

\* The state of every executor stays in its types.
THEOREM WorkflowTypeCorrect == WorkflowSpec => []WorkflowTypeOK
<1>1. WorkflowInit => WorkflowTypeOK
  <2> SUFFICES ASSUME WorkflowInit PROVE WorkflowTypeOK
    OBVIOUS
  <2>1. deps \in [Steps -> SUBSET (Steps \union {Unknown})]
    <3>1. CASE executor \in Waves
      BY <3>1, WorkflowAssumption DEF WorkflowInit
    <3>2. CASE executor \notin Waves
      BY <3>2 DEF WorkflowInit
    <3>3. QED BY <3>1, <3>2
  <2>2. quorum \in Steps
    BY WorkflowAssumption DEF WorkflowInit, Steps
  <2>3. QED BY <2>1, <2>2 DEF WorkflowInit, WorkflowTypeOK
<1>2. QED BY <1>1, WorkflowTypeStep, PTL DEF WorkflowSpec
-----------------------------------------------------------------------------
(* Races *)

\* A race that is running has recorded the tasks that are no longer pending, and counted
\* their successes.
RaceRunning ==
  /\ \A s \in batch : task[s] \in {"running", "ok", "failed"} /\ results[s] = "none"
  /\ \A s \in Steps \ batch : task[s] \in {"ok", "failed"} /\ results[s] = task[s]
  /\ votes = {s \in Steps : results[s] = "ok"}
  /\ executor = "competitive" => votes = {}

\* A race that cancels its losers has its verdict.
RaceCancelling ==
  /\ \A s \in Steps \ batch : Done(s)
  /\ \A s \in votes : s \notin batch /\ task[s] = "ok" /\ results[s] = "ok"
  /\ executor = "competitive" => \E w \in Steps : votes = {w}
  /\ executor = "consensus" =>
       /\ \A s \in batch : results[s] = "none"
       /\ \A s \in Steps \ batch : results[s] \in {"ok", "failed"}
       /\ votes = {s \in Steps : results[s] = "ok"}
       /\ Cardinality(votes) >= quorum \/ Cardinality(votes) + Cardinality(batch) < quorum

\* The inductive invariant behind RaceJust.
RaceKept ==
  executor \in Races =>
    /\ phase \in {"new", "running", "cancelling", "returned"}
    /\ phase = "new" => votes = {} /\ \A s \in Steps : results[s] = "none"
    /\ phase = "running" => RaceRunning
    /\ phase = "cancelling" => RaceCancelling
    /\ RaceJust

\* The number of steps that are in neither of two sets.
LEMMA RestCounted ==
  ASSUME NEW A \in SUBSET Steps, NEW B \in SUBSET Steps, A \cap B = {}
  PROVE  N - Cardinality(Steps \ (A \union B)) = Cardinality(A) + Cardinality(B)
<1>1. IsFiniteSet(A) /\ IsFiniteSet(B) /\ IsFiniteSet(A \union B) /\ A \union B \in SUBSET Steps
  BY StepsFinite
<1>2. Cardinality(A \union B) = Cardinality(A) + Cardinality(B)
  <2>1. Cardinality(A \cap B) = 0
    BY FS_EmptySet
  <2>2. Cardinality(A) \in Int /\ Cardinality(B) \in Int
    BY StepsFinite
  <2>3. QED BY <1>1, <2>1, <2>2, FS_Union
<1>3. Cardinality(Steps \ (A \union B)) = N - Cardinality(A \union B)
  <2>1. Steps \cap (A \union B) = A \union B
    BY <1>1
  <2>2. QED BY <1>1, <2>1, StepsFinite, FS_Difference
<1>4. N \in Int /\ Cardinality(A) \in Int /\ Cardinality(B) \in Int
  BY StepsFinite, WorkflowAssumption
<1>5. QED BY <1>2, <1>3, <1>4

\* A wake-up of a consensus counts and goes on, or has a verdict.
LEMMA ConsensusKeeps ==
  ASSUME WorkflowTypeOK, RaceRunning, phase = "running", executor = "consensus",
         NEW done, done = {s \in batch : Done(s)}, ConsensusCounts(done), UNCHANGED setting
  PROVE  \/ phase' = "running" /\ RaceRunning'
         \/ phase' = "cancelling" /\ RaceCancelling'
<1> DEFINE open == batch \ done
           yes == votes \union {s \in done : task[s] = "ok"}
<1>1. done \subseteq batch /\ batch \subseteq Steps /\ open \subseteq Steps /\ votes \subseteq Steps
  BY DEF WorkflowTypeOK
<1>2. \A s \in done : task[s] \in {"ok", "failed"}
  BY DEF RaceRunning, Done
<1>3. /\ results' = Record(done) /\ votes' = yes /\ batch' = open
      /\ executor' = executor /\ quorum' = quorum
  BY DEF ConsensusCounts, CancelRest, setting
<1>4. \A s \in Steps : results'[s] = IF s \in done THEN task[s] ELSE results[s]
  BY <1>3 DEF Record
<1>5. /\ \A s \in open : results'[s] = "none"
      /\ \A s \in Steps \ open : results'[s] = task[s] /\ task[s] \in {"ok", "failed"}
  BY <1>1, <1>2, <1>4 DEF RaceRunning
<1>6. votes' = {s \in Steps : results'[s] = "ok"}
  BY <1>1, <1>3, <1>4 DEF RaceRunning
<1>7. CASE Cardinality(yes) >= quorum \/ Hopeless(Cardinality(yes), Cardinality(open))
  <2>1. CancelRest(open)
    BY <1>7 DEF ConsensusCounts
  <2>2. /\ phase' = "cancelling"
        /\ \A s \in Steps \ open : task'[s] = task[s]
    BY <2>1 DEF CancelRest
  <2>3. \A s \in Steps \ batch' : Done(s)'
    BY <1>3, <1>5, <2>2 DEF Done
  <2>4. \A s \in votes' : s \notin batch' /\ task'[s] = "ok" /\ results'[s] = "ok"
    <3> SUFFICES ASSUME NEW s \in votes'
                 PROVE  s \notin batch' /\ task'[s] = "ok" /\ results'[s] = "ok"
      OBVIOUS
    <3>1. s \in Steps /\ results'[s] = "ok"
      BY <1>6
    <3>2. s \notin open
      BY <1>5, <3>1
    <3>3. QED BY <1>3, <1>5, <2>2, <3>1, <3>2
  <2>5. Cardinality(votes') >= quorum' \/ Cardinality(votes') + Cardinality(batch') < quorum'
    BY <1>3, <1>7 DEF Hopeless
  <2>6. /\ \A s \in batch' : results'[s] = "none"
        /\ \A s \in Steps \ batch' : results'[s] \in {"ok", "failed"}
    BY <1>3, <1>5
  <2>7. RaceCancelling'
    BY <1>3, <1>6, <2>3, <2>4, <2>5, <2>6 DEF RaceCancelling
  <2>8. QED BY <2>2, <2>7
<1>8. CASE ~(Cardinality(yes) >= quorum \/ Hopeless(Cardinality(yes), Cardinality(open)))
  <2>1. UNCHANGED <<task, phase>>
    BY <1>8 DEF ConsensusCounts
  <2>2. \A s \in batch' : task'[s] \in {"running", "ok", "failed"} /\ results'[s] = "none"
    BY <1>3, <1>5, <2>1 DEF RaceRunning
  <2>3. \A s \in Steps \ batch' : task'[s] \in {"ok", "failed"} /\ results'[s] = task'[s]
    BY <1>3, <1>5, <2>1
  <2>4. RaceRunning'
    BY <1>3, <1>6, <2>2, <2>3 DEF RaceRunning
  <2>5. QED BY <2>1, <2>4
<1>9. QED BY <1>7, <1>8

\* A wake-up of a competition without a success goes on, or fails with everybody.
LEMMA LosersKeep ==
  ASSUME WorkflowTypeOK, RaceRunning, phase = "running", executor = "competitive",
         NEW done, done = {s \in batch : Done(s)}, CompetitiveLoses(done), UNCHANGED setting
  PROVE  \/ phase' = "running" /\ RaceRunning'
         \/ phase' = "returned" /\ RaceJust'
<1>1. done \subseteq batch /\ batch \subseteq Steps
  BY DEF WorkflowTypeOK
<1>2. \A s \in done : task[s] = "failed"
  BY DEF RaceRunning, Done, CompetitiveLoses
<1>3. /\ results' = Record(done) /\ batch' = batch \ done /\ task' = task /\ votes' = votes
      /\ executor' = executor
  BY DEF CompetitiveLoses, setting
<1>4. \A s \in Steps : results'[s] = IF s \in done THEN task[s] ELSE results[s]
  BY <1>3 DEF Record
<1>5. votes = {} /\ \A s \in Steps \ batch : task[s] = "failed" /\ results[s] = "failed"
  BY DEF RaceRunning
<1>6. /\ \A s \in batch' : task'[s] \in {"running", "ok", "failed"} /\ results'[s] = "none"
      /\ \A s \in Steps \ batch' : task'[s] = "failed" /\ results'[s] = "failed"
  BY <1>1, <1>2, <1>3, <1>4, <1>5 DEF RaceRunning
<1>7. votes' = {} /\ \A s \in Steps : results'[s] # "ok"
  BY <1>3, <1>5, <1>6
<1>8. CASE batch' = {}
  <2>1. Return("failed", Recorded(results'))
    BY <1>8 DEF CompetitiveLoses
  <2>2. phase' = "returned" /\ status' = "failed" /\ reported' = Recorded(results')
    BY <2>1 DEF Return
  <2>3. \A s \in Steps : task'[s] = "failed" /\ results'[s] = "failed"
    BY <1>6, <1>8
  <2>4. reported' = Steps
    BY <2>2, <2>3 DEF Recorded
  <2>5. RaceJust'
    BY <1>3, <1>7, <2>2, <2>3, <2>4 DEF RaceJust, Done
  <2>6. QED BY <2>2, <2>5
<1>9. CASE batch' # {}
  <2>1. phase' = phase
    BY <1>9 DEF CompetitiveLoses
  <2>2. RaceRunning'
    BY <1>3, <1>6, <1>7 DEF RaceRunning
  <2>3. QED BY <2>1, <2>2
<1>10. QED BY <1>8, <1>9

\* A wake-up of a competition with a success names the winner and cancels the rest.
LEMMA WinnerKeeps ==
  ASSUME WorkflowTypeOK, RaceRunning, phase = "running", executor = "competitive",
         NEW done, done = {s \in batch : Done(s)}, NEW w \in done, NEW met \in SUBSET done,
         CompetitiveWins(done, w, met), UNCHANGED setting
  PROVE  phase' = "cancelling" /\ RaceCancelling'
<1>1. done \subseteq batch /\ batch \subseteq Steps /\ w \in Steps
  BY DEF WorkflowTypeOK
<1>2. /\ task[w] = "ok" /\ results' = Record(met \union {w}) /\ votes' = {w}
      /\ batch' = batch \ done /\ phase' = "cancelling" /\ executor' = executor
      /\ task' = [s \in Steps |-> IF s \in batch \ done THEN "cancelling" ELSE task[s]]
  BY DEF CompetitiveWins, CancelRest, setting
<1>3. results'[w] = "ok" /\ task'[w] = "ok"
  BY <1>1, <1>2 DEF Record
<1>4. \A s \in Steps \ batch' : Done(s)'
  BY <1>1, <1>2 DEF Done, RaceRunning
<1>5. RaceCancelling'
  BY <1>1, <1>2, <1>3, <1>4 DEF RaceCancelling
<1>6. QED BY <1>2, <1>5

\* A race that has gathered its losers has a justified verdict.
LEMMA GatheredJust ==
  ASSUME WorkflowTypeOK, RaceCancelling, executor \in Races, Gathered
  PROVE  RaceJust'
<1> DEFINE final == IF executor = "consensus" /\ ~QuorumMet THEN results ELSE Record(batch)
<1>1. /\ results' = final /\ task' = task /\ votes' = votes /\ executor' = executor
      /\ quorum' = quorum
  BY DEF Gathered, setting
<1>2. \A s \in Steps : Done(s)'
  BY <1>1 DEF Gathered, RaceCancelling, Done
<1>3. votes \subseteq Steps
  BY DEF WorkflowTypeOK
<1>4. \A s \in votes : task'[s] = "ok" /\ results'[s] = "ok"
  BY <1>1, <1>3 DEF RaceCancelling, Record
<1>5. CASE executor = "competitive"
  <2>1. Return("success", IF include_all THEN Recorded(final) ELSE votes)
    BY <1>5 DEF Gathered
  <2>2. PICK w \in Steps : votes = {w}
    BY <1>5 DEF RaceCancelling
  <2>3. Cardinality(votes') = 1
    BY <1>1, <2>2, FS_Singleton
  <2>4. votes \subseteq Recorded(results')
    BY <1>3, <1>4 DEF Recorded
  <2>5. status' = "success" /\ votes' \subseteq reported'
    BY <1>1, <2>1, <2>4 DEF Return
  <2>6. QED BY <1>1, <1>2, <1>4, <1>5, <2>3, <2>5 DEF RaceJust
<1>6. CASE executor = "consensus"
  <2>1. CASE QuorumMet
    <3>1. Return("success", Recorded(final))
      BY <1>6, <2>1 DEF Gathered
    <3>2. status' = "success" /\ Cardinality(votes') >= quorum'
      BY <1>1, <2>1, <3>1 DEF Return, QuorumMet
    <3>3. QED BY <1>1, <1>2, <1>4, <1>6, <3>2 DEF RaceJust
  <2>2. CASE ~QuorumMet
    <3> DEFINE failed == {s \in Steps : results'[s] = "failed"}
    <3>1. results' = results
      BY <1>1, <1>6, <2>2
    <3>2. failed = Steps \ (votes \union batch) /\ votes \cap batch = {} /\ batch \subseteq Steps
      BY <1>6, <3>1 DEF RaceCancelling, WorkflowTypeOK
    <3>3. N - Cardinality(failed) = Cardinality(votes) + Cardinality(batch)
      BY <1>3, <3>2, RestCounted
    <3>4. Cardinality(votes) + Cardinality(batch) < quorum
      BY <1>6, <2>2 DEF QuorumMet, RaceCancelling
    <3>5. N - Cardinality(failed) < quorum'
      BY <1>1, <3>3, <3>4
    <3>6. status' # "success"
      BY <1>6, <2>2 DEF Gathered, Return
    <3>7. QED BY <1>1, <1>2, <1>4, <1>6, <3>5, <3>6 DEF RaceJust
  <2>3. QED BY <2>1, <2>2
<1>7. QED BY <1>5, <1>6 DEF Races

\* Every action keeps RaceKept.
LEMMA RaceStep == WorkflowTypeOK /\ RaceKept /\ [WorkflowNext]_workflowVars => RaceKept'
<1> SUFFICES ASSUME WorkflowTypeOK, RaceKept, [WorkflowNext]_workflowVars, executor' \in Races
             PROVE  RaceKept'
  BY DEF RaceKept
<1>0. executor' = executor /\ quorum' = quorum /\ UNCHANGED setting
  BY DEF WorkflowNext, workflowVars, setting, Begin, Turn, SequentialTurn, ParallelTurn, HierarchicalTurn,
         WaveDone, Wake, Gathered, StepEnds, StepRaises, CancelEnds, Finished
<1>a. executor \in Races /\ executor \notin Waves /\ executor # "sequential"
  BY <1>0 DEF Races, Waves
<1>b. executor \in {"competitive", "consensus"}
  BY <1>a DEF Races
<1>c. /\ phase \in {"new", "running", "cancelling", "returned"}
      /\ phase = "new" => votes = {} /\ \A s \in Steps : results[s] = "none"
      /\ phase = "running" => RaceRunning
      /\ phase = "cancelling" => RaceCancelling
      /\ RaceJust
  BY <1>a DEF RaceKept
<1>1. CASE Begin
  <2>1. Launch(Steps) /\ UNCHANGED <<results, votes>> /\ phase = "new"
    BY <1>1, <1>a DEF Begin, Refuses
  <2>2. phase' = "running" /\ batch' = Steps /\ task' = [s \in Steps |-> "running"]
    BY <2>1 DEF Launch
  <2>3. RaceRunning'
    BY <1>c, <2>1, <2>2 DEF RaceRunning
  <2>4. QED BY <2>2, <2>3 DEF RaceKept, RaceJust
<1>2. CASE Wake
  <2> DEFINE done == {s \in batch : Done(s)}
  <2>1. phase = "running" /\ RaceRunning
    BY <1>2, <1>c DEF Wake
  <2>2. \/ executor = "consensus" /\ ConsensusCounts(done)
        \/ executor = "competitive" /\ CompetitiveLoses(done)
        \/ /\ executor = "competitive"
           /\ \E w \in done, met \in SUBSET done : CompetitiveWins(done, w, met)
    BY <1>2, <1>b DEF Wake
  <2> HIDE DEF done
  <2>3. done = {s \in batch : Done(s)}
    BY DEF done
  <2>4. \/ phase' = "running" /\ RaceRunning'
        \/ phase' = "cancelling" /\ RaceCancelling'
        \/ phase' = "returned" /\ RaceJust'
    <3>1. CASE executor = "consensus" /\ ConsensusCounts(done)
      BY <1>0, <2>1, <2>3, <3>1, ConsensusKeeps
    <3>2. CASE executor = "competitive" /\ CompetitiveLoses(done)
      BY <1>0, <2>1, <2>3, <3>2, LosersKeep
    <3>3. ASSUME executor = "competitive", NEW w \in done, NEW met \in SUBSET done,
                 CompetitiveWins(done, w, met)
          PROVE  phase' = "cancelling" /\ RaceCancelling'
      BY <1>0, <2>1, <2>3, <3>3, WinnerKeeps
    <3>4. QED BY <2>2, <3>1, <3>2, <3>3
  <2>5. phase' # "returned" => RaceJust'
    BY DEF RaceJust
  <2>6. QED BY <2>4, <2>5 DEF RaceKept
<1>3. CASE Gathered
  <2>1. RaceCancelling
    BY <1>3, <1>c DEF Gathered
  <2>2. RaceJust'
    BY <1>3, <1>a, <2>1, GatheredJust
  <2>3. phase' = "returned"
    BY <1>3 DEF Gathered, Return
  <2>4. QED BY <2>2, <2>3 DEF RaceKept
<1>4. ASSUME NEW s \in Steps, StepEnds(s) \/ CancelEnds(s) PROVE RaceKept'
  <2>1. /\ UNCHANGED <<phase, results, batch, votes, status, reported>>
        /\ task[s] \in {"running", "cancelling"}
        /\ \E o \in {"ok", "failed", "cancelled"} :
             task' = [task EXCEPT ![s] = o] /\ (task[s] = "running" => o # "cancelled")
    BY <1>4 DEF StepEnds, CancelEnds
  <2>2. PICK o \in {"ok", "failed", "cancelled"} :
             task' = [task EXCEPT ![s] = o] /\ (task[s] = "running" => o # "cancelled")
    BY <2>1
  <2>3. task'[s] = o /\ \A r \in Steps \ {s} : task'[r] = task[r]
    BY <2>2 DEF WorkflowTypeOK
  <2>4. ~Done(s)
    BY <2>1 DEF Done
  <2>5. CASE phase = "new"
    BY <1>c, <2>1, <2>5 DEF RaceKept, RaceJust
  <2>6. CASE phase = "running"
    <3>1. RaceRunning
      BY <1>c, <2>6
    <3>2. s \in batch /\ task[s] = "running"
      BY <2>1, <3>1 DEF RaceRunning
    <3>3. RaceRunning'
      <4>1. /\ \A r \in batch' : task'[r] \in {"running", "ok", "failed"} /\ results'[r] = "none"
            /\ \A r \in Steps \ batch' : task'[r] \in {"ok", "failed"} /\ results'[r] = task'[r]
        BY <2>1, <2>2, <2>3, <3>1, <3>2 DEF RaceRunning, WorkflowTypeOK
      <4>2. QED BY <1>0, <2>1, <3>1, <4>1 DEF RaceRunning
    <3>4. QED BY <2>1, <2>6, <3>3 DEF RaceKept, RaceJust
  <2>7. CASE phase = "cancelling"
    <3>1. RaceCancelling
      BY <1>c, <2>7
    <3>2. s \in batch
      BY <2>4, <3>1 DEF RaceCancelling
    <3>3. \A r \in Steps \ batch' : Done(r)'
      BY <2>1, <2>3, <3>1, <3>2 DEF RaceCancelling, Done
    <3>4. \A r \in votes' : r \notin batch' /\ task'[r] = "ok" /\ results'[r] = "ok"
      BY <2>1, <2>3, <3>1, <3>2 DEF RaceCancelling, WorkflowTypeOK
    <3>5. RaceCancelling'
      BY <1>0, <2>1, <3>1, <3>3, <3>4 DEF RaceCancelling
    <3>6. QED BY <2>1, <2>7, <3>5 DEF RaceKept, RaceJust
  <2>8. CASE phase = "returned"
    BY <1>a, <1>c, <2>4, <2>8 DEF RaceJust
  <2>9. QED BY <1>c, <2>5, <2>6, <2>7, <2>8
<1>5. CASE UNCHANGED workflowVars
  <2>1. /\ RaceRunning' <=> RaceRunning
        /\ RaceCancelling' <=> RaceCancelling
        /\ RaceJust' <=> RaceJust
    BY <1>5 DEF workflowVars, setting, RaceRunning, RaceCancelling, RaceJust, Done
  <2>2. QED BY <1>5, <1>c, <2>1 DEF workflowVars, RaceKept
<1>6. ASSUME NEW s \in Steps, StepRaises(s) PROVE FALSE
  BY <1>6, <1>a DEF StepRaises
<1>7. CASE Turn
  BY <1>7, <1>a DEF Turn, SequentialTurn, ParallelTurn, HierarchicalTurn, Waves
<1>8. CASE WaveDone
  BY <1>8, <1>a DEF WaveDone
<1>9. QED BY <1>1, <1>2, <1>3, <1>4, <1>5, <1>6, <1>7, <1>8 DEF WorkflowNext, Finished

\* For every number of steps and every quorum, a race ends with a justified verdict and
\* with nobody still running.
THEOREM RaceCorrect == WorkflowSpec => []RaceJust
<1>1. WorkflowInit => RaceKept
  BY DEF WorkflowInit, RaceKept, RaceJust
<1>2. RaceKept => RaceJust
  BY DEF RaceKept, RaceJust
<1>3. QED BY <1>1, <1>2, RaceStep, WorkflowTypeCorrect, PTL DEF WorkflowSpec
-----------------------------------------------------------------------------
(* Dependency graphs *)

\* Each step can come after its dependencies.
Orders(rank) == \A s \in Steps : \A d \in deps[s] : d \in Steps /\ rank[d] < rank[s]
Ordered == \E rank \in [Steps -> Steps] : Orders(rank)

\* Visited is what its recursive definition says.
LEMMA VisitedIs ==
  ASSUME deps \in [Steps -> SUBSET (Steps \union {Unknown})]
  PROVE  /\ Visited \in [0..N -> SUBSET Steps]
         /\ Visited[0] = {}
         /\ \A k \in 1..N : Visited[k] = {s \in Steps : deps[s] \subseteq Visited[k - 1]}
<1> DEFINE Fix(V) == V = [k \in 0..N |-> IF k = 0 THEN {}
                                         ELSE {s \in Steps : deps[s] \subseteq V[k - 1]}]
           G == [v \in SUBSET Steps |-> {s \in Steps : deps[s] \subseteq v}]
<1>0. N \in Nat
  BY WorkflowAssumption
<1>1. Visited = CHOOSE V : Fix(V)
  BY DEF Visited
<1>2. G \in [SUBSET Steps -> SUBSET Steps] /\ {} \in SUBSET Steps
  OBVIOUS
<1>3. PICK f \in [0..N -> SUBSET Steps] : f[0] = {} /\ \A k \in 1..N : f[k] = G[f[k - 1]]
  <2> HIDE DEF G
  <2>1. \E g : Iterates(g, SUBSET Steps, {}, G, N)
    BY <1>0, <1>2, Recursion
  <2>2. QED BY <2>1 DEF Iterates
<1>4. ASSUME NEW k \in 0..N
      PROVE  f[k] = IF k = 0 THEN {} ELSE {s \in Steps : deps[s] \subseteq f[k - 1]}
  <2>1. CASE k = 0
    BY <1>3, <2>1
  <2>2. CASE k # 0
    <3>1. k \in 1..N /\ k - 1 \in 0..N
      BY <1>0, <2>2
    <3>2. QED BY <1>3, <2>2, <3>1
  <2>3. QED BY <2>1, <2>2
<1>5. Fix(f)
  BY <1>4
<1>6. Fix(Visited)
  <2> HIDE DEF Fix
  <2> QED BY <1>1, <1>5
<1>7. Visited \in [0..N -> SUBSET Steps] /\ Visited[0] = {}
  BY <1>0, <1>6
<1>8. ASSUME NEW k \in 1..N PROVE Visited[k] = {s \in Steps : deps[s] \subseteq Visited[k - 1]}
  <2>1. k \in 0..N /\ k # 0
    BY <1>0
  <2>2. QED BY <1>6, <2>1
<1>9. QED BY <1>7, <1>8

\* Above is what its recursive definition says.
LEMMA AboveIs ==
  ASSUME deps \in [Steps -> SUBSET Steps]
  PROVE  /\ Above \in [0..N -> [Steps -> SUBSET Steps]]
         /\ Above[0] = deps
         /\ \A k \in 1..N : \A s \in Steps :
              Above[k][s] = deps[s] \union UNION {Above[k - 1][d] : d \in deps[s]}
<1> DEFINE X == [Steps -> SUBSET Steps]
           After(m) == [s \in Steps |-> deps[s] \union UNION {m[d] : d \in deps[s]}]
           Fix(A) == A = [k \in 0..N |-> IF k = 0 THEN deps ELSE After(A[k - 1])]
           G == [m \in X |-> After(m)]
<1>0. N \in Nat
  BY WorkflowAssumption
<1>1. Above = CHOOSE A : Fix(A)
  BY DEF Above
<1>2. \A m \in X : After(m) \in X
  OBVIOUS
<1> HIDE DEF After, X
<1>3. G \in [X -> X] /\ deps \in X
  BY <1>2 DEF X
<1>4. PICK f \in [0..N -> X] : f[0] = deps /\ \A k \in 1..N : f[k] = G[f[k - 1]]
  <2> HIDE DEF G
  <2>1. \E g : Iterates(g, X, deps, G, N)
    BY <1>0, <1>3, Recursion
  <2>2. QED BY <2>1 DEF Iterates
<1>5. ASSUME NEW k \in 0..N PROVE f[k] = IF k = 0 THEN deps ELSE After(f[k - 1])
  <2>1. CASE k = 0
    BY <1>4, <2>1
  <2>2. CASE k # 0
    <3>1. k \in 1..N /\ k - 1 \in 0..N
      BY <1>0, <2>2
    <3>2. QED BY <1>4, <2>2, <3>1
  <2>3. QED BY <2>1, <2>2
<1>6. Fix(f)
  BY <1>5
<1>7. Fix(Above)
  <2> HIDE DEF Fix
  <2> QED BY <1>1, <1>6
<1>8. Above[0] = deps /\ DOMAIN Above = 0..N
  BY <1>0, <1>7
<1>9. ASSUME NEW k \in 1..N PROVE Above[k] = After(Above[k - 1])
  <2>1. k \in 0..N /\ k # 0
    BY <1>0
  <2>2. QED BY <1>7, <2>1
<1>10. 0..N \subseteq {k \in 0..N : Above[k] \in X}
  <2> DEFINE T == {k \in 0..N : Above[k] \in X}
  <2>1. 0 \in T
    BY <1>0, <1>3, <1>8
  <2>2. ASSUME NEW k \in 1..N, k - 1 \in T PROVE k \in T
    BY <1>0, <1>2, <1>9, <2>2
  <2> HIDE DEF T
  <2>3. 0..N \subseteq T
    BY <1>0, <2>1, <2>2, Induction
  <2>4. QED BY <2>3 DEF T
<1>11. Above \in [0..N -> X]
  BY <1>7, <1>10
<1>12. ASSUME NEW k \in 1..N, NEW s \in Steps
       PROVE  Above[k][s] = deps[s] \union UNION {Above[k - 1][d] : d \in deps[s]}
  BY <1>9 DEF After
<1>13. QED BY <1>8, <1>11, <1>12 DEF X

\* Depth is what its recursive definition says.
LEMMA DepthIs ==
  ASSUME deps \in [Steps -> SUBSET Steps]
  PROVE  /\ Depth \in [0..N -> [Steps -> Nat]]
         /\ \A s \in Steps : Depth[0][s] = 0
         /\ \A k \in 1..N : \A s \in Steps :
              Depth[k][s] = IF deps[s] = {} THEN 0
                            ELSE 1 + Max({Depth[k - 1][d] : d \in deps[s]})
<1> DEFINE X == [Steps -> Nat]
           Zeros == [s \in Steps |-> 0]
           After(m) == [s \in Steps |-> IF deps[s] = {} THEN 0 ELSE 1 + Max({m[d] : d \in deps[s]})]
           Fix(D) == D = [k \in 0..N |-> [s \in Steps |->
                            IF k = 0 \/ deps[s] = {} THEN 0
                            ELSE 1 + Max({D[k - 1][d] : d \in deps[s]})]]
           G == [m \in X |-> After(m)]
<1>0. N \in Nat
  BY WorkflowAssumption
<1>1. Depth = CHOOSE D : Fix(D)
  BY DEF Depth
<1>2. ASSUME NEW m \in X PROVE After(m) \in X
  <2>1. ASSUME NEW s \in Steps, deps[s] # {} PROVE 1 + Max({m[d] : d \in deps[s]}) \in Nat
    <3> DEFINE S == {m[d] : d \in deps[s]}
    <3>0. IsFiniteSet(deps[s])
      BY StepsFinite, FS_Subset
    <3>1. S \subseteq Nat /\ S \subseteq Int /\ S # {}
      BY <2>1
    <3>2. IsFiniteSet(S)
      BY <3>0, ImageFinite
    <3> HIDE DEF S
    <3>3. Max(S) \in S
      BY <3>1, <3>2, MaxIsLargest
    <3>4. QED BY <3>1, <3>3 DEF S
  <2>2. QED BY <2>1
<1>3. ASSUME NEW m, NEW s \in Steps
      PROVE  After(m)[s] = IF deps[s] = {} THEN 0 ELSE 1 + Max({m[d] : d \in deps[s]})
  OBVIOUS
<1>4. \A m : After(m) = [s \in Steps |-> After(m)[s]]
  OBVIOUS
<1>5. Zeros \in X /\ \A s \in Steps : Zeros[s] = 0
  OBVIOUS
<1> HIDE DEF X
<1>6. G \in [X -> X]
  BY <1>2
<1>7. PICK f \in [0..N -> X] : f[0] = Zeros /\ \A k \in 1..N : f[k] = G[f[k - 1]]
  <2> HIDE DEF G, Zeros
  <2>1. \E g : Iterates(g, X, Zeros, G, N)
    BY <1>0, <1>5, <1>6, Recursion
  <2>2. QED BY <2>1 DEF Iterates
<1>8. ASSUME NEW k \in 0..N
      PROVE  f[k] = [s \in Steps |-> IF k = 0 \/ deps[s] = {} THEN 0
                                     ELSE 1 + Max({f[k - 1][d] : d \in deps[s]})]
  <2>1. CASE k = 0
    BY <1>7, <2>1
  <2>2. CASE k # 0
    <3>1. k \in 1..N /\ k - 1 \in 0..N
      BY <1>0, <2>2
    <3>2. f[k] = After(f[k - 1])
      <4> HIDE DEF After
      <4> QED BY <1>7, <3>1
    <3>3. QED BY <2>2, <3>2
  <2>3. QED BY <2>1, <2>2
<1>9. Fix(f)
  BY <1>8
<1>10. Fix(Depth)
  <2> HIDE DEF Fix
  <2> QED BY <1>1, <1>9
<1>11. Depth[0] = Zeros /\ DOMAIN Depth = 0..N
  BY <1>0, <1>10
<1>12. ASSUME NEW k \in 1..N PROVE Depth[k] = After(Depth[k - 1])
  <2>1. k \in 0..N /\ k # 0
    BY <1>0
  <2>2. QED BY <1>10, <2>1
<1> HIDE DEF After, Zeros
<1>13. 0..N \subseteq {k \in 0..N : Depth[k] \in X}
  <2> DEFINE T == {k \in 0..N : Depth[k] \in X}
  <2>1. 0 \in T
    BY <1>0, <1>5, <1>11
  <2>2. ASSUME NEW k \in 1..N, k - 1 \in T PROVE k \in T
    BY <1>0, <1>2, <1>12, <2>2
  <2> HIDE DEF T
  <2>3. 0..N \subseteq T
    BY <1>0, <2>1, <2>2, Induction
  <2>4. QED BY <2>3 DEF T
<1>14. Depth \in [0..N -> X]
  BY <1>10, <1>13
<1>15. ASSUME NEW k \in 1..N, NEW s \in Steps
       PROVE  Depth[k][s] = IF deps[s] = {} THEN 0
                            ELSE 1 + Max({Depth[k - 1][d] : d \in deps[s]})
  BY <1>12 DEF After
<1>16. QED BY <1>5, <1>11, <1>14, <1>15 DEF X

\* In an ordered graph no step depends on an unknown one.
LEMMA OrderKnown ==
  ASSUME deps \in [Steps -> SUBSET (Steps \union {Unknown})], NEW rank, Orders(rank)
  PROVE  deps \in [Steps -> SUBSET Steps]
BY DEF Orders

\* In an ordered graph Kahn's queue visits every step.
LEMMA OrderVisits ==
  ASSUME deps \in [Steps -> SUBSET (Steps \union {Unknown})],
         NEW rank \in [Steps -> Steps], Orders(rank)
  PROVE  Visited[N] = Steps
<1>0. N \in Nat
  BY WorkflowAssumption
<1>1. \A s \in Steps : rank[s] \in Nat /\ 0 < rank[s] /\ rank[s] <= N
  BY <1>0 DEF Steps
<1>2. /\ Visited \in [0..N -> SUBSET Steps]
      /\ \A k \in 1..N : Visited[k] = {s \in Steps : deps[s] \subseteq Visited[k - 1]}
  BY VisitedIs
<1> DEFINE T == {k \in 0..N : \A s \in Steps : rank[s] <= k => s \in Visited[k]}
<1>3. 0 \in T
  BY <1>0, <1>1
<1>4. ASSUME NEW k \in 1..N, k - 1 \in T PROVE k \in T
  <2> SUFFICES ASSUME NEW s \in Steps, rank[s] <= k PROVE s \in Visited[k]
    BY <1>0
  <2>1. ASSUME NEW d \in deps[s] PROVE d \in Visited[k - 1]
    <3>1. d \in Steps /\ rank[d] < rank[s]
      BY <2>1 DEF Orders
    <3>2. rank[d] <= k - 1
      BY <1>0, <1>1, <3>1
    <3>3. QED BY <1>4, <3>1, <3>2
  <2>2. QED BY <1>2, <2>1
<1> HIDE DEF T
<1>5. 0..N \subseteq T
  BY <1>0, <1>3, <1>4, Induction
<1>6. N \in T /\ N \in 0..N
  BY <1>0, <1>5
<1>7. QED BY <1>1, <1>2, <1>6 DEF T

\* In an ordered graph no depth-first search comes back to where it started.
LEMMA OrderAbove ==
  ASSUME deps \in [Steps -> SUBSET (Steps \union {Unknown})],
         NEW rank \in [Steps -> Steps], Orders(rank)
  PROVE  ~\E s \in Steps : s \in Above[N][s]
<1>0. N \in Nat
  BY WorkflowAssumption
<1>1. \A s \in Steps : rank[s] \in Nat
  BY <1>0 DEF Steps
<1>2. deps \in [Steps -> SUBSET Steps]
  BY OrderKnown
<1>3. /\ Above \in [0..N -> [Steps -> SUBSET Steps]]
      /\ Above[0] = deps
      /\ \A k \in 1..N : \A s \in Steps :
           Above[k][s] = deps[s] \union UNION {Above[k - 1][d] : d \in deps[s]}
  BY <1>2, AboveIs
<1> DEFINE T == {k \in 0..N : \A s \in Steps : \A x \in Above[k][s] : rank[x] < rank[s]}
<1>4. 0 \in T
  BY <1>0, <1>3 DEF Orders
<1>5. ASSUME NEW k \in 1..N, k - 1 \in T PROVE k \in T
  <2> SUFFICES ASSUME NEW s \in Steps, NEW x \in Above[k][s] PROVE rank[x] < rank[s]
    BY <1>0
  <2>1. CASE x \in deps[s]
    BY <2>1 DEF Orders
  <2>2. CASE x \notin deps[s]
    <3>1. PICK d \in deps[s] : x \in Above[k - 1][d]
      BY <1>3, <2>2
    <3>2. d \in Steps /\ rank[d] < rank[s]
      BY <3>1 DEF Orders
    <3>3. rank[x] < rank[d] /\ x \in Steps
      BY <1>0, <1>3, <1>5, <3>1, <3>2
    <3>4. QED BY <1>1, <3>2, <3>3
  <2>3. QED BY <2>1, <2>2
<1> HIDE DEF T
<1>6. 0..N \subseteq T
  BY <1>0, <1>4, <1>5, Induction
<1>7. N \in T
  BY <1>0, <1>6
<1>8. \A s \in Steps : ~(rank[s] < rank[s])
  BY <1>1
<1>9. QED BY <1>7, <1>8 DEF T

\* If Kahn's queue visits every step, the rounds order the graph.
LEMMA VisitedOrders ==
  ASSUME deps \in [Steps -> SUBSET (Steps \union {Unknown})], Visited[N] = Steps
  PROVE  Ordered
<1>0. N \in Nat /\ N # 0
  BY WorkflowAssumption
<1>1. /\ Visited \in [0..N -> SUBSET Steps]
      /\ Visited[0] = {}
      /\ \A k \in 1..N : Visited[k] = {s \in Steps : deps[s] \subseteq Visited[k - 1]}
  BY VisitedIs
<1> DEFINE First(s, k) == s \in Visited[k] /\ \A j \in 1..N : s \in Visited[j] => k <= j
           rank == [s \in Steps |-> CHOOSE k \in 1..N : First(s, k)]
<1>2. ASSUME NEW s \in Steps PROVE \E k \in 1..N : First(s, k)
  <2> DEFINE K == {k \in 1..N : s \in Visited[k]}
  <2>1. K \subseteq Nat /\ N \in K
    BY <1>0
  <2> HIDE DEF K
  <2>2. PICK k \in K : \A j \in K : k <= j
    BY <2>1, LeastNumber
  <2>3. QED BY <2>2 DEF K
<1>3. ASSUME NEW s \in Steps PROVE rank[s] \in 1..N /\ First(s, rank[s])
  <2> HIDE DEF First
  <2> QED BY <1>2
<1>4. rank \in [Steps -> Steps]
  BY <1>3 DEF Steps
<1> HIDE DEF rank
<1>5. ASSUME NEW s \in Steps, NEW d \in deps[s] PROVE d \in Steps /\ rank[d] < rank[s]
  <2> DEFINE k == rank[s]
  <2>1. k \in 1..N /\ s \in Visited[k]
    BY <1>3
  <2> HIDE DEF k
  <2>2. d \in Visited[k - 1]
    BY <1>1, <1>5, <2>1
  <2>3. k - 1 # 0
    BY <1>1, <2>2
  <2>4. k - 1 \in 1..N /\ k - 1 \in 0..N
    BY <1>0, <2>1, <2>3
  <2>5. d \in Steps
    BY <1>1, <2>2, <2>4
  <2>6. rank[d] <= k - 1
    BY <1>3, <2>2, <2>4, <2>5
  <2>7. rank[d] \in Nat
    BY <1>3, <2>5
  <2>8. rank[d] < k
    BY <2>1, <2>6, <2>7
  <2>9. QED BY <2>5, <2>8 DEF k
<1>6. QED BY <1>4, <1>5 DEF Ordered, Orders

\* A round of Above adds the dependencies of what it holds.
LEMMA AboveGrows ==
  ASSUME deps \in [Steps -> SUBSET Steps]
  PROVE  \A k \in 1..N : \A s \in Steps :
           Above[k][s] = Above[k - 1][s] \union UNION {deps[x] : x \in Above[k - 1][s]}
<1>0. N \in Nat
  BY WorkflowAssumption
<1>1. /\ Above \in [0..N -> [Steps -> SUBSET Steps]]
      /\ Above[0] = deps
      /\ \A k \in 1..N : \A s \in Steps :
           Above[k][s] = deps[s] \union UNION {Above[k - 1][d] : d \in deps[s]}
  BY AboveIs
<1> DEFINE Grows(k) == \A s \in Steps :
             Above[k][s] = Above[k - 1][s] \union UNION {deps[x] : x \in Above[k - 1][s]}
           T == {k \in 0..N : k # 0 => Grows(k)}
<1>2. 0 \in T
  BY <1>0
<1>3. ASSUME NEW k \in 1..N, k - 1 \in T PROVE Grows(k)
  <2>0. k - 1 \in 0..N
    BY <1>0
  <2> SUFFICES ASSUME NEW s \in Steps
               PROVE  Above[k][s] = Above[k - 1][s] \union UNION {deps[x] : x \in Above[k - 1][s]}
    OBVIOUS
  <2>1. Above[k][s] = deps[s] \union UNION {Above[k - 1][d] : d \in deps[s]}
    BY <1>1
  <2>2. CASE k = 1
    BY <1>1, <2>1, <2>2
  <2>3. CASE k # 1
    <3>0. k - 1 \in 1..N /\ k - 1 # 0 /\ (k - 1) - 1 \in 0..N
      BY <1>0, <2>3
    <3> DEFINE i == k - 1
               j == (k - 1) - 1
    <3>1. Above[i][s] = deps[s] \union UNION {Above[j][d] : d \in deps[s]}
      BY <1>1, <3>0
    <3>2. \A d \in Steps : deps[d] \subseteq Above[i][d]
      BY <1>1, <3>0
    <3>3. \A d \in Steps : Above[i][d] = Above[j][d] \union UNION {deps[x] : x \in Above[j][d]}
      BY <1>3, <3>0
    <3>4. deps[s] \subseteq Steps
      OBVIOUS
    <3>5. Above[k][s] = deps[s] \union UNION {Above[i][d] : d \in deps[s]}
      BY <2>1
    <3> HIDE DEF i, j
    <3>6. ASSUME NEW x \in Above[k][s]
          PROVE  x \in Above[i][s] \union UNION {deps[y] : y \in Above[i][s]}
      <4>1. CASE x \in deps[s]
        BY <3>1, <4>1
      <4>2. CASE x \notin deps[s]
        <5>1. PICK d \in deps[s] : x \in Above[i][d]
          BY <3>5, <3>6, <4>2
        <5>2. CASE x \in Above[j][d]
          BY <3>1, <5>2
        <5>3. CASE x \notin Above[j][d]
          <6>1. PICK y \in Above[j][d] : x \in deps[y]
            BY <3>3, <3>4, <5>1, <5>3
          <6>2. y \in Above[i][s]
            BY <3>1, <6>1
          <6>3. QED BY <6>1, <6>2
        <5>4. QED BY <5>2, <5>3
      <4>3. QED BY <4>1, <4>2
    <3>7. ASSUME NEW x \in Above[i][s] PROVE x \in Above[k][s] /\ deps[x] \subseteq Above[k][s]
      <4>1. CASE x \in deps[s]
        BY <3>2, <3>4, <3>5, <4>1
      <4>2. CASE x \notin deps[s]
        <5>1. PICK d \in deps[s] : x \in Above[j][d]
          BY <3>1, <3>7, <4>2
        <5>2. x \in Above[i][d] /\ deps[x] \subseteq Above[i][d]
          BY <3>3, <3>4, <5>1
        <5>3. QED BY <3>5, <5>2
      <4>3. QED BY <4>1, <4>2
    <3>8. Above[k][s] = Above[i][s] \union UNION {deps[x] : x \in Above[i][s]}
      BY <3>6, <3>7
    <3>9. QED BY <3>8 DEF i
  <2>4. QED BY <2>2, <2>3
<1>4. \A k \in 1..N : k - 1 \in T => k \in T
  BY <1>0, <1>3
<1> HIDE DEF T
<1>5. 0..N \subseteq T
  BY <1>0, <1>2, <1>4, Induction
<1>6. ASSUME NEW k \in 1..N PROVE Grows(k)
  <2>1. k \in T /\ k # 0
    BY <1>0, <1>5
  <2>2. QED BY <2>1 DEF T
<1>7. QED BY <1>6

\* After N rounds nothing more can be added: each round before adds a step.
LEMMA AboveCloses ==
  ASSUME deps \in [Steps -> SUBSET Steps], NEW s \in Steps
  PROVE  \A x \in Above[N][s] : deps[x] \subseteq Above[N][s]
<1>0. N \in Nat
  BY WorkflowAssumption
<1>1. Above \in [0..N -> [Steps -> SUBSET Steps]] /\ Above[0] = deps
  BY AboveIs
<1>2. \A k \in 1..N :
        Above[k][s] = Above[k - 1][s] \union UNION {deps[x] : x \in Above[k - 1][s]}
  BY AboveGrows
<1> DEFINE Closed(k) == \A x \in Above[k][s] : deps[x] \subseteq Above[k][s]
           T == {k \in 0..N : Closed(k) \/ k < Cardinality(Above[k][s])}
<1>3. ASSUME NEW k \in 0..N
      PROVE  /\ Above[k][s] \subseteq Steps /\ IsFiniteSet(Above[k][s])
             /\ Cardinality(Above[k][s]) \in Nat /\ Cardinality(Above[k][s]) <= N
  <2>1. Above[k][s] \in SUBSET Steps
    BY <1>1
  <2>2. Cardinality(Above[k][s]) \in 0..N
    BY <2>1, StepsFinite
  <2>3. QED BY <1>0, <2>1, <2>2, StepsFinite
<1>4. 0 \in T
  <2>0. 0 \in 0..N
    BY <1>0
  <2>1. CASE Above[0][s] = {}
    BY <2>0, <2>1
  <2>2. CASE Above[0][s] # {}
    <3>1. Cardinality(Above[0][s]) # 0
      BY <1>3, <2>0, <2>2, FS_EmptySet
    <3>2. 0 < Cardinality(Above[0][s])
      BY <1>3, <2>0, <3>1
    <3>3. QED BY <2>0, <3>2
  <2>3. QED BY <2>1, <2>2
<1>5. ASSUME NEW k \in 1..N, k - 1 \in T PROVE k \in T
  <2>0. k \in 0..N /\ k - 1 \in 0..N
    BY <1>0
  <2> DEFINE A == Above[k - 1][s]
             B == Above[k][s]
  <2>1. B = A \union UNION {deps[x] : x \in A}
    BY <1>2
  <2>2. CASE Closed(k - 1)
    <3>1. B = A
      BY <2>1, <2>2
    <3>2. QED BY <2>0, <2>2, <3>1
  <2>3. CASE ~Closed(k - 1)
    <3>1. A \subseteq B /\ A # B
      BY <2>1, <2>3
    <3>2. k - 1 < Cardinality(A)
      BY <1>5, <2>3
    <3>3. IsFiniteSet(B) /\ Cardinality(A) \in Nat /\ Cardinality(B) \in Nat
      BY <1>3, <2>0
    <3> HIDE DEF A, B
    <3>4. Cardinality(A) <= Cardinality(B) /\ Cardinality(A) # Cardinality(B)
      BY <3>1, <3>3, FS_Subset
    <3>5. k < Cardinality(B)
      BY <3>2, <3>3, <3>4
    <3>6. QED BY <2>0, <3>5 DEF B
  <2>4. QED BY <2>2, <2>3
<1> HIDE DEF T
<1>6. 0..N \subseteq T
  BY <1>0, <1>4, <1>5, Induction
<1>7. N \in T /\ N \in 0..N
  BY <1>0, <1>6
<1>8. ~(N < Cardinality(Above[N][s]))
  BY <1>0, <1>3, <1>7
<1>9. QED BY <1>7, <1>8 DEF T

\* If no step is above itself, the numbers of steps above order the graph.
LEMMA AboveOrders ==
  ASSUME deps \in [Steps -> SUBSET Steps], \A s \in Steps : s \notin Above[N][s]
  PROVE  Ordered
<1>0. N \in Nat /\ N \in 0..N /\ N \in 1..N /\ 0 \in 0..N
  BY WorkflowAssumption
<1>1. /\ Above \in [0..N -> [Steps -> SUBSET Steps]] /\ Above[0] = deps
      /\ \A k \in 1..N : \A s \in Steps :
           Above[k][s] = deps[s] \union UNION {Above[k - 1][d] : d \in deps[s]}
  BY AboveIs
<1> DEFINE size == [s \in Steps |-> Cardinality(Above[N][s])]
           rank == [s \in Steps |-> size[s] + 1]
<1>2. ASSUME NEW s \in Steps
      PROVE  Above[N][s] \in SUBSET Steps /\ IsFiniteSet(Above[N][s]) /\ size[s] \in 0..N
  <2>1. Above[N][s] \in SUBSET Steps
    BY <1>0, <1>1
  <2>2. QED BY <2>1, StepsFinite
<1>3. ASSUME NEW s \in Steps PROVE rank[s] \in Steps
  <2>1. Above[N][s] # Steps
    OBVIOUS
  <2>2. Cardinality(Above[N][s]) # N
    BY <1>2, <2>1, StepsFinite, FS_Subset
  <2>3. size[s] # N
    BY <2>2
  <2>4. QED BY <1>0, <1>2, <2>3 DEF Steps
<1>4. ASSUME NEW s \in Steps, NEW d \in deps[s] PROVE d \in Steps /\ rank[d] < rank[s]
  <2>1. d \in Steps
    BY <1>4
  <2>2. d \in Above[N][s]
    BY <1>0, <1>1, <1>4
  <2>3. \A x \in Above[N][s] : deps[x] \subseteq Above[N][s]
    BY AboveCloses
  <2> DEFINE T == {k \in 0..N : Above[k][d] \subseteq Above[N][s]}
  <2>4. 0 \in T
    BY <1>0, <1>1, <2>2, <2>3
  <2>5. ASSUME NEW k \in 1..N, k - 1 \in T PROVE k \in T
    <3>1. Above[k][d] = Above[k - 1][d] \union UNION {deps[x] : x \in Above[k - 1][d]}
      BY <2>1, AboveGrows
    <3>2. Above[k - 1][d] \subseteq Above[N][s]
      BY <2>5
    <3>3. k \in 0..N
      BY <1>0
    <3>4. QED BY <2>3, <3>1, <3>2, <3>3
  <2> HIDE DEF T
  <2>6. 0..N \subseteq T
    BY <1>0, <2>4, <2>5, Induction
  <2>7. Above[N][d] \subseteq Above[N][s]
    BY <1>0, <2>6 DEF T
  <2>8. Above[N][d] # Above[N][s]
    BY <2>1, <2>2
  <2>9. Cardinality(Above[N][d]) <= Cardinality(Above[N][s])
        /\ Cardinality(Above[N][d]) # Cardinality(Above[N][s])
    BY <1>2, <2>1, <2>7, <2>8, FS_Subset
  <2>10. size[d] < size[s]
    BY <1>2, <2>1, <2>9
  <2>11. QED BY <1>2, <2>1, <2>10
<1>5. rank \in [Steps -> Steps]
  BY <1>3
<1> HIDE DEF rank
<1>6. QED BY <1>4, <1>5 DEF Ordered, Orders

\* Both validations refuse exactly the graphs that cannot be ordered.
LEMMA RefusesRight ==
  ASSUME WorkflowTypeOK, executor \in Waves
  PROVE  Refuses <=> ~Ordered
<1>1. deps \in [Steps -> SUBSET (Steps \union {Unknown})]
  BY DEF WorkflowTypeOK
<1>2. ASSUME Ordered PROVE ~Refuses
  <2>1. PICK rank \in [Steps -> Steps] : Orders(rank)
    BY <1>2 DEF Ordered
  <2>2. deps \in [Steps -> SUBSET Steps]
    BY <1>1, <2>1, OrderKnown
  <2>3. Visited[N] = Steps /\ ~\E s \in Steps : s \in Above[N][s]
    BY <1>1, <2>1, OrderVisits, OrderAbove
  <2>4. \A s \in Steps : Unknown \notin deps[s]
    BY <2>2, WorkflowAssumption
  <2>5. QED BY <2>3, <2>4 DEF Refuses, Circular
<1>3. ASSUME ~Refuses PROVE Ordered
  <2>1. ~Circular /\ \A s \in Steps : Unknown \notin deps[s]
    BY <1>3 DEF Refuses
  <2>2. deps \in [Steps -> SUBSET Steps]
    BY <1>1, <2>1
  <2>3. CASE executor = "parallel"
    <3>1. Visited[N] = Steps
      BY <2>1, <2>3 DEF Circular
    <3>2. QED BY <1>1, <3>1, VisitedOrders
  <2>4. CASE executor # "parallel"
    <3>1. \A s \in Steps : s \notin Above[N][s]
      BY <2>1, <2>4 DEF Circular
    <3>2. QED BY <2>2, <3>1, AboveOrders
  <2>5. QED BY <2>3, <2>4
<1>4. QED BY <1>2, <1>3

\* A step keeps the verdict of the validation.
LEMMA RefusedStep ==
  ASSUME WorkflowTypeOK, RefusedExactly, [WorkflowNext]_workflowVars
  PROVE  RefusedExactly'
<1> DEFINE Told == phase = "refused" <=> ~Ordered
<1>0. RefusedExactly <=> (executor \in Waves /\ phase # "new" => Told)
  BY DEF RefusedExactly, Ordered, Orders
<1>1. setting' = setting
  BY DEF WorkflowNext, Begin, Turn, SequentialTurn, ParallelTurn, HierarchicalTurn, WaveDone, Wake,
         Gathered, StepEnds, StepRaises, CancelEnds, Finished, workflowVars
<1>2. Ordered' <=> Ordered
  BY <1>1 DEF setting, Ordered, Orders
<1>3. RefusedExactly' <=> (executor \in Waves /\ phase' # "new" => (phase' = "refused" <=> ~Ordered))
  BY <1>1, <1>2 DEF setting, RefusedExactly, Ordered, Orders
<1>4. CASE Begin
  <2> SUFFICES ASSUME executor \in Waves PROVE phase' = "refused" <=> ~Ordered
    BY <1>3
  <2>1. Refuses <=> ~Ordered
    BY RefusesRight
  <2>2. phase' = "refused" <=> Refuses
    BY <1>4 DEF Begin, Launch
  <2>3. QED BY <2>1, <2>2
<1>5. CASE ~Begin
  <2>1. phase' # phase => phase \notin {"new", "refused"} /\ phase' \notin {"new", "refused"}
    BY <1>5 DEF WorkflowNext, Turn, SequentialTurn, ParallelTurn, HierarchicalTurn, WaveDone, Wake,
         Gathered, StepEnds, StepRaises, CancelEnds, Finished, workflowVars, Launch, Return,
         CompetitiveLoses, CompetitiveWins, ConsensusCounts, CancelRest
  <2>2. QED BY <1>0, <1>3, <2>1
<1>6. QED BY <1>4, <1>5

\* For every number of steps and every dependency graph, Kahn's count and the depth-first
\* search refuse exactly the graphs whose steps cannot be put in an order.
THEOREM RefusedCorrect == WorkflowSpec => []RefusedExactly
<1>1. WorkflowInit => RefusedExactly
  BY DEF WorkflowInit, RefusedExactly
<1>2. QED BY <1>1, RefusedStep, WorkflowTypeCorrect, PTL DEF WorkflowSpec
-----------------------------------------------------------------------------
(* Levels *)

\* In an ordered graph the depths stop changing one round before the last.
LEMMA DepthStable ==
  ASSUME deps \in [Steps -> SUBSET (Steps \union {Unknown})], Ordered
  PROVE  \A s \in Steps : Depth[N - 1][s] = Depth[N][s]
<1>0. N \in Nat /\ N # 0
  BY WorkflowAssumption
<1>1. PICK rank \in [Steps -> Steps] : Orders(rank)
  BY DEF Ordered
<1>2. deps \in [Steps -> SUBSET Steps]
  BY <1>1, OrderKnown
<1>3. /\ \A s \in Steps : Depth[0][s] = 0
      /\ \A k \in 1..N : \A s \in Steps :
           Depth[k][s] = IF deps[s] = {} THEN 0
                         ELSE 1 + Max({Depth[k - 1][d] : d \in deps[s]})
  BY <1>2, DepthIs
<1>4. \A s \in Steps : rank[s] \in Nat /\ 0 < rank[s] /\ rank[s] <= N
  BY <1>0 DEF Steps
<1> DEFINE T == {k \in 0..N : \A s \in Steps : rank[s] <= k + 1 =>
                                \A j \in k..N : Depth[j][s] = Depth[k][s]}
<1>5. 0 \in T
  <2> SUFFICES ASSUME NEW s \in Steps, rank[s] <= 0 + 1, NEW j \in 0..N
               PROVE  Depth[j][s] = Depth[0][s]
    BY <1>0
  <2>1. deps[s] = {}
    <3> SUFFICES ASSUME NEW d \in deps[s] PROVE FALSE
      OBVIOUS
    <3>1. d \in Steps /\ rank[d] < rank[s]
      BY <1>1 DEF Orders
    <3>2. QED BY <1>4, <3>1
  <2>2. CASE j = 0
    BY <2>2
  <2>3. CASE j # 0
    <3>1. j \in 1..N
      BY <1>0, <2>3
    <3>2. QED BY <1>3, <2>1, <3>1
  <2>4. QED BY <2>2, <2>3
<1>6. ASSUME NEW k \in 1..N, k - 1 \in T PROVE k \in T
  <2> SUFFICES ASSUME NEW s \in Steps, rank[s] <= k + 1, NEW j \in k..N
               PROVE  Depth[j][s] = Depth[k][s]
    BY <1>0
  <2>1. j \in 1..N /\ j - 1 \in (k - 1)..N
    BY <1>0
  <2>2. ASSUME NEW d \in deps[s] PROVE Depth[j - 1][d] = Depth[k - 1][d]
    <3>1. d \in Steps /\ rank[d] < rank[s]
      BY <1>1, <2>2 DEF Orders
    <3>2. rank[d] <= (k - 1) + 1
      BY <1>0, <1>4, <3>1
    <3>3. QED BY <1>6, <2>1, <3>1, <3>2
  <2>3. {Depth[j - 1][d] : d \in deps[s]} = {Depth[k - 1][d] : d \in deps[s]}
    BY <2>2
  <2>4. Depth[j][s] = IF deps[s] = {} THEN 0
                      ELSE 1 + Max({Depth[j - 1][d] : d \in deps[s]})
    BY <1>3, <2>1
  <2>5. Depth[k][s] = IF deps[s] = {} THEN 0
                      ELSE 1 + Max({Depth[k - 1][d] : d \in deps[s]})
    BY <1>3
  <2>6. QED BY <2>3, <2>4, <2>5
<1> HIDE DEF T
<1>7. 0..N \subseteq T
  BY <1>0, <1>5, <1>6, Induction
<1>8. N - 1 \in T /\ N \in (N - 1)..N /\ (N - 1) + 1 = N
  BY <1>0, <1>7
<1>9. QED BY <1>4, <1>8 DEF T

\* get_depth: a step without dependencies is at level 0, another one directly below its
\* deepest dependency.
LEMMA LevelsRight ==
  ASSUME deps \in [Steps -> SUBSET (Steps \union {Unknown})], Ordered
  PROVE  /\ \A s \in Steps : Depth[N][s] \in Nat
         /\ \A s \in Steps : \A d \in deps[s] : d \in Steps /\ Depth[N][d] < Depth[N][s]
         /\ \A s \in Steps : Depth[N][s] # 0 => \E d \in deps[s] : Depth[N][s] = 1 + Depth[N][d]
<1>0. N \in Nat /\ N \in 1..N /\ N \in 0..N
  BY WorkflowAssumption
<1>1. deps \in [Steps -> SUBSET Steps]
  BY OrderKnown DEF Ordered
<1>2. /\ Depth \in [0..N -> [Steps -> Nat]]
      /\ \A s \in Steps : Depth[N][s] = IF deps[s] = {} THEN 0
                                        ELSE 1 + Max({Depth[N - 1][d] : d \in deps[s]})
  BY <1>0, <1>1, DepthIs
<1>3. \A s \in Steps : Depth[N][s] \in Nat
  BY <1>0, <1>2
<1>4. \A s \in Steps : Depth[N - 1][s] = Depth[N][s]
  BY DepthStable
<1>5. ASSUME NEW s \in Steps, deps[s] # {}
      PROVE  /\ \A d \in deps[s] : Depth[N][d] < Depth[N][s]
             /\ \E d \in deps[s] : Depth[N][s] = 1 + Depth[N][d]
  <2> DEFINE S == {Depth[N - 1][d] : d \in deps[s]}
  <2>1. IsFiniteSet(deps[s]) /\ deps[s] \subseteq Steps
    BY <1>1, StepsFinite
  <2>2. IsFiniteSet(S)
    <3> DEFINE f == Depth[N - 1]
    <3> HIDE DEF f
    <3>1. IsFiniteSet({f[d] : d \in deps[s]})
      BY <2>1, ImageFinite
    <3>2. QED BY <3>1 DEF f
  <2>3. S \subseteq Int /\ S # {}
    BY <1>3, <1>4, <1>5, <2>1
  <2>4. Depth[N][s] = 1 + Max(S)
    BY <1>2, <1>5
  <2>5. \A d \in deps[s] : Depth[N][d] \in S
    BY <1>4, <2>1
  <2>6. \A x \in S : \E d \in deps[s] : x = Depth[N][d]
    BY <1>4, <2>1
  <2> HIDE DEF S
  <2>7. Max(S) \in S /\ \A y \in S : y <= Max(S)
    BY <2>2, <2>3, MaxIsLargest
  <2>8. ASSUME NEW d \in deps[s] PROVE Depth[N][d] < Depth[N][s]
    <3>1. Depth[N][d] <= Max(S) /\ Max(S) \in Int /\ Depth[N][d] \in Int
      BY <2>3, <2>5, <2>7, <2>8
    <3>2. QED BY <2>4, <3>1
  <2>9. QED BY <2>4, <2>6, <2>7, <2>8
<1>6. ASSUME NEW s \in Steps PROVE Depth[N][s] # 0 => deps[s] # {}
  BY <1>2
<1>7. QED BY <1>1, <1>3, <1>5, <1>6

\* The first level without a step is the end of the levels.
LEMMA LevelsWithoutGap ==
  ASSUME deps \in [Steps -> SUBSET (Steps \union {Unknown})], Ordered, NEW l \in Nat,
         \A s \in Steps : Depth[N][s] # l
  PROVE  \A s \in Steps : Depth[N][s] < l
<1>1. /\ \A s \in Steps : Depth[N][s] \in Nat
      /\ \A s \in Steps : \A d \in deps[s] : d \in Steps
      /\ \A s \in Steps : Depth[N][s] # 0 => \E d \in deps[s] : Depth[N][s] = 1 + Depth[N][d]
  BY LevelsRight
<1> DEFINE Deep == {Depth[N][s] : s \in {r \in Steps : l <= Depth[N][r]}}
<1> SUFFICES ASSUME NEW r \in Steps, ~(Depth[N][r] < l) PROVE FALSE
  OBVIOUS
<1>a. Depth[N][r] \in Nat /\ l <= Depth[N][r]
  BY <1>1
<1>b. Depth[N][r] \in Deep
  BY <1>a
<1>2. Deep \subseteq Nat
  BY <1>1
<1>3. PICK n \in Deep : \A m \in Deep : n <= m
  <2> HIDE DEF Deep
  <2> QED BY <1>2, <1>b, LeastNumber
<1>4. PICK s \in Steps : n = Depth[N][s] /\ l <= n
  OBVIOUS
<1>5. n \in Nat /\ l < n
  BY <1>1, <1>4
<1>6. PICK d \in deps[s] : n = 1 + Depth[N][d]
  BY <1>1, <1>4, <1>5
<1>7. d \in Steps /\ Depth[N][d] \in Nat
  BY <1>1, <1>6
<1>8. l <= Depth[N][d] /\ Depth[N][d] < n
  BY <1>5, <1>6, <1>7
<1>9. Depth[N][d] \in Deep
  BY <1>7, <1>8
<1>10. n <= Depth[N][d]
  BY <1>3, <1>9
<1>11. QED BY <1>5, <1>7, <1>8, <1>10
-----------------------------------------------------------------------------
(* Dependencies *)

\* A step's result is what its _run_step() returned.
Told(s) ==
  IF results[s] \in {"ok", "failed"} THEN task[s] = results[s]
                                     ELSE results[s] \in {"none", "skipped"} /\ task[s] = "idle"

\* The steps of a wave have no result yet.
Awaited(s) == results[s] = "none" /\ task[s] \in {"running", "ok", "failed"}

\* A step that ran had its dependencies' successes.
RunsJust == \A s \in Steps : task[s] # "idle" => \A d \in Needs(s) : results[d] = "ok"

\* A step is skipped for a dependency that failed or was skipped.
SkipsJust ==
  \A s \in Steps : results[s] = "skipped" => executor \in Waves /\ Blocked(s)

\* Where execute() stands in the list (sequential): the first m steps have results, and
\* only the last of them may have failed.
SequencePlace ==
  \E m \in 0..N :
    /\ \A s \in Steps : results[s] # "none" <=> s <= m
    /\ \A s \in Steps : s < m => results[s] = "ok"
    /\ phase = "running" => m < N /\ batch = {m + 1} /\ \A s \in Steps : s <= m => results[s] = "ok"

\* Where execute() stands in the levels (hierarchical).
LevelPlace ==
  \A s \in Steps :
    (results[s] # "none" \/ (phase = "running" /\ s \in batch)) <=> Depth[N][s] < level

\* What execute() returns.
Outcome ==
  /\ status = "success" <=> \A s \in Steps : task[s] = "ok"
  /\ executor \in Waves =>
       /\ reported = Steps
       /\ \A s \in Steps : results[s] = "skipped" <=> \E d \in deps[s] : results[d] # "ok"
       /\ status = "failed" <=> \A s \in Steps : task[s] # "ok"
  /\ executor = "sequential" => reported = {s \in Steps : task[s] # "idle"}

\* What a sequential, parallel or hierarchical execute() keeps.
Kept ==
  executor \notin Races =>
    /\ phase # "cancelling"
    /\ phase = "new" => level = 0 /\ \A s \in Steps : task[s] = "idle" /\ results[s] = "none"
    /\ RunsJust
    /\ phase \in {"turn", "returned"} => \A s \in Steps : Told(s)
    /\ phase = "running" => \A s \in Steps : IF s \in batch THEN Awaited(s) ELSE Told(s)
    /\ phase \in {"turn", "running", "returned"} => SkipsJust
    /\ phase \in {"turn", "running"} =>
         /\ executor = "sequential" => SequencePlace
         /\ executor = "hierarchical" => LevelPlace
    /\ phase = "returned" => Outcome

\* A turn that skips the blocked steps of K and launches the others, all of whose
\* dependencies have results.
LEMMA WaveTurn ==
  ASSUME WorkflowTypeOK, executor \in Waves, deps \in [Steps -> SUBSET Steps],
         phase = "turn", \A s \in Steps : Told(s), RunsJust, SkipsJust,
         NEW K \in SUBSET Steps,
         \A s \in K : results[s] = "none" /\ \A d \in deps[s] : results[d] # "none",
         NEW skip \in SUBSET K, skip = {s \in K : Blocked(s)},
         results' = Skipped(skip), setting' = setting,
         \/ Launch(K \ skip)
         \/ phase' \in {"turn", "returned"} /\ UNCHANGED task
  PROVE  /\ RunsJust' /\ SkipsJust'
         /\ phase' \in {"turn", "returned"} => \A s \in Steps : Told(s)'
         /\ phase' = "running" =>
              batch' = K \ skip /\ \A s \in Steps : IF s \in batch' THEN Awaited(s)' ELSE Told(s)'
<1>1. \A s \in Steps : results'[s] = IF s \in skip THEN "skipped" ELSE results[s]
  BY DEF Skipped
<1>2. executor' = executor /\ deps' = deps
  BY DEF setting
<1>3. \A s \in Steps : Needs(s) = deps[s] /\ Needs(s)' = deps[s]
  BY <1>2 DEF Needs, Waves
<1>4. \A s \in Steps : results[s] # "none" => results'[s] = results[s]
  BY <1>1
<1>5. \A s \in K : task[s] = "idle"
  BY DEF Told
<1>6. \A s \in Steps : s \notin K \ skip => task'[s] = task[s]
  BY DEF Launch
<1>7. \A s \in Steps : s \notin K \ skip => Told(s)'
  BY <1>1, <1>5, <1>6 DEF Told
<1>8. ASSUME NEW s \in Steps, task[s] # "idle", NEW d \in deps[s] PROVE results'[d] = "ok"
  <2>1. results[d] = "ok" /\ d \in Steps
    BY <1>3, <1>8 DEF RunsJust
  <2>2. QED
    BY <1>4, <2>1
<1>9. ASSUME NEW s \in K \ skip, NEW d \in deps[s] PROVE results'[d] = "ok"
  <2>1. d \in Steps /\ results[d] # "none" /\ ~Blocked(s)
    BY <1>9
  <2>2. results[d] = "ok"
    BY <1>9, <2>1 DEF Blocked
  <2>3. QED BY <1>4, <2>1, <2>2
<1>10. RunsJust'
  <2> SUFFICES ASSUME NEW s \in Steps, task'[s] # "idle", NEW d \in deps[s]
               PROVE  results'[d] = "ok"
    BY <1>3 DEF RunsJust
  <2>1. CASE s \in K \ skip
    BY <1>9, <2>1
  <2>2. CASE s \notin K \ skip
    <3>1. task[s] # "idle"
      BY <1>6, <2>2
    <3>2. QED BY <1>8, <3>1
  <2>3. QED BY <2>1, <2>2
<1>11. ASSUME NEW s \in Steps, Blocked(s) PROVE Blocked(s)'
  <2>1. PICK d \in deps[s] : results[d] \notin {"none", "ok"}
    BY <1>11 DEF Blocked
  <2>2. results'[d] = results[d]
    BY <1>4, <2>1
  <2>3. QED BY <1>2, <2>1, <2>2 DEF Blocked
<1>12. SkipsJust'
  <2> SUFFICES ASSUME NEW s \in Steps, results'[s] = "skipped" PROVE Blocked(s)'
    BY <1>2 DEF SkipsJust
  <2>1. Blocked(s)
    BY <1>1 DEF SkipsJust
  <2>2. QED BY <1>11, <2>1
<1>13. CASE Launch(K \ skip)
  <2>1. phase' = "running" /\ batch' = K \ skip
    BY <1>13 DEF Launch
  <2>2. ASSUME NEW s \in batch' PROVE Awaited(s)'
    <3>1. s \in K /\ s \notin skip /\ s \in Steps
      BY <2>1, <2>2
    <3>2. results'[s] = "none"
      BY <1>1, <3>1
    <3>3. task'[s] = "running"
      BY <1>13, <3>1 DEF Launch
    <3>4. QED BY <3>2, <3>3 DEF Awaited
  <2>3. QED BY <1>7, <1>10, <1>12, <2>1, <2>2
<1>14. CASE phase' \in {"turn", "returned"} /\ UNCHANGED task
  <2>1. \A s \in Steps : Told(s)'
    BY <1>1, <1>5, <1>14 DEF Told
  <2>2. QED BY <1>10, <1>12, <1>14, <2>1
<1>15. QED BY <1>13, <1>14

\* What the status of a wave says, once every step has a result.
LEMMA AggregateJust ==
  ASSUME WorkflowTypeOK, executor \in Waves, \A s \in Steps : Told(s), RunsJust, SkipsJust,
         Recorded(results) = Steps
  PROVE  /\ Aggregate(results) = "success" <=> \A s \in Steps : task[s] = "ok"
         /\ Aggregate(results) = "failed" <=> \A s \in Steps : task[s] # "ok"
         /\ \A s \in Steps : results[s] = "skipped" <=> \E d \in deps[s] : results[d] # "ok"
<1>1. \A s \in Steps : results[s] # "none"
  BY DEF Recorded
<1>2. \A s \in Steps : results[s] = "ok" <=> task[s] = "ok"
  BY DEF Told
<1>3. Succeeded(results) = {s \in Steps : task[s] = "ok"}
  BY <1>2 DEF Succeeded
<1>4. Steps # {}
  BY WorkflowAssumption DEF Steps
<1>5. Aggregate(results) = "success" <=> Succeeded(results) = Steps
  BY DEF Aggregate
<1>6. Aggregate(results) = "failed" <=> Succeeded(results) # Steps /\ Succeeded(results) = {}
  BY DEF Aggregate
<1>7. ASSUME NEW s \in Steps, results[s] = "skipped" PROVE \E d \in deps[s] : results[d] # "ok"
  BY <1>7 DEF SkipsJust, Blocked
<1>8. ASSUME NEW s \in Steps, NEW d \in deps[s], results[d] # "ok" PROVE results[s] = "skipped"
  <2>1. Needs(s) = deps[s]
    BY DEF Needs, Waves
  <2>2. task[s] = "idle"
    BY <1>8, <2>1 DEF RunsJust
  <2>3. QED BY <1>1, <2>2 DEF Told
<1>9. QED BY <1>3, <1>4, <1>5, <1>6, <1>7, <1>8

\* What was not refused is ordered.
LEMMA NotRefused ==
  ASSUME WorkflowTypeOK, RefusedExactly, executor \in Waves, phase \notin {"new", "refused"}
  PROVE  Ordered /\ deps \in [Steps -> SUBSET Steps]
<1>1. Ordered
  BY DEF RefusedExactly, Ordered, Orders
<1>2. QED BY <1>1, OrderKnown DEF Ordered, WorkflowTypeOK

\* If no step without a result has the results of its dependencies, all steps have one.
LEMMA NobodyLeft ==
  ASSUME WorkflowTypeOK, Ordered,
         {s \in Steps \ Recorded(results) : deps[s] \subseteq Recorded(results)} = {}
  PROVE  Recorded(results) = Steps
<1>1. PICK rank \in [Steps -> Steps] : Orders(rank)
  BY DEF Ordered
<1>2. \A s \in Steps : rank[s] \in Nat
  BY WorkflowAssumption DEF Steps
<1>3. Recorded(results) \subseteq Steps
  BY DEF Recorded
<1> DEFINE Left == {rank[s] : s \in Steps \ Recorded(results)}
<1> SUFFICES ASSUME NEW r \in Steps, r \notin Recorded(results) PROVE FALSE
  BY <1>3
<1>4. Left \subseteq Nat /\ rank[r] \in Left
  BY <1>2
<1>5. PICK n \in Left : \A m \in Left : n <= m
  <2> HIDE DEF Left
  <2> QED BY <1>4, LeastNumber
<1>6. PICK s \in Steps \ Recorded(results) : n = rank[s]
  OBVIOUS
<1>7. PICK d \in deps[s] : d \notin Recorded(results)
  BY <1>6
<1>8. d \in Steps /\ rank[d] < rank[s]
  BY <1>1, <1>7 DEF Orders
<1>9. rank[d] \in Left
  BY <1>7, <1>8
<1>10. rank[s] <= rank[d]
  BY <1>5, <1>6, <1>9
<1>11. QED BY <1>2, <1>8, <1>10

\* A round of the parallel executor.
LEMMA ParallelKept ==
  ASSUME WorkflowTypeOK, RefusedExactly, Kept, ParallelTurn
  PROVE  Kept'
<1>0. executor = "parallel" /\ executor \in Waves /\ executor \notin Races /\ phase = "turn"
  BY DEF ParallelTurn, Waves, Races
<1>1. (\A s \in Steps : Told(s)) /\ RunsJust /\ SkipsJust
  BY <1>0 DEF Kept
<1>2. Ordered /\ deps \in [Steps -> SUBSET Steps]
  BY <1>0, NotRefused
<1>3. PICK K : K = {s \in Steps \ Recorded(results) : deps[s] \subseteq Recorded(results)}
  OBVIOUS
<1>4. PICK skip : skip = {s \in K : Blocked(s)}
  OBVIOUS
<1>5. K \in SUBSET Steps /\ skip \in SUBSET K
  BY <1>3, <1>4
<1>6. \A s \in K : results[s] = "none" /\ \A d \in deps[s] : results[d] # "none"
  BY <1>3 DEF Recorded
<1>7. /\ results' = Skipped(skip) /\ setting' = setting
      /\ \/ Launch(K \ skip)
         \/ K \ skip = {} /\ skip # {} /\ UNCHANGED <<phase, task, batch, status, reported>>
         \/ /\ K = {}
            /\ Return(Aggregate(results), Recorded(results))
            /\ UNCHANGED <<task, batch>>
  BY <1>3, <1>4 DEF ParallelTurn
<1>8. \/ Launch(K \ skip)
      \/ phase' \in {"turn", "returned"} /\ UNCHANGED task
  BY <1>0, <1>7 DEF Return
<1>9. /\ RunsJust' /\ SkipsJust'
      /\ phase' \in {"turn", "returned"} => \A s \in Steps : Told(s)'
      /\ phase' = "running" =>
           batch' = K \ skip /\ \A s \in Steps : IF s \in batch' THEN Awaited(s)' ELSE Told(s)'
  BY <1>0, <1>1, <1>2, <1>4, <1>5, <1>6, <1>7, <1>8, WaveTurn
<1>10. executor' = "parallel" /\ deps' = deps
  BY <1>0, <1>7 DEF setting
<1>11. phase' \in {"turn", "running", "returned"}
  BY <1>0, <1>7 DEF Launch, Return
<1>12. ASSUME phase' = "returned" PROVE Outcome'
  <2>1. K = {} /\ Return(Aggregate(results), Recorded(results)) /\ task' = task
    BY <1>0, <1>7, <1>12 DEF Launch
  <2>2. Recorded(results) = Steps
    BY <1>2, <1>3, <2>1, NobodyLeft
  <2>3. results' = results
    BY <1>5, <1>7, <2>1 DEF Skipped, WorkflowTypeOK
  <2>4. /\ Aggregate(results) = "success" <=> \A s \in Steps : task[s] = "ok"
        /\ Aggregate(results) = "failed" <=> \A s \in Steps : task[s] # "ok"
        /\ \A s \in Steps : results[s] = "skipped" <=> \E d \in deps[s] : results[d] # "ok"
    BY <1>0, <1>1, <2>2, AggregateJust
  <2>5. status' = Aggregate(results) /\ reported' = Steps
    BY <2>1, <2>2 DEF Return
  <2>6. QED BY <1>10, <2>1, <2>3, <2>4, <2>5 DEF Outcome
<1>13. QED BY <1>9, <1>10, <1>11, <1>12 DEF Kept

\* A level of the hierarchical executor.
LEMMA HierarchicalKept ==
  ASSUME WorkflowTypeOK, RefusedExactly, Kept, HierarchicalTurn
  PROVE  Kept'
<1>0. executor = "hierarchical" /\ executor \in Waves /\ executor \notin Races /\ phase = "turn"
  BY DEF HierarchicalTurn, Waves, Races
<1>1. (\A s \in Steps : Told(s)) /\ RunsJust /\ SkipsJust /\ LevelPlace
  BY <1>0 DEF Kept
<1>2. Ordered /\ deps \in [Steps -> SUBSET Steps]
  BY <1>0, NotRefused
<1>3. level \in Nat /\ deps \in [Steps -> SUBSET (Steps \union {Unknown})]
  BY DEF WorkflowTypeOK
<1>4. /\ \A s \in Steps : Depth[N][s] \in Nat
      /\ \A s \in Steps : \A d \in deps[s] : d \in Steps /\ Depth[N][d] < Depth[N][s]
  BY <1>2, <1>3, LevelsRight
<1>5. \A s \in Steps : results[s] # "none" <=> Depth[N][s] < level
  BY <1>0, <1>1 DEF LevelPlace
<1>6. PICK K : K = {s \in Steps : Depth[N][s] = level}
  OBVIOUS
<1>7. PICK skip : skip = {s \in K : Blocked(s)}
  OBVIOUS
<1>8. K \in SUBSET Steps /\ skip \in SUBSET K
  BY <1>6, <1>7
<1>9. \A s \in K : results[s] = "none" /\ \A d \in deps[s] : results[d] # "none"
  BY <1>3, <1>4, <1>5, <1>6
<1>10. /\ results' = Skipped(skip) /\ setting' = setting /\ level' = level + 1
       /\ \/ Launch(K \ skip)
          \/ K \ skip = {} /\ skip # {} /\ UNCHANGED <<phase, task, batch, status, reported>>
          \/ /\ K = {}
             /\ Return(Aggregate(results), Recorded(results))
             /\ UNCHANGED <<task, batch>>
  BY <1>6, <1>7 DEF HierarchicalTurn
<1>11. \/ Launch(K \ skip)
       \/ phase' \in {"turn", "returned"} /\ UNCHANGED task
  BY <1>0, <1>10 DEF Return
<1>12. /\ RunsJust' /\ SkipsJust'
       /\ phase' \in {"turn", "returned"} => \A s \in Steps : Told(s)'
       /\ phase' = "running" =>
            batch' = K \ skip /\ \A s \in Steps : IF s \in batch' THEN Awaited(s)' ELSE Told(s)'
  BY <1>0, <1>1, <1>2, <1>7, <1>8, <1>9, <1>10, <1>11, WaveTurn
<1>13. executor' = "hierarchical" /\ deps' = deps
  BY <1>0, <1>10 DEF setting
<1>14. phase' \in {"turn", "running", "returned"}
  BY <1>0, <1>10 DEF Launch, Return
<1>15. ASSUME phase' \in {"turn", "running"} PROVE LevelPlace'
  <2>1. Depth' = Depth
    BY <1>13 DEF Depth
  <2>2. \A s \in Steps : results'[s] = IF s \in skip THEN "skipped" ELSE results[s]
    BY <1>10 DEF Skipped
  <2>3. phase' = "running" => batch' = K \ skip
    BY <1>12
  <2>4. phase' = "turn" => K \ skip = {}
    BY <1>0, <1>10 DEF Launch, Return
  <2>5. \A s \in Steps : Depth[N][s] < level + 1 <=> Depth[N][s] < level \/ s \in K
    BY <1>3, <1>4, <1>6
  <2>6. ASSUME NEW s \in Steps
        PROVE  (results'[s] # "none" \/ (phase' = "running" /\ s \in batch'))
                 <=> Depth[N][s] < level + 1
    <3>1. results'[s] # "none" <=> Depth[N][s] < level \/ s \in skip
      BY <1>5, <2>2
    <3>2. phase' = "running" /\ s \in batch' <=> s \in K \ skip
      BY <1>15, <2>3, <2>4
    <3>3. QED BY <1>8, <2>5, <3>1, <3>2
  <2>7. QED BY <1>10, <2>1, <2>6 DEF LevelPlace
<1>16. ASSUME phase' = "returned" PROVE Outcome'
  <2>1. K = {} /\ Return(Aggregate(results), Recorded(results)) /\ task' = task
    BY <1>0, <1>10, <1>16 DEF Launch
  <2>2. \A s \in Steps : Depth[N][s] < level
    BY <1>2, <1>3, <1>6, <2>1, LevelsWithoutGap
  <2>3. Recorded(results) = Steps
    BY <1>5, <2>2 DEF Recorded
  <2>4. results' = results
    BY <1>8, <1>10, <2>1 DEF Skipped, WorkflowTypeOK
  <2>5. /\ Aggregate(results) = "success" <=> \A s \in Steps : task[s] = "ok"
        /\ Aggregate(results) = "failed" <=> \A s \in Steps : task[s] # "ok"
        /\ \A s \in Steps : results[s] = "skipped" <=> \E d \in deps[s] : results[d] # "ok"
    BY <1>0, <1>1, <2>3, AggregateJust
  <2>6. status' = Aggregate(results) /\ reported' = Steps
    BY <2>1, <2>3 DEF Return
  <2>7. QED BY <1>13, <2>1, <2>4, <2>5, <2>6 DEF Outcome
<1>17. QED BY <1>12, <1>13, <1>14, <1>15, <1>16 DEF Kept

\* A turn of the sequential executor.
LEMMA SequentialKept ==
  ASSUME WorkflowTypeOK, Kept, SequentialTurn
  PROVE  Kept'
<1>0. executor = "sequential" /\ executor \notin Waves /\ executor \notin Races /\ phase = "turn"
  BY DEF SequentialTurn, Waves, Races
<1>1. (\A s \in Steps : Told(s)) /\ RunsJust /\ SkipsJust /\ SequencePlace
  BY <1>0 DEF Kept
<1>2. N \in Nat
  BY WorkflowAssumption
<1>3. PICK m \in 0..N :
        /\ \A s \in Steps : results[s] # "none" <=> s <= m
        /\ \A s \in Steps : s < m => results[s] = "ok"
  BY <1>1 DEF SequencePlace
<1>4. Recorded(results) = 1..m
  BY <1>2, <1>3 DEF Recorded, Steps
<1>5. Cardinality(1..m) = m
  BY <1>2, FS_Interval
<1>6. \A s \in Steps : results[s] \in {"none", "ok", "failed"}
  BY <1>0, <1>1 DEF SkipsJust, Told
<1> DEFINE over == m + 1 > N \/ \E s \in Steps : results[s] = "failed"
<1>7. /\ setting' = setting /\ results' = results
      /\ \/ ~over /\ Launch({m + 1})
         \/ /\ over
            /\ Return(IF Recorded(results) = Succeeded(results) THEN "success" ELSE "failed",
                      Recorded(results))
            /\ UNCHANGED <<task, batch>>
  BY <1>4, <1>5 DEF SequentialTurn
<1>8. executor' = "sequential" /\ deps' = deps
  BY <1>0, <1>7 DEF setting
<1>9. \A s \in Steps : Needs(s) = 1..s - 1 /\ Needs(s)' = 1..s - 1
  BY <1>0, <1>8 DEF Needs
<1>10. SkipsJust'
  BY <1>6, <1>7 DEF SkipsJust
<1>11. CASE ~over /\ Launch({m + 1})
  <2>1. m + 1 <= N /\ \A s \in Steps : results[s] # "failed"
    BY <1>2, <1>11
  <2>2. \A s \in Steps : s <= m => results[s] = "ok"
    BY <1>3, <1>6, <2>1
  <2>3. /\ phase' = "running" /\ batch' = {m + 1}
        /\ task' = [s \in Steps |-> IF s \in {m + 1} THEN "running" ELSE task[s]]
    BY <1>11 DEF Launch
  <2>4. RunsJust'
    <3> SUFFICES ASSUME NEW s \in Steps, task'[s] # "idle", NEW d \in 1..s - 1
                 PROVE  results[d] = "ok"
      BY <1>7, <1>9 DEF RunsJust
    <3>1. CASE s = m + 1
      <4>1. d \in Steps /\ d <= m
        BY <1>2, <2>1, <3>1 DEF Steps
      <4>2. QED BY <2>2, <4>1
    <3>2. CASE s # m + 1
      <4>1. task[s] # "idle"
        BY <2>3, <3>2
      <4>2. QED BY <1>1, <1>9, <4>1 DEF RunsJust
    <3>3. QED BY <3>1, <3>2
  <2>5. ASSUME NEW s \in Steps PROVE IF s \in batch' THEN Awaited(s)' ELSE Told(s)'
    <3>1. CASE s = m + 1
      <4>1. results[s] = "none"
        BY <1>2, <1>3, <3>1 DEF Steps
      <4>2. QED BY <1>7, <2>3, <3>1, <4>1 DEF Awaited
    <3>2. CASE s # m + 1
      BY <1>1, <1>7, <2>3, <3>2 DEF Told
    <3>3. QED BY <3>1, <3>2
  <2>6. SequencePlace'
    <3>1. m < N
      BY <1>2, <2>1
    <3>2. QED BY <1>3, <1>7, <2>2, <2>3, <3>1 DEF SequencePlace
  <2>7. QED BY <1>8, <1>10, <2>3, <2>4, <2>5, <2>6 DEF Kept
<1>12. CASE over /\ Return(IF Recorded(results) = Succeeded(results) THEN "success" ELSE "failed",
                           Recorded(results))
            /\ UNCHANGED <<task, batch>>
  <2>1. /\ phase' = "returned" /\ reported' = Recorded(results) /\ task' = task
        /\ status' = IF Recorded(results) = Succeeded(results) THEN "success" ELSE "failed"
    BY <1>12 DEF Return
  <2>2. RunsJust'
    BY <1>1, <1>7, <1>9, <2>1 DEF RunsJust
  <2>3. \A s \in Steps : Told(s)'
    BY <1>1, <1>7, <2>1 DEF Told
  <2>4. \A s \in Steps : task[s] = "ok" <=> results[s] = "ok"
    BY <1>1 DEF Told
  <2>5. Recorded(results) = Succeeded(results) <=> \A s \in Steps : task[s] = "ok"
    <3>1. ASSUME Recorded(results) = Succeeded(results), NEW s \in Steps PROVE task[s] = "ok"
      <4>1. \A r \in Steps : results[r] # "failed"
        BY <3>1 DEF Recorded, Succeeded
      <4>2. s <= m
        BY <1>2, <1>12, <4>1 DEF Steps
      <4>3. QED BY <1>3, <1>6, <2>4, <4>1, <4>2
    <3>2. ASSUME \A s \in Steps : task[s] = "ok" PROVE Recorded(results) = Succeeded(results)
      BY <2>4, <3>2 DEF Recorded, Succeeded
    <3>3. QED BY <3>1, <3>2
  <2>6. Recorded(results) = {s \in Steps : task[s] # "idle"}
    BY <1>1, <1>6 DEF Recorded, Told
  <2>7. Outcome'
    BY <1>0, <1>8, <2>1, <2>5, <2>6 DEF Outcome, Waves
  <2>8. QED BY <1>8, <1>10, <2>1, <2>2, <2>3, <2>7 DEF Kept
<1>13. QED BY <1>7, <1>11, <1>12

\* The wave's results are recorded.
LEMMA WaveDoneKept ==
  ASSUME WorkflowTypeOK, RefusedExactly, Kept, WaveDone
  PROVE  Kept'
<1>0. executor \notin Races /\ phase = "running"
  BY DEF WaveDone
<1>1. /\ \A s \in Steps : IF s \in batch THEN Awaited(s) ELSE Told(s)
      /\ RunsJust /\ SkipsJust
      /\ executor = "sequential" => SequencePlace
      /\ executor = "hierarchical" => LevelPlace
  BY <1>0 DEF Kept
<1>2. batch \subseteq Steps /\ N \in Nat
  BY WorkflowAssumption DEF WorkflowTypeOK
<1>3. /\ setting' = setting /\ phase' = "turn" /\ results' = Record(batch)
      /\ task' = task /\ level' = level
  BY DEF WaveDone
<1>4. executor' = executor /\ deps' = deps
  BY <1>3 DEF setting
<1>5. \A s \in Steps : results'[s] = IF s \in batch THEN task[s] ELSE results[s]
  BY <1>3 DEF Record
<1>6. \A s \in batch : results[s] = "none" /\ task[s] \in {"ok", "failed"}
  BY <1>1, <1>2 DEF WaveDone, WaveOver, Done, Awaited
<1>7. \A s \in Steps : results[s] # "none" => results'[s] = results[s]
  BY <1>5, <1>6
<1>8. \A s \in Steps : Told(s)'
  BY <1>1, <1>3, <1>5, <1>6 DEF Told
<1>9. \A s \in Steps : Needs(s) \subseteq Steps /\ Needs(s)' = Needs(s)
  <2>1. CASE executor \in Waves
    <3>1. deps \in [Steps -> SUBSET Steps]
      BY <1>0, <2>1, NotRefused
    <3>2. QED BY <1>4, <2>1, <3>1 DEF Needs, Waves
  <2>2. CASE executor = "sequential"
    <3>1. \A s \in Steps : 1..s - 1 \subseteq Steps
      BY <1>2 DEF Steps
    <3>2. QED BY <1>4, <2>2, <3>1 DEF Needs
  <2>3. QED BY <1>0, <2>1, <2>2, WorkflowAssumption DEF WorkflowTypeOK
<1>10. RunsJust'
  BY <1>1, <1>3, <1>7, <1>9 DEF RunsJust
<1>11. SkipsJust'
  <2> SUFFICES ASSUME NEW s \in Steps, results'[s] = "skipped"
               PROVE  executor \in Waves /\ Blocked(s)'
    BY <1>4 DEF SkipsJust
  <2>1. results[s] = "skipped"
    BY <1>5, <1>6
  <2>2. executor \in Waves
    BY <1>1, <2>1 DEF SkipsJust
  <2>3. PICK d \in deps[s] : results[d] \notin {"none", "ok"}
    BY <1>1, <2>1 DEF SkipsJust, Blocked
  <2>4. d \in Steps
    BY <1>0, <2>2, <2>3, NotRefused
  <2>5. results'[d] = results[d]
    BY <1>7, <2>3, <2>4
  <2>6. QED BY <1>4, <2>2, <2>3, <2>5 DEF Blocked
<1>12. ASSUME executor = "sequential" PROVE SequencePlace'
  <2>1. PICK m \in 0..N :
          /\ \A s \in Steps : results[s] # "none" <=> s <= m
          /\ m < N /\ batch = {m + 1} /\ \A s \in Steps : s <= m => results[s] = "ok"
    BY <1>0, <1>1, <1>12 DEF SequencePlace
  <2>2. m + 1 \in 0..N
    BY <1>2, <2>1
  <2>3. ASSUME NEW s \in Steps PROVE results'[s] # "none" <=> s <= m + 1
    <3>1. CASE s = m + 1
      BY <1>2, <1>5, <1>6, <2>1, <3>1
    <3>2. CASE s # m + 1
      <4>1. s <= m <=> s <= m + 1
        BY <1>2, <3>2 DEF Steps
      <4>2. QED BY <1>5, <2>1, <3>2, <4>1
    <3>3. QED BY <3>1, <3>2
  <2>4. ASSUME NEW s \in Steps, s < m + 1 PROVE results'[s] = "ok"
    <3>1. s <= m
      BY <1>2, <2>4 DEF Steps
    <3>2. QED BY <1>7, <2>1, <3>1
  <2>5. QED BY <1>3, <2>2, <2>3, <2>4 DEF SequencePlace
<1>13. ASSUME executor = "hierarchical" PROVE LevelPlace'
  <2>1. Depth' = Depth
    BY <1>4 DEF Depth
  <2>2. \A s \in Steps : (results[s] # "none" \/ s \in batch) <=> Depth[N][s] < level
    BY <1>0, <1>1, <1>13 DEF LevelPlace
  <2>3. \A s \in Steps : results'[s] # "none" <=> results[s] # "none" \/ s \in batch
    BY <1>5, <1>6
  <2>4. \A s \in Steps : results'[s] # "none" <=> Depth[N][s] < level
    BY <2>2, <2>3
  <2>5. QED BY <1>3, <2>1, <2>4 DEF LevelPlace
<1>14. QED BY <1>3, <1>4, <1>8, <1>10, <1>11, <1>12, <1>13 DEF Kept

\* The call starts with nothing run and nothing recorded.
LEMMA BeginKept ==
  ASSUME WorkflowTypeOK, RefusedExactly', Kept, Begin
  PROVE  Kept'
<1>0. SUFFICES ASSUME executor \notin Races PROVE Kept'
  BY DEF Begin, setting, Kept
<1>1. /\ phase = "new" /\ level = 0
      /\ \A s \in Steps : task[s] = "idle" /\ results[s] = "none"
  BY <1>0 DEF Kept, Begin
<1>2. /\ setting' = setting /\ results' = results /\ level' = level /\ task' = task
      /\ phase' \in {"refused", "turn"}
  BY <1>0 DEF Begin
<1>3. executor' = executor /\ deps' = deps
  BY <1>2 DEF setting
<1>4. RunsJust' /\ SkipsJust' /\ \A s \in Steps : Told(s)'
  BY <1>1, <1>2 DEF RunsJust, SkipsJust, Told
<1>5. SequencePlace' \/ phase' = "refused"
  <2>1. 0 \in 0..N /\ \A s \in Steps : ~(s <= 0) /\ ~(s < 0)
    BY WorkflowAssumption DEF Steps
  <2>2. QED BY <1>1, <1>2, <2>1 DEF SequencePlace
<1>6. ASSUME executor = "hierarchical", phase' = "turn" PROVE LevelPlace'
  <2>1. Depth' = Depth
    BY <1>3 DEF Depth
  <2>2. Ordered
    BY <1>3, <1>6 DEF RefusedExactly, Ordered, Orders, Waves
  <2>3. \A s \in Steps : ~(Depth[N][s] < 0)
    <3>1. \A s \in Steps : Depth[N][s] \in Nat
      BY <2>2, LevelsRight DEF WorkflowTypeOK
    <3>2. QED BY <3>1
  <2>4. QED BY <1>1, <1>2, <1>6, <2>1, <2>3 DEF LevelPlace
<1>7. QED BY <1>2, <1>3, <1>4, <1>5, <1>6 DEF Kept

\* A step of the event loop keeps the invariant.
LEMMA KeptStep ==
  ASSUME WorkflowTypeOK, RefusedExactly, RefusedExactly', Kept, [WorkflowNext]_workflowVars
  PROVE  Kept'
<1>0. setting' = setting
  BY DEF WorkflowNext, Begin, Turn, SequentialTurn, ParallelTurn, HierarchicalTurn, WaveDone, Wake,
         Gathered, StepEnds, StepRaises, CancelEnds, Finished, workflowVars
<1>1. executor' = executor /\ deps' = deps
  BY <1>0 DEF setting
<1> SUFFICES ASSUME executor \notin Races PROVE Kept'
  BY <1>1 DEF Kept
<1>2. CASE Begin
  BY <1>2, BeginKept
<1>3. CASE Turn
  BY <1>3, SequentialKept, ParallelKept, HierarchicalKept DEF Turn
<1>4. CASE WaveDone
  BY <1>4, WaveDoneKept
<1>5. CASE Wake \/ Gathered
  BY <1>5 DEF Wake, Gathered, Kept
<1>6. ASSUME NEW s \in Steps, StepEnds(s) \/ StepRaises(s) \/ CancelEnds(s) PROVE Kept'
  <2>1. task[s] \in {"running", "cancelling"} /\ results' = results /\ level' = level
        /\ batch' = batch
    BY <1>6 DEF StepEnds, StepRaises, CancelEnds
  <2>2. \A r \in Steps : task'[r] = IF r = s THEN task'[s] ELSE task[r]
    BY <1>6 DEF StepEnds, StepRaises, CancelEnds, WorkflowTypeOK
  <2>3. \A r \in Steps : Needs(r)' = Needs(r)
    BY <1>1 DEF Needs
  <2>4. RunsJust'
    BY <2>1, <2>2, <2>3 DEF Kept, RunsJust
  <2>5. ~Told(s) /\ phase # "new"
    BY <2>1 DEF Told, Kept
  <2>6. phase \in {"refused", "running", "raised"}
    BY <2>5 DEF Kept, WorkflowTypeOK
  <2>7. CASE StepRaises(s)
    BY <2>4, <2>7 DEF Kept, StepRaises
  <2>8. CASE phase # "running" /\ phase' = phase
    BY <2>4, <2>6, <2>8 DEF Kept
  <2>9. CASE phase = "running" /\ phase' = phase
    <3>1. s \in batch /\ Awaited(s)
      BY <2>5, <2>9 DEF Kept
    <3>2. task'[s] \in {"ok", "failed"}
      BY <1>6, <2>9, <3>1 DEF StepEnds, StepRaises, CancelEnds, Awaited, WorkflowTypeOK
    <3>3. ASSUME NEW r \in Steps PROVE IF r \in batch' THEN Awaited(r)' ELSE Told(r)'
      BY <2>1, <2>2, <2>9, <3>1, <3>2 DEF Kept, Awaited, Told
    <3>4. SkipsJust'
      BY <1>1, <2>1, <2>9 DEF Kept, SkipsJust, Blocked
    <3>5. executor = "sequential" => SequencePlace'
      BY <2>1, <2>9 DEF Kept, SequencePlace
    <3>6. executor = "hierarchical" => LevelPlace'
      <4>1. Depth' = Depth
        BY <1>1 DEF Depth
      <4>2. QED BY <2>1, <2>9, <4>1 DEF Kept, LevelPlace
    <3>7. QED BY <1>1, <2>4, <2>9, <3>3, <3>4, <3>5, <3>6 DEF Kept
  <2>10. phase' = phase \/ StepRaises(s)
    BY <1>6 DEF StepEnds, CancelEnds
  <2>11. QED BY <2>7, <2>8, <2>9, <2>10
<1>7. CASE UNCHANGED workflowVars
  <2>1. /\ RunsJust' <=> RunsJust
        /\ SkipsJust' <=> SkipsJust
        /\ Outcome' <=> Outcome
        /\ SequencePlace' <=> SequencePlace
        /\ \A s \in Steps : (Told(s)' <=> Told(s)) /\ (Awaited(s)' <=> Awaited(s))
    BY <1>1, <1>7 DEF workflowVars, RunsJust, SkipsJust, Outcome, SequencePlace, Told, Awaited, Needs,
                      Blocked
  <2>2. LevelPlace' <=> LevelPlace
    <3>1. Depth' = Depth
      BY <1>1 DEF Depth
    <3>2. QED BY <1>7, <3>1 DEF workflowVars, LevelPlace
  <2>3. QED BY <1>1, <1>7, <2>1, <2>2 DEF Kept, workflowVars
<1>8. QED BY <1>2, <1>3, <1>4, <1>5, <1>6, <1>7 DEF WorkflowNext, Finished

\* For every number of steps and every dependency graph, a step only runs after the
\* success of what it depends on, no step of a wave is left over, the skipped steps are
\* those below a failure, and the status says what happened.
THEOREM DependenciesCorrect == WorkflowSpec => []DependenciesFollowed
<1>1. WorkflowInit => Kept
  <2> SUFFICES ASSUME WorkflowInit PROVE Kept
    OBVIOUS
  <2>1. \A s \in Steps : task[s] = "idle" /\ results[s] = "none"
    BY DEF WorkflowInit
  <2>2. RunsJust
    BY <2>1 DEF RunsJust
  <2>3. QED BY <2>1, <2>2 DEF WorkflowInit, Kept
<1>2. Kept => DependenciesFollowed
  BY DEF Kept, DependenciesFollowed, RunsJust, Outcome
<1>3. QED BY <1>1, <1>2, KeptStep, RefusedCorrect, WorkflowTypeCorrect, PTL DEF WorkflowSpec
=============================================================================
