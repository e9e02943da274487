---------------------------- MODULE TopicManager ----------------------------
(***************************************************************************)
(* broker/pubsub.py: the TopicManager.  Subscriptions are kept twice, by    *)
(* pattern and by agent, in dictionaries that hold a key only while its    *)
(* set is not empty.  publish() takes the lock once for the list of the    *)
(* patterns and again for the subscribers of each pattern that matches, so *)
(* that subscriptions change while it collects.                            *)
(*                                                                         *)
(* fnmatch is the relation Matching, str.lower() the function Lower.  The  *)
(* two counters, which nothing tests, are left out.                        *)
(***************************************************************************)
EXTENDS Naturals

CONSTANTS
  Agents,      \* agent ids
  Patterns,    \* patterns, as users write them
  Topics,      \* topics, as users write them
  Lower,       \* str.lower() on Patterns and Topics, which are closed under it
  Matching,    \* the pairs <<topic, pattern>> for which fnmatchcase() holds
  Publishers   \* threads that call publish()

\* Names in lower case are names, and no topic is the mark of an idle thread.
ASSUME TopicAssumption ==
  /\ \A p \in Patterns : Lower[p] \in Patterns
  /\ "none" \notin Topics

VARIABLES
  case_sensitive,  \* TopicManager._case_sensitive
  subscriptions,   \* TopicManager._subscriptions: pattern -> agents
  agent_patterns,  \* TopicManager._agent_patterns: agent -> patterns
  publishing,      \* the local variables of the publish() calls in progress
  kept,            \* the subscriptions held ever since a publish() began
  seen             \* the agents that had a matching subscription since it began

topicVars == <<case_sensitive, subscriptions, agent_patterns, publishing, kept, seen>>

\* kept and seen are history variables: no action's guard reads them.
-----------------------------------------------------------------------------
Normalize(name) == IF case_sensitive THEN name ELSE Lower[name]

\* Reading a defaultdict(set).
Lookup(dict, key) == IF key \in DOMAIN dict THEN dict[key] ELSE {}

\* dict[key].add(item)
Insert(dict, key, item) ==
  [k \in DOMAIN dict \union {key} |->
     IF k = key THEN Lookup(dict, key) \union {item} ELSE dict[k]]

\* dict[key].discard(item) for each of the keys, where a key is deleted with its last item.
Discard(dict, keys, item) ==
  LET left(k) == IF k \in keys THEN dict[k] \ {item} ELSE dict[k]
  IN  [k \in {j \in DOMAIN dict : left(j) # {}} |-> left(k)]

Matches(topic) == {p \in Patterns : <<Normalize(topic), p>> \in Matching}

\* resolve_subscribers(): the whole answer under one lock.
ResolveSubscribers(topic) ==
  UNION {Lookup(subscriptions, p) : p \in Matches(topic)}

Idle == [topic |-> "none", patterns |-> {}, matched |-> {}]

Active == {t \in Publishers : publishing[t] # Idle}
-----------------------------------------------------------------------------
TopicInit ==
  /\ case_sensitive \in BOOLEAN
  /\ subscriptions = [p \in {} |-> {}]
  /\ agent_patterns = [a \in {} |-> {}]
  /\ publishing = [t \in Publishers |-> Idle]
  /\ kept = [t \in Publishers |-> {}]
  /\ seen = [t \in Publishers |-> {}]

\* The pairs of an agent and a pattern that match the topic of a publish().
Subscribed(t) ==
  {s \in Agents \X Patterns :
     s[2] \in Matches(publishing[t].topic) /\ s[1] \in Lookup(subscriptions, s[2])}

\* What a change of the subscriptions means to the calls in progress.
Witness ==
  /\ kept' = [t \in Publishers |-> IF t \in Active THEN kept[t] \intersect Subscribed(t)'
                                                   ELSE {}]
  /\ seen' = [t \in Publishers |-> IF t \in Active
                                     THEN seen[t] \union {s[1] : s \in Subscribed(t)'}
                                     ELSE {}]

Subscribe(a, raw) ==
  LET p == Normalize(raw)
  IN  /\ subscriptions' = Insert(subscriptions, p, a)
      /\ agent_patterns' = Insert(agent_patterns, a, p)
      /\ UNCHANGED <<case_sensitive, publishing>>
      /\ Witness

\* Mutant of Unsubscribe: the agent's patterns keep the pattern as it was written.
UnsubscribeRaw(a, raw) ==
  /\ subscriptions' = Discard(subscriptions, {Normalize(raw)}, a)
  /\ agent_patterns' = Discard(agent_patterns, {a}, raw)
  /\ UNCHANGED <<case_sensitive, publishing>>
  /\ Witness

Unsubscribe(a, raw) ==
  LET p == Normalize(raw)
  IN  /\ subscriptions' = Discard(subscriptions, {p}, a)
      /\ agent_patterns' = Discard(agent_patterns, {a}, p)
      /\ UNCHANGED <<case_sensitive, publishing>>
      /\ Witness

UnsubscribeAll(a) ==
  /\ subscriptions' = Discard(subscriptions, Lookup(agent_patterns, a), a)
  /\ agent_patterns' = [b \in DOMAIN agent_patterns \ {a} |-> agent_patterns[b]]
  /\ UNCHANGED <<case_sensitive, publishing>>
  /\ Witness

\* publish(), first critical section: the list of the patterns, of which only those
\* that match the topic are met again.
PublishBegin(t, topic) ==
  /\ publishing[t] = Idle
  /\ publishing' = [publishing EXCEPT ![t] =
       [topic |-> topic,
        patterns |-> DOMAIN subscriptions \intersect Matches(topic),
        matched |-> {}]]
  /\ UNCHANGED <<case_sensitive, subscriptions, agent_patterns>>
  /\ kept' = [kept EXCEPT ![t] = Subscribed(t)']
  /\ seen' = [seen EXCEPT ![t] = {s[1] : s \in Subscribed(t)'}]

\* Mutant of Collected: each pattern's subscribers replace those of the one before.
CollectedLast(matched, p) == Lookup(subscriptions, p)

Collected(matched, p) == matched \union Lookup(subscriptions, p)

\* One turn of publish()'s loop, for the next pattern that matches.
PublishPattern(t) ==
  /\ \E p \in publishing[t].patterns :
       publishing' = [publishing EXCEPT
         ![t].patterns = @ \ {p},
         ![t].matched = Collected(@, p)]
  /\ UNCHANGED <<case_sensitive, subscriptions, agent_patterns, kept, seen>>

\* publish() returns.
PublishEnd(t) ==
  /\ t \in Active
  /\ publishing[t].patterns = {}
  /\ publishing' = [publishing EXCEPT ![t] = Idle]
  /\ kept' = [kept EXCEPT ![t] = {}]
  /\ seen' = [seen EXCEPT ![t] = {}]
  /\ UNCHANGED <<case_sensitive, subscriptions, agent_patterns>>

TopicNext ==
  \/ \E a \in Agents, p \in Patterns : Subscribe(a, p) \/ Unsubscribe(a, p)
  \/ \E a \in Agents : UnsubscribeAll(a)
  \/ \E t \in Publishers :
       \/ \E topic \in Topics : PublishBegin(t, topic)
       \/ PublishPattern(t)
       \/ PublishEnd(t)

TopicSpec == TopicInit /\ [][TopicNext]_topicVars
-----------------------------------------------------------------------------
\* Both registries hold sets of known names, and a call in progress has some left.
TopicTypeOK ==
  /\ case_sensitive \in BOOLEAN
  /\ DOMAIN subscriptions \subseteq Patterns
  /\ \A p \in DOMAIN subscriptions : subscriptions[p] \subseteq Agents
  /\ DOMAIN agent_patterns \subseteq Agents
  /\ \A a \in DOMAIN agent_patterns : agent_patterns[a] \subseteq Patterns
  /\ publishing \in [Publishers -> [topic: Topics \union {"none"}, patterns: SUBSET Patterns,
                                   matched: SUBSET Agents]]
  /\ kept \in [Publishers -> SUBSET (Agents \X Patterns)]
  /\ seen \in [Publishers -> SUBSET Agents]

\* The registry by pattern and the registry by agent tell the same, and neither
\* holds an empty set: topic_count() counts live patterns, and unsubscribe_all(),
\* which goes by the second, leaves nothing behind in the first.
MirrorsAgree ==
  /\ \A a \in Agents, p \in Patterns :
       a \in Lookup(subscriptions, p) <=> p \in Lookup(agent_patterns, a)
  /\ \A p \in DOMAIN subscriptions : subscriptions[p] # {}
  /\ \A a \in DOMAIN agent_patterns : agent_patterns[a] # {}

\* However subscriptions change while publish() goes from pattern to pattern, it
\* returns everyone who held one matching subscription throughout, and nobody who
\* had none at any moment of the call.  (An agent that changes from one matching
\* pattern to another may be missed, although it never was without one.)
SteadyAreNotified ==
  \A t \in Active :
    /\ publishing[t].matched \subseteq seen[t]
    /\ publishing[t].patterns = {} =>
         {s[1] : s \in kept[t]} \subseteq publishing[t].matched
=============================================================================
