-------------------------- MODULE MCMessageBroker --------------------------
(***************************************************************************)
(* Instances of MessageBroker for TLC: a direct message, a broadcast with  *)
(* a TTL and a message for a topic, of two priorities.                     *)
(***************************************************************************)
EXTENDS MessageBroker, TLC

CONSTANTS direct, broadcast, topical, a1, a2, news

MCPrio == [m \in Messages |-> IF m = direct THEN 1 ELSE 2]

MCReceiver ==
  [m \in Messages |-> CASE m = direct    -> a1
                        [] m = broadcast -> Everyone
                        [] OTHER         -> NoAgent]

MCTopic == [m \in Messages |-> IF m = topical THEN news ELSE NoTopic]

\* Workers are interchangeable, and so are controllers.
TaskSymmetry == Permutations(Workers) \union Permutations(Controllers)
=============================================================================
