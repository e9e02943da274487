--------------------------- MODULE MCCoordination ---------------------------
(***************************************************************************)
(* Instances of TopicManager, DeadlockDetector, AdaptiveThrottle and       *)
(* Workflows.  They share nothing, so a behaviour is one of a single       *)
(* component, and the others rest in an initial state.                     *)
(***************************************************************************)
EXTENDS TopicManager, DeadlockDetector, AdaptiveThrottle, Workflows

CONSTANT Components   \* the components considered

VARIABLE component   \* the component that a behaviour is about

allVars == <<component, topicVars, detectorVars, throttleVars, workflowVars>>

MCLower == [n \in Patterns \union Topics |-> CASE n = "Ab" -> "ab" [] n = "T" -> "t" [] OTHER -> n]

MCMatching == {<<"t", "ab">>, <<"t", "any">>, <<"T", "any">>, <<"T", "Ab">>}

MCOffers == {[max_depth |-> 1, weight |-> 1]}

\* Every dependency graph in which no step depends on itself, those in which all steps depend on
\* the same one, itself included, and one with an unknown dependency.
MCGraphs ==
  {g \in [Steps -> SUBSET Steps] : \A s \in Steps : s \notin g[s]}
  \union {[s \in Steps |-> {r}] : r \in Steps}
  \union {[s \in Steps |-> IF s = N THEN {1, Unknown} ELSE {}]}

Init ==
  /\ component \in Components
  /\ TopicInit
  /\ DetectorInit
  /\ ThrottleInit
  /\ WorkflowInit
  \* A component at rest is in one initial state.
  /\ component # "topics" => case_sensitive
  /\ component # "detector" => \A n \in MaxCycleLengths : max_cycle_length >= n
  /\ component # "throttle" => usage = {}
  /\ component # "workflows" => executor = "sequential"

Topics_ ==
  /\ component = "topics" /\ TopicNext
  /\ UNCHANGED <<component, detectorVars, throttleVars, workflowVars>>

Detector_ ==
  /\ component = "detector" /\ DetectorNext
  /\ UNCHANGED <<component, topicVars, throttleVars, workflowVars>>

InThrottle(step) ==
  /\ component = "throttle" /\ step
  /\ UNCHANGED <<component, topicVars, detectorVars, workflowVars>>

InWorkflow(step) ==
  /\ component = "workflows" /\ step
  /\ UNCHANGED <<component, topicVars, detectorVars, throttleVars>>

Next == Topics_ \/ Detector_ \/ InThrottle(ThrottleNext) \/ InWorkflow(WorkflowNext)

\* The clock runs, a refill that holds the lock goes on, a task that polls gets the
\* lock again and again, and deadlines pass.  The event loop runs execute(), and a cancelled
\* task ends; steps that are not cancelled may run for ever.
Fairness ==
  /\ WF_allVars(InThrottle(Tick))
  /\ WF_allVars(InThrottle(ReadEntry \/ RefillEnd))
  /\ SF_allVars(InThrottle(AcquireBegin))
  /\ WF_allVars(InThrottle(DeadlinePasses))
  /\ WF_allVars(InWorkflow(Begin \/ Turn \/ WaveDone \/ Wake \/ Gathered))
  /\ WF_allVars(InWorkflow(\E s \in Steps : CancelEnds(s)))

Spec == Init /\ [][Next]_allVars /\ Fairness
=============================================================================
