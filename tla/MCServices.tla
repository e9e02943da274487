----------------------------- MODULE MCServices -----------------------------
(***************************************************************************)
(* Instances of Voting, TaskLifecycle, YamlWorkflow, QuotaEnforcer,        *)
(* Operator and MeshStatus.  They share nothing, so a behaviour is one of  *)
(* a single component, and the others rest in an initial state.            *)
(***************************************************************************)
EXTENDS Voting, TaskLifecycle, YamlWorkflow, QuotaEnforcer, Operator, MeshStatus, TLC

CONSTANT Services   \* the components considered

VARIABLE serviceOf   \* the component that a behaviour is about

allVars == <<serviceOf, votingVars, taskVars, yamlVars, quotaVars, operatorVars, meshVars>>

MCProtocols ==
  {[name |-> "majority_vote", require_majority |-> r] : r \in BOOLEAN}
  \union {[name |-> "confidence_weighted", min_ratio |-> m] : m \in {<<0, 1>>, <<1, 2>>, <<1, 1>>}}
  \union {[name |-> "hierarchical"]}

Task(outputs) ==
  [type |-> "task", agent |-> {"agent"}, outputs |-> outputs, condition |-> {}, first |-> <<>>,
   second |-> <<>>, flaw |-> "none"]

Parallel(sub_steps) == [Task(<<>>) EXCEPT !.type = "parallel", !.first = sub_steps]

Conditional(key, if_steps, else_steps) ==
  [Task(<<>>) EXCEPT !.type = "conditional", !.condition = {key}, !.first = if_steps,
                     !.second = else_steps]

\* A parallel step with a conditional one inside it, after a task that decides the last one.
MCDocument ==
  <<Task(<<"k">>),
    Parallel(<<3, 4>>), Task(<<"j", "agent">>),
                        Conditional("j", <<5>>, <<6, 7>>), Task(<<"k">>), Task(<<>>),
                                                        [Task(<<>>) EXCEPT !.agent = {}],
    Conditional("k", <<9>>, <<>>), Parallel(<<10>>), Task(<<"j">>)>>

MCFlaws ==
  {[MCDocument EXCEPT ![s].flaw = flaw] :
     s \in {1, 2, 4}, flaw \in {"no_name", "unknown_type", "inputs", "no_condition", "no_list"}}

MCDocuments == {MCDocument} \union MCFlaws

MCContexts ==
  {[k \in Keys |-> IF k = "agent" THEN agent ELSE "unset"] : agent \in {"callable", "no"}}

Amounts(t, n) == [d \in Dimensions |-> IF d = "tokens" THEN t ELSE n]

\* One limited and one sometimes unlimited dimension.
MCQuotas == {Amounts(2, 1), Amounts(1, Unlimited)}

MCRequests == {Amounts(1, 1), Amounts(2, 0), Amounts(-1, 0)}

MCAgentRefs == <<"a", "b">>

MCCbConfigs ==
  {[enabled |-> TRUE, failure_threshold |-> f, success_threshold |-> 2, recovery_timeout |-> 1] :
     f \in {1, 2}}
  \union {[enabled |-> FALSE, failure_threshold |-> 2, success_threshold |-> 2,
           recovery_timeout |-> 1]}

Init ==
  /\ serviceOf \in Services
  /\ VotingInit /\ TasksInit /\ YamlInit /\ QuotaInit /\ OperatorInit /\ MeshInit
  \* A component at rest is in one initial state.
  /\ serviceOf # "voting" => protocol = [name |-> "hierarchical"]
  /\ serviceOf # "tasks" => track_history
  /\ serviceOf # "yaml" => document = MCDocument /\ given["agent"] = "no"
  /\ serviceOf # "quotas" => env = {"negative"}
  /\ serviceOf # "mesh" => cbSpec = AnyConfig

Voting_ ==
  /\ serviceOf = "voting" /\ VotingNext
  /\ UNCHANGED <<serviceOf, taskVars, yamlVars, quotaVars, operatorVars, meshVars>>

Tasks_ ==
  /\ serviceOf = "tasks" /\ TasksNext
  /\ UNCHANGED <<serviceOf, votingVars, yamlVars, quotaVars, operatorVars, meshVars>>

Yaml_ ==
  /\ serviceOf = "yaml" /\ YamlNext
  /\ UNCHANGED <<serviceOf, votingVars, taskVars, quotaVars, operatorVars, meshVars>>

Quotas_ ==
  /\ serviceOf = "quotas" /\ QuotaNext
  /\ UNCHANGED <<serviceOf, votingVars, taskVars, yamlVars, operatorVars, meshVars>>

InOperator(step) ==
  /\ serviceOf = "operator" /\ step
  /\ UNCHANGED <<serviceOf, votingVars, taskVars, yamlVars, quotaVars, meshVars>>

Mesh_ ==
  /\ serviceOf = "mesh" /\ MeshNext
  /\ UNCHANGED <<serviceOf, votingVars, taskVars, yamlVars, quotaVars, operatorVars>>

Next == Voting_ \/ Tasks_ \/ Yaml_ \/ Quotas_ \/ InOperator(OperatorNext) \/ Mesh_

\* Handlers begin and go on, and a timer that is due again and again gets its turn.
Fairness ==
  /\ WF_allVars(InOperator(Begin))
  /\ WF_allVars(InOperator(Calls \/ Finish))
  /\ SF_allVars(InOperator(ReconcileRead))

Spec == Init /\ [][Next]_allVars /\ Fairness
=============================================================================
