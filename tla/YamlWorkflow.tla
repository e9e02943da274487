---------------------------- MODULE YamlWorkflow ----------------------------
(***************************************************************************)
(* workflows/yaml_workflow.py: a YAMLWorkflow runs its steps in one        *)
(* thread.  A step that fails is noted, and the steps after it run all     *)
(* the same, on a context without its outputs.                             *)
(*                                                                         *)
(* Steps are numbered in the order of the document, each before the steps  *)
(* inside it.  A context binds a key to something callable, to another     *)
(* true value ("yes") or to a false one ("no"), or leaves it "unset".      *)
(***************************************************************************)
EXTENDS Naturals, Sequences, SequencesExt, FiniteSets

CONSTANTS
  Documents,    \* workflow documents: functions from step numbers to steps
  Keys,         \* context keys
  Contexts      \* the contexts that execute() is called with

\* A step: type, agent, outputs, condition, sub_steps or if_steps and else_steps, and what is
\* wrong with its text.  Optional values are sets of at most one element.
ASSUME DocumentAssumption ==
  \A d \in Documents :
    /\ DOMAIN d \subseteq Nat
    /\ \A s \in DOMAIN d : \A list \in {d[s].first, d[s].second} :
         \A i \in DOMAIN list : list[i] > s /\ (i > 1 => list[i - 1] < list[i])

VARIABLES
  document,  \* the document
  given,     \* the context of the caller
  mode,      \* "parse", "run", "done", or "rejected"
  ctx,       \* execution_context
  todo,      \* the steps that are left: entries [step, marks] of the call stack, innermost first
  completed, \* steps_completed
  errors,    \* the steps in errors
  ran        \* the steps that were started

yamlVars == <<document, given, mode, ctx, todo, completed, errors, ran>>

\* ran is a history variable.  The lists that _execute_parallel() keeps for itself are
\* joined to the outer ones at its end in their order, so one list each is kept here, and
\* a parallel step remembers how long the list of errors was when it began.

Entry(step) == [step |-> step, opened |-> FALSE, errorsBefore |-> 0]

Entries(list) == [i \in DOMAIN list |-> Entry(list[i])]

\* The steps of the document that are inside no other.
TopSteps(d) ==
  SetToSortSeq({s \in DOMAIN d : \A p \in DOMAIN d :
                  s \notin Range(d[p].first) \union Range(d[p].second)}, <)

YamlInit ==
  /\ document \in Documents
  /\ given \in Contexts
  /\ mode = "parse"
  /\ ctx = given
  /\ todo = <<>>
  /\ completed = <<>>
  /\ errors = <<>>
  /\ ran = <<>>

\* What makes _parse_step() raise: no mapping, no name, an unknown type, inputs or outputs of
\* the wrong type, a conditional without a condition, a parallel without a list of steps.
Refuses(step) ==
  \/ step.flaw \in {"not_a_mapping", "no_name", "unknown_type", "inputs", "outputs"}
  \/ step.flaw = "no_condition" /\ step.type = "conditional"
  \/ step.flaw = "no_list" /\ step.type = "parallel"

\* _parse_workflow_document(): all steps are parsed before any runs.
Parse ==
  /\ mode = "parse"
  /\ IF \E s \in DOMAIN document : Refuses(document[s])
       THEN mode' = "rejected" /\ UNCHANGED todo
       ELSE mode' = "run" /\ todo' = Entries(TopSteps(document))
  /\ UNCHANGED <<document, given, ctx, completed, errors, ran>>

Now == Head(todo)

Step == document[Now.step]

Running(type) == mode = "run" /\ todo # <<>> /\ Step.type = type

Fail == errors' = Append(errors, Now.step) /\ UNCHANGED <<ctx, completed>>

\* A task whose agent is not given, not there or not callable.
TaskUnable ==
  /\ Running("task")
  /\ \A agent \in Step.agent : ctx[agent] # "callable"
  /\ Fail
  /\ ran' = Append(ran, Now.step)
  /\ todo' = Tail(todo)
  /\ UNCHANGED <<document, given, mode>>

\* The handler of a task raises.
TaskRaises ==
  /\ Running("task")
  /\ \E agent \in Step.agent : ctx[agent] = "callable"
  /\ Fail
  /\ ran' = Append(ran, Now.step)
  /\ todo' = Tail(todo)
  /\ UNCHANGED <<document, given, mode>>

\* The handler returns a dict, whose keys among the outputs are bound, or another value,
\* which the first output is bound to.
TaskReturns(keys, value) ==
  /\ Running("task")
  /\ \E agent \in Step.agent : ctx[agent] = "callable"
  /\ keys \subseteq Range(Step.outputs)
  /\ ctx' = [k \in Keys |-> IF k \in keys THEN value ELSE ctx[k]]
  /\ completed' = Append(completed, Now.step)
  /\ ran' = Append(ran, Now.step)
  /\ todo' = Tail(todo)
  /\ UNCHANGED <<document, given, mode, errors>>

\* A parallel or conditional step begins: its steps, or those of a branch, come first.
Opened == [Now EXCEPT !.opened = TRUE, !.errorsBefore = Len(errors)]

ParallelBegin ==
  /\ Running("parallel") /\ ~Now.opened
  /\ todo' = Entries(Step.first) \o <<Opened>> \o Tail(todo)
  /\ ran' = Append(ran, Now.step)
  /\ UNCHANGED <<document, given, mode, ctx, completed, errors>>

\* Mutant of Clean: the errors of the whole workflow count.
CleanSoFar == errors = <<>>

\* if not sub_errors
Clean == Len(errors) = Now.errorsBefore

ParallelEnd ==
  /\ Running("parallel") /\ Now.opened
  /\ completed' = IF Clean THEN Append(completed, Now.step) ELSE completed
  /\ todo' = Tail(todo)
  /\ UNCHANGED <<document, given, mode, ctx, errors, ran>>

\* _resolve_dot_path() and _is_truthy(): what is not there is false.
Branch == IF \E k \in Step.condition : ctx[k] \in {"callable", "yes"} THEN Step.first
                                                                     ELSE Step.second

ConditionalBegin ==
  /\ Running("conditional") /\ ~Now.opened
  /\ todo' = Entries(Branch) \o <<Opened>> \o Tail(todo)
  /\ ran' = Append(ran, Now.step)
  /\ UNCHANGED <<document, given, mode, ctx, completed, errors>>

\* A conditional step is completed whatever became of its branch.
ConditionalEnd ==
  /\ Running("conditional") /\ Now.opened
  /\ completed' = Append(completed, Now.step)
  /\ todo' = Tail(todo)
  /\ UNCHANGED <<document, given, mode, ctx, errors, ran>>

\* execute() returns.
YamlDone ==
  /\ mode = "run" /\ todo = <<>>
  /\ mode' = "done"
  /\ UNCHANGED <<document, given, ctx, todo, completed, errors, ran>>

\* The outputs of the result: the keys that are new or bound to something else.
Outputs == {k \in Keys : ctx[k] # given[k]}

YamlNext ==
  \/ Parse \/ TaskUnable \/ TaskRaises
  \/ \E keys \in SUBSET Keys, value \in {"yes", "no"} : TaskReturns(keys, value)
  \/ ParallelBegin \/ ParallelEnd \/ ConditionalBegin \/ ConditionalEnd \/ YamlDone

YamlSpec == YamlInit /\ [][YamlNext]_yamlVars
-----------------------------------------------------------------------------
\* The steps inside a step, at any depth: those numbered up to the next step beside it.
Inside(s) ==
  LET children(p) == Range(document[p].first) \union Range(document[p].second)
      deep1 == children(s)
      deep2 == UNION {children(p) : p \in deep1}
      deep3 == UNION {children(p) : p \in deep2}
  IN  deep1 \union deep2 \union deep3

\* The result tells the truth, through nested branches and after failures: every
\* step that started is told once, as completed or as failed or, of parallel
\* steps, neither if something inside failed; all steps of the top level and all of a
\* parallel one start, and of a conditional one exactly a branch; tasks are
\* completed in the order of the document and enclosing steps after what is inside them; and
\* only completed tasks have outputs.
WorkflowTold ==
  mode = "done" =>
    LET Done == Range(completed)
        Failed == Range(errors)
        Started == Range(ran)
        place(s) == CHOOSE i \in DOMAIN completed : completed[i] = s
    IN  /\ IsInjective(completed) /\ IsInjective(errors) /\ IsInjective(ran)
        /\ Done \union Failed \subseteq Started
        /\ Range(TopSteps(document)) \subseteq Started
        /\ \A s \in Started :
             LET type == document[s].type
             IN  /\ type = "task" => (s \in Done) = (s \notin Failed)
                 /\ type = "parallel" =>
                      /\ Range(document[s].first) \subseteq Started
                      /\ s \in Done <=> Inside(s) \intersect Failed = {}
                 /\ type = "conditional" =>
                      /\ s \in Done
                      /\ \/ /\ Range(document[s].first) \subseteq Started
                            /\ Range(document[s].second) \intersect Started = {}
                         \/ /\ Range(document[s].second) \subseteq Started
                            /\ Range(document[s].first) \intersect Started = {}
        /\ \A s, r \in Done :
             IF r \in Inside(s) THEN place(r) < place(s)
             ELSE s \notin Inside(r) /\ s < r => place(s) < place(r)
        /\ Outputs \subseteq UNION {Range(document[s].outputs) : s \in
                               {r \in Done : document[r].type = "task"}}
=============================================================================
