---------------------------- MODULE TaskLifecycle ----------------------------
(***************************************************************************)
(* a2a/task_lifecycle.py: the TaskManager, whose callers are one thread    *)
(* (its documentation says that it is not thread-safe).                    *)
(***************************************************************************)
EXTENDS Naturals, Sequences

CONSTANTS
  TaskIds,        \* tasks
  MaxTransitions, \* bound: the transitions of a task
  MaxArtifacts    \* bound: the artifacts of a task

VARIABLES
  track_history,  \* TaskManager._track_history
  tasks,          \* TaskManager._tasks: state, history, and number of artifacts
  steps           \* the transitions that each task has made, whether tracked or not

taskVars == <<track_history, tasks, steps>>

\* steps is a history variable: it is read only by the bound on transitions.

States == {"submitted", "working", "input_required", "completed", "failed", "canceled"}

\* Mutant of VALID_TRANSITIONS: a failed task may be tried again.
VALID_TRANSITIONSRetry ==
  [s \in States |->
    CASE s = "submitted" -> {"working", "canceled"}
      [] s = "working" -> {"completed", "failed", "input_required", "canceled"}
      [] s \in {"input_required", "failed"} -> {"working", "canceled"}
      [] OTHER -> {}]

\* _VALID_TRANSITIONS
VALID_TRANSITIONS ==
  [s \in States |->
    CASE s = "submitted" -> {"working", "canceled"}
      [] s = "working" -> {"completed", "failed", "input_required", "canceled"}
      [] s = "input_required" -> {"working", "canceled"}
      [] OTHER -> {}]

\* _TERMINAL_STATES
TERMINAL_STATES == {"completed", "failed", "canceled"}

NoTask == [state |-> "none", history |-> <<>>, artifacts |-> 0]

TasksInit ==
  /\ track_history \in BOOLEAN
  /\ tasks = [t \in TaskIds |-> NoTask]
  /\ steps = [t \in TaskIds |-> 0]

CreateTask(t) ==
  /\ tasks[t].state = "none"
  /\ tasks' = [tasks EXCEPT ![t].state = "submitted"]
  /\ UNCHANGED <<track_history, steps>>

\* transition(), and cancel_task() with "canceled": refused if the state does not allow it.
Transition(t, new_state) ==
  /\ tasks[t].state \in States
  /\ steps[t] < MaxTransitions
  /\ new_state \in VALID_TRANSITIONS[tasks[t].state]
  /\ tasks' = [tasks EXCEPT
       ![t].state = new_state,
       ![t].history = IF track_history THEN Append(@, tasks[t].state) ELSE @]
  /\ steps' = [steps EXCEPT ![t] = @ + 1]
  /\ UNCHANGED track_history

\* add_artifact(): in any state, also a terminal one.
AddArtifact(t) ==
  /\ tasks[t].state \in States
  /\ tasks[t].artifacts < MaxArtifacts
  /\ tasks' = [tasks EXCEPT ![t].artifacts = @ + 1]
  /\ UNCHANGED <<track_history, steps>>

TasksNext ==
  \E t \in TaskIds :
    \/ CreateTask(t)
    \/ \E s \in States : Transition(t, s)
    \/ AddArtifact(t)

TasksSpec == TasksInit /\ [][TasksNext]_taskVars
-----------------------------------------------------------------------------
Tasks == [state: States \union {"none"}, history: Seq(States), artifacts: Nat]

\* The tasks and their transitions stay in their types, and a task that does not exist has
\* no history.
TasksTypeOK ==
  /\ track_history \in BOOLEAN
  /\ tasks \in [TaskIds -> Tasks]
  /\ steps \in [TaskIds -> Nat]
  /\ \A t \in TaskIds :
       tasks[t].state = "none" => tasks[t].history = <<>> /\ steps[t] = 0

\* A sequence of states that a task can pass through in n transitions.
Story(told, n) ==
  /\ told[1] = "submitted"
  /\ Len(told) = n + 1
  /\ \A i \in 1..n :
       /\ told[i] \notin TERMINAL_STATES
       /\ told[i] \in {"submitted", "input_required"} => told[i + 1] \in {"working", "canceled"}
       /\ told[i + 1] # "submitted"

\* The history of a task, its present state at the end, is the whole story: it begins with
\* "submitted", has one entry per transition, every "working" stretch that was
\* interrupted for input ends in "working" or "canceled", and a terminal state is the last.
HistoryTold ==
  \A t \in TaskIds :
    tasks[t].state # "none" /\ track_history =>
      Story(Append(tasks[t].history, tasks[t].state), steps[t])
=============================================================================
