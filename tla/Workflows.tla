----------------------------- MODULE Workflows -----------------------------
(***************************************************************************)
(* workflows/: execute() of the sequential, parallel, hierarchical,        *)
(* competitive and consensus executors, on one event loop.                 *)
(*                                                                         *)
(* A step's _run_step() ends with a success or a failure (an exception or  *)
(* a timeout); outputs, durations and messages are left out.  Steps are    *)
(* numbered as in the list given to execute().                             *)
(***************************************************************************)
EXTENDS Integers, FiniteSets, FiniteSetsExt

CONSTANTS
  N,          \* the number of steps, not 0 (an empty list returns SUCCESS at once)
  Unknown,    \* a depends_on entry that names no step
  Quorums,    \* the values of math.ceil(len(steps) * quorum_fraction) considered
  Executors,  \* the executors considered
  Graphs      \* the dependency graphs considered

Steps == 1..N

Waves == {"parallel", "hierarchical"}
Races == {"competitive", "consensus"}

ASSUME WorkflowAssumption ==
  /\ N \in Nat \ {0}
  /\ Unknown \notin Steps
  /\ Quorums \subseteq Steps /\ Quorums # {}
  /\ Executors \subseteq Waves \union Races \union {"sequential"}
  /\ Graphs \subseteq [Steps -> SUBSET (Steps \union {Unknown})]

VARIABLES
  executor,     \* which execute() this is
  include_all,  \* include_all_results
  deps,         \* depends_on of each step
  quorum,       \* required_quorum
  phase,        \* how far execute() is
  task,         \* each step's _run_step()
  results,      \* results or all_results, by step
  batch,        \* the tasks that execute() awaits: a wave, or pending
  level,        \* hierarchical: the next level
  votes,        \* successful_results, or the winner
  status,
  reported      \* the steps in step_results

setting == <<executor, include_all, deps, quorum>>
workflowVars == <<setting, phase, task, results, batch, level, votes, status, reported>>

\* The sequential and the two racing executors never look at depends_on, which WorkflowStep
\* documents for all of them: their steps are given none.
WorkflowInit ==
  /\ executor \in Executors
  /\ include_all \in IF executor = "competitive" THEN BOOLEAN ELSE {FALSE}
  /\ deps \in IF executor \in Waves THEN Graphs ELSE {[s \in Steps |-> {}]}
  /\ quorum \in IF executor = "consensus" THEN Quorums ELSE {N}
  /\ phase = "new"
  /\ task = [s \in Steps |-> "idle"]
  /\ results = [s \in Steps |-> "none"]
  /\ batch = {}
  /\ level = 0
  /\ votes = {}
  /\ status = "none"
  /\ reported = {}
-----------------------------------------------------------------------------
(* Validation *)

\* The steps that Kahn's queue has visited after k rounds.
Visited[k \in 0..N] == IF k = 0 THEN {} ELSE {s \in Steps : deps[s] \subseteq Visited[k - 1]}

\* The steps on paths of at most k + 1 edges that end in each step: what a depth-first
\* search started there finds GRAY or visits.
Above[k \in 0..N] ==
  IF k = 0 THEN deps
           ELSE [s \in Steps |-> deps[s] \union UNION {Above[k - 1][d] : d \in deps[s]}]

\* Mutant of Circular: only the direct dependencies are looked at.
CircularDirectly == \E s \in Steps : s \in deps[s]

\* "Circular dependency detected": by _validate_dependencies (parallel) and _validate
\* (hierarchical).
Circular ==
  IF executor = "parallel" THEN Visited[N] # Steps ELSE \E s \in Steps : s \in Above[N][s]

\* The ValueErrors of the two validations; the other executors do not validate.
Refuses ==
  /\ executor \in Waves
  /\ (\E s \in Steps : Unknown \in deps[s]) \/ Circular

\* get_depth: after k rounds it is right for the steps of depth at most k.
Depth[k \in 0..N] ==
  [s \in Steps |-> IF k = 0 \/ deps[s] = {} THEN 0
                   ELSE 1 + Max({Depth[k - 1][d] : d \in deps[s]})]
-----------------------------------------------------------------------------
(* Steps *)

Launch(ss) ==
  /\ task' = [s \in Steps |-> IF s \in ss THEN "running" ELSE task[s]]
  /\ batch' = ss
  /\ phase' = "running"

Done(s) == task[s] \in {"ok", "failed", "cancelled"}

\* _run_step() returns.
StepEnds(s) ==
  /\ task[s] = "running"
  /\ \E o \in {"ok", "failed"} : task' = [task EXCEPT ![s] = o]
  /\ UNCHANGED <<setting, phase, results, batch, level, votes, status, reported>>

\* The agent raises CancelledError, which _run_step() lets through and which ends
\* execute().  (The racing executors catch it: a failure.)  Other steps run on.
StepRaises(s) ==
  /\ executor \notin Races
  /\ phase = "running"
  /\ task[s] = "running"
  /\ task' = [task EXCEPT ![s] = "cancelled"]
  /\ phase' = "raised"
  /\ UNCHANGED <<setting, results, batch, level, votes, status, reported>>

\* A cancelled task ends, "cancelled" or with the result of an agent that went on.
CancelEnds(s) ==
  /\ task[s] = "cancelling"
  /\ \E o \in {"ok", "failed", "cancelled"} : task' = [task EXCEPT ![s] = o]
  /\ UNCHANGED <<setting, phase, results, batch, level, votes, status, reported>>
-----------------------------------------------------------------------------
(* execute() *)

\* The call, up to the first await.
Begin ==
  /\ phase = "new"
  /\ CASE Refuses                      -> phase' = "refused" /\ UNCHANGED <<task, batch>>
       [] ~Refuses /\ executor \in Races -> Launch(Steps)
       [] OTHER                        -> phase' = "turn" /\ UNCHANGED <<task, batch>>
  /\ UNCHANGED <<setting, results, level, votes, status, reported>>

Succeeded(r) == {s \in Steps : r[s] = "ok"}
Recorded(r) == {s \in Steps : r[s] # "none"}

\* SUCCESS if every reported step succeeded, PARTIAL if some did.
Aggregate(r) ==
  CASE Recorded(r) = Succeeded(r)                      -> "success"
    [] Recorded(r) # Succeeded(r) /\ Succeeded(r) # {} -> "partial"
    [] OTHER                                           -> "failed"

Return(st, shown) ==
  /\ phase' = "returned"
  /\ status' = st
  /\ reported' = shown

\* Sequential: the next step, unless one has failed or none is left.
SequentialTurn ==
  LET next == Cardinality(Recorded(results)) + 1
      over == next > N \/ \E s \in Steps : results[s] = "failed"
  IN  /\ executor = "sequential" /\ phase = "turn"
      /\ \/ ~over /\ Launch({next}) /\ UNCHANGED <<status, reported>>
         \/ /\ over
            /\ Return(IF Recorded(results) = Succeeded(results) THEN "success" ELSE "failed",
                      Recorded(results))
            /\ UNCHANGED <<task, batch>>
      /\ UNCHANGED <<setting, results, level, votes>>

Skipped(skip) == [s \in Steps |-> IF s \in skip THEN "skipped" ELSE results[s]]

\* Mutant of Blocked: a skipped step does not block its dependents.
BlockedByFailure(s) == \E d \in deps[s] : results[d] = "failed"

\* A dependency has a result without success.
Blocked(s) == \E d \in deps[s] : results[d] \notin {"none", "ok"}

\* Parallel, one round of "while remaining": the steps whose dependencies all have a
\* result are skipped or launched; a round that does neither ends the loop.
ParallelTurn ==
  LET known == {s \in Steps \ Recorded(results) : deps[s] \subseteq Recorded(results)}
      skip == {s \in known : Blocked(s)}
      ready == known \ skip
  IN  /\ executor = "parallel" /\ phase = "turn"
      /\ results' = Skipped(skip)
      /\ \/ ready # {} /\ Launch(ready) /\ UNCHANGED <<status, reported>>
         \/ ready = {} /\ skip # {} /\ UNCHANGED <<phase, task, batch, status, reported>>
         \/ /\ known = {}
            /\ Return(Aggregate(results), Recorded(results))
            /\ UNCHANGED <<task, batch>>
      /\ UNCHANGED <<setting, level, votes>>

\* Hierarchical, one level of the "for level_steps in levels" loop.
HierarchicalTurn ==
  LET here == {s \in Steps : Depth[N][s] = level}
      skip == {s \in here : Blocked(s)}
      run == here \ skip
  IN  /\ executor = "hierarchical" /\ phase = "turn"
      /\ results' = Skipped(skip)
      /\ level' = level + 1
      /\ \/ run # {} /\ Launch(run) /\ UNCHANGED <<status, reported>>
         \/ run = {} /\ skip # {} /\ UNCHANGED <<phase, task, batch, status, reported>>
         \/ /\ here = {}
            /\ Return(Aggregate(results), Recorded(results))
            /\ UNCHANGED <<task, batch>>
      /\ UNCHANGED <<setting, votes>>

Record(ss) == [s \in Steps |-> IF s \in ss THEN task[s] ELSE results[s]]

WaveOver == \A s \in batch : Done(s)

\* gather() of a wave returns, or the await of a sequential step.
WaveDone ==
  /\ executor \notin Races
  /\ phase = "running"
  /\ WaveOver
  /\ results' = Record(batch)
  /\ phase' = "turn"
  /\ UNCHANGED <<setting, task, batch, level, votes, status, reported>>

\* Mutant of CancelRest: execute() waits for the others instead of cancelling them.
CancelRestWaiting(rest) ==
  /\ UNCHANGED task
  /\ batch' = rest
  /\ phase' = "cancelling"

\* The tasks that are still pending are cancelled, and gathered next.
CancelRest(rest) ==
  /\ task' = [s \in Steps |-> IF s \in rest THEN "cancelling" ELSE task[s]]
  /\ batch' = rest
  /\ phase' = "cancelling"

\* Competitive: wait() returns, with failures only.
CompetitiveLoses(done) ==
  /\ \A s \in done : task[s] # "ok"
  /\ results' = Record(done)
  /\ batch' = batch \ done
  /\ IF batch' = {} THEN Return("failed", Recorded(results'))
                    ELSE UNCHANGED <<phase, status, reported>>
  /\ UNCHANGED <<task, votes>>

\* Competitive: wait() returns, and w is the first success that the iteration over the
\* set of done tasks meets, after the failures in seen.  The rest of done is
\* dropped by the break.
CompetitiveWins(done, w, seen) ==
  /\ task[w] = "ok"
  /\ \A s \in seen : task[s] # "ok"
  /\ results' = Record(seen \union {w})
  /\ votes' = {w}
  /\ CancelRest(batch \ done)
  /\ UNCHANGED <<status, reported>>

\* Mutant of Hopeless: given up one success too early.
HopelessEarly(yes, open) == yes + open <= quorum

\* max_possible < required_quorum
Hopeless(yes, open) == yes + open < quorum

\* Consensus: wait() returns; every done task is counted before the quorum is tested.
ConsensusCounts(done) ==
  LET yes == votes \union {s \in done : task[s] = "ok"}
      open == batch \ done
  IN  /\ results' = Record(done)
      /\ votes' = yes
      /\ IF Cardinality(yes) >= quorum \/ Hopeless(Cardinality(yes), Cardinality(open))
           THEN CancelRest(open)
           ELSE batch' = open /\ UNCHANGED <<task, phase>>
      /\ UNCHANGED <<status, reported>>

\* asyncio.wait() returns the tasks that are done when execute() runs again.
Wake ==
  LET done == {s \in batch : Done(s)}
  IN  /\ executor \in Races /\ phase = "running"
      /\ done # {}
      /\ IF executor = "consensus"
           THEN ConsensusCounts(done)
           ELSE \/ CompetitiveLoses(done)
                \/ \E w \in done, seen \in SUBSET done : CompetitiveWins(done, w, seen)
      /\ UNCHANGED <<setting, level>>

QuorumMet == Cardinality(votes) >= quorum

\* gather() of the cancelled tasks returns.  A hopeless consensus does not record them.
Gathered ==
  LET final == IF executor = "consensus" /\ ~QuorumMet THEN results ELSE Record(batch)
  IN  /\ phase = "cancelling"
      /\ \A s \in batch : Done(s)
      /\ results' = final
      /\ IF executor = "competitive"
           THEN Return("success", IF include_all THEN Recorded(final) ELSE votes)
           ELSE Return(CASE QuorumMet                 -> "success"
                         [] ~QuorumMet /\ votes # {}  -> "partial"
                         [] OTHER                     -> "failed", Recorded(final))
      /\ UNCHANGED <<setting, task, batch, level, votes>>

Turn == SequentialTurn \/ ParallelTurn \/ HierarchicalTurn

Ended == phase \in {"returned", "refused", "raised"}

\* The caller goes on; what still runs may end.
Finished ==
  /\ Ended
  /\ UNCHANGED workflowVars

WorkflowNext ==
  \/ Begin \/ Turn \/ WaveDone \/ Wake \/ Gathered
  \/ \E s \in Steps : StepEnds(s) \/ StepRaises(s) \/ CancelEnds(s)
  \/ Finished

WorkflowSpec == WorkflowInit /\ [][WorkflowNext]_workflowVars
-----------------------------------------------------------------------------
\* A graph is refused exactly if its steps cannot be numbered so that each comes after
\* its dependencies: Kahn's count and the depth-first search agree on it.
RefusedExactly ==
  executor \in Waves /\ phase # "new" =>
    (phase = "refused" <=>
       ~\E rank \in [Steps -> Steps] :
          \A s \in Steps : \A d \in deps[s] : d \in Steps /\ rank[d] < rank[s])

\* What must have succeeded before a step runs.
Needs(s) == IF executor = "sequential" THEN 1..s - 1 ELSE deps[s]

\* A step only runs once all its dependencies (in a sequence: all earlier steps) have
\* succeeded, and the status is SUCCESS exactly if every step succeeded.  A parallel
\* or hierarchical execute() leaves no step over, skips exactly the steps with a
\* dependency that did not succeed, directly or by being skipped, and is FAILED
\* exactly if no step succeeded; a sequence reports exactly the steps that ran.
DependenciesFollowed ==
  executor \notin Races =>
    /\ \A s \in Steps : task[s] # "idle" => \A d \in Needs(s) : results[d] = "ok"
    /\ phase = "returned" =>
         /\ status = "success" <=> \A s \in Steps : task[s] = "ok"
         /\ executor \in Waves =>
              /\ reported = Steps
              /\ \A s \in Steps :
                   results[s] = "skipped" <=> \E d \in deps[s] : results[d] # "ok"
              /\ status = "failed" <=> \A s \in Steps : task[s] # "ok"
         /\ executor = "sequential" => reported = {s \in Steps : task[s] # "idle"}

\* A race ends with a justified verdict and nobody still running: a competition fails
\* only if every step failed on its own, and is won by a step that succeeded; a
\* consensus succeeds only with a quorum, and gives up only if the failures alone rule
\* a quorum out, whatever the cancelled steps would have answered.
RaceJust ==
  executor \in Races /\ phase = "returned" =>
    LET failed == {s \in Steps : results[s] = "failed"}
    IN  /\ \A s \in Steps : Done(s)
        /\ \A s \in votes : task[s] = "ok" /\ results[s] = "ok"
        /\ executor = "competitive" =>
             IF status = "success" THEN Cardinality(votes) = 1 /\ votes \subseteq reported
                                   ELSE failed = Steps /\ reported = Steps
        /\ executor = "consensus" =>
             IF status = "success" THEN Cardinality(votes) >= quorum
                                   ELSE N - Cardinality(failed) < quorum

Yes == {s \in Steps : task[s] = "ok"}
No == {s \in Steps : task[s] = "failed"}

\* A race that is decided ends: once a competitor has succeeded, a quorum has or cannot
\* be reached any more, execute() returns without waiting for steps that may never end.
DecidedReturns ==
  (\/ executor = "competitive" /\ (Yes # {} \/ No = Steps)
   \/ executor = "consensus" /\ (Cardinality(Yes) >= quorum \/ N - Cardinality(No) < quorum))
     ~> phase = "returned"
=============================================================================
