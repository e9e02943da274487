--------------------------- MODULE CircuitBreaker ---------------------------
(***************************************************************************)
(* resilience/circuit_breaker.py: a CircuitBreaker shared by several       *)
(* threads.  execute() holds the lock to admit a call, releases it while   *)
(* the callable runs, and takes it again to record the outcome, so calls   *)
(* admitted in one state of the circuit may finish in another.             *)
(*                                                                         *)
(* time.monotonic() - _opened_at is only ever compared with                *)
(* recovery_timeout_seconds.  The breaker record keeps that difference in  *)
(* "elapsed", saturated at RecoveryTimeout; NotOpened stands for an        *)
(* _opened_at of None.                                                     *)
(***************************************************************************)
EXTENDS Integers, FiniteSets

CONSTANTS
  Callers,           \* threads that call execute()
  FailureThreshold,  \* CircuitBreakerConfig.failure_threshold
  RecoveryTimeout,   \* CircuitBreakerConfig.recovery_timeout_seconds, in clock ticks
  HalfOpenMaxCalls,  \* CircuitBreakerConfig.half_open_max_calls
  SuccessThreshold,  \* CircuitBreakerConfig.success_threshold
  Environments,      \* the environments considered, see env
  MaxTotal           \* bound: the lifetime counters saturate here

\* CircuitBreakerConfig.__post_init__ rejects every other configuration.
ASSUME ConfigAssumption ==
  /\ FailureThreshold \in Nat \ {0}
  /\ RecoveryTimeout \in Nat \ {0}
  /\ HalfOpenMaxCalls \in Nat \ {0}
  /\ SuccessThreshold \in Nat \ {0}
  /\ SuccessThreshold <= HalfOpenMaxCalls

ASSUME CallersAssumption ==
  /\ IsFiniteSet(Callers)
  /\ Environments \subseteq SUBSET {"manual", "interrupt"}
  /\ MaxTotal \in Nat

VARIABLES
  cb,       \* the fields that steer the breaker
  total,    \* the lifetime metrics: calls, successes, failures, rejected
  running,  \* callers whose callable runs, between execute()'s two critical sections
  probing,  \* those of them that were admitted as probes of the current HALF_OPEN window
  verdicts, \* how many probes of the current HALF_OPEN window have succeeded
  env       \* what users of this breaker do, chosen once for a behaviour

vars == <<cb, total, running, probing, verdicts, env>>

\* probing and verdicts are history variables: no action's guard reads them.

\* record_success() and record_failure() are also called directly.
ManualRecording == "manual" \in env

\* A callable may raise a BaseException that is no Exception.
Interruptible == "interrupt" \in env
-----------------------------------------------------------------------------
States == {"closed", "open", "half_open"}

NotOpened == -1

Breakers ==
  [state: States,
   failure_count: Nat,
   success_count: Nat,
   half_open_call_count: Nat,
   elapsed: NotOpened..RecoveryTimeout]

Totals == [calls: Nat, successes: Nat, failures: Nat, rejected: Nat]

\* CircuitBreaker.__init__
FreshBreaker ==
  [state |-> "closed", failure_count |-> 0, success_count |-> 0,
   half_open_call_count |-> 0, elapsed |-> NotOpened]

\* The metrics are reported and never tested by the breaker.
Bump(n) == IF n < MaxTotal THEN n + 1 ELSE n

\* What a transition leaves of failure_count.
FailuresAfter(b, new) == IF new = "half_open" THEN b.failure_count ELSE 0

\* _transition_to: every transition clears the probe counters; only the one to
\* HALF_OPEN keeps failure_count and _opened_at.
TransitionTo(b, new) ==
  [state |-> new,
   failure_count |-> FailuresAfter(b, new),
   success_count |-> 0,
   half_open_call_count |-> 0,
   elapsed |-> CASE new = "open"      -> 0
                 [] new = "half_open" -> b.elapsed
                 [] new = "closed"    -> NotOpened]

\* Mutant of RecoveryDue: the elapsed time is not compared.
RecoveryDueAtOnce(b) == b.state = "open"

\* _maybe_transition_to_half_open
RecoveryDue(b) == b.state = "open" /\ b.elapsed >= RecoveryTimeout

MaybeTransitionToHalfOpen(b) ==
  IF RecoveryDue(b) THEN TransitionTo(b, "half_open") ELSE b

\* The test at the head of execute(), applied after the lazy transition.
Rejects(b) ==
  \/ b.state = "open"
  \/ b.state = "half_open" /\ b.half_open_call_count >= HalfOpenMaxCalls

\* Mutant of Admitted: the slot is only tested, not taken.
AdmittedWithoutSlot(b) == b

\* The admission half of execute(): a HALF_OPEN call takes a probe slot.
Admitted(b) ==
  IF b.state = "half_open"
    THEN [b EXCEPT !.half_open_call_count = @ + 1]
    ELSE b

\* Mutant of EnoughSuccesses: the threshold must be exceeded.
EnoughSuccessesStrictly(n) == n > SuccessThreshold

\* The test that closes a half-open circuit.
EnoughSuccesses(n) == n >= SuccessThreshold

\* What a success in CLOSED leaves of failure_count.
Forgiven(n) == 0

\* record_success
AfterSuccess(b) ==
  CASE b.state = "closed"    -> [b EXCEPT !.failure_count = Forgiven(@)]
    [] b.state = "half_open" -> IF EnoughSuccesses(b.success_count + 1)
                                  THEN TransitionTo(b, "closed")
                                  ELSE [b EXCEPT !.success_count = @ + 1]
    [] b.state = "open"      -> b

\* Mutant of AfterFailure: a failed probe is tolerated.
AfterFailureTolerant(b) ==
  IF b.state = "closed" /\ b.failure_count + 1 >= FailureThreshold
    THEN TransitionTo(b, "open")
    ELSE IF b.state = "closed" THEN [b EXCEPT !.failure_count = @ + 1] ELSE b

\* record_failure
AfterFailure(b) ==
  CASE b.state = "closed"    -> IF b.failure_count + 1 >= FailureThreshold
                                  THEN TransitionTo(b, "open")
                                  ELSE [b EXCEPT !.failure_count = @ + 1]
    [] b.state = "half_open" -> TransitionTo(b, "open")
    [] b.state = "open"      -> b
-----------------------------------------------------------------------------
Init ==
  /\ cb = FreshBreaker
  /\ total = [calls |-> 0, successes |-> 0, failures |-> 0, rejected |-> 0]
  /\ running = {}
  /\ probing = {}
  /\ verdicts = 0
  /\ env \in Environments

\* The probes and verdicts of a window end with the window.
CloseWindow ==
  IF cb'.state = cb.state
    THEN UNCHANGED <<probing, verdicts>>
    ELSE probing' = {} /\ verdicts' = 0

\* time.monotonic() advances while the circuit is open.
Tick ==
  /\ cb.state = "open"
  /\ cb.elapsed < RecoveryTimeout
  /\ cb' = [cb EXCEPT !.elapsed = @ + 1]
  /\ UNCHANGED <<total, running, probing, verdicts, env>>

\* The "state" property: reading it performs the lazy transition.
ReadState ==
  /\ RecoveryDue(cb)
  /\ cb' = MaybeTransitionToHalfOpen(cb)
  /\ UNCHANGED <<total, running, env>>
  /\ CloseWindow

CountRejection == [total EXCEPT !.rejected = Bump(@)]

\* execute(), first critical section, when it raises CircuitBreakerOpenError.
ExecuteRejected(c) ==
  /\ c \notin running
  /\ Rejects(MaybeTransitionToHalfOpen(cb))
  /\ cb' = MaybeTransitionToHalfOpen(cb)
  /\ total' = CountRejection
  /\ UNCHANGED <<running, env>>
  /\ CloseWindow

\* execute(), first critical section, when the call is admitted.
ExecuteAdmitted(c) ==
  LET b == MaybeTransitionToHalfOpen(cb)
      kept == IF b.state = cb.state THEN probing ELSE {}
  IN  /\ c \notin running
      /\ ~Rejects(b)
      /\ cb' = Admitted(b)
      /\ total' = [total EXCEPT !.calls = Bump(@)]
      /\ running' = running \union {c}
      /\ probing' = IF b.state = "half_open" THEN kept \union {c} ELSE kept
      /\ verdicts' = IF b.state = cb.state THEN verdicts ELSE 0
      /\ UNCHANGED env

\* execute(), second critical section, after fn() returned.
ExecuteSucceeded(c) ==
  /\ c \in running
  /\ cb' = AfterSuccess(cb)
  /\ total' = [total EXCEPT !.successes = Bump(@)]
  /\ running' = running \ {c}
  /\ IF cb'.state = cb.state
       THEN /\ probing' = probing \ {c}
            /\ verdicts' = IF c \in probing THEN verdicts + 1 ELSE verdicts
       ELSE probing' = {} /\ verdicts' = 0
  /\ UNCHANGED env

\* execute(), second critical section, after fn() raised an Exception.
ExecuteFailed(c) ==
  /\ c \in running
  /\ cb' = AfterFailure(cb)
  /\ total' = [total EXCEPT !.failures = Bump(@)]
  /\ running' = running \ {c}
  /\ IF cb'.state = cb.state
       THEN probing' = probing \ {c} /\ UNCHANGED verdicts
       ELSE probing' = {} /\ verdicts' = 0
  /\ UNCHANGED env

\* fn() raised a BaseException that "except Exception" does not catch: execute()
\* is left without either record_ call.
ExecuteInterrupted(c) ==
  /\ Interruptible
  /\ c \in running
  /\ running' = running \ {c}
  /\ probing' = probing \ {c}
  /\ UNCHANGED <<cb, total, verdicts, env>>

\* record_success() called by code that does not use execute().
RecordSuccess ==
  /\ ManualRecording
  /\ cb' = AfterSuccess(cb)
  /\ total' = [total EXCEPT !.successes = Bump(@)]
  /\ UNCHANGED <<running, env>>
  /\ CloseWindow

\* record_failure() called by code that does not use execute().
RecordFailure ==
  /\ ManualRecording
  /\ cb' = AfterFailure(cb)
  /\ total' = [total EXCEPT !.failures = Bump(@)]
  /\ UNCHANGED <<running, env>>
  /\ CloseWindow

\* reset()
Reset ==
  /\ cb' = TransitionTo(cb, "closed")
  /\ UNCHANGED <<total, running, env>>
  /\ CloseWindow

Next ==
  \/ Tick
  \/ ReadState
  \/ RecordSuccess
  \/ RecordFailure
  \/ Reset
  \/ \E c \in Callers :
       \/ ExecuteRejected(c)
       \/ ExecuteAdmitted(c)
       \/ ExecuteSucceeded(c)
       \/ ExecuteFailed(c)
       \/ ExecuteInterrupted(c)

Spec == Init /\ [][Next]_vars

\* Traffic keeps coming and the wrapped callables return: some caller is always
\* about to call execute(), every running callable ends, and the clock runs.
Fairness ==
  /\ WF_vars(Tick)
  /\ WF_vars(\E c \in Callers : ExecuteAdmitted(c))
  /\ \A c \in Callers : WF_vars(ExecuteSucceeded(c) \/ ExecuteFailed(c))

FairSpec == Spec /\ Fairness
-----------------------------------------------------------------------------
\* The fields of the breaker, its metrics and its callers stay in their types.
TypeOK ==
  /\ cb \in Breakers
  /\ total \in Totals
  /\ running \subseteq Callers
  /\ probing \subseteq running
  /\ verdicts \in Nat
  /\ env \in Environments

\* What each state says of the counters.
Consistent(b) ==
  /\ b.state = "closed" =>
       /\ b.failure_count < FailureThreshold
       /\ b.success_count = 0
       /\ b.half_open_call_count = 0
       /\ b.elapsed = NotOpened
  /\ b.state = "open" =>
       /\ b.failure_count = 0
       /\ b.success_count = 0
       /\ b.half_open_call_count = 0
       /\ b.elapsed \in 0..RecoveryTimeout
  /\ b.state = "half_open" =>
       /\ b.failure_count = 0
       /\ b.success_count < SuccessThreshold
       /\ b.half_open_call_count <= HalfOpenMaxCalls
       /\ b.elapsed = RecoveryTimeout

\* A closed circuit is short of the failure threshold, an open one has cleared every
\* counter and runs its recovery clock, a half-open one is short of the success
\* threshold and within its probe quota.  Each counter belongs to one state only,
\* so a late outcome of a call admitted in another state must not leave it behind.
CountersMatchState == Consistent(cb)

\* Every probe slot that a half-open circuit has handed out is held by a running
\* probe or was given up by a success: execute() loses no slot and hands none out
\* twice, so the quota bounds the probes really let through.  An interrupted
\* callable is the one way to lose a slot.
SlotsAccountedFor ==
  /\ Cardinality(probing) + verdicts <= cb.half_open_call_count
  /\ ~Interruptible => cb.half_open_call_count = Cardinality(probing) + verdicts
  /\ verdicts <= cb.success_count

\* When every outcome comes from execute(), the metrics balance: each admitted call
\* is running or was counted once as a success or a failure, and a rejected call
\* is not counted as a call.  MaxTotal is the counters' saturation bound.
CallsAccountedFor ==
  LET settled == total.successes + total.failures + Cardinality(running)
  IN  ~ManualRecording /\ total.calls < MaxTotal =>
        /\ settled <= total.calls
        /\ ~Interruptible => settled = total.calls

\* A half-open circuit always has a way out: a free probe slot, or a running probe
\* whose outcome will be recorded.  HALF_OPEN has no timeout, so a circuit
\* without either rejects every call for ever.  An interrupted probe is the exception.
NeverWedged ==
  cb.state = "half_open" /\ ~Interruptible =>
    \/ cb.half_open_call_count < HalfOpenMaxCalls
    \/ probing # {}

\* The edges of the state diagram in the module docstring: the circuit opens only
\* on the threshold of failures or on a failure in HALF_OPEN, is probed only once
\* the recovery timeout has elapsed, closes only on the threshold of successes,
\* and takes any other way to CLOSED by reset() alone.
FollowsDiagram ==
  [][LET edge == <<cb.state, cb'.state>>
     IN  /\ edge # <<"closed", "half_open">>
         /\ edge = <<"closed", "open">> => cb.failure_count = FailureThreshold - 1
         /\ edge = <<"open", "half_open">> => cb.elapsed = RecoveryTimeout
         /\ edge = <<"open", "closed">> => Reset
         /\ edge = <<"half_open", "closed">> =>
              Reset \/ cb.success_count = SuccessThreshold - 1
    ]_vars

\* While the circuit is open and its timeout has not elapsed, no caller is let
\* through, whatever the callers admitted earlier report in the meantime.
OpenLetsNobodyIn ==
  [][cb.state = "open" /\ cb.elapsed < RecoveryTimeout => running' \subseteq running]_vars

\* An open circuit is probed and a half-open one decided, under traffic: late outcomes
\* do not restart the recovery clock, and HALF_OPEN has no timeout of its own, so
\* its probes, and only they, can end it.
Recovers ==
  /\ cb.state = "open" ~> cb.state # "open"
  /\ cb.state = "half_open" /\ ~Interruptible ~> cb.state # "half_open"

\* How long the circuit has been open.
Waited(b) == IF b.state = "open" THEN b.elapsed ELSE 0

\* What callers see of the breaker: the gate, the time it has been shut and the
\* probe slots handed out.
Contract == INSTANCE BreakerContract
  WITH gate <- cb.state,
       waited <- Waited(cb),
       used <- cb.half_open_call_count,
       inside <- running

\* The breaker keeps its contract: with outcomes recorded in states other than the
\* one their call was admitted in, with record_ calls from outside and interrupted
\* callables, nobody passes an open circuit early and every half-open window hands
\* out at most half_open_max_calls slots.
ImplementsContract == Contract!Spec
=============================================================================
