------------------------------ MODULE Attempts ------------------------------
(***************************************************************************)
(* The three loops that call something unreliable again: RetryPolicy       *)
(* (resilience/retry.py), HttpTransport.send() (adapters/http.py) and      *)
(* RecoveryTester.test_recovery() (resilience/recovery_tester.py).         *)
(*                                                                         *)
(* Delays are whole numbers of time units.  A POST whose response is lost  *)
(* may or may not have been received.                                      *)
(***************************************************************************)
EXTENDS Naturals, Sequences, SequencesExt

CONSTANTS
  Policies   \* the loops considered: see Acceptable

\* The checks of RetryConfig, HttpTransport and RecoveryTester.  HttpTransport does not check
\* its backoff_base; that it is not negative is an assumption about its callers.
Acceptable(p) ==
  /\ p.loop \in {"retry", "http", "recovery"}
  /\ p.limit \in Nat \ {0}
  /\ p.loop \in {"retry", "http"} =>
       /\ p.base_delay \in Nat /\ p.max_delay \in Nat
       /\ p.exponential_base \in Nat \ {0}
       /\ p.jitter \in BOOLEAN
  /\ p.loop = "retry" => p.base_delay <= p.max_delay
  /\ p.loop = "http" => p.exponential_base = 2 /\ ~p.jitter
  /\ p.loop = "recovery" =>
       p.success_threshold \in 1..p.limit /\ p.stop_on_first_failure \in BOOLEAN

ASSUME PolicyAssumption == \A p \in Policies : Acceptable(p)

VARIABLES
  policy,    \* the loop that runs; limit is max_retries + 1 or max_test_requests
  answers,   \* what the calls have answered
  slept,     \* the delays between them
  pausing,   \* whether the loop sleeps before its next call
  verdict,   \* "running", or how the loop ended
  received   \* how many POSTs have reached the server

attemptVars == <<policy, answers, slept, pausing, verdict, received>>

Failures(seq) == {i \in DOMAIN seq : seq[i] # "ok"}

Successes(seq) == {i \in DOMAIN seq : seq[i] = "ok"}
-----------------------------------------------------------------------------
AttemptInit ==
  /\ policy \in Policies
  /\ answers = <<>>
  /\ slept = <<>>
  /\ pausing = FALSE
  /\ verdict = "running"
  /\ received = 0

\* Mutant of MoreLeft: one attempt too many.
MoreLeftPlusOne(n) == n <= policy.limit

\* Whether the loop goes round again after n calls.
MoreLeft(n) == n < policy.limit

\* fn() of a RetryPolicy returned or raised: execute() and execute_async().
RetryAnswer(answer) ==
  /\ policy.loop = "retry"
  /\ verdict = "running" /\ ~pausing
  /\ answer \in {"ok", "error"}
  /\ answers' = Append(answers, answer)
  /\ verdict' = IF answer = "ok" THEN "returned"
                ELSE IF MoreLeft(Len(answers) + 1) THEN "running" ELSE "exhausted"
  /\ pausing' = (verdict' = "running")
  /\ UNCHANGED <<policy, slept, received>>

\* A POST was answered with success, with a permanent error (4xx) or with another status,
\* or raised (timeout, connection error) before or after it was received.
HttpAnswer(answer, reached) ==
  /\ policy.loop = "http"
  /\ verdict = "running" /\ ~pausing
  /\ answer \in {"ok", "permanent", "error", "lost"}
  /\ answer # "lost" => reached
  /\ answers' = Append(answers, answer)
  /\ received' = IF reached THEN received + 1 ELSE received
  /\ verdict' = CASE answer = "ok" -> "returned"
                  [] answer = "permanent" -> "refused"
                  [] OTHER -> IF MoreLeft(Len(answers) + 1) THEN "running" ELSE "exhausted"
  /\ pausing' = (verdict' = "running")
  /\ UNCHANGED <<policy, slept>>

\* A probe of test_recovery() returned or raised.  Successes are counted in total: a failure
\* between them takes none away.
ProbeAnswer(answer) ==
  LET n == Cardinality(Successes(Append(answers, answer)))
      over == \/ answer = "ok" /\ n >= policy.success_threshold
              \/ answer # "ok" /\ policy.stop_on_first_failure
              \/ ~MoreLeft(Len(answers) + 1)
  IN  /\ policy.loop = "recovery"
      /\ verdict = "running"
      /\ answer \in {"ok", "error"}
      /\ answers' = Append(answers, answer)
      /\ verdict' = IF ~over THEN "running"
                    ELSE IF n >= policy.success_threshold THEN "close" ELSE "stay_open"
      /\ UNCHANGED <<policy, slept, pausing, received>>

\* base_delay * exponential_base ** attempt
Grown[attempt \in 0..policy.limit] ==
  IF attempt = 0 THEN policy.base_delay ELSE Grown[attempt - 1] * policy.exponential_base

\* _compute_delay() before jitter, for the attempt with this number (from 0), and the
\* backoff of send(), whose first delay comes before its second attempt.
RawDelay(attempt) ==
  IF Grown[attempt] <= policy.max_delay THEN Grown[attempt] ELSE policy.max_delay

Delays(attempt) == IF policy.jitter THEN 0..RawDelay(attempt) ELSE {RawDelay(attempt)}

\* time.sleep() or asyncio.sleep() between two attempts.
Sleep ==
  /\ pausing /\ verdict = "running"
  /\ \E delay \in Delays(Len(answers) - 1) : slept' = Append(slept, delay)
  /\ pausing' = FALSE
  /\ UNCHANGED <<policy, answers, verdict, received>>

\* A BaseException that is no Exception ends a loop at once, in a call or in a sleep.
Interrupt ==
  /\ verdict = "running"
  /\ verdict' = "interrupted"
  /\ UNCHANGED <<policy, answers, slept, pausing, received>>

AttemptNext ==
  \/ \E answer \in {"ok", "error"} : RetryAnswer(answer) \/ ProbeAnswer(answer)
  \/ \E answer \in {"ok", "permanent", "error", "lost"}, reached \in BOOLEAN :
       HttpAnswer(answer, reached)
  \/ Sleep
  \/ Interrupt

AttemptSpec == AttemptInit /\ [][AttemptNext]_attemptVars
-----------------------------------------------------------------------------
\* How a loop ended is justified by the answers it got: it returns exactly on the first
\* success, gives up only after all its attempts or on a permanent error, never calls
\* again after either, and a sent message was received.  A recovery test closes the
\* circuit exactly on enough successes in total, before any failure if the first one is fatal;
\* that they be consecutive is what the docstring says, see ClosesOnConsecutive.
VerdictJustified ==
  /\ policy.loop \in {"retry", "http"} =>
       /\ \A i \in DOMAIN answers : answers[i] \in {"ok", "permanent"} => i = Len(answers)
       /\ verdict = "returned" <=> Successes(answers) # {}
       /\ verdict = "refused" <=> \E i \in DOMAIN answers : answers[i] = "permanent"
       /\ verdict = "exhausted" => Len(answers) = policy.limit
       /\ Len(answers) <= policy.limit
  /\ policy.loop = "http" =>
       /\ received <= Len(answers)
       /\ verdict = "returned" => received > 0
  /\ policy.loop = "recovery" =>
       /\ verdict = "close" <=> Cardinality(Successes(answers)) = policy.success_threshold
       /\ verdict = "close" /\ policy.stop_on_first_failure => Failures(answers) = {}
       /\ verdict = "stay_open" => \/ Len(answers) = policy.limit
                                   \/ policy.stop_on_first_failure /\ Failures(answers) # {}

\* A loop sleeps once between two calls and never after the last, never longer than
\* max_delay_seconds, and without jitter never shorter than before.
PausesBounded ==
  policy.loop # "recovery" =>
    /\ Len(slept) <= Len(answers)
    /\ verdict \in {"returned", "refused", "exhausted"} => Len(slept) = Len(answers) - 1
    /\ \A i \in DOMAIN slept : slept[i] <= policy.max_delay
    /\ ~policy.jitter => \A i, j \in DOMAIN slept : i <= j => slept[i] <= slept[j]

\* Retries, sends and recovery tests end for a reason, and pause as configured.
AttemptsJustified == VerdictJustified /\ PausesBounded

\* What RecoveryTester says of success_threshold: the "number of consecutive successes required
\* to recommend closing the circuit".  The code breaks it when failures do not stop the
\* test: test_recovery() never sets its count of successes back.
ClosesOnConsecutive ==
  policy.loop = "recovery" /\ verdict = "close" =>
    /\ Len(answers) >= policy.success_threshold
    /\ \A i \in DOMAIN answers :
         i + policy.success_threshold > Len(answers) => answers[i] = "ok"
=============================================================================
