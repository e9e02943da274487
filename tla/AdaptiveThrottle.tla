-------------------------- MODULE AdaptiveThrottle --------------------------
(***************************************************************************)
(* backpressure/throttle.py with backpressure/monitor.py: a token bucket   *)
(* whose refill rate falls with the pressure that the monitor computes     *)
(* from the depths of its queues.                                          *)
(*                                                                         *)
(* _refill() runs under the throttle's lock; inside it pressure_score()    *)
(* takes the monitor's lock only to copy the list of entries, and reads    *)
(* each entry's depth after that, so depths change between two reads, and  *)
(* entries that were replaced are still read.                              *)
(*                                                                         *)
(* Time is counted in ticks.  Scores and thresholds are multiples of        *)
(* 1/ScoreUnit, rates and amounts multiples of one token; the instances    *)
(* choose them so that every division is exact.                            *)
(***************************************************************************)
EXTENDS Integers, FiniteSets, FiniteSetsExt

CONSTANTS
  Queues,      \* queue names
  Offers,      \* what queues are registered with: records of max_depth and weight
  Depths,      \* the depths reported
  ScoreUnit,   \* the number of steps of the pressure score
  WarnAt,      \* warn_threshold
  CriticalAt,  \* critical_threshold
  BaseRate,    \* base_rate, per tick
  MinRate,     \* base_rate * min_rate_fraction
  Capacity,    \* bucket_capacity
  Amounts,     \* the amounts that callers ask for
  MaxIdle,     \* bound: the clock stops when nobody has refilled for so long
  Throttles    \* the environments considered, see usage

\* The checks of both constructors, of register_queue() and of update_depth(); the
\* instances add that the unit fits.  The order of the two thresholds is checked by the
\* monitor's constructor only: that the throttle's own are ordered too is an assumption about
\* its callers.  Nothing checks the amounts that callers ask for;
\* what is said here is about callers who do not ask for negative ones.
ASSUME ThrottleAssumption ==
  /\ ScoreUnit \in Nat \ {0}
  /\ WarnAt \in Nat /\ CriticalAt \in Nat
  /\ WarnAt < CriticalAt /\ CriticalAt <= ScoreUnit
  /\ BaseRate \in Nat \ {0} /\ MinRate \in 1..BaseRate
  /\ Capacity \in Nat \ {0}
  /\ Offers \subseteq [max_depth: Nat, weight: Nat]
  /\ Depths \subseteq Nat
  /\ Amounts \subseteq Nat
  /\ IsFiniteSet(Queues)
  /\ MaxIdle \in Nat

VARIABLES
  queues,   \* BackpressureMonitor._queues
  tokens,   \* AdaptiveThrottle._tokens
  idle,     \* the time since _last_refill
  meter,    \* the _refill() in progress, which holds the throttle's lock
  request,  \* the amount that the acquire_async() of one task waits for, or 0
  expired,  \* whether its deadline has passed
  usage,    \* what callers do, chosen once for a behaviour
  fast,     \* a bucket refilled at BaseRate that pays for the same tokens
  slow      \* a bucket refilled at MinRate that pays for the same tokens

throttleVars == <<queues, tokens, idle, meter, request, expired, usage, fast, slow>>

\* fast and slow are history variables: no action's guard reads them.

\* Other threads and tasks take tokens too.
Rivals == "rivals" \in usage

\* acquire_async() is given a timeout.
Timed == "timed" \in usage

Least(a, b) == IF a <= b THEN a ELSE b

Most(a, b) == IF a >= b THEN a ELSE b

\* The throttle's lock is free.
NoRefill == [caller |-> "nobody", amount |-> 0, elapsed |-> 0, left |-> {},
             frozen |-> [q \in {} |-> 0], weight |-> 0, sum |-> 0]
-----------------------------------------------------------------------------
ThrottleInit ==
  /\ queues = [q \in {} |-> 0]
  /\ tokens = Capacity
  /\ idle = 0
  /\ meter = NoRefill
  /\ request = 0
  /\ expired = FALSE
  /\ usage \in Throttles
  /\ fast = Capacity
  /\ slow = Capacity

\* An entry that leaves the dictionary while the score is computed is read as it was.
Freeze(q) ==
  meter' = IF q \in meter.left /\ q \notin DOMAIN meter.frozen
             THEN [meter EXCEPT !.frozen =
                     [r \in DOMAIN meter.frozen \union {q} |->
                        IF r = q THEN queues[q] ELSE meter.frozen[r]]]
             ELSE meter

RegisterQueue(q, offer) ==
  /\ queues' = [r \in DOMAIN queues \union {q} |->
       IF r = q THEN [depth |-> 0, max_depth |-> offer.max_depth, weight |-> offer.weight]
                ELSE queues[r]]
  /\ Freeze(q)
  /\ UNCHANGED <<tokens, idle, request, expired, usage, fast, slow>>

DeregisterQueue(q) ==
  /\ queues' = [r \in DOMAIN queues \ {q} |-> queues[r]]
  /\ Freeze(q)
  /\ UNCHANGED <<tokens, idle, request, expired, usage, fast, slow>>

\* update_depth(); it raises for a queue that is not registered.
UpdateDepth(q, depth) ==
  /\ q \in DOMAIN queues
  /\ queues' = [queues EXCEPT ![q].depth = depth]
  /\ UNCHANGED <<tokens, idle, meter, request, expired, usage, fast, slow>>

\* update_depths(): unknown queues are skipped, negative depths count as 0.
UpdateDepths(depths) ==
  /\ queues' = [q \in DOMAIN queues |->
       IF q \in DOMAIN depths THEN [queues[q] EXCEPT !.depth = Most(0, depths[q])]
                              ELSE queues[q]]
  /\ UNCHANGED <<tokens, idle, meter, request, expired, usage, fast, slow>>

\* QueueMetrics.utilization, in units of the score.
Utilization(entry) ==
  IF entry.max_depth <= 0
    THEN 0
    ELSE Least(ScoreUnit, (ScoreUnit * entry.depth) \div entry.max_depth)

\* Mutant of ComputeRate: full pressure stops the refill.
ComputeRateStopping(score) ==
  IF score >= CriticalAt THEN 0 ELSE BaseRate

\* _compute_rate()
ComputeRate(score) ==
  IF score >= CriticalAt
    THEN MinRate
    ELSE IF score >= WarnAt
      THEN BaseRate - ((BaseRate - MinRate) * (score - WarnAt)) \div (CriticalAt - WarnAt)
      ELSE BaseRate
-----------------------------------------------------------------------------
\* time.monotonic() advances.
Tick ==
  /\ idle < MaxIdle
  /\ idle' = idle + 1
  /\ UNCHANGED <<queues, tokens, meter, request, expired, usage, fast, slow>>

\* The task calls acquire_async().
Ask(amount) ==
  /\ request = 0
  /\ request' = amount
  /\ UNCHANGED <<queues, tokens, idle, meter, expired, usage, fast, slow>>

\* The time that acquire_async() was given is over.
DeadlinePasses ==
  /\ Timed
  /\ request > 0
  /\ ~expired
  /\ expired' = TRUE
  /\ UNCHANGED <<queues, tokens, idle, meter, request, usage, fast, slow>>

\* total_weight
WeightOf(names) == SumFunction([q \in names |-> queues[q].weight])

\* The lock is taken, _refill() takes the time and pressure_score() the list of
\* entries and their total weight.
RefillBegin(caller, amount) ==
  /\ meter = NoRefill
  /\ meter' = [caller |-> caller, amount |-> amount, elapsed |-> idle,
               left |-> DOMAIN queues, frozen |-> [q \in {} |-> 0],
               weight |-> WeightOf(DOMAIN queues), sum |-> 0]
  /\ idle' = 0
  /\ UNCHANGED <<queues, tokens, request, expired, usage, fast, slow>>

\* try_acquire(), as acquire_async() calls it.
AcquireBegin == request > 0 /\ RefillBegin("task", request)

\* try_acquire() of another caller.
RivalBegin(amount) == Rivals /\ RefillBegin("rival", amount)

\* available_tokens() refills as well, and takes nothing.
AvailableBegin == RefillBegin("rival", 0)

\* pressure_score() reads the depth of the next entry.
ReadEntry ==
  /\ \E q \in meter.left :
       LET entry == IF q \in DOMAIN meter.frozen THEN meter.frozen[q] ELSE queues[q]
       IN  meter' = [meter EXCEPT !.left = @ \ {q},
                                  !.frozen = [r \in DOMAIN @ \ {q} |-> @[r]],
                                  !.sum = @ + Utilization(entry) * entry.weight]
  /\ UNCHANGED <<queues, tokens, idle, request, expired, usage, fast, slow>>

Score == IF meter.weight = 0 THEN 0 ELSE meter.sum \div meter.weight

\* Mutant of Refilled: the bucket overflows.
RefilledUncapped == tokens + meter.elapsed * ComputeRate(Score)

\* _refill()'s last assignment.
Refilled == Least(Capacity, tokens + meter.elapsed * ComputeRate(Score))

\* The bucket and the two it is compared with, after the refill and a payment.
Pay(paid) ==
  /\ tokens' = Refilled - paid
  /\ fast' = Least(Capacity, fast + meter.elapsed * BaseRate) - paid
  /\ slow' = Most(0, Least(Capacity, slow + meter.elapsed * MinRate) - paid)

\* try_acquire() ends, and with it a turn of acquire_async()'s loop: the task is
\* served, or gives up at its deadline, or sleeps and tries again.
RefillEnd ==
  LET served == Refilled >= meter.amount
      over == meter.caller = "task" /\ (served \/ expired)
  IN  /\ meter # NoRefill
      /\ meter.left = {}
      /\ meter' = NoRefill
      /\ Pay(IF served THEN meter.amount ELSE 0)
      /\ request' = IF over THEN 0 ELSE request
      /\ expired' = (expired /\ ~over)
      /\ UNCHANGED <<queues, idle, usage>>

ThrottleNext ==
  \/ Tick
  \/ \E q \in Queues :
       \/ \E offer \in Offers : RegisterQueue(q, offer)
       \/ DeregisterQueue(q)
       \/ \E depth \in Depths : UpdateDepth(q, depth)
  \/ \E depths \in [Queues -> Depths \union {-1}] : UpdateDepths(depths)
  \/ \E amount \in Amounts : Ask(amount) \/ RivalBegin(amount)
  \/ DeadlinePasses
  \/ AcquireBegin
  \/ AvailableBegin
  \/ ReadEntry
  \/ RefillEnd

ThrottleSpec == ThrottleInit /\ [][ThrottleNext]_throttleVars
-----------------------------------------------------------------------------
\* Whatever pressure is reported while a refill reads the depths one by one, the
\* bucket holds at most what one refilled at base_rate would and at least what one
\* refilled at the minimum rate would, with the same clock readings and payments:
\* grants stay within base_rate, and the floor of min_rate_fraction is kept.  The
\* bucket never overflows, and never owes tokens.
RateRespected ==
  /\ slow <= tokens /\ tokens <= fast
  /\ tokens \in 0..Capacity

\* A task that asks for no more than the bucket holds is served in the end, unless
\* rivals take the tokens, and a task with a deadline always gets an answer.
\* (Without a deadline a request beyond bucket_capacity waits for ever.)
TaskAnswered ==
  request > 0 /\ (Timed \/ (~Rivals /\ request <= Capacity)) ~> request = 0
=============================================================================
