------------------------- MODULE BackpressureQueue -------------------------
(***************************************************************************)
(* backpressure/task_queue.py, with the part of backpressure/monitor.py    *)
(* it reports to.  Several threads call enqueue(), dequeue() and drain().  *)
(* The tasks live in a queue.Queue that has a mutex of its own; the        *)
(* counters and the pressure flag are guarded by self._lock.  A call       *)
(* changes the queue first, WITHOUT the lock, and does its bookkeeping     *)
(* later under it; the bookkeeping samples qsize() and then acts on the    *)
(* sample while other threads go on putting and getting.                   *)
(*                                                                         *)
(* Tasks are opaque, so the queue.Queue is its size.  The marks are the    *)
(* watermarks in tasks: the least sizes whose fill ratio reaches           *)
(* high_watermark and low_watermark.                                       *)
(***************************************************************************)
EXTENDS Integers, FiniteSets, FiniteSetsExt

CONSTANTS
  Threads,       \* threads that use the queue
  NoThread,      \* nobody holds self._lock
  MaxSize,       \* max_size
  HighMark,      \* least size with size / max_size >= high_watermark
  LowMark,       \* least size with size / max_size >= low_watermark
  Environments,  \* the environments considered, see env
  MaxEnqueues,   \* bound: no put() starts once this many are booked
  MaxDrops       \* bound: no put() fails once this many failures are booked

\* __init__ accepts 0 < high_watermark <= 1 and 0 <= low_watermark < high_watermark.
ASSUME MarksAssumption ==
  /\ MaxSize \in Nat \ {0}
  /\ HighMark \in 1..MaxSize
  /\ LowMark \in 0..HighMark

ASSUME ThreadsAssumption ==
  /\ IsFiniteSet(Threads)
  /\ NoThread \notin Threads
  /\ Environments \subseteq SUBSET {"drain", "churn"}
  /\ MaxEnqueues \in Nat
  /\ MaxDrops \in Nat

VARIABLES
  size,            \* self._q.qsize()
  enqueued_total,
  dequeued_total,
  dropped_total,
  under_pressure,
  registered,      \* the monitor has an entry for this queue
  depth,           \* the entry's current_depth
  pc,              \* how far each thread is in its call
  taken,           \* how many tasks each thread's drain() has collected
  holder,          \* the thread that holds self._lock between sampling and acting
  sample,          \* its current_size
  lost,            \* history: tasks removed by a call that raised instead of returning
  env              \* what users of this queue do, chosen once for a behaviour

counters == <<enqueued_total, dequeued_total, dropped_total>>
monitor == <<registered, depth>>
vars == <<size, counters, under_pressure, monitor, pc, taken, holder, sample, lost, env>>
-----------------------------------------------------------------------------
\* "put": the task is in the queue, the bookkeeping is still to do.  "full": put()
\* raised Full, the drop is still to be counted.  "got": a task was removed, the
\* bookkeeping is still to do.  "draining", "drained": drain() before and after
\* get_nowait() raised Empty.
PCs == {"idle", "put", "full", "got", "draining", "drained"}

\* The threads call drain() too.
Draining == "drain" \in env

\* The monitor's owner deregisters and re-registers the queue.
MonitorChurn == "churn" \in env

\* Threads whose put() or get() no bookkeeping has sampled yet.
PutUnsampled == {t \in Threads : pc[t] = "put" /\ holder # t}
GotUnsampled == {t \in Threads : pc[t] = "got" /\ holder # t}

\* Threads inside drain().
DrainUnbooked == {t \in Threads : pc[t] \in {"draining", "drained"}}

Init ==
  /\ size = 0
  /\ enqueued_total = 0 /\ dequeued_total = 0 /\ dropped_total = 0
  /\ under_pressure = FALSE
  /\ registered = TRUE
  /\ depth = 0
  /\ pc = [t \in Threads |-> "idle"]
  /\ taken = [t \in Threads |-> 0]
  /\ holder = NoThread
  /\ sample = 0
  /\ lost = 0
  /\ env \in Environments
-----------------------------------------------------------------------------
\* The bound that __init__ gives the queue.Queue.
HasRoom == size < MaxSize

\* enqueue(): self._q.put() finds room.
Put(t) ==
  /\ pc[t] = "idle"
  /\ enqueued_total < MaxEnqueues
  /\ HasRoom
  /\ size' = size + 1
  /\ pc' = [pc EXCEPT ![t] = "put"]
  /\ UNCHANGED <<counters, under_pressure, monitor, taken, holder, sample, lost, env>>

\* enqueue(): self._q.put() raises Full, at once or when its timeout expires.
PutFull(t) ==
  /\ pc[t] = "idle"
  /\ dropped_total < MaxDrops
  /\ ~HasRoom
  /\ pc' = [pc EXCEPT ![t] = "full"]
  /\ UNCHANGED <<size, counters, under_pressure, monitor, taken, holder, sample, lost, env>>

\* enqueue(): the handler of Full counts the drop and raises QueueFullError.
CountDrop(t) ==
  /\ pc[t] = "full"
  /\ holder = NoThread
  /\ dropped_total' = dropped_total + 1
  /\ pc' = [pc EXCEPT ![t] = "idle"]
  /\ UNCHANGED <<size, enqueued_total, dequeued_total, under_pressure, monitor, taken,
                 holder, sample, lost, env>>

\* dequeue(): self._q.get() finds a task.  (Empty raises and changes nothing.)
Get(t) ==
  /\ pc[t] = "idle"
  /\ size > 0
  /\ size' = size - 1
  /\ pc' = [pc EXCEPT ![t] = "got"]
  /\ UNCHANGED <<counters, under_pressure, monitor, taken, holder, sample, lost, env>>

\* current_size = self._q.qsize()
ReadSize == size

\* enqueue(): the lock is taken, the task counted and qsize() read.
SampleEnqueue(t) ==
  /\ pc[t] = "put"
  /\ holder = NoThread
  /\ holder' = t
  /\ enqueued_total' = enqueued_total + 1
  /\ sample' = ReadSize
  /\ UNCHANGED <<size, dequeued_total, dropped_total, under_pressure, monitor, pc, taken,
                 lost, env>>

\* update_depth(): without an entry it raises KeyError and stores nothing.
UpdateDepth(d) ==
  /\ depth' = IF registered THEN d ELSE depth
  /\ UNCHANGED registered

\* Mutant of ReachesHigh: the mark must be exceeded.
ReachesHighStrictly(n) == n > HighMark

\* fill >= self._high_watermark
ReachesHigh(n) == n >= HighMark

\* enqueue(): the rest of the locked block, acting on the sample.  A KeyError of
\* update_depth leaves the task in the queue and the block's effects in place.
ActEnqueue(t) ==
  /\ pc[t] = "put"
  /\ holder = t
  /\ under_pressure' = (under_pressure \/ ReachesHigh(sample))
  /\ UpdateDepth(sample)
  /\ holder' = NoThread
  /\ pc' = [pc EXCEPT ![t] = "idle"]
  /\ UNCHANGED <<size, counters, taken, sample, lost, env>>

\* dequeue(): the lock is taken, the task counted and qsize() read.
SampleDequeue(t) ==
  /\ pc[t] = "got"
  /\ holder = NoThread
  /\ holder' = t
  /\ dequeued_total' = dequeued_total + 1
  /\ sample' = ReadSize
  /\ UNCHANGED <<size, enqueued_total, dropped_total, under_pressure, monitor, pc, taken,
                 lost, env>>

\* Mutant of BelowLow: pressure is relieved one task too late.
BelowLowLate(n) == n + 1 < LowMark

\* fill < self._low_watermark
BelowLow(n) == n < LowMark

\* dequeue(): the rest of the locked block and the return.  A KeyError of
\* update_depth takes the place of "return task".
ActDequeue(t) ==
  /\ pc[t] = "got"
  /\ holder = t
  /\ under_pressure' = (under_pressure /\ ~BelowLow(sample))
  /\ UpdateDepth(sample)
  /\ lost' = IF registered THEN lost ELSE lost + 1
  /\ holder' = NoThread
  /\ pc' = [pc EXCEPT ![t] = "idle"]
  /\ UNCHANGED <<size, counters, taken, sample, env>>

\* drain() is called.
BeginDrain(t) ==
  /\ Draining
  /\ pc[t] = "idle"
  /\ pc' = [pc EXCEPT ![t] = "draining"]
  /\ UNCHANGED <<size, counters, under_pressure, monitor, taken, holder, sample, lost, env>>

\* drain(): get_nowait() returns a task.
DrainOne(t) ==
  /\ pc[t] = "draining"
  /\ size > 0
  /\ size' = size - 1
  /\ taken' = [taken EXCEPT ![t] = @ + 1]
  /\ UNCHANGED <<counters, under_pressure, monitor, pc, holder, sample, lost, env>>

\* drain(): get_nowait() raises Empty.
DrainEmpty(t) ==
  /\ pc[t] = "draining"
  /\ size = 0
  /\ pc' = [pc EXCEPT ![t] = "drained"]
  /\ UNCHANGED <<size, counters, under_pressure, monitor, taken, holder, sample, lost, env>>

\* Mutant of DrainCount: a drain is counted as one dequeue.
DrainCountAsOne(t) == IF taken[t] = 0 THEN 0 ELSE 1

\* len(tasks)
DrainCount(t) == taken[t]

\* drain(): the locked block, which reports a depth of 0 without reading qsize()
\* again, and the return.  A KeyError of update_depth comes before the flag is
\* cleared and takes the place of "return tasks".
BookDrain(t) ==
  /\ pc[t] = "drained"
  /\ holder = NoThread
  /\ dequeued_total' = dequeued_total + DrainCount(t)
  /\ UpdateDepth(0)
  /\ under_pressure' = (under_pressure /\ ~registered)
  /\ lost' = IF registered THEN lost ELSE lost + taken[t]
  /\ taken' = [taken EXCEPT ![t] = 0]
  /\ pc' = [pc EXCEPT ![t] = "idle"]
  /\ UNCHANGED <<size, enqueued_total, dropped_total, holder, sample, env>>

\* BackpressureMonitor.deregister_queue(), called by the monitor's owner.
DeregisterQueue ==
  /\ MonitorChurn
  /\ registered' = FALSE
  /\ UNCHANGED <<size, counters, under_pressure, depth, pc, taken, holder, sample, lost, env>>

\* BackpressureMonitor.register_queue(): a fresh entry, of depth 0.
RegisterQueue ==
  /\ MonitorChurn
  /\ registered' = TRUE
  /\ depth' = 0
  /\ UNCHANGED <<size, counters, under_pressure, pc, taken, holder, sample, lost, env>>

Enqueue(t) == Put(t) \/ PutFull(t) \/ CountDrop(t) \/ SampleEnqueue(t) \/ ActEnqueue(t)
Dequeue(t) == Get(t) \/ SampleDequeue(t) \/ ActDequeue(t)
Drain(t) == BeginDrain(t) \/ DrainOne(t) \/ DrainEmpty(t) \/ BookDrain(t)

Next ==
  \/ \E t \in Threads : Enqueue(t) \/ Dequeue(t) \/ Drain(t)
  \/ DeregisterQueue
  \/ RegisterQueue

Spec == Init /\ [][Next]_vars

\* A thread that has changed the queue goes on to its bookkeeping.  Nothing makes a
\* thread call enqueue() or dequeue().
Fairness ==
  \A t \in Threads :
    /\ WF_vars(SampleEnqueue(t)) /\ WF_vars(ActEnqueue(t))
    /\ WF_vars(SampleDequeue(t)) /\ WF_vars(ActDequeue(t))

FairSpec == Spec /\ Fairness
-----------------------------------------------------------------------------
\* The state stays in its types; the lock is held only across a bookkeeping.
TypeOK ==
  /\ size \in 0..MaxSize
  /\ enqueued_total \in Nat /\ dequeued_total \in Nat /\ dropped_total \in Nat
  /\ under_pressure \in BOOLEAN
  /\ registered \in BOOLEAN
  /\ depth \in 0..MaxSize
  /\ pc \in [Threads -> PCs]
  /\ taken \in [Threads -> Nat]
  /\ holder \in Threads \union {NoThread}
  /\ holder # NoThread => pc[holder] \in {"put", "got"}
  /\ sample \in 0..MaxSize
  /\ lost \in Nat
  /\ env \in Environments

\* No task is duplicated or forgotten by the counters: what was put equals what was
\* removed plus what is queued, once the calls that still have to do their
\* bookkeeping are counted.  (Between calls, stats() therefore reports
\* enqueued_total - dequeued_total = size.)  And a task that a call removes is
\* returned by it, as long as the monitor knows the queue.
TasksConserved ==
  /\ enqueued_total + Cardinality(PutUnsampled)
       = dequeued_total + Cardinality(GotUnsampled)
           + MapThenSumSet(LAMBDA t : taken[t], Threads) + size
  /\ ~MonitorChurn => lost = 0

\* While a thread acts on a sample the queue may have grown or shrunk, but whoever
\* changed it has its own bookkeeping still to come and will see the newer size.
SampleFresh ==
  holder # NoThread =>
    /\ sample < size => PutUnsampled # {}
    /\ sample > size => GotUnsampled # {} \/ DrainUnbooked # {}

\* A queue at or above its high watermark is under pressure, unless an enqueue that
\* will say so has not finished its bookkeeping: acting on a stale sample, or
\* clearing the flag late, never leaves a full queue unreported.  (drain() clears the
\* flag unseen, so it is left out.)
PressureRaised ==
  ~Draining /\ size >= HighMark /\ ~under_pressure =>
    \/ PutUnsampled # {}
    \/ holder # NoThread /\ pc[holder] = "put" /\ sample >= HighMark

\* A queue below its low watermark is not under pressure, unless a dequeue or a drain
\* that will clear the flag has not finished its bookkeeping.  (A drain() that meets
\* a monitor without an entry fails before it clears the flag.)
PressureRelieved ==
  ~MonitorChurn /\ size < LowMark /\ under_pressure =>
    \/ GotUnsampled # {} \/ DrainUnbooked # {}
    \/ holder # NoThread /\ pc[holder] = "got" /\ sample < LowMark

\* The pressure flag is right on both sides of the watermarks.
PressureRight == PressureRaised /\ PressureRelieved

\* "reports its depth to a BackpressureMonitor instance after every enqueue / dequeue so
\* the monitor's pressure score stays fresh" (module docstring): the monitor's depth
\* is the queue's size, unless some call has not finished its bookkeeping.
DepthReported ==
  ~MonitorChurn /\ depth # size =>
    \/ PutUnsampled # {} \/ GotUnsampled # {} \/ DrainUnbooked # {}
    \/ holder # NoThread /\ sample = size

\* enqueue() and dequeue() keep that promise, stale samples notwithstanding; drain(),
\* which reports a depth it has not read, does not.
DepthFresh == ~Draining => DepthReported

\* The pressure flag settles: a queue that stays high is eventually reported, a queue
\* that stays low is eventually relieved.
PressureSettles ==
  /\ ~Draining /\ size >= HighMark ~> under_pressure \/ size < HighMark
  /\ ~Draining /\ size < LowMark ~> ~under_pressure \/ size >= LowMark
=============================================================================
