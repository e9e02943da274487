--------------------------- MODULE MessageBroker ---------------------------
(***************************************************************************)
(* broker/message_broker.py, broker/queue.py and broker/dead_letter.py:    *)
(* the AsyncMessageBroker with its priority queue, its dispatch workers    *)
(* and its dead-letter queue.                                              *)
(*                                                                         *)
(* Everything runs on one event loop: an action is what a task does        *)
(* between two awaits that may suspend it.  asyncio.Lock is never held     *)
(* across such an await, so the sections it guards are single steps.       *)
(*                                                                         *)
(* An envelope is a message with a priority, a receiver, a topic and       *)
(* perhaps a TTL.  Wording, timestamps and the metric counters, which      *)
(* nothing tests, are left out.                                            *)
(***************************************************************************)
EXTENDS Integers, Sequences, FiniteSets, SequencesExt

CONSTANTS
  Messages, Agents, Topics,
  Workers,          \* ids for dispatch-worker tasks; an exited id may be used again
  Controllers,      \* tasks that call start() and stop()
  NoMessage, NoAgent, NoTopic,
  Everyone,         \* receiver "*"
  Prio,             \* Messages -> Nat, lower is more urgent
  Receiver,         \* Messages -> Agents \union {Everyone, NoAgent}
  Topic,            \* Messages -> Topics \union {NoTopic}
  HasTtl,           \* the messages with ttl_seconds set
  QueueMax,         \* queue_maxsize, 0 for unbounded
  DlqMax,           \* dlq_maxsize
  MaxAttempts,      \* max_delivery_attempts
  DispatchWorkers,  \* dispatch_workers
  Environments      \* the environments considered, see env

ASSUME BrokerAssumption ==
  /\ Prio \in [Messages -> Nat]
  /\ Receiver \in [Messages -> Agents \union {Everyone, NoAgent}]
  /\ Topic \in [Messages -> Topics \union {NoTopic}]
  /\ HasTtl \subseteq Messages
  /\ NoMessage \notin Messages /\ NoTopic \notin Topics
  /\ NoAgent \notin Agents /\ Everyone \notin Agents /\ Everyone # NoAgent
  /\ QueueMax \in Nat /\ DlqMax \in Nat \ {0} /\ MaxAttempts \in Nat \ {0}
  /\ DispatchWorkers \in Nat \ {0} /\ IsFiniteSet(Workers)
  /\ Environments \subseteq SUBSET {"cancel", "discard"}

VARIABLES
  running,     \* self._running
  tracked,     \* self._worker_tasks
  wk,          \* the worker tasks
  stopping,    \* how far each controller is in stop()
  gathered,    \* the tasks its gather() waits for
  handlers,    \* the keys of self._agent_handlers
  subs,        \* self._topic_subscribers
  queue,       \* the messages in the asyncio.PriorityQueue
  putting,     \* the messages whose put() waits for room
  seq,         \* each message's sequence number
  sequence,    \* self._sequence, the next one
  unfinished,  \* the queue's count of unfinished tasks, which join() awaits
  dlq,         \* the dead-letter queue's entries, oldest first
  expired,     \* the messages whose TTL has elapsed
  env,         \* the handlers' manners and a setting, chosen once for a behaviour
  \* History, read by no guard:
  resolved,    \* the targets a message was resolved to
  acked,       \* <<message, agent>>: the agent's handler returned
  dead,        \* <<message, agent>>: dead-lettered for the agent, or as a whole
  fate         \* how each message that left the queue for good ended

lifecycle == <<running, tracked, stopping, gathered>>
registry == <<handlers, subs>>
inbox == <<queue, putting, seq, sequence>>
history == <<resolved, acked, dead, fate>>
vars == <<lifecycle, wk, registry, inbox, unfinished, dlq, expired, env, history>>
-----------------------------------------------------------------------------
\* A handler may raise asyncio.CancelledError.
HandlerCancels == "cancel" \in env

\* discard_expired
DiscardExpired == "discard" \in env

Idle(pc) ==
  [pc |-> pc, msg |-> NoMessage, todo |-> {}, agent |-> NoAgent, attempt |-> 0]

\* "loop": created, has not run yet.  "waiting": in queue.get().  "got": get() has
\* returned a message to wait_for().  "handling": awaits a handler.  "backoff":
\* sleeps before a retry.
WorkerStates ==
  [pc: {"exited", "loop", "waiting", "got", "handling", "backoff"},
   msg: Messages \union {NoMessage}, todo: SUBSET Agents,
   agent: Agents \union {NoAgent}, attempt: 0..MaxAttempts]

Busy == {w \in Workers : wk[w].pc \in {"got", "handling", "backoff"}}
Live == {w \in Workers : wk[w].pc # "exited"}

Reasons ==
  {"ttl_expired_at_publish", "ttl_expired_at_dispatch", "no_subscriber",
   "handler_disappeared", "handler_error"}

Entry(m, a, reason, n) == [msg |-> m, agent |-> a, reason |-> reason, attempt_count |-> n]

Init ==
  /\ running = FALSE
  /\ tracked = {}
  /\ wk = [w \in Workers |-> Idle("exited")]
  /\ stopping = [k \in Controllers |-> "no"]
  /\ gathered = [k \in Controllers |-> {}]
  /\ handlers = {}
  /\ subs = [t \in Topics |-> {}]
  /\ queue = {}
  /\ putting = {}
  /\ seq = [m \in Messages |-> 0]
  /\ sequence = 0
  /\ unfinished = 0
  /\ dlq = <<>>
  /\ expired = {}
  /\ env \in Environments
  /\ resolved = [m \in Messages |-> {}]
  /\ acked = {}
  /\ dead = {}
  /\ fate = [m \in Messages |-> "unpublished"]
-----------------------------------------------------------------------------
(* The dead-letter queue *)

\* DeadLetterQueue.push, for each entry of es: a full queue evicts its oldest entry.
PushAll(q, es) ==
  LET all == q \o es
  IN  SubSeq(all, IF Len(all) > DlqMax THEN Len(all) - DlqMax + 1 ELSE 1, Len(all))

DeadLetter(es) ==
  /\ dlq' = PushAll(dlq, es)
  /\ dead' = dead \union {<<es[i].msg, es[i].agent>> : i \in DOMAIN es}

\* DeadLetterQueue.pop and clear.
DlqPop ==
  /\ dlq # <<>>
  /\ dlq' = Tail(dlq)
  /\ UNCHANGED <<lifecycle, wk, registry, inbox, unfinished, expired, history, env>>

DlqClear ==
  /\ dlq' = <<>>
  /\ UNCHANGED <<lifecycle, wk, registry, inbox, unfinished, expired, history, env>>
-----------------------------------------------------------------------------
(* Publishing *)

QueueFull == QueueMax # 0 /\ Cardinality(queue) >= QueueMax

\* A message's TTL elapses, at any time.
Expire(m) ==
  /\ m \in HasTtl \ expired
  /\ expired' = expired \union {m}
  /\ UNCHANGED <<lifecycle, wk, registry, inbox, unfinished, dlq, history, env>>

\* publish() and publish_nowait() of an expired envelope.
PublishExpired(m) ==
  /\ fate[m] = "unpublished"
  /\ m \in expired
  /\ DeadLetter(<<Entry(m, NoAgent, "ttl_expired_at_publish", 1)>>)
  /\ fate' = [fate EXCEPT ![m] = "settled"]
  /\ UNCHANGED <<lifecycle, wk, registry, inbox, unfinished, expired, resolved, acked, env>>

\* _make_item
MakeItem(m) ==
  /\ seq' = [seq EXCEPT ![m] = sequence]
  /\ sequence' = sequence + 1

\* PriorityMessageQueue.put or put_nowait finds room.
Publish(m) ==
  /\ fate[m] = "unpublished"
  /\ m \notin expired
  /\ ~QueueFull
  /\ MakeItem(m)
  /\ queue' = queue \union {m}
  /\ unfinished' = unfinished + 1
  /\ fate' = [fate EXCEPT ![m] = "accepted"]
  /\ UNCHANGED <<lifecycle, wk, registry, putting, dlq, expired, resolved, acked, dead, env>>

\* put() of a full queue waits for room, its sequence number already assigned.
PublishWaits(m) ==
  /\ fate[m] = "unpublished"
  /\ m \notin expired
  /\ QueueFull
  /\ MakeItem(m)
  /\ putting' = putting \union {m}
  /\ fate' = [fate EXCEPT ![m] = "accepted"]
  /\ UNCHANGED <<lifecycle, wk, registry, queue, unfinished, dlq, expired, resolved, acked,
                 dead, env>>

\* A waiting put() finds room.
PutResumes(m) ==
  /\ m \in putting
  /\ ~QueueFull
  /\ putting' = putting \ {m}
  /\ queue' = queue \union {m}
  /\ unfinished' = unfinished + 1
  /\ UNCHANGED <<lifecycle, wk, registry, seq, sequence, dlq, expired, history, env>>

\* publish_nowait() of a full queue raises QueueFullError.
PublishRejected(m) ==
  /\ fate[m] = "unpublished"
  /\ m \notin expired
  /\ QueueFull
  /\ MakeItem(m)
  /\ fate' = [fate EXCEPT ![m] = "rejected"]
  /\ UNCHANGED <<lifecycle, wk, registry, queue, putting, unfinished, dlq, expired, resolved,
                 acked, dead, env>>
-----------------------------------------------------------------------------
(* Subscriptions *)

Subscribe(a) ==
  /\ handlers' = handlers \union {a}
  /\ UNCHANGED <<lifecycle, wk, subs, inbox, unfinished, dlq, expired, history, env>>

Unsubscribe(a) ==
  /\ handlers' = handlers \ {a}
  /\ subs' = [t \in Topics |-> subs[t] \ {a}]
  /\ UNCHANGED <<lifecycle, wk, inbox, unfinished, dlq, expired, history, env>>

SubscribeTopic(a, t) ==
  /\ subs' = [subs EXCEPT ![t] = @ \union {a}]
  /\ UNCHANGED <<lifecycle, wk, handlers, inbox, unfinished, dlq, expired, history, env>>

UnsubscribeTopic(a, t) ==
  /\ subs' = [subs EXCEPT ![t] = @ \ {a}]
  /\ UNCHANGED <<lifecycle, wk, handlers, inbox, unfinished, dlq, expired, history, env>>

\* _resolve_targets
ResolveTargets(m) ==
  {a \in handlers :
     \/ Receiver[m] = Everyone
     \/ Receiver[m] = a
     \/ Topic[m] # NoTopic /\ a \in subs[Topic[m]]}
-----------------------------------------------------------------------------
(* Dispatch workers *)

\* The head of the priority queue.
Before(m, n) == Prio[m] < Prio[n] \/ (Prio[m] = Prio[n] /\ seq[m] <= seq[n])
IsHead(m) == m \in queue /\ \A n \in queue : Before(m, n)

\* Mutant of Pop: the head is read and not removed.
PopPeeking(m) == UNCHANGED queue

\* The head leaves the queue.
Pop(m) == queue' = queue \ {m}

\* Mutant of TaskDone: it is called twice for a message.
TaskDoneTwice == unfinished' = unfinished - 2

\* task_done()
TaskDone == unfinished' = unfinished - 1

\* The loop test, reached without an await from the end of the previous round.
Resume == Idle(IF running THEN "waiting" ELSE "exited")

\* Mutant of LoopTest: a timeout ends the worker ("break" for "continue").
LoopTestBreaking(w) ==
  /\ wk[w].pc \in {"loop", "waiting"}
  /\ wk' = [wk EXCEPT ![w] = IF wk[w].pc = "waiting" THEN Idle("exited") ELSE Resume]
  /\ UNCHANGED <<lifecycle, registry, inbox, unfinished, dlq, expired, history, env>>

\* A worker task runs for the first time, or its 0.1 s wait for a message is over.
LoopTest(w) ==
  /\ wk[w].pc \in {"loop", "waiting"}
  /\ wk' = [wk EXCEPT ![w] = Resume]
  /\ UNCHANGED <<lifecycle, registry, inbox, unfinished, dlq, expired, history, env>>

\* PriorityMessageQueue.get: the head is an expired message, which is dropped.
DiscardHead(w, m) ==
  /\ wk[w].pc = "waiting"
  /\ IsHead(m)
  /\ DiscardExpired /\ m \in expired
  /\ Pop(m)
  /\ TaskDone
  /\ fate' = [fate EXCEPT ![m] = "discarded"]
  /\ UNCHANGED <<lifecycle, wk, registry, putting, seq, sequence, dlq, expired, resolved,
                 acked, dead, env>>

\* PriorityMessageQueue.get returns the head.
Receive(w, m) ==
  /\ wk[w].pc = "waiting"
  /\ IsHead(m)
  /\ ~(DiscardExpired /\ m \in expired)
  /\ Pop(m)
  /\ wk' = [wk EXCEPT ![w] = [Idle("got") EXCEPT !.msg = m]]
  /\ UNCHANGED <<lifecycle, registry, putting, seq, sequence, unfinished, dlq, expired, history,
                 env>>

\* The end of _dispatch, task_done() and the loop test.
Finish(w) ==
  /\ wk' = [wk EXCEPT ![w] = Resume]
  /\ TaskDone
  /\ fate' = [fate EXCEPT ![wk[w].msg] = "settled"]

\* _dispatch of a message that ends in the dead-letter queue as a whole.
DispatchToDlq(w) ==
  LET m == wk[w].msg
      reason == IF m \in expired THEN "ttl_expired_at_dispatch" ELSE "no_subscriber"
  IN  /\ wk[w].pc = "got"
      /\ m \in expired \/ ResolveTargets(m) = {}
      /\ DeadLetter(<<Entry(m, NoAgent, reason, 1)>>)
      /\ Finish(w)
      /\ UNCHANGED <<lifecycle, registry, inbox, expired, resolved, acked, env>>

Call(w, a, rest, n) ==
  wk' = [wk EXCEPT ![w] = [pc |-> "handling", msg |-> wk[w].msg, todo |-> rest,
                           agent |-> a, attempt |-> n]]

\* Mutant of OtherTargets: the fan-out ends after the first target.
OtherTargetsNone(m, a) == {}

\* The targets that follow a.
OtherTargets(m, a) == ResolveTargets(m) \ {a}

\* _dispatch of a message with targets, up to the first handler's first await.
Dispatch(w, a) ==
  LET m == wk[w].msg
  IN  /\ wk[w].pc = "got"
      /\ m \notin expired
      /\ a \in ResolveTargets(m)
      /\ resolved' = [resolved EXCEPT ![m] = ResolveTargets(m)]
      /\ Call(w, a, OtherTargets(m, a), 1)
      /\ UNCHANGED <<lifecycle, registry, inbox, unfinished, dlq, expired, acked, dead, fate, env>>

\* The rest of the "for agent_id in targets" loop, up to the next await: targets whose
\* handler has disappeared are dead-lettered as they are met, in an order the set
\* iteration decides, until a handler is called or no target is left.  es are
\* the entries that the target just finished adds.
NextTarget(w, es) ==
  LET m == wk[w].msg
      gone == wk[w].todo \ handlers
      here == wk[w].todo \intersect handlers
      Vanished(s) == [i \in DOMAIN s |-> Entry(m, s[i], "handler_disappeared", 1)]
  IN  \/ /\ here = {}
         /\ \E s \in SetToSeqs(gone) : DeadLetter(es \o Vanished(s))
         /\ Finish(w)
      \/ \E a \in here, met \in SUBSET gone :
           /\ \E s \in SetToSeqs(met) : DeadLetter(es \o Vanished(s))
           /\ Call(w, a, wk[w].todo \ (met \union {a}), 1)
           /\ UNCHANGED <<unfinished, fate>>

\* The handler returns.
HandlerReturns(w) ==
  /\ wk[w].pc = "handling"
  /\ acked' = acked \union {<<wk[w].msg, wk[w].agent>>}
  /\ NextTarget(w, <<>>)
  /\ UNCHANGED <<lifecycle, registry, inbox, expired, resolved, env>>

\* The handler raises an Exception and an attempt is left.
HandlerFails(w) ==
  /\ wk[w].pc = "handling"
  /\ wk[w].attempt < MaxAttempts
  /\ wk' = [wk EXCEPT ![w].pc = "backoff"]
  /\ UNCHANGED <<lifecycle, registry, inbox, unfinished, dlq, expired, history, env>>

\* The handler raises an Exception on the last attempt.
HandlerExhausts(w) ==
  /\ wk[w].pc = "handling"
  /\ wk[w].attempt >= MaxAttempts
  /\ NextTarget(w, <<Entry(wk[w].msg, wk[w].agent, "handler_error", wk[w].attempt)>>)
  /\ UNCHANGED <<lifecycle, registry, inbox, expired, resolved, acked, env>>

NextAttempt(n) == n + 1

\* The back-off is over: _deliver_to(attempt + 1) looks the handler up again.
Retry(w) ==
  /\ wk[w].pc = "backoff"
  /\ wk[w].agent \in handlers
  /\ Call(w, wk[w].agent, wk[w].todo, NextAttempt(wk[w].attempt))
  /\ UNCHANGED <<lifecycle, registry, inbox, unfinished, dlq, expired, history, env>>

RetryVanished(w) ==
  /\ wk[w].pc = "backoff"
  /\ wk[w].agent \notin handlers
  /\ NextTarget(w, <<Entry(wk[w].msg, wk[w].agent, "handler_disappeared",
                         NextAttempt(wk[w].attempt))>>)
  /\ UNCHANGED <<lifecycle, registry, inbox, expired, resolved, acked, env>>

\* What CancelledError does to the messages of the workers it is raised in: nothing is
\* recorded and task_done() is not called.
Abandon(ws) ==
  LET left == {wk[w].msg : w \in ws \intersect Busy}
  IN  fate' = [m \in Messages |-> IF m \in left THEN "lost" ELSE fate[m]]

\* A handler raises CancelledError: "except asyncio.CancelledError: break".
HandlerCancelled(w) ==
  /\ HandlerCancels
  /\ wk[w].pc = "handling"
  /\ wk' = [wk EXCEPT ![w] = Idle("exited")]
  /\ Abandon({w})
  /\ UNCHANGED <<lifecycle, registry, inbox, unfinished, dlq, expired, resolved, acked, dead, env>>
-----------------------------------------------------------------------------
(* start() and stop() *)

\* How many tasks start() creates.
TaskCount == DispatchWorkers

\* start(): a second start() is ignored while the broker runs.
Start(k) ==
  /\ stopping[k] = "no"
  /\ ~running
  /\ \E new \in SUBSET (Workers \ Live) :
       /\ Cardinality(new) = TaskCount
       /\ tracked' = new
       /\ wk' = [w \in Workers |-> IF w \in new THEN Idle("loop") ELSE wk[w]]
  /\ running' = TRUE
  /\ UNCHANGED <<stopping, gathered, registry, inbox, unfinished, dlq, expired, history, env>>

\* stop(), up to the wait for join().
Stop(k) ==
  /\ stopping[k] = "no"
  /\ running
  /\ running' = FALSE
  /\ stopping' = [stopping EXCEPT ![k] = "joining"]
  /\ UNCHANGED <<tracked, wk, gathered, registry, inbox, unfinished, dlq, expired, history, env>>

\* The tasks that CancelledError reaches: a wait_for() whose get() is done returns the
\* message instead of raising.
Cancellable == {w \in tracked : wk[w].pc # "got"}

\* Mutant of ToGather: stop() does not wait for the tasks it has cancelled.
ToGatherNone == {}

\* The tasks that gather() waits for.
ToGather == tracked

\* stop(): join() has returned, which needs unfinished = 0, or its 5 s are over, at any
\* time.  The tracked tasks are cancelled and gathered.
StopJoined(k) ==
  /\ stopping[k] = "joining"
  /\ wk' = [w \in Workers |-> IF w \in Cancellable THEN Idle("exited") ELSE wk[w]]
  /\ Abandon(Cancellable)
  /\ gathered' = [gathered EXCEPT ![k] = ToGather]
  /\ stopping' = [stopping EXCEPT ![k] = "gathering"]
  /\ UNCHANGED <<running, tracked, registry, inbox, unfinished, dlq, expired, resolved,
                 acked, dead, env>>

\* stop(): gather() has returned; clear() empties the list of the moment.
StopGathered(k) ==
  /\ stopping[k] = "gathering"
  /\ gathered[k] \intersect Live = {}
  /\ tracked' = {}
  /\ gathered' = [gathered EXCEPT ![k] = {}]
  /\ stopping' = [stopping EXCEPT ![k] = "no"]
  /\ UNCHANGED <<running, wk, registry, inbox, unfinished, dlq, expired, history, env>>

Worker(w) ==
  \/ LoopTest(w) \/ DispatchToDlq(w)
  \/ HandlerReturns(w) \/ HandlerFails(w) \/ HandlerExhausts(w)
  \/ Retry(w) \/ RetryVanished(w)
  \/ \E m \in Messages : DiscardHead(w, m) \/ Receive(w, m)
  \/ \E a \in Agents : Dispatch(w, a)

Next ==
  \/ \E w \in Workers : Worker(w) \/ HandlerCancelled(w)
  \/ \E m \in Messages :
       \/ Expire(m) \/ PublishExpired(m) \/ Publish(m)
       \/ PublishWaits(m) \/ PutResumes(m) \/ PublishRejected(m)
  \/ \E a \in Agents : Subscribe(a) \/ Unsubscribe(a)
  \/ \E a \in Agents, t \in Topics : SubscribeTopic(a, t) \/ UnsubscribeTopic(a, t)
  \/ \E k \in Controllers : Start(k) \/ Stop(k) \/ StopJoined(k) \/ StopGathered(k)
  \/ DlqPop
  \/ DlqClear

Spec == Init /\ [][Next]_vars

\* The event loop runs every task that can run, handlers end, and a put() that can go
\* on does.  Nobody has to publish, subscribe, start or stop.
Fairness ==
  /\ \A w \in Workers : WF_vars(Worker(w))
  /\ \A m \in Messages : WF_vars(PutResumes(m))

FairSpec == Spec /\ Fairness
-----------------------------------------------------------------------------
\* join() counts right: a message is unfinished exactly while it is queued, held by a
\* worker, or was abandoned by a cancelled worker.  So join() returns only when
\* nothing is queued or in progress, and one abandoned message makes every later
\* stop() wait its full timeout.
UnfinishedCounted ==
  unfinished = Cardinality(queue) + Cardinality(Busy)
                 + Cardinality({m \in Messages : fate[m] = "lost"})

\* No message is duplicated or forgotten: one that was accepted and has not ended is
\* in exactly one place, the queue, a waiting put() or one worker, and a message
\* that has ended is in none.
InOnePlace ==
  \A m \in Messages :
    LET holders == {w \in Busy : wk[w].msg = m}
        places == (IF m \in queue THEN 1 ELSE 0) + (IF m \in putting THEN 1 ELSE 0)
                    + Cardinality(holders)
    IN  places = IF fate[m] = "accepted" THEN 1 ELSE 0

\* Every target gets its answer: when the dispatch of a message has ended, each agent
\* it was resolved to has either acknowledged it or a dead-letter entry, never both,
\* whatever was retried or unsubscribed meanwhile; a message without targets was
\* dead-lettered as a whole.
EveryTargetAnswered ==
  \A m \in Messages : fate[m] = "settled" =>
    LET yes == {a \in Agents : <<m, a>> \in acked}
        no == {a \in Agents \union {NoAgent} : <<m, a>> \in dead}
    IN  /\ yes \intersect no = {}
        /\ yes \union no = IF resolved[m] = {} THEN {NoAgent} ELSE resolved[m]

\* When stop() has returned and nothing was started since, no worker is left.
StopQuiesces ==
  ~running /\ (\A k \in Controllers : stopping[k] = "no") => Live = {}

\* While the broker runs, a message in its queue or in the hands of a worker is eventually
\* settled (or discarded, if it has expired): neither an idle timeout, nor retries, nor
\* targets that come and go keep it from its end.
EventuallySettled ==
  \A m \in Messages :
    (running /\ ~HandlerCancels /\ (m \in queue \/ \E w \in Busy : wk[w].msg = m))
      ~> (~running \/ fate[m] \in {"settled", "discarded"})

\* "expired envelopes are dead-lettered rather than dispatched" (module docstring): no
\* accepted message is dropped without an entry.
ExpiredAreDeadLettered == \A m \in Messages : fate[m] # "discarded"
=============================================================================
