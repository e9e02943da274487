------------------------ MODULE MessageBrokerProofs ------------------------
(***************************************************************************)
(* Proofs about MessageBroker, for every set of messages, agents, topics   *)
(* and workers and every limit of the queues: no accepted message is       *)
(* duplicated or forgotten, join() counts right, every target of a message *)
(* gets one answer, and stop() leaves no worker behind.                    *)
(***************************************************************************)
EXTENDS MessageBroker, FiniteSetTheorems, TLAPS

\* What may become of a message.
Fates == {"unpublished", "accepted", "rejected", "settled", "discarded", "lost"}

\* The entries of the dead-letter queue.
Entries == [msg: Messages, agent: Agents \union {NoAgent}, reason: Reasons, attempt_count: Nat]

\* What a worker task holds at each point of its loop.
HeldBy(k) ==
  /\ k \in WorkerStates
  /\ k.pc \in {"got", "handling", "backoff"} <=> k.msg # NoMessage
  /\ k.pc \in {"handling", "backoff"} => k.agent \in Agents \ k.todo
  /\ k.pc = "backoff" => k.attempt < MaxAttempts
  /\ IsFiniteSet(k.todo)

\* The state stays in its types; the dead-letter queue keeps to its limit, and what is
\* registered, queued and still to be called is finite.
BrokerTypeOK ==
  /\ running \in BOOLEAN
  /\ tracked \in SUBSET Workers
  /\ wk \in [Workers -> WorkerStates]
  /\ \A w \in Workers : HeldBy(wk[w])
  /\ stopping \in [Controllers -> {"no", "joining", "gathering"}]
  /\ gathered \in [Controllers -> SUBSET Workers]
  /\ handlers \in SUBSET Agents /\ IsFiniteSet(handlers)
  /\ subs \in [Topics -> SUBSET Agents]
  /\ queue \in SUBSET Messages /\ IsFiniteSet(queue)
  /\ putting \in SUBSET Messages
  /\ seq \in [Messages -> Nat] /\ sequence \in Nat
  /\ dlq \in Seq(Entries) /\ Len(dlq) <= DlqMax
  /\ expired \in SUBSET Messages
  /\ resolved \in [Messages -> SUBSET Agents]
  /\ fate \in [Messages -> Fates]
-----------------------------------------------------------------------------
(* The dead-letter queue *)

\* A permutation of a finite set is a sequence that meets every element of it.
LEMMA PermutationMeetsAll ==
  ASSUME NEW S, IsFiniteSet(S), NEW s \in SetToSeqs(S)
  PROVE  /\ s \in Seq(S)
         /\ {s[i] : i \in DOMAIN s} = S
<1> DEFINE n == Cardinality(S)
<1>1. n \in Nat /\ IsFiniteSet(1..n) /\ Cardinality(1..n) = n
  <2>1. n \in Nat
    BY FS_CardinalityType
  <2>2. IsFiniteSet(1..n) /\ Cardinality(1..n) = IF 1 > n THEN 0 ELSE n - 1 + 1
    BY <2>1, FS_Interval
  <2> QED
    BY <2>1, <2>2
<1>2. s \in [1..n -> S] /\ \A i, j \in 1..n : i # j => s[i] # s[j]
  BY DEF SetToSeqs
<1>3. s \in Injection(1..n, S)
  BY <1>2 DEF Injection, IsInjective
<1>4. s \in Surjection(1..n, S)
  BY <1>1, <1>3, FS_Injection
<1> QED
  BY <1>1, <1>2, <1>4 DEF Surjection

\* push() keeps to dlq_maxsize.
LEMMA PushAllBounded ==
  ASSUME NEW q \in Seq(Entries), NEW es \in Seq(Entries)
  PROVE  PushAll(q, es) \in Seq(Entries) /\ Len(PushAll(q, es)) <= DlqMax
<1> DEFINE all == q \o es
           first == IF Len(all) > DlqMax THEN Len(all) - DlqMax + 1 ELSE 1
<1>1. all \in Seq(Entries) /\ Len(all) \in Nat
  OBVIOUS
<1>2. DlqMax \in Nat \ {0}
  BY BrokerAssumption
<1>3. first \in Nat /\ first >= 1 /\ Len(all) - first + 1 <= DlqMax
  BY <1>1, <1>2
<1>4. PushAll(q, es) = SubSeq(all, first, Len(all))
  BY DEF PushAll
<1> HIDE DEF all, first
<1>5. SubSeq(all, first, Len(all)) \in Seq(Entries)
  BY <1>1, <1>3
<1>6. Len(SubSeq(all, first, Len(all))) = IF first <= Len(all) THEN Len(all) - first + 1 ELSE 0
  BY <1>1, <1>3
<1> QED
  BY <1>1, <1>2, <1>3, <1>4, <1>5, <1>6

\* What dead-lettering the entries es and then the targets in S, in any order, records.
LEMMA DeadLetters ==
  ASSUME BrokerTypeOK, NEW m \in Messages, NEW es \in Seq(Entries), NEW S \in SUBSET Agents,
         IsFiniteSet(S), NEW s \in SetToSeqs(S),
         DeadLetter(es \o [i \in DOMAIN s |-> Entry(m, s[i], "handler_disappeared", 1)])
  PROVE  /\ dlq' \in Seq(Entries) /\ Len(dlq') <= DlqMax
         /\ dead' = dead \union {<<es[i].msg, es[i].agent>> : i \in DOMAIN es}
                         \union {<<m, a>> : a \in S}
<1> DEFINE gone == [i \in DOMAIN s |-> Entry(m, s[i], "handler_disappeared", 1)]
           all == es \o gone
<1>1. s \in Seq(S) /\ {s[i] : i \in DOMAIN s} = S
  BY PermutationMeetsAll
<1>2. DOMAIN s = 1..Len(s) /\ Len(s) \in Nat
  BY <1>1
<1>3. \A i \in DOMAIN s : /\ gone[i] \in Entries
                          /\ gone[i].msg = m /\ gone[i].agent = s[i]
  BY <1>1, <1>2 DEF Entry, Entries, Reasons
<1>4. gone \in Seq(Entries) /\ Len(gone) = Len(s) /\ DOMAIN gone = DOMAIN s
  BY <1>2, <1>3
<1> HIDE DEF gone
<1>5. all \in Seq(Entries)
  BY <1>4
<1>6. dlq' \in Seq(Entries) /\ Len(dlq') <= DlqMax
  BY <1>5, PushAllBounded DEF DeadLetter, BrokerTypeOK, gone
<1>7. /\ Len(all) = Len(es) + Len(s) /\ DOMAIN all = 1..Len(all)
      /\ \A i \in DOMAIN es : i \in DOMAIN all /\ all[i] = es[i]
      /\ \A i \in DOMAIN s : i + Len(es) \in DOMAIN all /\ all[i + Len(es)] = gone[i]
      /\ \A i \in DOMAIN all : \/ i \in DOMAIN es /\ all[i] = es[i]
                               \/ i - Len(es) \in DOMAIN s /\ all[i] = gone[i - Len(es)]
  BY <1>2, <1>4
<1> HIDE DEF all
<1>8. {<<all[i].msg, all[i].agent>> : i \in DOMAIN all}
        = {<<es[i].msg, es[i].agent>> : i \in DOMAIN es} \union {<<m, a>> : a \in S}
  <2>1. ASSUME NEW i \in DOMAIN all
        PROVE  \/ <<all[i].msg, all[i].agent>> \in {<<es[j].msg, es[j].agent>> : j \in DOMAIN es}
               \/ <<all[i].msg, all[i].agent>> \in {<<m, a>> : a \in S}
    <3>1. CASE i \in DOMAIN es /\ all[i] = es[i]
      BY <3>1
    <3>2. CASE i - Len(es) \in DOMAIN s /\ all[i] = gone[i - Len(es)]
      BY <3>2, <1>1, <1>3
    <3> QED
      BY <1>7, <3>1, <3>2
  <2>2. ASSUME NEW j \in DOMAIN es
        PROVE  <<es[j].msg, es[j].agent>> \in {<<all[i].msg, all[i].agent>> : i \in DOMAIN all}
    BY <1>7
  <2>3. ASSUME NEW a \in S
        PROVE  <<m, a>> \in {<<all[i].msg, all[i].agent>> : i \in DOMAIN all}
    <3>1. PICK j \in DOMAIN s : s[j] = a
      BY <1>1
    <3>2. j + Len(es) \in DOMAIN all /\ all[j + Len(es)].msg = m /\ all[j + Len(es)].agent = a
      BY <3>1, <1>3, <1>7
    <3> QED
      BY <3>2
  <2> QED
    BY <2>1, <2>2, <2>3
<1> QED
  BY <1>6, <1>8 DEF DeadLetter, all, gone
-----------------------------------------------------------------------------
(* The end of a delivery to one target *)

\* The answers that the delivery of message m to the agents in met and to agent a leaves:
\* a has acknowledged it or is dead-lettered, and the handlers of met had disappeared.
Answers(m, a, met) ==
  \/ /\ acked' = acked \union {<<m, a>>}
     /\ dead' = dead \union {<<m, b>> : b \in met}
  \/ /\ acked' = acked
     /\ dead' = dead \union {<<m, b>> : b \in met \union {a}}

\* Once the targets in met are passed over, the next target is called or the dispatch ends.
GoesOn(w, met) ==
  \/ met = wk[w].todo /\ Finish(w)
  \/ \E a \in wk[w].todo \ met :
       /\ Call(w, a, wk[w].todo \ (met \union {a}), 1)
       /\ UNCHANGED <<unfinished, fate>>

\* What the actions that end the delivery to one target have in common: the target is
\* answered, targets that have disappeared are passed over, and the next target is
\* called or the dispatch ends.
TargetEnds(w) ==
  /\ wk[w].pc \in {"handling", "backoff"}
  /\ \E met \in SUBSET wk[w].todo :
       /\ Answers(wk[w].msg, wk[w].agent, met)
       /\ GoesOn(w, met)
  /\ dlq' \in Seq(Entries) /\ Len(dlq') <= DlqMax
  /\ UNCHANGED <<lifecycle, registry, inbox, expired, resolved, env>>

\* The rest of the loop over the targets, after the entries es.
LEMMA NextTargetEnds ==
  ASSUME BrokerTypeOK, NEW w \in Workers, NEW es \in Seq(Entries), wk[w].msg \in Messages,
         NextTarget(w, es)
  PROVE  /\ dlq' \in Seq(Entries) /\ Len(dlq') <= DlqMax
         /\ \E met \in SUBSET wk[w].todo :
              /\ dead' = dead \union {<<es[i].msg, es[i].agent>> : i \in DOMAIN es}
                              \union {<<wk[w].msg, b>> : b \in met}
              /\ GoesOn(w, met)
<1> DEFINE m == wk[w].msg
           gone == wk[w].todo \ handlers
           here == wk[w].todo \intersect handlers
           Vanished(s) == [i \in DOMAIN s |-> Entry(m, s[i], "handler_disappeared", 1)]
<1>1. wk[w].todo \in SUBSET Agents /\ IsFiniteSet(wk[w].todo)
  BY DEF BrokerTypeOK, HeldBy, WorkerStates
<1>2. \A S \in SUBSET gone : IsFiniteSet(S) /\ S \in SUBSET Agents
  BY <1>1, FS_Subset
<1>3. ASSUME here = {}, NEW s \in SetToSeqs(gone), DeadLetter(es \o Vanished(s)), Finish(w)
      PROVE  /\ dlq' \in Seq(Entries) /\ Len(dlq') <= DlqMax
             /\ gone = wk[w].todo
             /\ dead' = dead \union {<<es[i].msg, es[i].agent>> : i \in DOMAIN es}
                             \union {<<m, b>> : b \in gone}
  <2>1. IsFiniteSet(gone) /\ gone \in SUBSET Agents
    BY <1>2
  <2> QED
    BY <1>3, <2>1, DeadLetters
<1>4. ASSUME NEW a \in here, NEW met \in SUBSET gone, NEW s \in SetToSeqs(met),
             DeadLetter(es \o Vanished(s))
      PROVE  /\ dlq' \in Seq(Entries) /\ Len(dlq') <= DlqMax
             /\ met \in SUBSET wk[w].todo /\ a \in wk[w].todo \ met
             /\ dead' = dead \union {<<es[i].msg, es[i].agent>> : i \in DOMAIN es}
                             \union {<<m, b>> : b \in met}
  <2>1. IsFiniteSet(met) /\ met \in SUBSET Agents
    BY <1>2
  <2> QED
    BY <1>4, <2>1, DeadLetters
<1>5. \/ /\ here = {}
         /\ \E s \in SetToSeqs(gone) : DeadLetter(es \o Vanished(s))
         /\ Finish(w)
      \/ \E a \in here, met \in SUBSET gone :
           /\ \E s \in SetToSeqs(met) : DeadLetter(es \o Vanished(s))
           /\ Call(w, a, wk[w].todo \ (met \union {a}), 1)
           /\ UNCHANGED <<unfinished, fate>>
  BY DEF NextTarget
<1> HIDE DEF Vanished
<1>6. CASE /\ here = {}
           /\ \E s \in SetToSeqs(gone) : DeadLetter(es \o Vanished(s))
           /\ Finish(w)
  BY <1>3, <1>6 DEF GoesOn
<1>7. CASE \E a \in here, met \in SUBSET gone :
             /\ \E s \in SetToSeqs(met) : DeadLetter(es \o Vanished(s))
             /\ Call(w, a, wk[w].todo \ (met \union {a}), 1)
             /\ UNCHANGED <<unfinished, fate>>
  <2>1. PICK a \in here, met \in SUBSET gone :
             /\ \E s \in SetToSeqs(met) : DeadLetter(es \o Vanished(s))
             /\ Call(w, a, wk[w].todo \ (met \union {a}), 1)
             /\ UNCHANGED <<unfinished, fate>>
    BY <1>7
  <2>2. PICK s \in SetToSeqs(met) : DeadLetter(es \o Vanished(s))
    BY <2>1
  <2> QED
    BY <1>4, <2>1, <2>2 DEF GoesOn
<1> QED
  BY <1>5, <1>6, <1>7

\* A handler that returns, one that fails for the last time and one that has disappeared
\* during the back-off end the delivery to their agent.
LEMMA DeliveryEnds ==
  ASSUME BrokerTypeOK, NEW w \in Workers,
         HandlerReturns(w) \/ HandlerExhausts(w) \/ RetryVanished(w)
  PROVE  TargetEnds(w)
<1> DEFINE m == wk[w].msg
           a == wk[w].agent
<1>1. /\ wk[w].pc \in {"handling", "backoff"}
      /\ m \in Messages /\ a \in Agents /\ wk[w].attempt \in Nat
  BY BrokerAssumption DEF BrokerTypeOK, HeldBy, WorkerStates, HandlerReturns, HandlerExhausts,
    RetryVanished
<1>2. UNCHANGED <<lifecycle, registry, inbox, expired, resolved, env>>
  BY DEF HandlerReturns, HandlerExhausts, RetryVanished
<1>3. CASE HandlerReturns(w)
  <2>1. NextTarget(w, <<>>) /\ acked' = acked \union {<<m, a>>}
    BY <1>3 DEF HandlerReturns
  <2>2. <<>> \in Seq(Entries) /\ DOMAIN <<>> = {}
    OBVIOUS
  <2> DEFINE es == <<>>
  <2>3. {<<es[i].msg, es[i].agent>> : i \in DOMAIN es} = {}
    BY <2>2
  <2>4. /\ dlq' \in Seq(Entries) /\ Len(dlq') <= DlqMax
        /\ \E met \in SUBSET wk[w].todo :
             /\ dead' = dead \union {<<es[i].msg, es[i].agent>> : i \in DOMAIN es}
                             \union {<<m, b>> : b \in met}
             /\ GoesOn(w, met)
    BY <1>1, <2>1, <2>2, NextTargetEnds
  <2> HIDE DEF es
  <2>5. PICK met \in SUBSET wk[w].todo :
          dead' = dead \union {<<m, b>> : b \in met} /\ GoesOn(w, met)
    BY <2>3, <2>4
  <2>6. Answers(m, a, met)
    BY <2>1, <2>5 DEF Answers
  <2> QED
    BY <1>1, <1>2, <2>4, <2>5, <2>6 DEF TargetEnds
<1>4. ASSUME NEW reason \in Reasons, NEW n \in Nat, NextTarget(w, <<Entry(m, a, reason, n)>>),
             acked' = acked
      PROVE  TargetEnds(w)
  <2> DEFINE es == <<Entry(m, a, reason, n)>>
  <2>1. /\ es \in Seq(Entries) /\ DOMAIN es = {1}
        /\ es[1].msg = m /\ es[1].agent = a
    BY <1>1 DEF Entry, Entries
  <2> HIDE DEF es
  <2>2. {<<es[i].msg, es[i].agent>> : i \in DOMAIN es} = {<<m, a>>}
    BY <2>1
  <2>3. /\ dlq' \in Seq(Entries) /\ Len(dlq') <= DlqMax
        /\ \E met \in SUBSET wk[w].todo :
             /\ dead' = dead \union {<<es[i].msg, es[i].agent>> : i \in DOMAIN es}
                             \union {<<m, b>> : b \in met}
             /\ GoesOn(w, met)
    BY <1>1, <1>4, <2>1, NextTargetEnds DEF es
  <2>4. PICK met \in SUBSET wk[w].todo :
          dead' = dead \union {<<m, a>>} \union {<<m, b>> : b \in met} /\ GoesOn(w, met)
    BY <2>2, <2>3
  <2>5. Answers(m, a, met)
    BY <1>4, <2>4 DEF Answers
  <2> QED
    BY <1>1, <1>2, <2>3, <2>4, <2>5 DEF TargetEnds
<1>5. CASE HandlerExhausts(w)
  BY <1>1, <1>4, <1>5 DEF HandlerExhausts, Reasons
<1>6. CASE RetryVanished(w)
  BY <1>1, <1>4, <1>6 DEF RetryVanished, Reasons, NextAttempt
<1> QED
  BY <1>3, <1>5, <1>6
-----------------------------------------------------------------------------
(* Types *)

\* A worker between two messages holds nothing.
LEMMA IdleHeld ==
  ASSUME NEW pc \in {"exited", "loop", "waiting"}
  PROVE  HeldBy(Idle(pc)) /\ Idle(pc).pc = pc
<1>1. IsFiniteSet({})
  BY FS_EmptySet
<1>2. 0 \in 0..MaxAttempts
  BY BrokerAssumption
<1> QED
  BY <1>1, <1>2, BrokerAssumption DEF HeldBy, Idle, WorkerStates

\* The loop test leaves a worker that waits or has exited.
LEMMA ResumeHeld == HeldBy(Resume) /\ Resume.pc \in {"exited", "waiting"}
  BY IdleHeld DEF Resume

\* A worker that has got a message, or calls a handler, holds that message.
LEMMA GotHeld ==
  ASSUME NEW m \in Messages
  PROVE  LET k == [Idle("got") EXCEPT !.msg = m]
         IN  HeldBy(k) /\ k.pc = "got" /\ k.msg = m
<1>1. IsFiniteSet({})
  BY FS_EmptySet
<1>2. 0 \in 0..MaxAttempts
  BY BrokerAssumption
<1> QED
  BY <1>1, <1>2, BrokerAssumption DEF HeldBy, Idle, WorkerStates

\* A worker that calls a handler holds the message, its target and the other targets.
LEMMA CallHeld ==
  ASSUME BrokerTypeOK, NEW w \in Workers, NEW a \in Agents, NEW rest \in SUBSET (Agents \ {a}),
         IsFiniteSet(rest), NEW n \in 1..MaxAttempts, wk[w].msg \in Messages,
         Call(w, a, rest, n)
  PROVE  /\ wk' \in [Workers -> WorkerStates]
         /\ \A v \in Workers : HeldBy(wk'[v])
<1> DEFINE k == [pc |-> "handling", msg |-> wk[w].msg, todo |-> rest, agent |-> a, attempt |-> n]
<1>1. wk' = [wk EXCEPT ![w] = k]
  BY DEF Call
<1>2. HeldBy(k) /\ k \in WorkerStates
  BY BrokerAssumption DEF HeldBy, WorkerStates
<1> HIDE DEF k
<1> QED
  BY <1>1, <1>2 DEF BrokerTypeOK

\* A worker's state is replaced by one that is right.
LEMMA ReplaceHeld ==
  ASSUME BrokerTypeOK, NEW w \in Workers, NEW k, HeldBy(k), wk' = [wk EXCEPT ![w] = k]
  PROVE  /\ wk' \in [Workers -> WorkerStates]
         /\ \A v \in Workers : HeldBy(wk'[v])
  BY DEF BrokerTypeOK, HeldBy

\* The targets of a message are registered agents.
LEMMA TargetsFinite ==
  ASSUME BrokerTypeOK, NEW m
  PROVE  ResolveTargets(m) \in SUBSET Agents /\ IsFiniteSet(ResolveTargets(m))
<1>1. ResolveTargets(m) \in SUBSET handlers
  BY DEF ResolveTargets
<1> QED
  BY <1>1, FS_Subset DEF BrokerTypeOK

\* One entry is pushed.
LEMMA DeadLetterOne ==
  ASSUME BrokerTypeOK, NEW m \in Messages, NEW reason \in Reasons,
         DeadLetter(<<Entry(m, NoAgent, reason, 1)>>)
  PROVE  /\ dlq' \in Seq(Entries) /\ Len(dlq') <= DlqMax
         /\ dead' = dead \union {<<m, NoAgent>>}
<1> DEFINE es == <<Entry(m, NoAgent, reason, 1)>>
<1>1. es \in Seq(Entries) /\ DOMAIN es = {1} /\ es[1].msg = m /\ es[1].agent = NoAgent
  BY DEF Entry, Entries
<1>2. /\ dlq' = PushAll(dlq, es)
      /\ dead' = dead \union {<<es[i].msg, es[i].agent>> : i \in DOMAIN es}
  BY DEF DeadLetter
<1> HIDE DEF es
<1> QED
  BY <1>1, <1>2, PushAllBounded DEF BrokerTypeOK

\* A cancelled worker's message is lost.
LEMMA AbandonFates ==
  ASSUME BrokerTypeOK, NEW ws, Abandon(ws)
  PROVE  fate' \in [Messages -> Fates]
  BY DEF BrokerTypeOK, Abandon, Fates

\* Initially the state is in its types.
LEMMA TypeInit == Init => BrokerTypeOK
<1> SUFFICES ASSUME Init PROVE BrokerTypeOK
  OBVIOUS
<1>1. IsFiniteSet({})
  BY FS_EmptySet
<1>2. wk \in [Workers -> WorkerStates] /\ \A w \in Workers : HeldBy(wk[w])
  BY IdleHeld DEF Init, HeldBy
<1>3. dlq \in Seq(Entries) /\ Len(dlq) <= DlqMax
  BY BrokerAssumption DEF Init
<1> QED
  BY <1>1, <1>2, <1>3 DEF Init, BrokerTypeOK, Fates

\* Publishing keeps the state in its types.
LEMMA PublishTypes ==
  ASSUME BrokerTypeOK, NEW m \in Messages,
         \/ Expire(m) \/ PublishExpired(m) \/ Publish(m)
         \/ PublishWaits(m) \/ PutResumes(m) \/ PublishRejected(m)
  PROVE  BrokerTypeOK'
<1>1. IsFiniteSet(queue \union {m})
  BY FS_AddElement DEF BrokerTypeOK
<1>2. CASE Expire(m)
  BY <1>2, BrokerAssumption DEF BrokerTypeOK, Expire, lifecycle, registry, inbox, history
<1>3. CASE PublishExpired(m)
  <2>1. dlq' \in Seq(Entries) /\ Len(dlq') <= DlqMax
    BY <1>3, DeadLetterOne DEF PublishExpired, Reasons
  <2> QED
    BY <1>3, <2>1 DEF BrokerTypeOK, PublishExpired, Fates, lifecycle, registry, inbox
<1>4. CASE Publish(m)
  BY <1>1, <1>4 DEF BrokerTypeOK, Publish, MakeItem, Fates, lifecycle, registry
<1>5. CASE PublishWaits(m)
  BY <1>5 DEF BrokerTypeOK, PublishWaits, MakeItem, Fates, lifecycle, registry
<1>6. CASE PutResumes(m)
  BY <1>1, <1>6 DEF BrokerTypeOK, PutResumes, lifecycle, registry, history
<1>7. CASE PublishRejected(m)
  BY <1>7 DEF BrokerTypeOK, PublishRejected, MakeItem, Fates, lifecycle, registry
<1> QED
  BY <1>2, <1>3, <1>4, <1>5, <1>6, <1>7

\* So do the subscriptions and the readers of the dead-letter queue.
LEMMA RegistryTypes ==
  ASSUME BrokerTypeOK,
         \/ \E a \in Agents : Subscribe(a) \/ Unsubscribe(a)
         \/ \E a \in Agents, t \in Topics : SubscribeTopic(a, t) \/ UnsubscribeTopic(a, t)
         \/ DlqPop \/ DlqClear
  PROVE  BrokerTypeOK'
<1>1. ASSUME NEW a \in Agents, Subscribe(a) PROVE BrokerTypeOK'
  <2>1. IsFiniteSet(handlers \union {a})
    BY FS_AddElement DEF BrokerTypeOK
  <2> QED
    BY <1>1, <2>1 DEF BrokerTypeOK, Subscribe, lifecycle, inbox, history
<1>2. ASSUME NEW a \in Agents, Unsubscribe(a) PROVE BrokerTypeOK'
  <2>1. IsFiniteSet(handlers \ {a})
    BY FS_RemoveElement DEF BrokerTypeOK
  <2> QED
    BY <1>2, <2>1 DEF BrokerTypeOK, Unsubscribe, lifecycle, inbox, history
<1>3. ASSUME NEW a \in Agents, NEW t \in Topics, SubscribeTopic(a, t) \/ UnsubscribeTopic(a, t)
      PROVE  BrokerTypeOK'
  BY <1>3 DEF BrokerTypeOK, SubscribeTopic, UnsubscribeTopic, lifecycle, inbox, history
<1>4. CASE DlqPop
  <2>1. dlq' \in Seq(Entries) /\ Len(dlq') = Len(dlq) - 1
    BY <1>4 DEF BrokerTypeOK, DlqPop
  <2>2. Len(dlq) \in Nat /\ DlqMax \in Nat /\ Len(dlq) <= DlqMax
    BY BrokerAssumption DEF BrokerTypeOK
  <2> QED
    BY <1>4, <2>1, <2>2 DEF BrokerTypeOK, DlqPop, lifecycle, inbox, registry, history
<1>5. CASE DlqClear
  BY <1>5, BrokerAssumption DEF BrokerTypeOK, DlqClear, lifecycle, inbox, registry, history
<1> QED
  BY <1>1, <1>2, <1>3, <1>4, <1>5

\* So do the workers.
LEMMA WorkerTypes ==
  ASSUME BrokerTypeOK, NEW w \in Workers, Worker(w) \/ HandlerCancelled(w)
  PROVE  BrokerTypeOK'
<1> DEFINE m == wk[w].msg
<1>1. HeldBy(wk[w]) /\ wk[w] \in WorkerStates
  BY DEF BrokerTypeOK
<1>2. wk[w].pc \in {"got", "handling", "backoff"} => m \in Messages
  BY <1>1, BrokerAssumption DEF HeldBy, WorkerStates
<1>3. 1 \in 1..MaxAttempts
  BY BrokerAssumption
<1>4. CASE LoopTest(w)
  BY <1>4, ResumeHeld, ReplaceHeld DEF BrokerTypeOK, LoopTest, lifecycle, registry, inbox, history
<1>5. CASE DispatchToDlq(w)
  <2>1. m \in Messages
    BY <1>2, <1>5 DEF DispatchToDlq
  <2>2. dlq' \in Seq(Entries) /\ Len(dlq') <= DlqMax
    BY <1>5, <2>1, DeadLetterOne DEF DispatchToDlq, Reasons
  <2>3. wk' \in [Workers -> WorkerStates] /\ \A v \in Workers : HeldBy(wk'[v])
    BY <1>5, ResumeHeld, ReplaceHeld DEF DispatchToDlq, Finish
  <2> QED
    BY <1>5, <2>2, <2>3 DEF BrokerTypeOK, DispatchToDlq, Finish, Fates, lifecycle, registry, inbox
<1>6. CASE TargetEnds(w)
  <2>1. PICK met \in SUBSET wk[w].todo : GoesOn(w, met)
    BY <1>6 DEF TargetEnds
  <2>2. m \in Messages
    BY <1>2, <1>6 DEF TargetEnds
  <2>3. /\ wk' \in [Workers -> WorkerStates] /\ \A v \in Workers : HeldBy(wk'[v])
        /\ fate' \in [Messages -> Fates]
    <3>1. CASE Finish(w)
      BY <3>1, ResumeHeld, ReplaceHeld DEF Finish, BrokerTypeOK, Fates
    <3>2. ASSUME NEW a \in wk[w].todo \ met, Call(w, a, wk[w].todo \ (met \union {a}), 1),
                 UNCHANGED <<unfinished, fate>>
          PROVE  /\ wk' \in [Workers -> WorkerStates] /\ \A v \in Workers : HeldBy(wk'[v])
                 /\ fate' \in [Messages -> Fates]
      <4> DEFINE rest == wk[w].todo \ (met \union {a})
      <4>1. a \in Agents /\ rest \in SUBSET (Agents \ {a}) /\ rest \in SUBSET wk[w].todo
        BY <1>1 DEF WorkerStates
      <4>2. IsFiniteSet(rest)
        BY <1>1, <4>1, FS_Subset DEF HeldBy
      <4> QED
        BY <1>3, <2>2, <3>2, <4>1, <4>2, CallHeld DEF BrokerTypeOK
    <3> QED
      BY <2>1, <3>1, <3>2 DEF GoesOn
  <2> QED
    BY <1>6, <2>3 DEF BrokerTypeOK, TargetEnds, lifecycle, registry, inbox
<1>7. CASE HandlerFails(w)
  <2> DEFINE k == [wk[w] EXCEPT !.pc = "backoff"]
  <2>1. HeldBy(k)
    BY <1>1, <1>7 DEF HeldBy, WorkerStates, HandlerFails
  <2>2. wk' = [wk EXCEPT ![w] = k]
    BY <1>7 DEF HandlerFails
  <2> HIDE DEF k
  <2> QED
    BY <1>7, <2>1, <2>2, ReplaceHeld DEF BrokerTypeOK, HandlerFails, lifecycle, registry, inbox,
      history
<1>8. CASE Retry(w)
  <2> DEFINE n == NextAttempt(wk[w].attempt)
  <2>1. n \in 1..MaxAttempts /\ m \in Messages
    BY <1>1, <1>2, <1>8, BrokerAssumption DEF Retry, HeldBy, WorkerStates, NextAttempt
  <2>2. /\ wk[w].agent \in Agents /\ wk[w].todo \in SUBSET (Agents \ {wk[w].agent})
        /\ IsFiniteSet(wk[w].todo)
    BY <1>1, <1>8 DEF Retry, HeldBy, WorkerStates
  <2>3. Call(w, wk[w].agent, wk[w].todo, n)
    BY <1>8 DEF Retry
  <2> HIDE DEF n
  <2>4. wk' \in [Workers -> WorkerStates] /\ \A v \in Workers : HeldBy(wk'[v])
    BY <2>1, <2>2, <2>3, CallHeld
  <2> QED
    BY <1>8, <2>4 DEF BrokerTypeOK, Retry, lifecycle, registry, inbox, history
<1>9. ASSUME NEW h \in Messages, DiscardHead(w, h) PROVE BrokerTypeOK'
  <2>1. IsFiniteSet(queue \ {h})
    BY FS_RemoveElement DEF BrokerTypeOK
  <2> QED
    BY <1>9, <2>1 DEF BrokerTypeOK, DiscardHead, Pop, Fates, lifecycle, registry
<1>10. ASSUME NEW h \in Messages, Receive(w, h) PROVE BrokerTypeOK'
  <2>1. IsFiniteSet(queue \ {h})
    BY FS_RemoveElement DEF BrokerTypeOK
  <2>2. wk' \in [Workers -> WorkerStates] /\ \A v \in Workers : HeldBy(wk'[v])
    BY <1>10, GotHeld, ReplaceHeld DEF Receive
  <2> QED
    BY <1>10, <2>1, <2>2 DEF BrokerTypeOK, Receive, Pop, lifecycle, registry, history
<1>11. ASSUME NEW a \in Agents, Dispatch(w, a) PROVE BrokerTypeOK'
  <2> DEFINE rest == OtherTargets(m, a)
  <2>1. m \in Messages
    BY <1>2, <1>11 DEF Dispatch
  <2>2. /\ rest \in SUBSET (Agents \ {a}) /\ IsFiniteSet(rest)
        /\ ResolveTargets(m) \in SUBSET Agents
    BY TargetsFinite, FS_RemoveElement DEF OtherTargets
  <2>3. Call(w, a, rest, 1)
    BY <1>11 DEF Dispatch
  <2> HIDE DEF rest
  <2>4. wk' \in [Workers -> WorkerStates] /\ \A v \in Workers : HeldBy(wk'[v])
    BY <1>3, <2>1, <2>2, <2>3, CallHeld
  <2>5. resolved' \in [Messages -> SUBSET Agents]
    BY <1>11, <2>1, <2>2 DEF BrokerTypeOK, Dispatch
  <2> QED
    BY <1>11, <2>4, <2>5 DEF BrokerTypeOK, Dispatch, lifecycle, registry, inbox
<1>12. CASE HandlerCancelled(w)
  <2>1. fate' \in [Messages -> Fates]
    BY <1>12, AbandonFates DEF HandlerCancelled
  <2> QED
    BY <1>12, <2>1, IdleHeld, ReplaceHeld DEF BrokerTypeOK, HandlerCancelled, lifecycle, registry,
      inbox
<1> QED
  BY <1>4, <1>5, <1>6, <1>7, <1>8, <1>9, <1>10, <1>11, <1>12, DeliveryEnds DEF Worker

\* So do start() and stop().
LEMMA ControllerTypes ==
  ASSUME BrokerTypeOK, NEW k \in Controllers,
         Start(k) \/ Stop(k) \/ StopJoined(k) \/ StopGathered(k)
  PROVE  BrokerTypeOK'
<1>1. CASE Start(k)
  <2>1. PICK new \in SUBSET (Workers \ Live) :
          /\ tracked' = new
          /\ wk' = [w \in Workers |-> IF w \in new THEN Idle("loop") ELSE wk[w]]
    BY <1>1 DEF Start
  <2>2. wk' \in [Workers -> WorkerStates] /\ \A v \in Workers : HeldBy(wk'[v])
    BY <2>1, IdleHeld DEF BrokerTypeOK, HeldBy
  <2> QED
    BY <1>1, <2>1, <2>2 DEF BrokerTypeOK, Start, registry, inbox, history
<1>2. CASE Stop(k)
  BY <1>2 DEF BrokerTypeOK, Stop, registry, inbox, history
<1>3. CASE StopJoined(k)
  <2>1. wk' \in [Workers -> WorkerStates] /\ \A v \in Workers : HeldBy(wk'[v])
    BY <1>3, IdleHeld DEF StopJoined, BrokerTypeOK, HeldBy
  <2>2. fate' \in [Messages -> Fates]
    BY <1>3, AbandonFates DEF StopJoined
  <2> QED
    BY <1>3, <2>1, <2>2 DEF BrokerTypeOK, StopJoined, ToGather, registry, inbox
<1>4. CASE StopGathered(k)
  BY <1>4 DEF BrokerTypeOK, StopGathered, registry, inbox, history
<1> QED
  BY <1>1, <1>2, <1>3, <1>4

\* The state of the broker stays in its types: start(), stop(), publish(), subscribe() and
\* the dispatch loop never leave a worker with half a message, and the dead-letter queue never
\* exceeds dlq_maxsize.
THEOREM BrokerTypeCorrect == Spec => []BrokerTypeOK
<1>1. BrokerTypeOK /\ [Next]_vars => BrokerTypeOK'
  <2> SUFFICES ASSUME BrokerTypeOK, [Next]_vars PROVE BrokerTypeOK'
    OBVIOUS
  <2>1. CASE UNCHANGED vars
    BY <2>1 DEF BrokerTypeOK, vars, lifecycle, registry, inbox, history
  <2> QED
    BY <2>1, PublishTypes, RegistryTypes, WorkerTypes, ControllerTypes DEF Next
<1> QED
  BY <1>1, TypeInit, PTL DEF Spec
-----------------------------------------------------------------------------
(* Where messages are *)

\* A message is in the queue, in a waiting put() or with one worker exactly while it is
\* accepted.
PlacesDistinct ==
  /\ queue \intersect putting = {}
  /\ \A w \in Busy : wk[w].msg \in Messages \ (queue \union putting)
  /\ \A v, w \in Busy : wk[v].msg = wk[w].msg => v = w
  /\ \A m \in Messages :
       fate[m] = "accepted" <=> m \in queue \/ m \in putting \/ \E w \in Busy : wk[w].msg = m

\* Workers that were busy and still are keep their messages.
MessagesKept == \A w \in Busy \intersect Busy' : wk'[w].msg = wk[w].msg

\* No message moves.
Still ==
  /\ Busy' = Busy /\ MessagesKept
  /\ UNCHANGED <<queue, putting, fate, unfinished>>

\* The worker settles its message.
Settles(w) ==
  /\ w \in Busy /\ Busy' = Busy \ {w} /\ MessagesKept
  /\ Finish(w)
  /\ UNCHANGED <<queue, putting>>

\* The workers ws give up their messages.
Abandons(ws) ==
  /\ Busy' = Busy \ ws /\ MessagesKept
  /\ Abandon(ws)
  /\ UNCHANGED <<queue, putting, unfinished>>

\* The worker takes message m out of the queue.
Takes(w, m) ==
  /\ m \in queue /\ queue' = queue \ {m}
  /\ w \in Workers \ Busy /\ Busy' = Busy \union {w} /\ MessagesKept /\ wk'[w].msg = m
  /\ UNCHANGED <<putting, fate, unfinished>>

\* Message m is dropped from the queue.
Drops(m) ==
  /\ m \in queue /\ queue' = queue \ {m}
  /\ Busy' = Busy /\ MessagesKept
  /\ fate' = [fate EXCEPT ![m] = "discarded"]
  /\ unfinished' = unfinished - 1
  /\ UNCHANGED putting

\* What replacing one worker's state does to the busy workers.
LEMMA BusyAfter ==
  ASSUME BrokerTypeOK, NEW w \in Workers, NEW k, wk' = [wk EXCEPT ![w] = k]
  PROVE  /\ Busy' = IF k.pc \in {"got", "handling", "backoff"} THEN Busy \union {w} ELSE Busy \ {w}
         /\ \A v \in Workers : wk'[v] = IF v = w THEN k ELSE wk[v]
  BY DEF BrokerTypeOK, Busy

\* How a worker's step moves messages.
LEMMA WorkerMoves ==
  ASSUME BrokerTypeOK, NEW w \in Workers, Worker(w) \/ HandlerCancelled(w)
  PROVE  \/ Still \/ Settles(w) \/ Abandons({w})
         \/ \E m \in Messages : Takes(w, m) \/ Drops(m)
<1> DEFINE m == wk[w].msg
<1>1. ASSUME w \in Busy, Finish(w), UNCHANGED <<queue, putting>> PROVE Settles(w)
  <2>1. wk' = [wk EXCEPT ![w] = Resume]
    BY <1>1 DEF Finish
  <2>2. /\ Busy' = Busy \ {w}
        /\ \A v \in Workers : wk'[v] = IF v = w THEN Resume ELSE wk[v]
    BY <2>1, BusyAfter, ResumeHeld
  <2>3. MessagesKept
    BY <2>2 DEF MessagesKept, Busy
  <2> QED
    BY <1>1, <2>2, <2>3 DEF Settles
<1>2. ASSUME NEW a, NEW rest, NEW n, w \in Busy, Call(w, a, rest, n),
             UNCHANGED <<queue, putting, fate, unfinished>>
      PROVE  Still
  <2> DEFINE k == [pc |-> "handling", msg |-> m, todo |-> rest, agent |-> a, attempt |-> n]
  <2>1. wk' = [wk EXCEPT ![w] = k] /\ k.pc = "handling" /\ k.msg = m
    BY <1>2 DEF Call
  <2> HIDE DEF k
  <2> QED
    BY <1>2, <2>1, BusyAfter DEF Still, MessagesKept, Busy
<1>3. CASE LoopTest(w)
  BY <1>3, BusyAfter, ResumeHeld DEF LoopTest, Still, MessagesKept, Busy, inbox, history
<1>4. CASE DispatchToDlq(w)
  BY <1>1, <1>4 DEF DispatchToDlq, Busy, inbox
<1>5. CASE TargetEnds(w)
  <2>1. w \in Busy
    BY <1>5 DEF TargetEnds, Busy
  <2> QED
    BY <1>1, <1>2, <1>5, <2>1 DEF TargetEnds, GoesOn, inbox
<1>6. CASE HandlerFails(w)
  <2> DEFINE k == [wk[w] EXCEPT !.pc = "backoff"]
  <2>1. wk' = [wk EXCEPT ![w] = k] /\ k.pc = "backoff" /\ k.msg = m
    BY <1>6 DEF HandlerFails, BrokerTypeOK, WorkerStates
  <2> HIDE DEF k
  <2> QED
    BY <1>6, <2>1, BusyAfter DEF HandlerFails, Still, MessagesKept, Busy, inbox, history
<1>7. CASE Retry(w)
  BY <1>2, <1>7 DEF Retry, Busy, inbox, history
<1>8. ASSUME NEW h \in Messages, DiscardHead(w, h) PROVE Drops(h)
  BY <1>8 DEF DiscardHead, Drops, IsHead, Pop, TaskDone, MessagesKept, Busy
<1>9. ASSUME NEW h \in Messages, Receive(w, h) PROVE Takes(w, h)
  <2> DEFINE k == [Idle("got") EXCEPT !.msg = h]
  <2>1. wk' = [wk EXCEPT ![w] = k] /\ k.pc = "got" /\ k.msg = h
    BY <1>9, GotHeld DEF Receive
  <2> HIDE DEF k
  <2>2. w \notin Busy
    BY <1>9 DEF Receive, Busy
  <2>3. /\ Busy' = IF k.pc \in {"got", "handling", "backoff"} THEN Busy \union {w} ELSE Busy \ {w}
        /\ \A v \in Workers : wk'[v] = IF v = w THEN k ELSE wk[v]
    BY <2>1, BusyAfter
  <2>4. MessagesKept
    BY <2>2, <2>3 DEF MessagesKept, Busy
  <2> QED
    BY <1>9, <2>1, <2>2, <2>3, <2>4 DEF Receive, Takes, IsHead, Pop, history
<1>10. ASSUME NEW a \in Agents, Dispatch(w, a) PROVE Still
  BY <1>2, <1>10 DEF Dispatch, Busy, inbox
<1>11. CASE HandlerCancelled(w)
  <2>1. wk' = [wk EXCEPT ![w] = Idle("exited")] /\ Idle("exited").pc = "exited"
    BY <1>11, IdleHeld DEF HandlerCancelled
  <2>2. Busy' = Busy \ {w} /\ \A v \in Workers \ {w} : wk'[v] = wk[v]
    BY <2>1, BusyAfter
  <2>3. MessagesKept
    BY <2>2 DEF MessagesKept, Busy
  <2> QED
    BY <1>11, <2>2, <2>3 DEF HandlerCancelled, Abandons, inbox
<1> QED
  BY <1>3, <1>4, <1>5, <1>6, <1>7, <1>8, <1>9, <1>10, <1>11, DeliveryEnds DEF Worker

\* start() and stop() move messages only by cancelling workers.
LEMMA ControllerMoves ==
  ASSUME BrokerTypeOK, NEW k \in Controllers,
         Start(k) \/ Stop(k) \/ StopJoined(k) \/ StopGathered(k)
  PROVE  Still \/ Abandons(Cancellable)
<1>1. CASE Start(k)
  <2>1. PICK new \in SUBSET (Workers \ Live) :
          wk' = [w \in Workers |-> IF w \in new THEN Idle("loop") ELSE wk[w]]
    BY <1>1 DEF Start
  <2>2. Idle("loop").pc = "loop"
    BY IdleHeld
  <2>3. \A w \in new : wk[w].pc = "exited"
    BY DEF Live
  <2>4. Busy' = Busy /\ MessagesKept
    BY <2>1, <2>2, <2>3 DEF Busy, MessagesKept
  <2> QED
    BY <1>1, <2>4 DEF Start, Still, inbox, history
<1>2. CASE Stop(k) \/ StopGathered(k)
  BY <1>2 DEF Stop, StopGathered, Still, MessagesKept, Busy, inbox, history
<1>3. CASE StopJoined(k)
  <2>1. Idle("exited").pc = "exited"
    BY IdleHeld
  <2>2. wk' = [w \in Workers |-> IF w \in Cancellable THEN Idle("exited") ELSE wk[w]]
    BY <1>3 DEF StopJoined
  <2>3. Busy' = Busy \ Cancellable /\ MessagesKept
    BY <2>1, <2>2 DEF Busy, MessagesKept
  <2> QED
    BY <1>3, <2>3 DEF StopJoined, Abandons, inbox
<1> QED
  BY <1>1, <1>2, <1>3

\* Subscriptions, the clock and the readers of the dead-letter queue move none.
LEMMA OthersMove ==
  ASSUME BrokerTypeOK,
         \/ \E a \in Agents : Subscribe(a) \/ Unsubscribe(a)
         \/ \E a \in Agents, t \in Topics : SubscribeTopic(a, t) \/ UnsubscribeTopic(a, t)
         \/ \E m \in Messages : Expire(m)
         \/ DlqPop \/ DlqClear
         \/ UNCHANGED vars
  PROVE  Still /\ UNCHANGED <<wk, resolved, acked, dead>>
  BY DEF Subscribe, Unsubscribe, SubscribeTopic, UnsubscribeTopic, Expire, DlqPop, DlqClear, vars,
    Still, MessagesKept, Busy, inbox, history

\* No step puts a message in two places, or takes an accepted one out of all.
LEMMA PlacesStep == BrokerTypeOK /\ PlacesDistinct /\ [Next]_vars => PlacesDistinct'
<1> SUFFICES ASSUME BrokerTypeOK, PlacesDistinct, [Next]_vars PROVE PlacesDistinct'
  OBVIOUS
<1>1. CASE Still
  BY <1>1 DEF Still, MessagesKept, PlacesDistinct
<1>2. ASSUME NEW w \in Workers, Settles(w) PROVE PlacesDistinct'
  BY <1>2 DEF Settles, Finish, MessagesKept, PlacesDistinct, BrokerTypeOK
<1>3. ASSUME NEW ws, Abandons(ws) PROVE PlacesDistinct'
  <2>1. ASSUME NEW m \in Messages
        PROVE  fate'[m] = IF \E w \in ws \intersect Busy : wk[w].msg = m THEN "lost" ELSE fate[m]
    BY <1>3 DEF Abandons, Abandon
  <2> QED
    BY <1>3, <2>1 DEF Abandons, MessagesKept, PlacesDistinct
<1>4. ASSUME NEW w \in Workers, NEW m \in Messages, Takes(w, m) PROVE PlacesDistinct'
  BY <1>4 DEF Takes, MessagesKept, PlacesDistinct
<1>5. ASSUME NEW m \in Messages, Drops(m) PROVE PlacesDistinct'
  BY <1>5 DEF Drops, MessagesKept, PlacesDistinct, BrokerTypeOK
<1>6. ASSUME NEW m \in Messages, fate[m] = "unpublished", UNCHANGED wk,
             NEW f \in Fates, fate' = [fate EXCEPT ![m] = f],
             \/ f # "accepted" /\ UNCHANGED <<queue, putting>>
             \/ f = "accepted" /\ queue' = queue \union {m} /\ UNCHANGED putting
             \/ f = "accepted" /\ putting' = putting \union {m} /\ UNCHANGED queue
      PROVE  PlacesDistinct'
  <2>1. m \notin queue /\ m \notin putting /\ \A w \in Busy : wk[w].msg # m
    BY <1>6 DEF PlacesDistinct
  <2>2. Busy' = Busy
    BY <1>6 DEF Busy
  <2>3. \A n \in Messages : fate'[n] = IF n = m THEN f ELSE fate[n]
    BY <1>6 DEF BrokerTypeOK
  <2> QED
    BY <1>6, <2>1, <2>2, <2>3 DEF PlacesDistinct
<1>7. ASSUME NEW m \in Messages, PutResumes(m) PROVE PlacesDistinct'
  BY <1>7 DEF PutResumes, PlacesDistinct, BrokerTypeOK, Busy, history
<1>8. ASSUME NEW m \in Messages,
             PublishExpired(m) \/ Publish(m) \/ PublishWaits(m) \/ PublishRejected(m)
      PROVE  PlacesDistinct'
  BY <1>6, <1>8 DEF PublishExpired, Publish, PublishWaits, PublishRejected, Fates, inbox
<1> QED
  BY <1>1, <1>2, <1>3, <1>4, <1>5, <1>7, <1>8, WorkerMoves, ControllerMoves, OthersMove DEF Next

\* A worker's message is at one place, so its holders are one worker or none.
LEMMA PlacesCounted == BrokerTypeOK /\ PlacesDistinct => InOnePlace
<1> SUFFICES ASSUME BrokerTypeOK, PlacesDistinct, NEW m \in Messages
             PROVE  LET holders == {w \in Busy : wk[w].msg = m}
                        places == (IF m \in queue THEN 1 ELSE 0)
                                    + (IF m \in putting THEN 1 ELSE 0) + Cardinality(holders)
                    IN  places = IF fate[m] = "accepted" THEN 1 ELSE 0
  BY DEF InOnePlace
<1> DEFINE holders == {w \in Busy : wk[w].msg = m}
<1>1. CASE \E w \in Busy : wk[w].msg = m
  <2>1. PICK w \in Busy : wk[w].msg = m
    BY <1>1
  <2>2. holders = {w}
    BY <2>1 DEF PlacesDistinct
  <2>3. Cardinality(holders) = 1
    BY <2>2, FS_Singleton
  <2> QED
    BY <2>1, <2>3 DEF PlacesDistinct
<1>2. CASE ~\E w \in Busy : wk[w].msg = m
  <2>1. holders = {}
    BY <1>2
  <2>2. Cardinality(holders) = 0
    BY <2>1, FS_EmptySet
  <2> QED
    BY <1>2, <2>2 DEF PlacesDistinct
<1> QED
  BY <1>1, <1>2

\* A broker starts with no message in any place.
LEMMA PlacesInit == Init => PlacesDistinct
<1> SUFFICES ASSUME Init PROVE PlacesDistinct
  OBVIOUS
<1>1. Busy = {}
  BY IdleHeld DEF Init, Busy
<1> QED
  BY <1>1 DEF Init, PlacesDistinct

\* PlacesDistinct holds in every reachable state.
LEMMA PlacesAlways == Spec => []PlacesDistinct
  BY PlacesInit, PlacesStep, BrokerTypeCorrect, PTL DEF Spec

\* No interleaving of publishers, workers, retries, cancellations and restarts duplicates or
\* forgets an accepted message.
THEOREM PlacesCorrect == Spec => []InOnePlace
  BY PlacesAlways, PlacesCounted, BrokerTypeCorrect, PTL
-----------------------------------------------------------------------------
(* What join() waits for *)

\* The messages whose worker went without task_done().
Lost == {m \in Messages : fate[m] = "lost"}

\* UnfinishedCounted, and few enough messages are lost to be counted.
CountKept == IsFiniteSet(Lost) /\ unfinished = Cardinality(queue) + Cardinality(Busy) + Cardinality(Lost)

\* The sets that are counted are finite.
LEMMA CountTypes ==
  ASSUME BrokerTypeOK, CountKept
  PROVE  /\ IsFiniteSet(Busy) /\ IsFiniteSet(queue) /\ IsFiniteSet(Lost)
         /\ Cardinality(Busy) \in Nat /\ Cardinality(queue) \in Nat /\ Cardinality(Lost) \in Nat
<1>1. IsFiniteSet(Busy)
  <2>1. Busy \in SUBSET Workers /\ IsFiniteSet(Workers)
    BY BrokerAssumption DEF Busy
  <2> QED
    BY <2>1, FS_Subset
<1>2. IsFiniteSet(queue) /\ IsFiniteSet(Lost)
  BY DEF BrokerTypeOK, CountKept
<1> QED
  BY <1>1, <1>2, FS_CardinalityType

\* Cancelled workers lose as many messages as they are busy.
LEMMA AbandonedCounted ==
  ASSUME BrokerTypeOK, PlacesDistinct, CountKept, NEW ws, Abandons(ws)
  PROVE  CountKept'
<1> DEFINE B == Busy \intersect ws
           left == {wk[w].msg : w \in B}
           f == [w \in B |-> wk[w].msg]
<1>1. IsFiniteSet(B) /\ Cardinality(B) \in Nat
  BY CountTypes, FS_Intersection, FS_CardinalityType
<1>2. f \in Bijection(B, left)
  BY DEF PlacesDistinct, Bijection, Injection, Surjection, IsInjective
<1>3. IsFiniteSet(left) /\ Cardinality(left) = Cardinality(B)
  BY <1>1, <1>2, FS_Bijection DEF ExistsBijection
<1>4. left \subseteq Messages /\ left \intersect Lost = {}
  BY DEF PlacesDistinct, Lost
<1>5. Lost' = Lost \union left
  BY <1>4 DEF Abandons, Abandon, Lost
<1> HIDE DEF left
<1>6. Cardinality({}) = 0
  BY FS_EmptySet
<1>7. IsFiniteSet(Lost') /\ Cardinality(Lost') = Cardinality(Lost) + Cardinality(B)
  <2>1. IsFiniteSet(Lost) /\ Cardinality(Lost) \in Nat
    BY CountTypes
  <2>2. /\ IsFiniteSet(Lost \union left)
        /\ Cardinality(Lost \union left)
             = Cardinality(Lost) + Cardinality(left) - Cardinality(Lost \intersect left)
    BY <1>3, <2>1, FS_Union
  <2>3. Lost \intersect left = {}
    BY <1>4
  <2>4. Cardinality(Lost \intersect left) = 0
    BY <1>6, <2>3
  <2> QED
    BY <1>1, <1>3, <1>5, <2>1, <2>2, <2>4
<1>8. Cardinality(Busy') = Cardinality(Busy) - Cardinality(B)
  <2>1. Cardinality(Busy \ ws) = Cardinality(Busy) - Cardinality(Busy \intersect ws)
    BY CountTypes, FS_Difference
  <2> QED
    BY <2>1 DEF Abandons
<1>9. queue' = queue /\ unfinished' = unfinished
  BY DEF Abandons
<1> HIDE DEF B
<1> QED
  BY <1>1, <1>7, <1>8, <1>9, CountTypes DEF CountKept

\* Messages that move are counted on: the queue, the workers and the lost ones together.
LEMMA CountStep == BrokerTypeOK /\ PlacesDistinct /\ CountKept /\ [Next]_vars => CountKept'
<1> SUFFICES ASSUME BrokerTypeOK, PlacesDistinct, CountKept, [Next]_vars PROVE CountKept'
  OBVIOUS
<1>1. ASSUME NEW m \in Messages, NEW f \in Fates \ {"lost"}, fate[m] # "lost",
             fate' = [fate EXCEPT ![m] = f]
      PROVE  Lost' = Lost
  BY <1>1 DEF Lost, BrokerTypeOK
<1>2. /\ unfinished = Cardinality(queue) + Cardinality(Busy) + Cardinality(Lost)
      /\ IsFiniteSet(Busy) /\ IsFiniteSet(queue) /\ IsFiniteSet(Lost)
      /\ Cardinality(Busy) \in Nat /\ Cardinality(queue) \in Nat /\ Cardinality(Lost) \in Nat
  BY CountTypes DEF CountKept
<1>3. CASE Still
  BY <1>3 DEF Still, CountKept, Lost
<1>4. ASSUME NEW w \in Workers, Settles(w) PROVE CountKept'
  <2>1. wk[w].msg \in Messages /\ fate[wk[w].msg] = "accepted"
    BY <1>4 DEF Settles, PlacesDistinct
  <2>2. Lost' = Lost
    BY <1>1, <1>4, <2>1 DEF Settles, Finish, Fates
  <2>3. Cardinality(Busy') = Cardinality(Busy) - 1
    BY <1>2, <1>4, FS_RemoveElement DEF Settles
  <2> QED
    BY <1>2, <1>4, <2>2, <2>3 DEF Settles, Finish, TaskDone, CountKept
<1>5. ASSUME NEW w \in Workers, NEW m \in Messages, Takes(w, m) PROVE CountKept'
  <2>1. Cardinality(queue') = Cardinality(queue) - 1
    BY <1>2, <1>5, FS_RemoveElement DEF Takes
  <2>2. Cardinality(Busy') = Cardinality(Busy) + 1
    BY <1>2, <1>5, FS_AddElement DEF Takes
  <2> QED
    BY <1>2, <1>5, <2>1, <2>2 DEF Takes, CountKept, Lost
<1>6. ASSUME NEW m \in Messages, Drops(m) PROVE CountKept'
  <2>1. Cardinality(queue') = Cardinality(queue) - 1
    BY <1>2, <1>6, FS_RemoveElement DEF Drops
  <2>2. Lost' = Lost
    BY <1>1, <1>6 DEF Drops, PlacesDistinct, Fates
  <2> QED
    BY <1>2, <1>6, <2>1, <2>2 DEF Drops, CountKept
<1>7. ASSUME NEW m \in Messages, m \notin queue, queue' = queue \union {m}, UNCHANGED wk,
             unfinished' = unfinished + 1, Lost' = Lost
      PROVE  CountKept'
  <2>1. Cardinality(queue') = Cardinality(queue) + 1
    BY <1>2, <1>7, FS_AddElement
  <2> QED
    BY <1>2, <1>7, <2>1 DEF CountKept, Busy
<1>8. ASSUME NEW m \in Messages, Publish(m) PROVE CountKept'
  <2>1. m \notin queue
    BY <1>8 DEF Publish, PlacesDistinct
  <2> QED
    BY <1>1, <1>7, <1>8, <2>1 DEF Publish, Fates
<1>9. ASSUME NEW m \in Messages, PutResumes(m) PROVE CountKept'
  <2>1. m \notin queue
    BY <1>9 DEF PutResumes, PlacesDistinct
  <2> QED
    BY <1>7, <1>9, <2>1 DEF PutResumes, history, Lost
<1>10. ASSUME NEW m \in Messages, PublishExpired(m) \/ PublishWaits(m) \/ PublishRejected(m)
       PROVE  CountKept'
  <2>1. Lost' = Lost
    BY <1>1, <1>10 DEF PublishExpired, PublishWaits, PublishRejected, Fates
  <2> QED
    BY <1>10, <2>1 DEF PublishExpired, PublishWaits, PublishRejected, CountKept, Busy, inbox
<1> QED
  BY <1>3, <1>4, <1>5, <1>6, <1>8, <1>9, <1>10, AbandonedCounted, WorkerMoves, ControllerMoves,
    OthersMove DEF Next

\* task_done() is called once for every message that leaves the system and never for one
\* that a cancelled worker has abandoned: join() counts exactly what is queued, in progress
\* or abandoned.
THEOREM CountCorrect == Spec => []UnfinishedCounted
<1>1. Init => CountKept
  <2> SUFFICES ASSUME Init PROVE CountKept
    OBVIOUS
  <2>1. Busy = {} /\ queue = {} /\ Lost = {} /\ unfinished = 0
    BY IdleHeld DEF Init, Busy, Lost
  <2> QED
    BY <2>1, FS_EmptySet DEF CountKept
<1>2. CountKept => UnfinishedCounted
  BY DEF CountKept, UnfinishedCounted, Lost
<1> QED
  BY <1>1, <1>2, CountStep, PlacesAlways, BrokerTypeCorrect, PTL DEF Spec
-----------------------------------------------------------------------------
(* Who has answered *)

\* Whom an answer may be recorded for; NoAgent stands for a message without targets.
Receivers == Agents \union {NoAgent}

\* Nobody has been asked yet.
Untouched(m) ==
  /\ resolved[m] = {}
  /\ \A a \in Receivers : <<m, a>> \notin acked /\ <<m, a>> \notin dead

\* Of the targets, all but the open ones have given one answer, and nobody else has.
AnsweredBut(m, open) ==
  /\ resolved[m] # {} /\ open \subseteq resolved[m]
  /\ \A a \in Receivers :
       /\ <<m, a>> \in acked \/ <<m, a>> \in dead <=> a \in resolved[m] \ open
       /\ ~(<<m, a>> \in acked /\ <<m, a>> \in dead)

\* The message was dead-lettered as a whole.
DeadAsAWhole(m) ==
  /\ resolved[m] = {}
  /\ \A a \in Receivers : <<m, a>> \notin acked /\ (<<m, a>> \in dead <=> a = NoAgent)

\* How far the answers to a message are, from where it is.
AnswersOf(m) ==
  /\ fate[m] = "unpublished" \/ m \in queue \/ m \in putting => Untouched(m)
  /\ \A w \in Workers : wk[w].msg = m =>
       /\ wk[w].pc = "got" => Untouched(m)
       /\ wk[w].pc \in {"handling", "backoff"} =>
            AnsweredBut(m, wk[w].todo \union {wk[w].agent})
  /\ fate[m] = "settled" => DeadAsAWhole(m) \/ AnsweredBut(m, {})

\* The strengthening of EveryTargetAnswered.
AnswersKept == \A m \in Messages : AnswersOf(m)

\* A step concerns no message but m; others may get lost by it.
Concerns(m) ==
  \A n \in Messages \ {m} :
    /\ fate'[n] \in {fate[n], "lost"}
    /\ n \in queue' <=> n \in queue
    /\ n \in putting' <=> n \in putting
    /\ resolved'[n] = resolved[n]
    /\ \A a \in Receivers : /\ <<n, a>> \in acked' <=> <<n, a>> \in acked
                            /\ <<n, a>> \in dead' <=> <<n, a>> \in dead
    /\ \A w \in Workers : wk'[w].msg = n => wk'[w] = wk[w]

\* What is answered about the other messages stays as it is.
LEMMA OthersKeep ==
  ASSUME AnswersKept, NEW m, Concerns(m)
  PROVE  \A n \in Messages \ {m} : AnswersOf(n)'
<1> SUFFICES ASSUME NEW n \in Messages \ {m} PROVE AnswersOf(n)'
  OBVIOUS
<1>1. AnswersOf(n)
  BY DEF AnswersKept
<1>2. Untouched(n) => Untouched(n)'
  BY DEF Concerns, Untouched
<1>3. ASSUME NEW open, AnsweredBut(n, open)
      PROVE  /\ resolved'[n] # {} /\ open \subseteq resolved'[n]
             /\ \A a \in Receivers :
                  /\ <<n, a>> \in acked' \/ <<n, a>> \in dead' <=> a \in resolved'[n] \ open
                  /\ ~(<<n, a>> \in acked' /\ <<n, a>> \in dead')
  BY <1>3 DEF Concerns, AnsweredBut
<1>4. DeadAsAWhole(n) => DeadAsAWhole(n)'
  BY DEF Concerns, DeadAsAWhole
<1>5. /\ fate'[n] \in {fate[n], "lost"}
      /\ n \in queue' <=> n \in queue
      /\ n \in putting' <=> n \in putting
      /\ \A w \in Workers : wk'[w].msg = n => wk'[w] = wk[w]
  BY DEF Concerns
<1>6. fate'[n] = "unpublished" \/ n \in queue' \/ n \in putting' => Untouched(n)'
  BY <1>1, <1>2, <1>5 DEF AnswersOf
<1>7. fate'[n] = "settled" => DeadAsAWhole(n)' \/ AnsweredBut(n, {})'
  BY <1>1, <1>3, <1>4, <1>5 DEF AnswersOf, AnsweredBut
<1>8. ASSUME NEW w \in Workers, wk'[w].msg = n
      PROVE  /\ wk'[w].pc = "got" => Untouched(n)'
             /\ wk'[w].pc \in {"handling", "backoff"} =>
                  AnsweredBut(n, wk[w].todo \union {wk[w].agent})'
  <2> DEFINE open == wk[w].todo \union {wk[w].agent}
  <2>1. wk'[w] = wk[w] /\ wk[w].msg = n
    BY <1>5, <1>8
  <2>2. wk'[w].pc \in {"handling", "backoff"} => AnsweredBut(n, open)
    BY <1>1, <2>1 DEF AnswersOf
  <2>3. wk'[w].pc = "got" => Untouched(n)
    BY <1>1, <2>1 DEF AnswersOf
  <2>4. ASSUME wk'[w].pc \in {"handling", "backoff"}
        PROVE  AnsweredBut(n, wk[w].todo \union {wk[w].agent})'
    <3>1. open' = open
      BY <2>1
    <3>2. AnsweredBut(n, open)
      BY <2>2, <2>4
    <3> HIDE DEF open
    <3>3. AnsweredBut(n, open)'
      BY <1>3, <3>1, <3>2 DEF AnsweredBut
    <3> QED
      BY <3>3 DEF open
  <2> QED
    BY <1>2, <2>3, <2>4
<1> QED
  BY <1>6, <1>7, <1>8 DEF AnswersOf

\* A step that concerns m and leaves its answers right leaves all answers right.
LEMMA AnswersAfter ==
  ASSUME AnswersKept, NEW m, Concerns(m), m \in Messages => AnswersOf(m)'
  PROVE  AnswersKept'
  BY OthersKeep DEF AnswersKept

\* Publishing asks nobody, and dead-letters an expired message as a whole.
LEMMA PublishAnswers ==
  ASSUME BrokerTypeOK, PlacesDistinct, AnswersKept, NEW m \in Messages,
         \/ PublishExpired(m) \/ Publish(m) \/ PublishWaits(m)
         \/ PutResumes(m) \/ PublishRejected(m)
  PROVE  AnswersKept'
<1>1. /\ m \notin queue /\ UNCHANGED wk
      /\ \A w \in Workers : wk[w].msg = m => w \notin Busy
  BY DEF PlacesDistinct, PublishExpired, Publish, PublishWaits, PutResumes, PublishRejected, inbox
<1>2. \A w \in Workers : wk[w].msg # m
  BY <1>1, BrokerAssumption DEF BrokerTypeOK, HeldBy, Busy
<1>3. Untouched(m)
  BY DEF AnswersKept, AnswersOf, PublishExpired, Publish, PublishWaits, PutResumes, PublishRejected
<1>4. CASE PublishExpired(m)
  <2>1. dead' = dead \union {<<m, NoAgent>>} /\ acked' = acked /\ resolved' = resolved
    BY <1>4, DeadLetterOne DEF PublishExpired, Reasons
  <2>2. Concerns(m)
    BY <1>1, <1>4, <2>1 DEF Concerns, PublishExpired, inbox, BrokerTypeOK
  <2>3. DeadAsAWhole(m)'
    BY <1>3, <2>1 DEF DeadAsAWhole, Untouched
  <2>4. fate'[m] = "settled" /\ m \notin queue' /\ m \notin putting'
    BY <1>4, <1>1 DEF PublishExpired, BrokerTypeOK, inbox, PlacesDistinct
  <2>5. AnswersOf(m)'
    BY <1>1, <1>2, <2>3, <2>4 DEF AnswersOf
  <2> QED
    BY <2>2, <2>5, AnswersAfter
<1>5. CASE Publish(m) \/ PublishWaits(m) \/ PutResumes(m) \/ PublishRejected(m)
  <2>1. UNCHANGED <<dead, acked, resolved>>
    BY <1>5 DEF Publish, PublishWaits, PutResumes, PublishRejected, history
  <2>2. Concerns(m)
    BY <1>1, <1>5, <2>1 DEF Concerns, Publish, PublishWaits, PutResumes, PublishRejected,
      BrokerTypeOK, history
  <2>3. Untouched(m)'
    BY <1>3, <2>1 DEF Untouched
  <2>4. fate'[m] # "settled"
    BY <1>5 DEF Publish, PublishWaits, PutResumes, PublishRejected, BrokerTypeOK, history,
      PlacesDistinct
  <2>5. AnswersOf(m)'
    BY <1>1, <1>2, <2>3, <2>4 DEF AnswersOf
  <2> QED
    BY <2>2, <2>5, AnswersAfter
<1> QED
  BY <1>4, <1>5

\* A step that only takes workers out of their loop, or leaves them where they are.
LEMMA QuietAnswers ==
  ASSUME AnswersKept, UNCHANGED <<queue, putting, resolved, acked, dead>>,
         \A n \in Messages : fate'[n] \in {fate[n], "lost"},
         \A w \in Workers : wk'[w].msg \in Messages => wk'[w] = wk[w]
  PROVE  AnswersKept'
<1>1. Concerns(NoMessage)
  BY DEF Concerns
<1> QED
  BY <1>1, BrokerAssumption, AnswersAfter

\* The end of the delivery to one target adds one answer, and one for each target that
\* has disappeared.
LEMMA TargetAnswers ==
  ASSUME BrokerTypeOK, PlacesDistinct, AnswersKept, NEW w \in Workers, TargetEnds(w)
  PROVE  AnswersKept'
<1>1. PICK m \in Messages, a \in Agents, todo \in SUBSET Agents :
        /\ w \in Busy /\ wk[w].msg = m /\ wk[w].agent = a /\ wk[w].todo = todo /\ a \notin todo
        /\ wk[w].pc \in {"handling", "backoff"}
  BY BrokerAssumption DEF TargetEnds, BrokerTypeOK, HeldBy, WorkerStates, Busy
<1>2. AnsweredBut(m, todo \union {a})
  BY <1>1 DEF AnswersKept, AnswersOf
<1>3. PICK met \in SUBSET todo : Answers(m, a, met) /\ GoesOn(w, met)
  BY <1>1 DEF TargetEnds
<1>4. UNCHANGED <<queue, putting, resolved>>
  BY DEF TargetEnds, inbox
<1>5. resolved'[m] # {} /\ \A b \in Receivers :
        /\ <<m, b>> \in acked' \/ <<m, b>> \in dead' <=> b \in resolved'[m] \ (todo \ met)
        /\ ~(<<m, b>> \in acked' /\ <<m, b>> \in dead')
  BY <1>1, <1>2, <1>3, <1>4 DEF Answers, AnsweredBut
<1>6. todo \subseteq resolved'[m]
  BY <1>2, <1>4 DEF AnsweredBut
<1>7. \A n \in Messages \ {m}, b \in Receivers :
        (<<n, b>> \in acked' <=> <<n, b>> \in acked) /\ (<<n, b>> \in dead' <=> <<n, b>> \in dead)
  BY <1>3 DEF Answers
<1>8. m \notin queue /\ m \notin putting /\ \A v \in Workers \ {w} : wk[v].msg # m
  BY <1>1, BrokerAssumption DEF PlacesDistinct, BrokerTypeOK, HeldBy, Busy
<1>9. CASE met = todo /\ Finish(w)
  <2>1. /\ wk' = [wk EXCEPT ![w] = Resume] /\ fate' = [fate EXCEPT ![m] = "settled"]
        /\ Resume.msg = NoMessage
    BY <1>1, <1>9 DEF Finish, Resume, Idle
  <2>2. \A v \in Workers : wk'[v].msg # m
    BY <1>1, <1>8, <2>1, BrokerAssumption DEF BrokerTypeOK
  <2>3. Concerns(m)
    BY <1>1, <1>4, <1>7, <2>1, BrokerAssumption DEF Concerns, BrokerTypeOK
  <2>4. AnsweredBut(m, {})'
    BY <1>5, <1>9 DEF AnsweredBut
  <2>5. fate'[m] = "settled"
    BY <1>1, <2>1 DEF BrokerTypeOK
  <2>6. AnswersOf(m)'
    BY <1>4, <1>8, <2>2, <2>4, <2>5 DEF AnswersOf
  <2> QED
    BY <2>3, <2>6, AnswersAfter
<1>10. ASSUME NEW b \in todo \ met, Call(w, b, todo \ (met \union {b}), 1),
              UNCHANGED <<unfinished, fate>>
       PROVE  AnswersKept'
  <2> DEFINE k == [pc |-> "handling", msg |-> m, todo |-> todo \ (met \union {b}), agent |-> b,
                   attempt |-> 1]
  <2>1. /\ wk' = [wk EXCEPT ![w] = k] /\ k.msg = m /\ k.pc = "handling"
        /\ k.todo \union {k.agent} = todo \ met
    BY <1>1, <1>10 DEF Call
  <2> HIDE DEF k
  <2>2. wk'[w] = k /\ \A v \in Workers \ {w} : wk'[v] = wk[v]
    BY <2>1 DEF BrokerTypeOK
  <2>3. Concerns(m)
    BY <1>4, <1>7, <1>10, <2>1, <2>2 DEF Concerns
  <2>4. AnsweredBut(m, wk[w].todo \union {wk[w].agent})'
    BY <1>5, <1>6, <2>1, <2>2 DEF AnsweredBut
  <2>5. fate'[m] = "accepted"
    BY <1>1, <1>10 DEF PlacesDistinct
  <2>6. AnswersOf(m)'
    BY <1>4, <1>8, <2>1, <2>2, <2>4, <2>5 DEF AnswersOf
  <2> QED
    BY <2>3, <2>6, AnswersAfter
<1> QED
  BY <1>1, <1>3, <1>9, <1>10 DEF GoesOn

\* The other steps of a worker.
LEMMA WorkerAnswers ==
  ASSUME BrokerTypeOK, PlacesDistinct, AnswersKept, NEW w \in Workers,
         Worker(w) \/ HandlerCancelled(w)
  PROVE  AnswersKept'
<1>1. ASSUME NEW m \in Messages, wk[w].msg = m
      PROVE  /\ w \in Busy /\ m \notin queue /\ m \notin putting /\ fate[m] = "accepted"
             /\ \A v \in Workers \ {w} : wk[v].msg # m
  BY <1>1, BrokerAssumption DEF PlacesDistinct, BrokerTypeOK, HeldBy, Busy
<1>2. ASSUME w \in Busy PROVE wk[w].msg \in Messages
  BY <1>2 DEF PlacesDistinct
<1>3. CASE LoopTest(w)
  <2>1. wk' = [wk EXCEPT ![w] = Resume] /\ Resume.msg = NoMessage
    BY <1>3 DEF LoopTest, Resume, Idle
  <2> QED
    BY <1>3, <2>1, BrokerAssumption, QuietAnswers DEF LoopTest, BrokerTypeOK, inbox, history
<1>4. CASE DispatchToDlq(w)
  <2>1. PICK m \in Messages : wk[w].msg = m
    BY <1>2, <1>4 DEF DispatchToDlq, Busy
  <2>2. Untouched(m)
    BY <1>4, <2>1 DEF DispatchToDlq, AnswersKept, AnswersOf
  <2>3. /\ dead' = dead \union {<<m, NoAgent>>}
        /\ UNCHANGED <<queue, putting, resolved, acked>>
        /\ fate' = [fate EXCEPT ![m] = "settled"] /\ wk' = [wk EXCEPT ![w] = Resume]
    BY <1>4, <2>1, DeadLetterOne DEF DispatchToDlq, Reasons, Finish, inbox
  <2>4. DeadAsAWhole(m)'
    BY <2>2, <2>3 DEF DeadAsAWhole, Untouched
  <2>5. Resume.msg = NoMessage
    BY DEF Resume, Idle
  <2>6. fate'[m] = "settled" /\ \A v \in Workers : wk'[v].msg # m
    BY <1>1, <2>1, <2>3, <2>5, BrokerAssumption DEF BrokerTypeOK
  <2>7. AnswersOf(m)'
    BY <1>1, <2>1, <2>3, <2>4, <2>6 DEF AnswersOf
  <2>8. Concerns(m)
    BY <2>3, <2>5, BrokerAssumption DEF Concerns, BrokerTypeOK
  <2> QED
    BY <2>7, <2>8, AnswersAfter
<1>5. ASSUME NEW m \in Messages, NEW k, wk[w].msg = m, wk' = [wk EXCEPT ![w] = k], k.msg = m,
             wk[w].pc \in {"handling", "backoff"}, k.pc \in {"handling", "backoff"},
             k.todo = wk[w].todo, k.agent = wk[w].agent,
             UNCHANGED <<queue, putting, fate, resolved, acked, dead>>
      PROVE  AnswersKept'
  <2>1. wk'[w] = k /\ \A v \in Workers \ {w} : wk'[v] = wk[v]
    BY <1>5 DEF BrokerTypeOK
  <2>2. Concerns(m)
    BY <1>5, <2>1 DEF Concerns
  <2>3. AnsweredBut(m, wk[w].todo \union {wk[w].agent})
    BY <1>5 DEF AnswersKept, AnswersOf
  <2>4. AnsweredBut(m, wk[w].todo \union {wk[w].agent})'
    <3>1. wk'[w].todo = wk[w].todo /\ wk'[w].agent = wk[w].agent
      BY <1>5, <2>1
    <3>2. resolved' = resolved /\ acked' = acked /\ dead' = dead
      BY <1>5
    <3> QED
      BY <2>3, <3>1, <3>2 DEF AnsweredBut
  <2>5. m \notin queue' /\ m \notin putting' /\ fate'[m] = "accepted"
    BY <1>1, <1>5
  <2>6. \A v \in Workers : wk'[v].msg = m => v = w
    BY <1>1, <1>5, <2>1
  <2>7. wk'[w].pc # "got"
    BY <1>5, <2>1
  <2>8. AnswersOf(m)'
    <3>1. \A v \in Workers : wk'[v].msg = m =>
            wk'[v].pc # "got" /\ AnsweredBut(m, wk[v].todo \union {wk[v].agent})'
      BY <2>4, <2>6, <2>7, Zenon
    <3> QED
      BY <2>5, <3>1 DEF AnswersOf
  <2> QED
    BY <2>2, <2>8, AnswersAfter
<1>6. CASE HandlerFails(w)
  <2>1. PICK m \in Messages : wk[w].msg = m
    BY <1>2, <1>6 DEF HandlerFails, Busy
  <2> DEFINE k == [wk[w] EXCEPT !.pc = "backoff"]
  <2>2. /\ wk' = [wk EXCEPT ![w] = k] /\ k.msg = m /\ k.pc = "backoff"
        /\ k.todo = wk[w].todo /\ k.agent = wk[w].agent
    BY <1>6, <2>1 DEF HandlerFails, BrokerTypeOK, WorkerStates
  <2> HIDE DEF k
  <2> QED
    BY <1>5, <1>6, <2>1, <2>2 DEF HandlerFails, inbox, history
<1>7. CASE Retry(w)
  <2>1. PICK m \in Messages : wk[w].msg = m
    BY <1>2, <1>7 DEF Retry, Busy
  <2> DEFINE k == [pc |-> "handling", msg |-> wk[w].msg, todo |-> wk[w].todo,
                   agent |-> wk[w].agent, attempt |-> NextAttempt(wk[w].attempt)]
  <2>2. /\ wk' = [wk EXCEPT ![w] = k] /\ k.msg = m /\ k.pc = "handling"
        /\ k.todo = wk[w].todo /\ k.agent = wk[w].agent
    BY <1>7, <2>1 DEF Retry, Call
  <2> HIDE DEF k
  <2> QED
    BY <1>5, <1>7, <2>1, <2>2 DEF Retry, inbox, history
<1>8. ASSUME NEW h \in Messages, DiscardHead(w, h) PROVE AnswersKept'
  <2>1. /\ h \in queue /\ queue' = queue \ {h} /\ fate' = [fate EXCEPT ![h] = "discarded"]
        /\ UNCHANGED <<wk, putting, resolved, acked, dead>>
    BY <1>8 DEF DiscardHead, IsHead, Pop
  <2>2. Concerns(h)
    BY <2>1 DEF Concerns, BrokerTypeOK
  <2>3. h \notin putting /\ \A v \in Workers : wk[v].msg # h
    BY <2>1, BrokerAssumption DEF PlacesDistinct, BrokerTypeOK, HeldBy, Busy
  <2>4. AnswersOf(h)'
    BY <2>1, <2>3 DEF AnswersOf, BrokerTypeOK
  <2> QED
    BY <2>2, <2>4, AnswersAfter
<1>9. ASSUME NEW h \in Messages, Receive(w, h) PROVE AnswersKept'
  <2> DEFINE k == [Idle("got") EXCEPT !.msg = h]
  <2>1. /\ h \in queue /\ queue' = queue \ {h} /\ wk' = [wk EXCEPT ![w] = k]
        /\ k.pc = "got" /\ k.msg = h
        /\ UNCHANGED <<putting, fate, resolved, acked, dead>>
    BY <1>9, GotHeld DEF Receive, IsHead, Pop, history
  <2> HIDE DEF k
  <2>2. wk'[w] = k /\ \A v \in Workers \ {w} : wk'[v] = wk[v]
    BY <2>1 DEF BrokerTypeOK
  <2>3. Concerns(h)
    BY <2>1, <2>2 DEF Concerns
  <2>4. h \notin putting /\ fate[h] = "accepted" /\ \A v \in Workers : wk[v].msg # h
    BY <2>1, BrokerAssumption DEF PlacesDistinct, BrokerTypeOK, HeldBy, Busy
  <2>5. Untouched(h) /\ Untouched(h)'
    BY <2>1 DEF AnswersKept, AnswersOf, Untouched
  <2>6. AnswersOf(h)'
    BY <2>1, <2>2, <2>4, <2>5 DEF AnswersOf
  <2> QED
    BY <2>3, <2>6, AnswersAfter
<1>10. ASSUME NEW a \in Agents, Dispatch(w, a) PROVE AnswersKept'
  <2>1. PICK m \in Messages : wk[w].msg = m
    BY <1>2, <1>10 DEF Dispatch, Busy
  <2> DEFINE all == ResolveTargets(m)
             k == [pc |-> "handling", msg |-> wk[w].msg, todo |-> OtherTargets(m, a),
                   agent |-> a, attempt |-> 1]
  <2>2. /\ wk' = [wk EXCEPT ![w] = k] /\ k.msg = m /\ k.pc = "handling"
        /\ k.todo \union {k.agent} = all /\ a \in all
        /\ resolved' = [resolved EXCEPT ![m] = all]
        /\ UNCHANGED <<queue, putting, fate, acked, dead>>
    BY <1>10, <2>1 DEF Dispatch, Call, OtherTargets, inbox
  <2> HIDE DEF k, all
  <2>3. wk'[w] = k /\ \A v \in Workers \ {w} : wk'[v] = wk[v]
    BY <2>2 DEF BrokerTypeOK
  <2>4. resolved'[m] = all /\ \A n \in Messages \ {m} : resolved'[n] = resolved[n]
    BY <2>2 DEF BrokerTypeOK
  <2>5. Concerns(m)
    BY <2>2, <2>3, <2>4 DEF Concerns
  <2>6. Untouched(m)
    BY <1>10, <2>1 DEF Dispatch, AnswersKept, AnswersOf
  <2>7. AnsweredBut(m, wk[w].todo \union {wk[w].agent})'
    BY <2>2, <2>3, <2>4, <2>6 DEF AnsweredBut, Untouched
  <2>8. AnswersOf(m)'
    BY <1>1, <2>1, <2>2, <2>3, <2>7 DEF AnswersOf
  <2> QED
    BY <2>5, <2>8, AnswersAfter
<1>11. CASE HandlerCancelled(w)
  <2>1. wk' = [wk EXCEPT ![w] = Idle("exited")] /\ Idle("exited").msg = NoMessage
    BY <1>11 DEF HandlerCancelled, Idle
  <2>2. \A n \in Messages : fate'[n] \in {fate[n], "lost"}
    BY <1>11 DEF HandlerCancelled, Abandon
  <2> QED
    BY <1>11, <2>1, <2>2, BrokerAssumption, QuietAnswers DEF HandlerCancelled, BrokerTypeOK, inbox
<1> QED
  BY <1>3, <1>4, <1>6, <1>7, <1>8, <1>9, <1>10, <1>11, TargetAnswers, DeliveryEnds DEF Worker

\* start() and stop() answer nothing.
LEMMA ControllerAnswers ==
  ASSUME BrokerTypeOK, AnswersKept, NEW k \in Controllers,
         Start(k) \/ Stop(k) \/ StopJoined(k) \/ StopGathered(k)
  PROVE  AnswersKept'
<1>1. Idle("loop").msg = NoMessage /\ Idle("exited").msg = NoMessage
  BY DEF Idle
<1>2. UNCHANGED <<queue, putting, resolved, acked, dead>>
  BY DEF Start, Stop, StopJoined, StopGathered, inbox, history
<1>3. \A n \in Messages : fate'[n] \in {fate[n], "lost"}
  BY DEF Start, Stop, StopJoined, StopGathered, Abandon, history
<1>4. \A w \in Workers : wk'[w].msg \in Messages => wk'[w] = wk[w]
  BY <1>1, BrokerAssumption DEF Start, Stop, StopJoined, StopGathered
<1> QED
  BY <1>2, <1>3, <1>4, QuietAnswers

\* Every step keeps the answers right.
LEMMA AnswersStep ==
  BrokerTypeOK /\ PlacesDistinct /\ AnswersKept /\ [Next]_vars => AnswersKept'
<1> SUFFICES ASSUME BrokerTypeOK, PlacesDistinct, AnswersKept, [Next]_vars PROVE AnswersKept'
  OBVIOUS
<1>1. ASSUME Still, UNCHANGED <<wk, resolved, acked, dead>> PROVE AnswersKept'
  BY <1>1, QuietAnswers DEF Still
<1> QED
  BY <1>1, OthersMove, PublishAnswers, WorkerAnswers, ControllerAnswers DEF Next

\* Whatever is retried, unsubscribed or cancelled meanwhile, a message whose dispatch has
\* ended has exactly one answer of each agent it was resolved to: an acknowledgement or a
\* dead letter.
THEOREM AnswersCorrect == Spec => []EveryTargetAnswered
<1>1. Init => AnswersKept
  <2> SUFFICES ASSUME Init PROVE AnswersKept
    OBVIOUS
  <2>1. \A w \in Workers : wk[w].pc = "exited"
    BY IdleHeld DEF Init
  <2> QED
    BY <2>1 DEF Init, AnswersKept, AnswersOf, Untouched
<1>2. BrokerTypeOK /\ AnswersKept => EveryTargetAnswered
  <2> SUFFICES ASSUME BrokerTypeOK, AnswersKept, NEW m \in Messages, fate[m] = "settled"
               PROVE  LET yes == {a \in Agents : <<m, a>> \in acked}
                          no == {a \in Agents \union {NoAgent} : <<m, a>> \in dead}
                      IN  /\ yes \intersect no = {}
                          /\ yes \union no = IF resolved[m] = {} THEN {NoAgent} ELSE resolved[m]
    BY DEF EveryTargetAnswered
  <2>1. DeadAsAWhole(m) \/ AnsweredBut(m, {})
    BY DEF AnswersKept, AnswersOf
  <2>2. resolved[m] \subseteq Agents
    BY DEF BrokerTypeOK
  <2>3. CASE DeadAsAWhole(m)
    BY <2>3 DEF DeadAsAWhole, Receivers
  <2>4. CASE AnsweredBut(m, {})
    <3>1. NoAgent \notin resolved[m]
      BY <2>2, BrokerAssumption
    <3>2. \A a \in Receivers : /\ <<m, a>> \in acked \/ <<m, a>> \in dead <=> a \in resolved[m]
                               /\ ~(<<m, a>> \in acked /\ <<m, a>> \in dead)
      BY <2>4 DEF AnsweredBut
    <3> QED
      BY <2>2, <2>4, <3>1, <3>2 DEF AnsweredBut, Receivers
  <2> QED
    BY <2>1, <2>3, <2>4
<1> QED
  BY <1>1, <1>2, AnswersStep, PlacesAlways, BrokerTypeCorrect, PTL DEF Spec
-----------------------------------------------------------------------------
(* What stop() leaves *)

\* Only one task calls start() and stop().
OneController == \A j, k \in Controllers : j = k

\* While the broker runs or waits for join() it knows its workers; those that are left when
\* they have been cancelled are the ones that gather() waits for.
WorkersKnown ==
  /\ running => Live \subseteq tracked /\ \A k \in Controllers : stopping[k] = "no"
  /\ \A k \in Controllers :
       /\ stopping[k] = "joining" => ~running /\ Live \subseteq tracked
       /\ stopping[k] = "gathering" => ~running /\ Live \subseteq gathered[k]
  /\ StopQuiesces

\* A worker's step makes no worker, and controls nothing.
LEMMA WorkersFewer ==
  ASSUME BrokerTypeOK, NEW w \in Workers, Worker(w) \/ HandlerCancelled(w)
  PROVE  Live' \subseteq Live /\ UNCHANGED lifecycle
<1>1. ASSUME NEW k, wk' = [wk EXCEPT ![w] = k], wk[w].pc # "exited" PROVE Live' \subseteq Live
  BY <1>1 DEF Live, BrokerTypeOK
<1>2. wk[w].pc # "exited" /\ UNCHANGED lifecycle
  BY DEF Worker, LoopTest, DispatchToDlq, HandlerReturns, HandlerFails, HandlerExhausts, Retry,
    RetryVanished, DiscardHead, Receive, Dispatch, HandlerCancelled
<1>3. wk' = wk \/ \E k : wk' = [wk EXCEPT ![w] = k]
  <2>1. ASSUME TargetEnds(w) PROVE \E k : wk' = [wk EXCEPT ![w] = k]
    BY <2>1 DEF TargetEnds, GoesOn, Finish, Call
  <2>2. CASE HandlerFails(w)
    BY <2>2 DEF HandlerFails
  <2> QED
    BY <2>1, <2>2, DeliveryEnds DEF Worker, LoopTest, DispatchToDlq, Retry, DiscardHead, Receive,
      Dispatch, HandlerCancelled, Finish, Call
<1> QED
  BY <1>1, <1>2, <1>3 DEF Live

\* With one controller, every step keeps the workers known.
LEMMA KnownStep ==
  OneController /\ BrokerTypeOK /\ WorkersKnown /\ [Next]_vars => WorkersKnown'
<1> SUFFICES ASSUME OneController, BrokerTypeOK, WorkersKnown, [Next]_vars PROVE WorkersKnown'
  OBVIOUS
<1>1. ASSUME Live' \subseteq Live, UNCHANGED lifecycle PROVE WorkersKnown'
  BY <1>1 DEF WorkersKnown, StopQuiesces, lifecycle
<1>2. ASSUME NEW w \in Workers, Worker(w) \/ HandlerCancelled(w) PROVE WorkersKnown'
  BY <1>1, <1>2, WorkersFewer
<1>3. ASSUME UNCHANGED <<lifecycle, wk>> PROVE WorkersKnown'
  BY <1>1, <1>3 DEF Live
<1>4. ASSUME NEW k \in Controllers, Start(k) PROVE WorkersKnown'
  <2>1. \A j \in Controllers : stopping[j] = "no"
    BY <1>4 DEF Start, OneController
  <2>2. Live = {} /\ ~running
    BY <1>4, <2>1 DEF Start, WorkersKnown, StopQuiesces
  <2>3. PICK new \in SUBSET (Workers \ Live) :
          /\ tracked' = new
          /\ wk' = [w \in Workers |-> IF w \in new THEN Idle("loop") ELSE wk[w]]
    BY <1>4 DEF Start
  <2>4. Live' \subseteq tracked'
    BY <2>2, <2>3 DEF Live
  <2> QED
    BY <1>4, <2>1, <2>4 DEF Start, WorkersKnown, StopQuiesces
<1>5. ASSUME NEW k \in Controllers, Stop(k) PROVE WorkersKnown'
  BY <1>5 DEF Stop, WorkersKnown, StopQuiesces, Live, OneController, BrokerTypeOK
<1>6. ASSUME NEW k \in Controllers, StopJoined(k) PROVE WorkersKnown'
  <2>1. ~running /\ Live \subseteq tracked
    BY <1>6 DEF StopJoined, WorkersKnown
  <2>2. Idle("exited").pc = "exited"
    BY IdleHeld
  <2>3. Live' \subseteq Live
    BY <1>6, <2>2 DEF StopJoined, Live
  <2>4. stopping'[k] = "gathering" /\ gathered'[k] = tracked /\ ~running'
    BY <1>6, <2>1 DEF StopJoined, ToGather, BrokerTypeOK
  <2>5. \A j \in Controllers : j = k
    BY DEF OneController
  <2> QED
    BY <2>1, <2>3, <2>4, <2>5 DEF WorkersKnown, StopQuiesces
<1>7. ASSUME NEW k \in Controllers, StopGathered(k) PROVE WorkersKnown'
  <2>1. ~running /\ Live \subseteq gathered[k]
    BY <1>7 DEF StopGathered, WorkersKnown
  <2>2. Live = {} /\ Live' = {}
    BY <1>7, <2>1 DEF StopGathered, Live
  <2>3. ~running' /\ stopping'[k] = "no"
    BY <1>7, <2>1 DEF StopGathered, BrokerTypeOK
  <2>4. \A j \in Controllers : j = k
    BY DEF OneController
  <2> QED
    BY <2>2, <2>3, <2>4 DEF WorkersKnown, StopQuiesces
<1>8. ASSUME NEW m \in Messages,
             \/ Expire(m) \/ PublishExpired(m) \/ Publish(m)
             \/ PublishWaits(m) \/ PutResumes(m) \/ PublishRejected(m)
      PROVE  WorkersKnown'
  BY <1>3, <1>8 DEF Expire, PublishExpired, Publish, PublishWaits, PutResumes, PublishRejected
<1>9. ASSUME \/ \E a \in Agents : Subscribe(a) \/ Unsubscribe(a)
             \/ \E a \in Agents, t \in Topics : SubscribeTopic(a, t) \/ UnsubscribeTopic(a, t)
             \/ DlqPop \/ DlqClear
             \/ UNCHANGED vars
      PROVE  WorkersKnown'
  BY <1>3, <1>9 DEF Subscribe, Unsubscribe, SubscribeTopic, UnsubscribeTopic, DlqPop, DlqClear, vars
<1> QED
  BY <1>2, <1>4, <1>5, <1>6, <1>7, <1>8, <1>9 DEF Next

\* stop() leaves no dispatch worker behind, not even one that got its message while it was
\* being cancelled, if one task calls start() and stop(); a start() during the stop() of
\* another task does leave workers that nobody waits for.
THEOREM StopCorrect == OneController => (Spec => []StopQuiesces)
<1> SUFFICES ASSUME OneController PROVE Spec => []StopQuiesces
  OBVIOUS
<1>1. Init => WorkersKnown
  BY IdleHeld DEF Init, WorkersKnown, StopQuiesces, Live
<1>2. BrokerTypeOK /\ WorkersKnown /\ [Next]_vars => WorkersKnown'
  BY KnownStep
<1>3. WorkersKnown => StopQuiesces
  BY DEF WorkersKnown
<1> QED
  BY <1>1, <1>2, <1>3, BrokerTypeCorrect, PTL DEF Spec
=============================================================================
