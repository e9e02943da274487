---------------------- MODULE BackpressureQueueProofs ----------------------
(***************************************************************************)
(* Proofs about BackpressureQueue, for every number of threads, every      *)
(* capacity and every pair of watermarks that __init__ accepts.            *)
(***************************************************************************)
EXTENDS BackpressureQueue, FiniteLemmas

\* Drains happen where drain() is called, and a monitor left alone keeps its entry.
Setting ==
  /\ DrainUnbooked # {} => Draining
  /\ ~MonitorChurn => registered

\* What the queue's users do is chosen once.
LEMMA EnvironmentStays ==
  ASSUME [Next]_vars
  PROVE  /\ Draining' <=> Draining
         /\ MonitorChurn' <=> MonitorChurn
<1>1. env' = env
  BY DEF Next, vars, Enqueue, Put, PutFull, CountDrop, SampleEnqueue, ActEnqueue, Dequeue, Get,
         SampleDequeue, ActDequeue, Drain, BeginDrain, DrainOne, DrainEmpty, BookDrain,
         DeregisterQueue, RegisterQueue
<1>2. QED BY <1>1 DEF Draining, MonitorChurn

\* Every action keeps TypeOK.
LEMMA TypeStep == TypeOK /\ [Next]_vars => TypeOK'
<1> SUFFICES ASSUME TypeOK, [Next]_vars PROVE TypeOK'
  OBVIOUS
<1> USE MarksAssumption, ThreadsAssumption DEF TypeOK, PCs, counters, monitor
<1>1. ASSUME NEW t \in Threads, Enqueue(t) PROVE TypeOK'
  <2>1. CASE Put(t)
    BY <2>1 DEF Put, HasRoom
  <2>2. CASE PutFull(t)
    BY <2>2 DEF PutFull
  <2>3. CASE CountDrop(t)
    BY <2>3 DEF CountDrop
  <2>4. CASE SampleEnqueue(t)
    BY <2>4 DEF SampleEnqueue, ReadSize
  <2>5. CASE ActEnqueue(t)
    BY <2>5 DEF ActEnqueue, ReachesHigh, UpdateDepth
  <2>6. QED BY <1>1, <2>1, <2>2, <2>3, <2>4, <2>5 DEF Enqueue
<1>2. ASSUME NEW t \in Threads, Dequeue(t) PROVE TypeOK'
  <2>1. CASE Get(t)
    BY <2>1 DEF Get
  <2>2. CASE SampleDequeue(t)
    BY <2>2 DEF SampleDequeue, ReadSize
  <2>3. CASE ActDequeue(t)
    BY <2>3 DEF ActDequeue, BelowLow, UpdateDepth
  <2>4. QED BY <1>2, <2>1, <2>2, <2>3 DEF Dequeue
<1>3. ASSUME NEW t \in Threads, Drain(t) PROVE TypeOK'
  <2>1. CASE BeginDrain(t)
    BY <2>1 DEF BeginDrain
  <2>2. CASE DrainOne(t)
    BY <2>2 DEF DrainOne
  <2>3. CASE DrainEmpty(t)
    BY <2>3 DEF DrainEmpty
  <2>4. CASE BookDrain(t)
    BY <2>4 DEF BookDrain, DrainCount, UpdateDepth
  <2>5. QED BY <1>3, <2>1, <2>2, <2>3, <2>4 DEF Drain
<1>4. CASE DeregisterQueue \/ RegisterQueue
  <2>1. registered' \in BOOLEAN
    BY <1>4, Zenon DEF DeregisterQueue, RegisterQueue
  <2>2. 0 \in 0..MaxSize
    BY MarksAssumption
  <2>3. QED BY <1>4, <2>1, <2>2 DEF DeregisterQueue, RegisterQueue
<1>5. CASE UNCHANGED vars
  BY <1>5 DEF vars
<1>6. QED BY <1>1, <1>2, <1>3, <1>4, <1>5 DEF Next

\* The queue, its counters and its threads stay in their types.
THEOREM TypeCorrect == Spec => []TypeOK
<1>1. Init => TypeOK
  <2> SUFFICES ASSUME Init PROVE TypeOK
    OBVIOUS
  <2>1. under_pressure \in BOOLEAN /\ registered \in BOOLEAN
    BY Zenon DEF Init
  <2>2. 0 \in 0..MaxSize
    BY MarksAssumption
  <2>3. pc \in [Threads -> PCs] /\ taken \in [Threads -> Nat]
    BY DEF Init, PCs
  <2>4. QED BY <2>1, <2>2, <2>3 DEF Init, TypeOK
<1>2. QED BY <1>1, TypeStep, PTL DEF Spec

\* Every action keeps Setting.
LEMMA SettingStep == TypeOK /\ Setting /\ [Next]_vars => Setting'
<1> SUFFICES ASSUME TypeOK, Setting, [Next]_vars PROVE Setting'
  OBVIOUS
<1> USE EnvironmentStays DEF DrainUnbooked
<1>1. CASE UNCHANGED vars
  BY <1>1 DEF Setting, vars, counters, monitor
<1>2. CASE DeregisterQueue \/ RegisterQueue
  BY <1>2 DEF Setting, DeregisterQueue, RegisterQueue
<1>3. ASSUME NEW t \in Threads, Enqueue(t) \/ Dequeue(t) \/ Drain(t) PROVE Setting'
  BY <1>3
  DEF Setting, TypeOK, Enqueue, Put, HasRoom, PutFull, CountDrop, SampleEnqueue, ReadSize,
      ActEnqueue, ReachesHigh, Dequeue, Get, SampleDequeue, ActDequeue, BelowLow, Drain,
      BeginDrain, DrainOne, DrainEmpty, BookDrain, DrainCount, UpdateDepth, monitor
<1>4. QED BY <1>1, <1>2, <1>3 DEF Next

\* Setting is an invariant.
LEMMA SettingCorrect == Spec => []Setting
<1>1. Init => Setting
  BY DEF Init, Setting, DrainUnbooked
<1>2. QED BY <1>1, SettingStep, TypeCorrect, PTL DEF Spec
-----------------------------------------------------------------------------
\* Every action keeps SampleFresh: while the lock is held no bookkeeping is sampled,
\* so those that announce a newer size stay.
LEMMA SampleStep == TypeOK /\ SampleFresh /\ [Next]_vars => SampleFresh'
<1> SUFFICES ASSUME TypeOK, SampleFresh, [Next]_vars PROVE SampleFresh'
  OBVIOUS
<1> USE MarksAssumption, ThreadsAssumption
    DEF TypeOK, PCs, SampleFresh, PutUnsampled, GotUnsampled, DrainUnbooked, counters, monitor
<1>1. ASSUME NEW t \in Threads, Enqueue(t) PROVE SampleFresh'
  <2>1. CASE Put(t)
    BY <2>1 DEF Put, HasRoom
  <2>2. CASE PutFull(t)
    BY <2>2 DEF PutFull
  <2>3. CASE CountDrop(t)
    BY <2>3 DEF CountDrop
  <2>4. CASE SampleEnqueue(t)
    BY <2>4 DEF SampleEnqueue, ReadSize
  <2>5. CASE ActEnqueue(t)
    BY <2>5 DEF ActEnqueue, ReachesHigh
  <2>6. QED BY <1>1, <2>1, <2>2, <2>3, <2>4, <2>5 DEF Enqueue
<1>2. ASSUME NEW t \in Threads, Dequeue(t) PROVE SampleFresh'
  <2>1. CASE Get(t)
    BY <2>1 DEF Get
  <2>2. CASE SampleDequeue(t)
    BY <2>2 DEF SampleDequeue, ReadSize
  <2>3. CASE ActDequeue(t)
    BY <2>3 DEF ActDequeue, BelowLow
  <2>4. QED BY <1>2, <2>1, <2>2, <2>3 DEF Dequeue
<1>3. ASSUME NEW t \in Threads, Drain(t) PROVE SampleFresh'
  <2>1. CASE BeginDrain(t)
    BY <2>1 DEF BeginDrain
  <2>2. CASE DrainOne(t)
    BY <2>2 DEF DrainOne
  <2>3. CASE DrainEmpty(t)
    BY <2>3 DEF DrainEmpty
  <2>4. CASE BookDrain(t)
    BY <2>4 DEF BookDrain, DrainCount
  <2>5. QED BY <1>3, <2>1, <2>2, <2>3, <2>4 DEF Drain
<1>4. CASE DeregisterQueue \/ RegisterQueue
  BY <1>4 DEF DeregisterQueue, RegisterQueue
<1>5. CASE UNCHANGED vars
  BY <1>5 DEF vars
<1>6. QED BY <1>1, <1>2, <1>3, <1>4, <1>5 DEF Next

\* A stale sample is always followed by the bookkeeping that corrects it.
THEOREM SampleCorrect == Spec => []SampleFresh
<1>1. Init => SampleFresh
  BY DEF Init, SampleFresh
<1>2. QED BY <1>1, SampleStep, TypeCorrect, PTL DEF Spec

\* Every action keeps PressureRaised.
LEMMA RaisedStep ==
  ASSUME TypeOK, Setting, SampleFresh, PressureRaised, [Next]_vars
  PROVE  PressureRaised'
<1> SUFFICES ASSUME ~Draining PROVE PressureRaised'
  BY EnvironmentStays DEF PressureRaised
<1> USE MarksAssumption, ThreadsAssumption
    DEF TypeOK, PCs, SampleFresh, PressureRaised, PutUnsampled, counters, monitor
<1>1. ASSUME NEW t \in Threads, Enqueue(t) PROVE PressureRaised'
  <2>1. CASE Put(t)
    BY <2>1 DEF Put, HasRoom
  <2>2. CASE PutFull(t)
    BY <2>2 DEF PutFull
  <2>3. CASE CountDrop(t)
    BY <2>3 DEF CountDrop
  <2>4. CASE SampleEnqueue(t)
    BY <2>4 DEF SampleEnqueue, ReadSize
  <2>5. CASE ActEnqueue(t)
    <3> SUFFICES ASSUME size' >= HighMark, ~under_pressure' PROVE PutUnsampled' # {}
      OBVIOUS
    <3>0. ~ReachesHigh(sample)
      BY <2>5, Zenon DEF ActEnqueue
    <3>1. sample < size
      BY <2>5, <3>0 DEF ActEnqueue, ReachesHigh
    <3>2. PICK u \in Threads : pc[u] = "put" /\ u # t
      BY <2>5, <3>1 DEF ActEnqueue
    <3>3. u \in PutUnsampled'
      BY <2>5, <3>2 DEF ActEnqueue
    <3>4. QED BY <3>3
  <2>6. QED BY <1>1, <2>1, <2>2, <2>3, <2>4, <2>5 DEF Enqueue
<1>2. ASSUME NEW t \in Threads, Dequeue(t) PROVE PressureRaised'
  <2>1. CASE Get(t)
    BY <2>1 DEF Get
  <2>2. CASE SampleDequeue(t)
    BY <2>2 DEF SampleDequeue, ReadSize
  <2>3. CASE ActDequeue(t)
    BY <2>3 DEF ActDequeue, BelowLow
  <2>4. QED BY <1>2, <2>1, <2>2, <2>3 DEF Dequeue
<1>3. ASSUME NEW t \in Threads, Drain(t) PROVE FALSE
  BY <1>3 DEF Setting, DrainUnbooked, Drain, BeginDrain, DrainOne, DrainEmpty, BookDrain
<1>4. CASE DeregisterQueue \/ RegisterQueue
  BY <1>4 DEF DeregisterQueue, RegisterQueue
<1>5. CASE UNCHANGED vars
  BY <1>5 DEF vars
<1>6. QED BY <1>1, <1>2, <1>3, <1>4, <1>5 DEF Next

\* A queue that is not drained never hides a high fill: at or above the high
\* watermark it is under pressure or an enqueue is about to say so.
THEOREM RaisedCorrect == Spec => []PressureRaised
<1>1. Init => PressureRaised
  BY MarksAssumption DEF Init, PressureRaised
<1>2. TypeOK /\ Setting /\ SampleFresh /\ PressureRaised /\ [Next]_vars => PressureRaised'
  BY RaisedStep
<1>3. QED BY <1>1, <1>2, TypeCorrect, SettingCorrect, SampleCorrect, PTL DEF Spec

\* Every action keeps PressureRelieved.
LEMMA RelievedStep ==
  ASSUME TypeOK, Setting, SampleFresh, PressureRelieved, [Next]_vars
  PROVE  PressureRelieved'
<1> SUFFICES ASSUME ~MonitorChurn PROVE PressureRelieved'
  BY EnvironmentStays DEF PressureRelieved
<1> USE MarksAssumption, ThreadsAssumption
    DEF TypeOK, PCs, SampleFresh, PressureRelieved, GotUnsampled, DrainUnbooked, counters,
        monitor
<1>1. ASSUME NEW t \in Threads, Enqueue(t) PROVE PressureRelieved'
  <2>1. CASE Put(t)
    BY <2>1 DEF Put, HasRoom
  <2>2. CASE PutFull(t)
    BY <2>2 DEF PutFull
  <2>3. CASE CountDrop(t)
    BY <2>3 DEF CountDrop
  <2>4. CASE SampleEnqueue(t)
    BY <2>4 DEF SampleEnqueue, ReadSize
  <2>5. CASE ActEnqueue(t)
    BY <2>5 DEF ActEnqueue, ReachesHigh
  <2>6. QED BY <1>1, <2>1, <2>2, <2>3, <2>4, <2>5 DEF Enqueue
<1>2. ASSUME NEW t \in Threads, Dequeue(t) PROVE PressureRelieved'
  <2>1. CASE Get(t)
    BY <2>1 DEF Get
  <2>2. CASE SampleDequeue(t)
    BY <2>2 DEF SampleDequeue, ReadSize
  <2>3. CASE ActDequeue(t)
    <3> SUFFICES ASSUME size' < LowMark, under_pressure'
                 PROVE  GotUnsampled' # {} \/ DrainUnbooked' # {}
      OBVIOUS
    <3>0. ~BelowLow(sample)
      BY <2>3, Zenon DEF ActDequeue
    <3>1. sample > size
      BY <2>3, <3>0 DEF ActDequeue, BelowLow
    <3>2. PICK u \in Threads : /\ pc[u] \in {"got", "draining", "drained"}
                               /\ u # t
      BY <2>3, <3>1 DEF ActDequeue
    <3>3. u \in GotUnsampled' \/ u \in DrainUnbooked'
      BY <2>3, <3>2 DEF ActDequeue
    <3>4. QED BY <3>3
  <2>4. QED BY <1>2, <2>1, <2>2, <2>3 DEF Dequeue
<1>3. ASSUME NEW t \in Threads, Drain(t) PROVE PressureRelieved'
  <2>1. CASE BeginDrain(t)
    BY <2>1 DEF BeginDrain
  <2>2. CASE DrainOne(t)
    BY <2>2 DEF DrainOne
  <2>3. CASE DrainEmpty(t)
    BY <2>3 DEF DrainEmpty
  <2>4. CASE BookDrain(t)
    BY <2>4 DEF BookDrain, DrainCount, Setting
  <2>5. QED BY <1>3, <2>1, <2>2, <2>3, <2>4 DEF Drain
<1>4. CASE DeregisterQueue \/ RegisterQueue
  BY <1>4 DEF DeregisterQueue, RegisterQueue
<1>5. CASE UNCHANGED vars
  BY <1>5 DEF vars
<1>6. QED BY <1>1, <1>2, <1>3, <1>4, <1>5 DEF Next

\* As long as the monitor keeps its entry, below the low watermark the queue is not
\* under pressure or a dequeue or drain is about to clear the flag.
THEOREM RelievedCorrect == Spec => []PressureRelieved
<1>1. Init => PressureRelieved
  BY DEF Init, PressureRelieved
<1>2. TypeOK /\ Setting /\ SampleFresh /\ PressureRelieved /\ [Next]_vars
        => PressureRelieved'
  BY RelievedStep
<1>3. QED BY <1>1, <1>2, TypeCorrect, SettingCorrect, SampleCorrect, PTL DEF Spec

\* The pressure flag is right on both sides of the watermarks, or about to be put right.
THEOREM PressureCorrect == Spec => []PressureRight
<1>1. PressureRaised /\ PressureRelieved => PressureRight
  BY DEF PressureRight
<1>2. QED BY <1>1, RaisedCorrect, RelievedCorrect, PTL

\* Every action keeps DepthFresh.
LEMMA DepthStep ==
  ASSUME TypeOK, Setting, SampleFresh, DepthFresh, [Next]_vars
  PROVE  DepthFresh'
<1> SUFFICES ASSUME ~Draining, ~MonitorChurn PROVE DepthFresh'
  BY EnvironmentStays DEF DepthFresh, DepthReported
<1> USE MarksAssumption, ThreadsAssumption
    DEF TypeOK, PCs, SampleFresh, DepthFresh, DepthReported, PutUnsampled, GotUnsampled,
        DrainUnbooked, counters, monitor
<1>0. DrainUnbooked = {} /\ registered
  BY DEF Setting
<1>1. ASSUME NEW t \in Threads, Enqueue(t) PROVE DepthFresh'
  <2>1. CASE Put(t)
    BY <2>1 DEF Put, HasRoom
  <2>2. CASE PutFull(t)
    BY <2>2 DEF PutFull
  <2>3. CASE CountDrop(t)
    BY <2>3 DEF CountDrop
  <2>4. CASE SampleEnqueue(t)
    BY <2>4 DEF SampleEnqueue, ReadSize
  <2>5. CASE ActEnqueue(t)
    BY <1>0, <2>5 DEF ActEnqueue, ReachesHigh, UpdateDepth
  <2>6. QED BY <1>1, <2>1, <2>2, <2>3, <2>4, <2>5 DEF Enqueue
<1>2. ASSUME NEW t \in Threads, Dequeue(t) PROVE DepthFresh'
  <2>1. CASE Get(t)
    BY <2>1 DEF Get
  <2>2. CASE SampleDequeue(t)
    BY <2>2 DEF SampleDequeue, ReadSize
  <2>3. CASE ActDequeue(t)
    BY <1>0, <2>3 DEF ActDequeue, BelowLow, UpdateDepth
  <2>4. QED BY <1>2, <2>1, <2>2, <2>3 DEF Dequeue
<1>3. ASSUME NEW t \in Threads, Drain(t) PROVE FALSE
  BY <1>3 DEF Setting, DrainUnbooked, Drain, BeginDrain, DrainOne, DrainEmpty, BookDrain
<1>4. CASE DeregisterQueue \/ RegisterQueue
  BY <1>4 DEF DeregisterQueue, RegisterQueue
<1>5. CASE UNCHANGED vars
  BY <1>5 DEF vars
<1>6. QED BY <1>1, <1>2, <1>3, <1>4, <1>5 DEF Next

\* Without drain(), the depth a registered monitor shows is the queue's size as soon
\* as no call has bookkeeping left to do.
THEOREM DepthCorrect == Spec => []DepthFresh
<1>1. Init => DepthFresh
  BY DEF Init, DepthFresh, DepthReported
<1>2. TypeOK /\ Setting /\ SampleFresh /\ DepthFresh /\ [Next]_vars => DepthFresh'
  BY DepthStep
<1>3. QED BY <1>1, <1>2, TypeCorrect, SettingCorrect, SampleCorrect, PTL DEF Spec
-----------------------------------------------------------------------------
\* The counters of TasksConserved, with the sum in the form that FiniteLemmas is about.
Balanced ==
  enqueued_total + Cardinality(PutUnsampled)
    = dequeued_total + Cardinality(GotUnsampled) + SumOver(taken, Threads) + size

\* Every term of Balanced is a number.
LEMMA TermsType ==
  ASSUME TypeOK
  PROVE  /\ enqueued_total \in Int /\ dequeued_total \in Int /\ size \in Int
         /\ IsFiniteSet(PutUnsampled) /\ Cardinality(PutUnsampled) \in Int
         /\ IsFiniteSet(GotUnsampled) /\ Cardinality(GotUnsampled) \in Int
         /\ SumOver(taken, Threads) \in Int
<1>1. enqueued_total \in Int /\ dequeued_total \in Int /\ size \in Int
  BY MarksAssumption DEF TypeOK
<1>2. IsFiniteSet(PutUnsampled) /\ IsFiniteSet(GotUnsampled)
  BY ThreadsAssumption, FS_Subset DEF PutUnsampled, GotUnsampled
<1>3. Cardinality(PutUnsampled) \in Int /\ Cardinality(GotUnsampled) \in Int
  BY <1>2, FS_CardinalityType
<1>4. SumOver(taken, Threads) \in Int
  BY ThreadsAssumption, SumType DEF TypeOK
<1>5. QED BY <1>1, <1>2, <1>3, <1>4

\* A drain that collects or returns tasks changes the sum by what it changes its own
\* number by.
LEMMA TakenStep ==
  ASSUME TypeOK, NEW t \in Threads, NEW n \in Nat, taken' = [taken EXCEPT ![t] = n]
  PROVE  SumOver(taken', Threads) = SumOver(taken, Threads) - taken[t] + n
<1>1. /\ IsFiniteSet(Threads) /\ \A u \in Threads : taken[u] \in Int /\ taken'[u] \in Int
      /\ taken'[t] = n /\ \A u \in Threads \ {t} : taken'[u] = taken[u]
  BY ThreadsAssumption DEF TypeOK
<1>2. SumOver(taken, Threads) = taken[t] + SumOver(taken, Threads \ {t})
  BY <1>1, SumSplit
<1>3. SumOver(taken', Threads) = taken'[t] + SumOver(taken', Threads \ {t})
  BY <1>1, SumSplit
<1>4. IsFiniteSet(Threads \ {t})
  BY <1>1, FS_RemoveElement
<1>5. SumOver(taken', Threads \ {t}) = SumOver(taken, Threads \ {t})
  BY <1>1, <1>4, SumSame
<1>6. SumOver(taken, Threads \ {t}) \in Int
  BY <1>1, <1>4, SumType
<1>7. QED BY <1>1, <1>2, <1>3, <1>5, <1>6

\* Every action keeps the counters balanced.
LEMMA BalancedStep ==
  ASSUME TypeOK, Balanced, [Next]_vars
  PROVE  Balanced'
<1> USE DEF Balanced
<1>a. TypeOK'
  BY TypeStep
<1>b. /\ enqueued_total \in Int /\ dequeued_total \in Int /\ size \in Int
      /\ IsFiniteSet(PutUnsampled) /\ Cardinality(PutUnsampled) \in Int
      /\ IsFiniteSet(GotUnsampled) /\ Cardinality(GotUnsampled) \in Int
      /\ SumOver(taken, Threads) \in Int
  BY TermsType
<1>c. pc \in [Threads -> PCs] /\ NoThread \notin Threads
  BY ThreadsAssumption DEF TypeOK
<1>d. ASSUME PutUnsampled' = PutUnsampled, GotUnsampled' = GotUnsampled,
             UNCHANGED <<size, counters, taken>>
      PROVE  Balanced'
  BY <1>d DEF counters
<1>1. ASSUME NEW t \in Threads, Put(t) PROVE Balanced'
  <2>1. /\ PutUnsampled' = PutUnsampled \union {t} /\ t \notin PutUnsampled
        /\ GotUnsampled' = GotUnsampled
    <3>1. holder # t
      BY <1>1, <1>c DEF TypeOK, Put
    <3>2. QED BY <1>1, <1>c, <3>1 DEF Put, PutUnsampled, GotUnsampled
  <2>2. Cardinality(PutUnsampled') = Cardinality(PutUnsampled) + 1
    BY <1>b, <2>1, FS_AddElement
  <2>3. size' = size + 1 /\ UNCHANGED <<enqueued_total, dequeued_total, taken>>
    BY <1>1 DEF Put, counters
  <2>4. QED BY <1>b, <2>1, <2>2, <2>3
<1>2. ASSUME NEW t \in Threads, Get(t) PROVE Balanced'
  <2>1. /\ GotUnsampled' = GotUnsampled \union {t} /\ t \notin GotUnsampled
        /\ PutUnsampled' = PutUnsampled
    <3>1. holder # t
      BY <1>2, <1>c DEF TypeOK, Get
    <3>2. QED BY <1>2, <1>c, <3>1 DEF Get, PutUnsampled, GotUnsampled
  <2>2. Cardinality(GotUnsampled') = Cardinality(GotUnsampled) + 1
    BY <1>b, <2>1, FS_AddElement
  <2>3. QED BY <1>2, <1>b, <2>1, <2>2 DEF Get, counters
<1>3. ASSUME NEW t \in Threads, SampleEnqueue(t) PROVE Balanced'
  <2>1. /\ PutUnsampled' = PutUnsampled \ {t} /\ t \in PutUnsampled
        /\ GotUnsampled' = GotUnsampled
    BY <1>3, <1>c DEF SampleEnqueue, PutUnsampled, GotUnsampled
  <2>2. Cardinality(PutUnsampled') = Cardinality(PutUnsampled) - 1
    BY <1>b, <2>1, FS_RemoveElement
  <2>3. QED BY <1>3, <1>b, <2>1, <2>2 DEF SampleEnqueue
<1>4. ASSUME NEW t \in Threads, SampleDequeue(t) PROVE Balanced'
  <2>1. /\ GotUnsampled' = GotUnsampled \ {t} /\ t \in GotUnsampled
        /\ PutUnsampled' = PutUnsampled
    BY <1>4, <1>c DEF SampleDequeue, PutUnsampled, GotUnsampled
  <2>2. Cardinality(GotUnsampled') = Cardinality(GotUnsampled) - 1
    BY <1>b, <2>1, FS_RemoveElement
  <2>3. QED BY <1>4, <1>b, <2>1, <2>2 DEF SampleDequeue
<1>5. ASSUME NEW t \in Threads, DrainOne(t) PROVE Balanced'
  <2>1. GotUnsampled' = GotUnsampled /\ PutUnsampled' = PutUnsampled
    BY <1>5 DEF DrainOne, PutUnsampled, GotUnsampled
  <2>2. /\ taken[t] \in Nat /\ taken[t] + 1 \in Nat
        /\ taken' = [taken EXCEPT ![t] = taken[t] + 1]
    BY <1>5 DEF DrainOne, TypeOK
  <2> DEFINE n == taken[t] + 1
  <2>n. SumOver(taken', Threads) = SumOver(taken, Threads) - taken[t] + n
    <3> HIDE DEF n
    <3> QED BY <2>2, TakenStep DEF n
  <2>3. SumOver(taken', Threads) = SumOver(taken, Threads) + 1
    BY <1>b, <2>2, <2>n
  <2>4. QED BY <1>5, <1>b, <2>1, <2>3 DEF DrainOne, counters
<1>6. ASSUME NEW t \in Threads, BookDrain(t) PROVE Balanced'
  <2>1. GotUnsampled' = GotUnsampled /\ PutUnsampled' = PutUnsampled
    BY <1>6, <1>c DEF BookDrain, PutUnsampled, GotUnsampled
  <2>2. taken[t] \in Nat
    BY DEF TypeOK
  <2>3. SumOver(taken', Threads) = SumOver(taken, Threads) - taken[t]
    <3>1. taken' = [taken EXCEPT ![t] = 0]
      BY <1>6 DEF BookDrain
    <3>2. SumOver(taken', Threads) = SumOver(taken, Threads) - taken[t] + 0
      BY <3>1, TakenStep
    <3>3. QED BY <1>b, <2>2, <3>2
  <2>4. QED BY <1>6, <1>b, <2>1, <2>2, <2>3 DEF BookDrain, DrainCount
<1>7. ASSUME NEW t \in Threads,
             \/ PutFull(t) \/ CountDrop(t) \/ ActEnqueue(t) \/ ActDequeue(t)
             \/ BeginDrain(t) \/ DrainEmpty(t)
      PROVE  Balanced'
  <2>1. PutUnsampled' = PutUnsampled /\ GotUnsampled' = GotUnsampled
    BY <1>7, <1>c
    DEF PutFull, CountDrop, ActEnqueue, ActDequeue, BeginDrain, DrainEmpty, PutUnsampled,
        GotUnsampled
  <2>2. UNCHANGED <<size, enqueued_total, dequeued_total, taken>>
    BY <1>7
    DEF PutFull, CountDrop, ActEnqueue, ActDequeue, BeginDrain, DrainEmpty, counters
  <2>3. QED BY <2>1, <2>2
<1>8. CASE DeregisterQueue \/ RegisterQueue \/ UNCHANGED vars
  <2>1. UNCHANGED <<size, counters, taken, pc, holder>>
    BY <1>8 DEF DeregisterQueue, RegisterQueue, vars
  <2>2. PutUnsampled' = PutUnsampled /\ GotUnsampled' = GotUnsampled
    BY <2>1 DEF PutUnsampled, GotUnsampled
  <2>3. QED BY <1>d, <2>1, <2>2
<1>9. QED
  BY <1>1, <1>2, <1>3, <1>4, <1>5, <1>6, <1>7, <1>8 DEF Next, Enqueue, Dequeue, Drain

\* No task is duplicated or forgotten by the counters, and every task that a call removes
\* is returned by it as long as the monitor knows the queue.
THEOREM TasksCorrect == Spec => []TasksConserved
<1> DEFINE NothingLost == ~MonitorChurn => lost = 0
<1>1. Init => Balanced /\ NothingLost
  <2> SUFFICES ASSUME Init PROVE Balanced /\ NothingLost
    OBVIOUS
  <2>1. PutUnsampled = {} /\ GotUnsampled = {}
    BY DEF Init, PutUnsampled, GotUnsampled
  <2>2. \A t \in Threads : taken[t] \in 0..0
    BY DEF Init
  <2>3. SumOver(taken, Threads) \in 0..(Cardinality(Threads) * 0)
    BY <2>2, SumBounds, ThreadsAssumption
  <2>4. SumOver(taken, Threads) = 0
    BY <2>3, FS_CardinalityType, ThreadsAssumption
  <2>5. Cardinality(PutUnsampled) = 0 /\ Cardinality(GotUnsampled) = 0
    BY <2>1, FS_EmptySet
  <2>6. QED BY <2>4, <2>5 DEF Init, Balanced
<1>2. TypeOK /\ Setting /\ Balanced /\ NothingLost /\ [Next]_vars => Balanced' /\ NothingLost'
  <2> SUFFICES ASSUME TypeOK, Setting, Balanced, NothingLost, [Next]_vars
               PROVE  Balanced' /\ NothingLost'
    OBVIOUS
  <2>1. Balanced'
    BY BalancedStep
  <2>2. ASSUME ~MonitorChurn' PROVE lost' = 0
    <3>1. ~MonitorChurn /\ registered /\ lost = 0
      BY <2>2, EnvironmentStays DEF Setting
    <3>2. QED
      BY <3>1
      DEF Next, vars, Enqueue, Put, PutFull, CountDrop, SampleEnqueue, ActEnqueue, Dequeue,
          Get, SampleDequeue, ActDequeue, Drain, BeginDrain, DrainOne, DrainEmpty, BookDrain,
          DeregisterQueue, RegisterQueue
  <2>3. QED BY <2>1, <2>2
<1>3. Balanced /\ NothingLost => TasksConserved
  BY SumIsMapThenSum DEF Balanced, TasksConserved
<1>4. QED BY <1>1, <1>2, <1>3, TypeCorrect, SettingCorrect, PTL DEF Spec
=============================================================================
