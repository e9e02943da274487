------------------------ MODULE CircuitBreakerProofs ------------------------
(***************************************************************************)
(* Proofs about CircuitBreaker, for every configuration that               *)
(* CircuitBreakerConfig accepts and every finite set of callers.           *)
(***************************************************************************)
EXTENDS CircuitBreaker, FiniteSetTheorems, TLAPS

\* _transition_to takes a well-formed breaker to a well-formed breaker.
LEMMA TransitionToType ==
  ASSUME NEW b \in Breakers, NEW new \in States
  PROVE  TransitionTo(b, new) \in Breakers
  BY ConfigAssumption DEF Breakers, States, NotOpened, TransitionTo, FailuresAfter

\* The lazy transition, the admission and the two record_ methods keep the breaker
\* well-formed.
LEMMA OperationsType ==
  ASSUME NEW b \in Breakers
  PROVE  /\ MaybeTransitionToHalfOpen(b) \in Breakers
         /\ Admitted(b) \in Breakers
         /\ AfterSuccess(b) \in Breakers
         /\ AfterFailure(b) \in Breakers
<1>1. MaybeTransitionToHalfOpen(b) \in Breakers
  BY TransitionToType DEF MaybeTransitionToHalfOpen, States
<1>2. Admitted(b) \in Breakers
  BY DEF Admitted, Breakers
<1>3. AfterSuccess(b) \in Breakers
  <2>1. CASE b.state = "closed"
    BY <2>1 DEF AfterSuccess, EnoughSuccesses, Forgiven, Breakers
  <2>2. CASE b.state = "half_open"
    BY <2>2, TransitionToType DEF AfterSuccess, EnoughSuccesses, Forgiven, Breakers, States
  <2>3. CASE b.state = "open"
    BY <2>3 DEF AfterSuccess, EnoughSuccesses, Forgiven
  <2>4. QED BY <2>1, <2>2, <2>3 DEF Breakers, States
<1>4. AfterFailure(b) \in Breakers
  <2>1. CASE b.state = "closed"
    BY <2>1, TransitionToType DEF AfterFailure, Breakers, States
  <2>2. CASE b.state = "half_open"
    BY <2>2, TransitionToType DEF AfterFailure, States
  <2>3. CASE b.state = "open"
    BY <2>3 DEF AfterFailure
  <2>4. QED BY <2>1, <2>2, <2>3 DEF Breakers, States
<1>5. QED BY <1>1, <1>2, <1>3, <1>4

\* A saturating counter stays a natural number.
LEMMA BumpType == ASSUME NEW n \in Nat PROVE Bump(n) \in Nat
  BY DEF Bump

\* Every action keeps TypeOK.
LEMMA TypeStep == TypeOK /\ [Next]_vars => TypeOK'
<1> SUFFICES ASSUME TypeOK, [Next]_vars PROVE TypeOK'
  OBVIOUS
<1> USE DEF TypeOK
<1>1. CASE Tick
  BY <1>1, ConfigAssumption DEF Tick, Breakers, NotOpened, Totals
<1>2. CASE ReadState
  BY <1>2, OperationsType DEF ReadState, CloseWindow
<1>3. CASE RecordSuccess
  BY <1>3, OperationsType, BumpType DEF RecordSuccess, CloseWindow, Totals
<1>4. CASE RecordFailure
  BY <1>4, OperationsType, BumpType DEF RecordFailure, CloseWindow, Totals
<1>5. CASE Reset
  BY <1>5, TransitionToType DEF Reset, CloseWindow, States
<1>6. ASSUME NEW c \in Callers, ExecuteRejected(c) PROVE TypeOK'
  BY <1>6, OperationsType, BumpType DEF ExecuteRejected, CountRejection, CloseWindow, Totals
<1>7. ASSUME NEW c \in Callers, ExecuteAdmitted(c) PROVE TypeOK'
  BY <1>7, OperationsType, BumpType DEF ExecuteAdmitted, Totals
<1>8. ASSUME NEW c \in Callers, ExecuteSucceeded(c) PROVE TypeOK'
  BY <1>8, OperationsType, BumpType DEF ExecuteSucceeded, Totals
<1>9. ASSUME NEW c \in Callers, ExecuteFailed(c) PROVE TypeOK'
  BY <1>9, OperationsType, BumpType DEF ExecuteFailed, Totals
<1>10. ASSUME NEW c \in Callers, ExecuteInterrupted(c) PROVE TypeOK'
  BY <1>10 DEF ExecuteInterrupted
<1>11. CASE UNCHANGED vars
  BY <1>11 DEF vars
<1>12. QED
  BY <1>1, <1>2, <1>3, <1>4, <1>5, <1>6, <1>7, <1>8, <1>9, <1>10, <1>11 DEF Next

\* The breaker, its metrics and its callers stay in their types.
THEOREM TypeCorrect == Spec => []TypeOK
<1>1. Init => TypeOK
  BY ConfigAssumption
  DEF Init, TypeOK, FreshBreaker, Breakers, States, NotOpened, Totals
<1>2. QED BY <1>1, TypeStep, PTL DEF Spec
-----------------------------------------------------------------------------
\* Each operation takes a breaker whose counters match its state to another one.
LEMMA OperationsConsistent ==
  ASSUME NEW b \in Breakers, Consistent(b)
  PROVE  /\ Consistent(MaybeTransitionToHalfOpen(b))
         /\ ~Rejects(b) => Consistent(Admitted(b))
         /\ Consistent(AfterSuccess(b))
         /\ Consistent(AfterFailure(b))
         /\ Consistent(TransitionTo(b, "closed"))
<1> USE ConfigAssumption DEF Consistent, NotOpened
<1>1. Consistent(MaybeTransitionToHalfOpen(b))
  BY DEF MaybeTransitionToHalfOpen, RecoveryDue, TransitionTo, FailuresAfter, Breakers
<1>2. ~Rejects(b) => Consistent(Admitted(b))
  BY DEF Rejects, Admitted, Breakers
<1>3. Consistent(TransitionTo(b, "closed")) /\ Consistent(TransitionTo(b, "open"))
  BY DEF TransitionTo, FailuresAfter, Breakers
<1>4. Consistent(AfterSuccess(b))
  <2>1. CASE b.state = "closed"
    BY <2>1 DEF AfterSuccess, EnoughSuccesses, Forgiven, Breakers
  <2>2. CASE b.state = "half_open"
    BY <2>2, <1>3 DEF AfterSuccess, EnoughSuccesses, Forgiven, Breakers
  <2>3. CASE b.state = "open"
    BY <2>3 DEF AfterSuccess, EnoughSuccesses, Forgiven
  <2>4. QED BY <2>1, <2>2, <2>3 DEF Breakers, States
<1>5. Consistent(AfterFailure(b))
  <2>1. CASE b.state = "closed"
    BY <2>1, <1>3 DEF AfterFailure, Breakers
  <2>2. CASE b.state = "half_open"
    BY <2>2, <1>3 DEF AfterFailure
  <2>3. CASE b.state = "open"
    BY <2>3 DEF AfterFailure
  <2>4. QED BY <2>1, <2>2, <2>3 DEF Breakers, States
<1>6. QED BY <1>1, <1>2, <1>3, <1>4, <1>5

\* Every action keeps the counters matched to the state.
LEMMA CountersStep ==
  TypeOK /\ CountersMatchState /\ [Next]_vars => CountersMatchState'
<1> SUFFICES ASSUME TypeOK, Consistent(cb), [Next]_vars PROVE Consistent(cb')
  BY DEF CountersMatchState, Consistent
<1>0. cb \in Breakers
  BY DEF TypeOK
<1>1. CASE Tick
  BY <1>0, <1>1, ConfigAssumption DEF Tick, Consistent, Breakers, NotOpened
<1>2. CASE ReadState
  BY <1>0, <1>2, OperationsConsistent DEF ReadState
<1>3. CASE RecordSuccess
  BY <1>0, <1>3, OperationsConsistent DEF RecordSuccess
<1>4. CASE RecordFailure
  BY <1>0, <1>4, OperationsConsistent DEF RecordFailure
<1>5. CASE Reset
  BY <1>0, <1>5, OperationsConsistent DEF Reset
<1>6. ASSUME NEW c \in Callers, ExecuteRejected(c) PROVE Consistent(cb')
  BY <1>0, <1>6, OperationsConsistent DEF ExecuteRejected, CountRejection
<1>7. ASSUME NEW c \in Callers, ExecuteAdmitted(c) PROVE Consistent(cb')
  BY <1>0, <1>7, OperationsConsistent, OperationsType DEF ExecuteAdmitted
<1>8. ASSUME NEW c \in Callers, ExecuteSucceeded(c) PROVE Consistent(cb')
  BY <1>0, <1>8, OperationsConsistent DEF ExecuteSucceeded
<1>9. ASSUME NEW c \in Callers, ExecuteFailed(c) PROVE Consistent(cb')
  BY <1>0, <1>9, OperationsConsistent DEF ExecuteFailed
<1>10. ASSUME NEW c \in Callers, ExecuteInterrupted(c) PROVE Consistent(cb')
  BY <1>10 DEF ExecuteInterrupted
<1>11. CASE UNCHANGED vars
  BY <1>11 DEF vars
<1>12. QED
  BY <1>1, <1>2, <1>3, <1>4, <1>5, <1>6, <1>7, <1>8, <1>9, <1>10, <1>11 DEF Next

\* The counters always match the state, whatever calls admitted in earlier states
\* report.
THEOREM CountersCorrect == Spec => []CountersMatchState
<1>1. Init => CountersMatchState
  BY ConfigAssumption DEF Init, CountersMatchState, Consistent, FreshBreaker
<1>2. QED BY <1>1, CountersStep, TypeCorrect, PTL DEF Spec
-----------------------------------------------------------------------------
\* The sets of callers are finite, so that their sizes are natural numbers.
LEMMA CallerSets ==
  ASSUME NEW S \in SUBSET Callers
  PROVE  /\ IsFiniteSet(S)
         /\ Cardinality(S) \in Nat
         /\ Cardinality(S) = 0 <=> S = {}
         /\ \A c \in Callers \ S : Cardinality(S \union {c}) = Cardinality(S) + 1
         /\ \A c \in S : Cardinality(S \ {c}) = Cardinality(S) - 1
<1>1. IsFiniteSet(S)
  BY CallersAssumption, FS_Subset
<1>2. QED
  BY <1>1, FS_CardinalityType, FS_EmptySet, FS_AddElement, FS_RemoveElement

\* A window of HALF_OPEN that begins or ends leaves no probe slot taken.
LEMMA FreshWindow ==
  ASSUME NEW b \in Breakers, NEW new \in States
  PROVE  /\ TransitionTo(b, new).half_open_call_count = 0
         /\ TransitionTo(b, new).success_count = 0
         /\ TransitionTo(b, new).state = new
  BY DEF TransitionTo, FailuresAfter

\* An operation either stays in the breaker's state, with the effect stated here, or
\* clears the probe counters.
LEMMA OperationsOnSlots ==
  ASSUME NEW b \in Breakers, Consistent(b)
  PROVE  /\ \/ MaybeTransitionToHalfOpen(b) = b
            \/ /\ b.state # "half_open"
               /\ MaybeTransitionToHalfOpen(b).state = "half_open"
               /\ MaybeTransitionToHalfOpen(b).half_open_call_count = 0
               /\ MaybeTransitionToHalfOpen(b).success_count = 0
         /\ LET a == AfterSuccess(b)
            IN  IF a.state = b.state
                  THEN /\ a.half_open_call_count = b.half_open_call_count
                       /\ a.success_count = IF b.state = "half_open"
                                              THEN b.success_count + 1
                                              ELSE b.success_count
                  ELSE a.half_open_call_count = 0 /\ a.success_count = 0
         /\ LET a == AfterFailure(b)
            IN  /\ a.state = b.state => /\ b.state # "half_open"
                                        /\ a.half_open_call_count = 0
                                        /\ a.success_count = 0
                /\ a.state # b.state => /\ a.half_open_call_count = 0
                                        /\ a.success_count = 0
<1>1. \/ MaybeTransitionToHalfOpen(b) = b
      \/ /\ b.state # "half_open"
         /\ MaybeTransitionToHalfOpen(b).state = "half_open"
         /\ MaybeTransitionToHalfOpen(b).half_open_call_count = 0
         /\ MaybeTransitionToHalfOpen(b).success_count = 0
  BY FreshWindow DEF MaybeTransitionToHalfOpen, RecoveryDue, States
<1>2. LET a == AfterSuccess(b)
      IN  IF a.state = b.state
            THEN /\ a.half_open_call_count = b.half_open_call_count
                 /\ a.success_count = IF b.state = "half_open"
                                        THEN b.success_count + 1
                                        ELSE b.success_count
            ELSE a.half_open_call_count = 0 /\ a.success_count = 0
  <2>1. CASE b.state = "closed"
    BY <2>1 DEF AfterSuccess, EnoughSuccesses, Forgiven, Breakers
  <2>2. CASE b.state = "half_open"
    BY <2>2, FreshWindow DEF AfterSuccess, EnoughSuccesses, Forgiven, Breakers, States
  <2>3. CASE b.state = "open"
    BY <2>3 DEF AfterSuccess, EnoughSuccesses, Forgiven
  <2>4. QED BY <2>1, <2>2, <2>3 DEF Breakers, States
<1>3. LET a == AfterFailure(b)
      IN  /\ a.state = b.state => /\ b.state # "half_open"
                                  /\ a.half_open_call_count = 0
                                  /\ a.success_count = 0
          /\ a.state # b.state => /\ a.half_open_call_count = 0
                                  /\ a.success_count = 0
  <2>1. CASE b.state = "closed"
    BY <2>1, FreshWindow DEF AfterFailure, Breakers, States, Consistent
  <2>2. CASE b.state = "half_open"
    BY <2>2, FreshWindow DEF AfterFailure, States
  <2>3. CASE b.state = "open"
    BY <2>3 DEF AfterFailure, Consistent
  <2>4. QED BY <2>1, <2>2, <2>3 DEF Breakers, States
<1>4. QED BY <1>1, <1>2, <1>3

\* Outside HALF_OPEN there are no probes and no verdicts.
LEMMA NoProbesOutside ==
  ASSUME TypeOK, CountersMatchState, SlotsAccountedFor, cb.state # "half_open"
  PROVE  /\ probing = {} /\ verdicts = 0
         /\ cb.half_open_call_count = 0 /\ cb.success_count = 0
<1>1. probing \in SUBSET Callers
  BY DEF TypeOK
<1>2. cb.half_open_call_count = 0 /\ cb.success_count = 0
  BY DEF TypeOK, Breakers, States, CountersMatchState, Consistent
<1>3. Cardinality(probing) \in Nat /\ verdicts \in Nat
  BY <1>1, CallerSets DEF TypeOK
<1>4. Cardinality(probing) = 0 /\ verdicts = 0
  BY <1>2, <1>3 DEF SlotsAccountedFor
<1>5. QED BY <1>1, <1>2, <1>4, CallerSets

\* What the breaker's users do is chosen once.
LEMMA EnvironmentStays ==
  ASSUME [Next]_vars
  PROVE  /\ Interruptible' <=> Interruptible
         /\ ManualRecording' <=> ManualRecording
<1>1. env' = env
  BY DEF Next, vars, Tick, ReadState, RecordSuccess, RecordFailure, Reset, ExecuteRejected,
         ExecuteAdmitted, ExecuteSucceeded, ExecuteFailed, ExecuteInterrupted
<1>2. QED BY <1>1 DEF Interruptible, ManualRecording

\* Every action keeps the account of the probe slots.
LEMMA SlotsStep ==
  ASSUME TypeOK, CountersMatchState, SlotsAccountedFor, [Next]_vars
  PROVE  SlotsAccountedFor'
<1>0. /\ cb \in Breakers /\ Consistent(cb)
      /\ probing \in SUBSET Callers /\ probing \subseteq running
      /\ verdicts \in Nat /\ Cardinality(probing) \in Nat
      /\ cb.half_open_call_count \in Nat /\ cb.success_count \in Nat
      /\ Cardinality({}) = 0
      /\ Interruptible' <=> Interruptible
  BY CallerSets, FS_EmptySet, EnvironmentStays DEF TypeOK, CountersMatchState, Breakers
<1> USE DEF SlotsAccountedFor
<1>1. CASE Tick
  BY <1>0, <1>1 DEF Tick, Breakers
<1>2. CASE ReadState
  BY <1>0, <1>2, OperationsOnSlots DEF ReadState, CloseWindow
<1>3. CASE RecordSuccess
  <2>1. \/ /\ cb'.half_open_call_count = cb.half_open_call_count
           /\ cb'.success_count \in {cb.success_count, cb.success_count + 1}
           /\ UNCHANGED <<probing, verdicts>>
        \/ /\ cb'.half_open_call_count = 0 /\ cb'.success_count = 0
           /\ probing' = {} /\ verdicts' = 0
    BY <1>0, <1>3, OperationsOnSlots DEF RecordSuccess, CloseWindow
  <2>2. QED BY <1>0, <2>1
<1>4. CASE RecordFailure
  BY <1>0, <1>4, OperationsOnSlots, NoProbesOutside DEF RecordFailure, CloseWindow
<1>5. CASE Reset
  <2>1. /\ cb'.half_open_call_count = 0 /\ cb'.success_count = 0
        /\ cb'.state = "closed"
    BY <1>0, <1>5, FreshWindow DEF Reset, States
  <2>2. probing' = {} /\ verdicts' = 0
    BY <1>5, <2>1, NoProbesOutside DEF Reset, CloseWindow
  <2>3. QED BY <1>0, <2>1, <2>2
<1>6. ASSUME NEW c \in Callers, ExecuteRejected(c) PROVE SlotsAccountedFor'
  <2>1. cb' = MaybeTransitionToHalfOpen(cb)
    BY <1>6 DEF ExecuteRejected, CountRejection
  <2>2. CASE cb' = cb
    BY <1>0, <1>6, <2>2 DEF ExecuteRejected, CountRejection, CloseWindow
  <2>3. CASE cb' # cb
    <3>1. /\ cb'.state # cb.state
          /\ cb'.half_open_call_count = 0 /\ cb'.success_count = 0
      BY <1>0, <2>1, <2>3, OperationsOnSlots
    <3>2. probing' = {} /\ verdicts' = 0
      BY <1>6, <3>1 DEF ExecuteRejected, CountRejection, CloseWindow
    <3>3. QED BY <1>0, <3>1, <3>2
  <2>4. QED BY <2>2, <2>3
<1>7. ASSUME NEW c \in Callers, ExecuteAdmitted(c) PROVE SlotsAccountedFor'
  <2> DEFINE b == MaybeTransitionToHalfOpen(cb)
  <2>1. b \in Breakers
    BY <1>0, OperationsType
  <2>2. /\ cb' = Admitted(b) /\ c \notin probing
        /\ probing' = IF b.state = "half_open"
                        THEN (IF b.state = cb.state THEN probing ELSE {}) \union {c}
                        ELSE (IF b.state = cb.state THEN probing ELSE {})
        /\ verdicts' = IF b.state = cb.state THEN verdicts ELSE 0
    BY <1>0, <1>7 DEF ExecuteAdmitted
  <2>3. CASE b = cb /\ cb.state = "half_open"
    <3>1. Cardinality(probing') = Cardinality(probing) + 1
      BY <1>0, <2>2, <2>3, CallerSets
    <3>2. /\ cb'.half_open_call_count = cb.half_open_call_count + 1
          /\ cb'.success_count = cb.success_count
      BY <2>1, <2>2, <2>3 DEF Admitted, Breakers
    <3>3. QED BY <1>0, <2>2, <2>3, <3>1, <3>2
  <2>4. CASE b = cb /\ cb.state # "half_open"
    BY <1>0, <2>2, <2>4 DEF Admitted
  <2>5. CASE b # cb
    <3>1. /\ b.state = "half_open" /\ b.state # cb.state
          /\ b.half_open_call_count = 0 /\ b.success_count = 0
      BY <1>0, <2>5, OperationsOnSlots
    <3>2. probing' = {} \union {c} /\ verdicts' = 0
      BY <2>2, <3>1
    <3>3. Cardinality(probing') = 1
      BY <3>2, FS_Singleton
    <3>4. cb'.half_open_call_count = 1 /\ cb'.success_count = 0
      BY <2>1, <2>2, <3>1 DEF Admitted, Breakers
    <3>5. QED BY <3>2, <3>3, <3>4
  <2>6. QED BY <2>3, <2>4, <2>5
<1>8. ASSUME NEW c \in Callers, ExecuteSucceeded(c) PROVE SlotsAccountedFor'
  <2>1. cb' = AfterSuccess(cb)
    BY <1>8 DEF ExecuteSucceeded
  <2>2. CASE cb'.state # cb.state
    <3>1. cb'.half_open_call_count = 0 /\ cb'.success_count = 0
      BY <1>0, <2>1, <2>2, OperationsOnSlots
    <3>2. probing' = {} /\ verdicts' = 0
      BY <1>8, <2>2 DEF ExecuteSucceeded
    <3>3. QED BY <1>0, <3>1, <3>2
  <2>3. CASE cb'.state = cb.state
    <3>1. /\ cb'.half_open_call_count = cb.half_open_call_count
          /\ cb'.success_count = IF cb.state = "half_open"
                                   THEN cb.success_count + 1 ELSE cb.success_count
          /\ probing' = probing \ {c}
          /\ verdicts' = IF c \in probing THEN verdicts + 1 ELSE verdicts
      BY <1>0, <1>8, <2>1, <2>3, OperationsOnSlots DEF ExecuteSucceeded
    <3>2. CASE c \in probing
      <4>1. cb.state = "half_open"
        BY <3>2, NoProbesOutside
      <4>2. Cardinality(probing') = Cardinality(probing) - 1
        BY <1>0, <3>1, <3>2, CallerSets
      <4>3. QED BY <1>0, <3>1, <3>2, <4>1, <4>2
    <3>3. CASE c \notin probing
      <4>1. probing' = probing /\ verdicts' = verdicts
        BY <3>1, <3>3
      <4>2. cb'.success_count >= cb.success_count
        BY <1>0, <3>1
      <4>3. cb'.half_open_call_count = cb.half_open_call_count
        BY <3>1
      <4>4. QED BY <1>0, <4>1, <4>2, <4>3, <3>1
    <3>4. QED BY <3>2, <3>3
  <2>4. QED BY <2>2, <2>3
<1>9. ASSUME NEW c \in Callers, ExecuteFailed(c) PROVE SlotsAccountedFor'
  <2>1. cb' = AfterFailure(cb)
    BY <1>9 DEF ExecuteFailed
  <2>2. cb'.half_open_call_count = 0 /\ cb'.success_count = 0
    BY <1>0, <2>1, OperationsOnSlots
  <2>3. probing' = {} /\ verdicts' = 0
    BY <1>0, <1>9, <2>1, OperationsOnSlots, NoProbesOutside DEF ExecuteFailed
  <2>4. QED BY <1>0, <2>2, <2>3
<1>10. ASSUME NEW c \in Callers, ExecuteInterrupted(c) PROVE SlotsAccountedFor'
  <2>1. Cardinality(probing') <= Cardinality(probing) /\ Cardinality(probing') \in Nat
    <3>1. CASE c \in probing
      BY <1>0, <1>10, <3>1, CallerSets DEF ExecuteInterrupted
    <3>2. CASE c \notin probing
      <4>1. probing' = probing
        BY <1>10, <3>2 DEF ExecuteInterrupted
      <4>2. QED BY <1>0, <4>1
    <3>3. QED BY <3>1, <3>2
  <2>2. QED BY <1>0, <1>10, <2>1 DEF ExecuteInterrupted
<1>11. CASE UNCHANGED vars
  BY <1>0, <1>11 DEF vars
<1>12. QED
  BY <1>1, <1>2, <1>3, <1>4, <1>5, <1>6, <1>7, <1>8, <1>9, <1>10, <1>11 DEF Next

\* execute() neither loses a probe slot nor hands one out twice.
THEOREM SlotsCorrect == Spec => []SlotsAccountedFor
<1>1. Init => SlotsAccountedFor
  BY FS_EmptySet DEF Init, SlotsAccountedFor, FreshBreaker
<1>2. QED BY <1>1, SlotsStep, TypeCorrect, CountersCorrect, PTL DEF Spec

\* As long as every callable ends in a return or an Exception, a half-open circuit
\* is never left without a free slot and without a running probe.
THEOREM NeverWedgedCorrect == Spec => []NeverWedged
<1>1. TypeOK /\ CountersMatchState /\ SlotsAccountedFor => NeverWedged
  <2> SUFFICES ASSUME TypeOK, CountersMatchState, SlotsAccountedFor,
                      cb.state = "half_open", ~Interruptible,
                      ~(cb.half_open_call_count < HalfOpenMaxCalls),
                      probing = {}
               PROVE  FALSE
    BY DEF NeverWedged
  <2>1. Cardinality(probing) = 0
    BY FS_EmptySet
  <2>2. /\ cb.success_count \in Nat /\ cb.half_open_call_count \in Nat
        /\ verdicts \in Nat
    BY DEF TypeOK, Breakers
  <2>3. cb.half_open_call_count = verdicts /\ verdicts <= cb.success_count
    BY <2>1, <2>2 DEF SlotsAccountedFor
  <2>4. cb.success_count < SuccessThreshold
    BY DEF CountersMatchState, Consistent
  <2>5. QED BY <2>2, <2>3, <2>4, ConfigAssumption
<1>2. QED BY <1>1, TypeCorrect, CountersCorrect, SlotsCorrect, PTL
-----------------------------------------------------------------------------
\* Every action keeps the balance of the metrics.
LEMMA CallsStep ==
  ASSUME TypeOK, CallsAccountedFor, [Next]_vars
  PROVE  CallsAccountedFor'
<1> USE EnvironmentStays
<1> SUFFICES ASSUME ~ManualRecording, total'.calls < MaxTotal
             PROVE  LET settled == total'.successes + total'.failures + Cardinality(running')
                    IN  /\ settled <= total'.calls
                        /\ ~Interruptible => settled = total'.calls
  BY DEF CallsAccountedFor
<1>0. /\ total \in Totals /\ running \in SUBSET Callers /\ MaxTotal \in Nat
      /\ Cardinality(running) \in Nat
      /\ total.calls \in Nat /\ total.successes \in Nat /\ total.failures \in Nat
  BY CallerSets, CallersAssumption DEF TypeOK, Totals
<1> USE DEF CallsAccountedFor
<1>1. CASE Tick \/ ReadState \/ Reset
  BY <1>0, <1>1 DEF Tick, ReadState, Reset
<1>2. CASE RecordSuccess \/ RecordFailure
  BY <1>2 DEF RecordSuccess, RecordFailure
<1>3. ASSUME NEW c \in Callers, ExecuteRejected(c) PROVE CallsAccountedFor'
  BY <1>0, <1>3 DEF ExecuteRejected, CountRejection, Totals
<1>4. ASSUME NEW c \in Callers, ExecuteAdmitted(c) PROVE CallsAccountedFor'
  <2>1. Cardinality(running') = Cardinality(running) + 1
    BY <1>0, <1>4, CallerSets DEF ExecuteAdmitted
  <2>2. /\ total'.calls = Bump(total.calls)
        /\ total'.successes = total.successes
        /\ total'.failures = total.failures
    BY <1>0, <1>4 DEF ExecuteAdmitted, Totals
  <2>3. total.calls < MaxTotal /\ total'.calls = total.calls + 1
    BY <1>0, <2>2 DEF Bump
  <2>4. QED BY <1>0, <2>1, <2>2, <2>3
<1>5. ASSUME NEW c \in Callers, ExecuteSucceeded(c) \/ ExecuteFailed(c)
      PROVE  CallsAccountedFor'
  <2>1. Cardinality(running') = Cardinality(running) - 1 /\ Cardinality(running) # 0
    BY <1>0, <1>5, CallerSets DEF ExecuteSucceeded, ExecuteFailed
  <2>2. /\ total'.calls = total.calls
        /\ \/ /\ total'.successes = Bump(total.successes)
              /\ total'.failures = total.failures
           \/ /\ total'.failures = Bump(total.failures)
              /\ total'.successes = total.successes
    BY <1>0, <1>5 DEF ExecuteSucceeded, ExecuteFailed, Totals
  <2>3. total.successes < MaxTotal /\ total.failures < MaxTotal
    BY <1>0, <2>2
  <2>4. QED BY <1>0, <2>1, <2>2, <2>3 DEF Bump
<1>6. ASSUME NEW c \in Callers, ExecuteInterrupted(c) PROVE CallsAccountedFor'
  <2>1. Cardinality(running') = Cardinality(running) - 1
    BY <1>0, <1>6, CallerSets DEF ExecuteInterrupted
  <2>2. QED BY <1>0, <1>6, <2>1 DEF ExecuteInterrupted
<1>7. CASE UNCHANGED vars
  BY <1>7 DEF vars
<1>8. QED BY <1>1, <1>2, <1>3, <1>4, <1>5, <1>6, <1>7 DEF Next

\* The lifetime metrics balance as long as all outcomes come from execute().
THEOREM CallsCorrect == Spec => []CallsAccountedFor
<1>1. Init => CallsAccountedFor
  BY FS_EmptySet, CallersAssumption DEF Init, CallsAccountedFor
<1>2. QED BY <1>1, CallsStep, TypeCorrect, PTL DEF Spec
-----------------------------------------------------------------------------
\* The edges that each operation can take.
LEMMA OperationsEdges ==
  ASSUME NEW b \in Breakers, Consistent(b)
  PROVE  /\ LET a == MaybeTransitionToHalfOpen(b)
            IN  a = b \/ /\ b.state = "open" /\ a.state = "half_open"
                         /\ b.elapsed = RecoveryTimeout
         /\ Admitted(b).state = b.state
         /\ LET a == AfterSuccess(b)
            IN  a.state = b.state \/ /\ b.state = "half_open" /\ a.state = "closed"
                                     /\ b.success_count = SuccessThreshold - 1
         /\ LET a == AfterFailure(b)
            IN  \/ a.state = b.state
                \/ b.state = "half_open" /\ a.state = "open"
                \/ /\ b.state = "closed" /\ a.state = "open"
                   /\ b.failure_count = FailureThreshold - 1
<1>1. LET a == MaybeTransitionToHalfOpen(b)
      IN  a = b \/ /\ b.state = "open" /\ a.state = "half_open"
                   /\ b.elapsed = RecoveryTimeout
  BY FreshWindow, ConfigAssumption
  DEF MaybeTransitionToHalfOpen, RecoveryDue, Breakers, States, Consistent
<1>2. Admitted(b).state = b.state
  BY DEF Admitted, Breakers
<1>3. LET a == AfterSuccess(b)
      IN  a.state = b.state \/ /\ b.state = "half_open" /\ a.state = "closed"
                               /\ b.success_count = SuccessThreshold - 1
  <2>1. CASE b.state = "half_open"
    BY <2>1, FreshWindow, ConfigAssumption
    DEF AfterSuccess, EnoughSuccesses, Forgiven, Breakers, States, Consistent
  <2>2. CASE b.state \in {"closed", "open"}
    BY <2>2 DEF AfterSuccess, EnoughSuccesses, Forgiven, Breakers
  <2>3. QED BY <2>1, <2>2 DEF Breakers, States
<1>4. LET a == AfterFailure(b)
      IN  \/ a.state = b.state
          \/ b.state = "half_open" /\ a.state = "open"
          \/ /\ b.state = "closed" /\ a.state = "open"
             /\ b.failure_count = FailureThreshold - 1
  <2>1. CASE b.state = "half_open"
    BY <2>1, FreshWindow DEF AfterFailure, States
  <2>2. CASE b.state = "closed"
    BY <2>2, FreshWindow, ConfigAssumption DEF AfterFailure, Breakers, States, Consistent
  <2>3. CASE b.state = "open"
    BY <2>3 DEF AfterFailure
  <2>4. QED BY <2>1, <2>2, <2>3 DEF Breakers, States
<1>5. QED BY <1>1, <1>2, <1>3, <1>4

\* The circuit moves along the edges of its state diagram and no others.
THEOREM DiagramCorrect == Spec => FollowsDiagram
<1> DEFINE
  Diagram ==
    LET edge == <<cb.state, cb'.state>>
    IN  /\ edge # <<"closed", "half_open">>
        /\ edge = <<"closed", "open">> => cb.failure_count = FailureThreshold - 1
        /\ edge = <<"open", "half_open">> => cb.elapsed = RecoveryTimeout
        /\ edge = <<"open", "closed">> => Reset
        /\ edge = <<"half_open", "closed">> =>
             Reset \/ cb.success_count = SuccessThreshold - 1
<1>1. TypeOK /\ CountersMatchState /\ [Next]_vars => [Diagram]_vars
  <2> SUFFICES ASSUME TypeOK, CountersMatchState, Next PROVE Diagram
    OBVIOUS
  <2>0. cb \in Breakers /\ Consistent(cb)
    BY DEF TypeOK, CountersMatchState
  <2>1. CASE cb'.state = cb.state
    BY <2>1
  <2>2. CASE Reset
    <3>1. cb'.state = "closed"
      BY <2>0, <2>2, FreshWindow DEF Reset, States
    <3>2. QED BY <2>2, <3>1
  <2>3. CASE cb' = AfterSuccess(cb) \/ cb' = AfterFailure(cb)
    <3>1. \/ cb'.state = cb.state
          \/ /\ cb.state = "half_open" /\ cb'.state = "closed"
             /\ cb.success_count = SuccessThreshold - 1
          \/ cb.state = "half_open" /\ cb'.state = "open"
          \/ /\ cb.state = "closed" /\ cb'.state = "open"
             /\ cb.failure_count = FailureThreshold - 1
      BY <2>0, <2>3, OperationsEdges
    <3>2. QED BY <3>1
  <2>4. CASE \/ cb' = MaybeTransitionToHalfOpen(cb)
             \/ cb' = Admitted(MaybeTransitionToHalfOpen(cb))
    <3> DEFINE b == MaybeTransitionToHalfOpen(cb)
    <3>1. b \in Breakers /\ Consistent(b)
      BY <2>0, OperationsType, OperationsConsistent
    <3>2. cb'.state = b.state
      BY <2>4, <3>1, OperationsEdges
    <3>3. b = cb \/ /\ cb.state = "open" /\ b.state = "half_open"
                    /\ cb.elapsed = RecoveryTimeout
      BY <2>0, OperationsEdges
    <3>4. QED BY <3>2, <3>3
  <2>5. CASE Tick
    BY <2>0, <2>1, <2>5 DEF Tick, Breakers
  <2>6. CASE \E c \in Callers : ExecuteInterrupted(c)
    BY <2>1, <2>6 DEF ExecuteInterrupted
  <2>7. QED
    BY <2>2, <2>3, <2>4, <2>5, <2>6
    DEF Next, ReadState, RecordSuccess, RecordFailure, ExecuteRejected, CountRejection,
        ExecuteAdmitted, ExecuteSucceeded, ExecuteFailed
<1>2. QED BY <1>1, TypeCorrect, CountersCorrect, PTL DEF Spec, FollowsDiagram

\* No caller is let through an open circuit before its timeout has elapsed.
THEOREM OpenCorrect == Spec => OpenLetsNobodyIn
<1> DEFINE
  NobodyIn ==
    cb.state = "open" /\ cb.elapsed < RecoveryTimeout => running' \subseteq running
<1>1. TypeOK /\ [Next]_vars => [NobodyIn]_vars
  <2> SUFFICES ASSUME TypeOK, Next, cb.state = "open", cb.elapsed < RecoveryTimeout
               PROVE  running' \subseteq running
    OBVIOUS
  <2>1. MaybeTransitionToHalfOpen(cb) = cb
    BY ConfigAssumption
    DEF TypeOK, Breakers, NotOpened, MaybeTransitionToHalfOpen, RecoveryDue
  <2>2. ~(\E c \in Callers : ExecuteAdmitted(c))
    BY <2>1 DEF ExecuteAdmitted, Rejects
  <2>3. QED
    BY <2>2
    DEF Next, Tick, ReadState, RecordSuccess, RecordFailure, Reset, ExecuteRejected, CountRejection,
        ExecuteSucceeded, ExecuteFailed, ExecuteInterrupted
<1>2. QED BY <1>1, TypeCorrect, PTL DEF Spec, OpenLetsNobodyIn
-----------------------------------------------------------------------------
\* Two breakers look the same to a caller.
SameView(a, b) ==
  /\ a.state = b.state
  /\ Waited(a) = Waited(b)
  /\ a.half_open_call_count = b.half_open_call_count

\* A transition is seen as a move of the gate.
LEMMA TransitionSeen ==
  ASSUME NEW b \in Breakers, NEW new \in States
  PROVE  LET a == TransitionTo(b, new)
         IN  a.state = new /\ Waited(a) = 0 /\ a.half_open_call_count = 0
  BY DEF TransitionTo, Waited, States

\* The record_ methods leave the caller's view of the breaker alone or pass a verdict.
LEMMA VerdictsSeen ==
  ASSUME NEW b \in Breakers, NEW a, a = AfterSuccess(b) \/ a = AfterFailure(b)
  PROVE  \/ SameView(a, b)
         \/ b.state # "open" /\ a = TransitionTo(b, "open")
         \/ b.state = "half_open" /\ a = TransitionTo(b, "closed")
<1>1. CASE b.state = "closed"
  BY <1>1 DEF AfterSuccess, AfterFailure, Forgiven, SameView, Waited, Breakers
<1>2. CASE b.state = "half_open"
  BY <1>2 DEF AfterSuccess, AfterFailure, SameView, Waited, Breakers
<1>3. CASE b.state = "open"
  BY <1>3 DEF AfterSuccess, AfterFailure, SameView
<1>4. QED BY <1>1, <1>2, <1>3 DEF Breakers, States

\* Admitting a call is seen as entering through the gate.
LEMMA AdmissionSeen ==
  ASSUME TypeOK, Consistent(cb), NEW c \in Callers, ExecuteAdmitted(c)
  PROVE  Contract!Enter(c)
<1> DEFINE b == MaybeTransitionToHalfOpen(cb)
<1>0. cb \in Breakers /\ b \in Breakers /\ Consistent(b)
  BY OperationsType, OperationsConsistent DEF TypeOK
<1>1. c \notin running /\ running' = running \union {c} /\ cb' = Admitted(b) /\ ~Rejects(b)
  BY DEF ExecuteAdmitted
<1>2. CASE RecoveryDue(cb)
  <2>1. cb.state = "open" /\ cb.elapsed = RecoveryTimeout
    BY <1>0, <1>2, ConfigAssumption DEF RecoveryDue, Breakers, Consistent
  <2>2. b = TransitionTo(cb, "half_open")
    BY <1>2 DEF MaybeTransitionToHalfOpen
  <2>3. cb'.state = "half_open" /\ cb'.half_open_call_count = 1
    BY <1>0, <1>1, <2>2, TransitionSeen DEF Admitted, Breakers, States
  <2>4. QED BY <1>1, <2>1, <2>3 DEF Contract!Enter, Waited
<1>3. CASE ~RecoveryDue(cb)
  <2>1. b = cb
    BY <1>3 DEF MaybeTransitionToHalfOpen
  <2>2. CASE cb.state = "half_open"
    BY <1>0, <1>1, <2>1, <2>2, ConfigAssumption
    DEF Contract!Enter, Admitted, Rejects, Waited, Breakers
  <2>3. CASE cb.state = "closed"
    BY <1>0, <1>1, <2>1, <2>3 DEF Contract!Enter, Admitted, Waited
  <2>4. QED BY <1>0, <1>1, <2>1, <2>2, <2>3 DEF Rejects, Breakers, States
<1>4. QED BY <1>2, <1>3

\* Each step of the breaker is a step of the contract, or is not seen by callers.
LEMMA ContractStep ==
  ASSUME TypeOK, CountersMatchState, [Next]_vars
  PROVE  [Contract!Next]_(Contract!contractVars)
<1>0. cb \in Breakers /\ Consistent(cb)
  BY DEF TypeOK, CountersMatchState
<1>1. CASE Tick
  <2>1. Contract!Wait
    BY <1>0, <1>1 DEF Tick, Contract!Wait, Waited, Breakers
  <2>2. QED BY <2>1 DEF Contract!Next
<1>2. CASE ReadState
  <2>1. cb.state = "open" /\ cb.elapsed = RecoveryTimeout /\ UNCHANGED running
    BY <1>0, <1>2, ConfigAssumption DEF ReadState, RecoveryDue, Breakers, Consistent
  <2>2. cb' = TransitionTo(cb, "half_open")
    BY <1>2 DEF ReadState, MaybeTransitionToHalfOpen
  <2>3. Contract!Retry
    BY <1>0, <2>1, <2>2, TransitionSeen DEF Contract!Retry, Contract!Move, Waited, States
  <2>4. QED BY <2>3 DEF Contract!Next
<1>3. CASE (cb' = AfterSuccess(cb) \/ cb' = AfterFailure(cb)) /\ UNCHANGED running
  <2>1. SameView(cb', cb) \/ Contract!Verdict
    BY <1>0, <1>3, VerdictsSeen, TransitionSeen DEF Contract!Verdict, Contract!Move, States
  <2>2. CASE SameView(cb', cb)
    BY <1>3, <2>2 DEF SameView, Contract!contractVars
  <2>3. CASE Contract!Verdict
    BY <1>3, <2>3 DEF Contract!Decide, Contract!Next
  <2>4. QED BY <2>1, <2>2, <2>3
<1>4. CASE Reset
  <2>1. Contract!Decide
    BY <1>0, <1>4, TransitionSeen DEF Reset, Contract!Decide, Contract!Move, States
  <2>2. QED BY <2>1 DEF Contract!Next
<1>5. ASSUME NEW c \in Callers, ExecuteRejected(c)
      PROVE  UNCHANGED Contract!contractVars
  <2>1. ~RecoveryDue(cb)
    <3>1. SUFFICES ASSUME RecoveryDue(cb) PROVE FALSE
      OBVIOUS
    <3>2. Rejects(TransitionTo(cb, "half_open"))
      BY <1>5, <3>1 DEF ExecuteRejected, MaybeTransitionToHalfOpen
    <3>3. QED BY <1>0, <3>2, TransitionSeen, ConfigAssumption DEF Rejects, States
  <2>2. cb' = cb /\ running' = running
    BY <1>5, <2>1 DEF ExecuteRejected, MaybeTransitionToHalfOpen
  <2>3. QED BY <2>2 DEF Contract!contractVars, Waited
<1>6. ASSUME NEW c \in Callers, ExecuteAdmitted(c) PROVE Contract!Next
  BY <1>0, <1>6, AdmissionSeen DEF Contract!Next
<1>7. ASSUME NEW c \in Callers, ExecuteSucceeded(c) \/ ExecuteFailed(c)
      PROVE  Contract!Next
  <2>1. /\ c \in running /\ running' = running \ {c}
        /\ cb' = AfterSuccess(cb) \/ cb' = AfterFailure(cb)
    BY <1>7 DEF ExecuteSucceeded, ExecuteFailed
  <2>2. SameView(cb', cb) \/ Contract!Verdict
    BY <1>0, <2>1, VerdictsSeen, TransitionSeen DEF Contract!Verdict, Contract!Move, States
  <2>3. Contract!Leave(c)
    BY <2>1, <2>2 DEF Contract!Leave, SameView
  <2>4. QED BY <2>3 DEF Contract!Next
<1>8. ASSUME NEW c \in Callers, ExecuteInterrupted(c) PROVE Contract!Next
  BY <1>8 DEF ExecuteInterrupted, Contract!Leave, Contract!Next
<1>9. CASE UNCHANGED vars
  BY <1>9 DEF vars, Contract!contractVars, Waited
<1>10. QED
  BY <1>1, <1>2, <1>3, <1>4, <1>5, <1>6, <1>7, <1>8, <1>9
  DEF Next, RecordSuccess, RecordFailure

\* The breaker implements its contract: seen through the refinement mapping, every
\* behaviour of execute(), the record_ methods, reset() and the clock is one that
\* BreakerContract allows.
THEOREM ContractKept == Spec => ImplementsContract
<1>1. Init => Contract!Init
  BY DEF Init, FreshBreaker, Contract!Init, Waited
<1>2. QED
  BY <1>1, ContractStep, TypeCorrect, CountersCorrect, PTL
  DEF Spec, ImplementsContract, Contract!Spec
=============================================================================
