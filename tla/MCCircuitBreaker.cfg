\* Three threads: every combination of manual recording and interrupted callables.
SPECIFICATION FairSpec
CONSTANTS
  Callers = {c1, c2, c3}
  FailureThreshold = 2
  RecoveryTimeout = 2
  HalfOpenMaxCalls = 2
  SuccessThreshold = 2
  Environments = {{}, {"manual"}, {"interrupt"}, {"manual", "interrupt"}}
  MaxTotal = 3
INVARIANTS
  SlotsAccountedFor
  NeverWedged
PROPERTIES
  Recovers
  ImplementsContract
