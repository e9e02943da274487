\* One agent with two node objects; the loop and another thread check.
SPECIFICATION FairSpec
CONSTANTS
  a1 = a1
  a2 = a2
  n1 = n1
  n2 = n2
  n3 = n3
  Agents = {a1}
  Nodes = {n1, n2}
  Owner <- MCOwner
  NoNode = NoNode
  loop = loop
  thread = thread
  Checkers = {loop, thread}
  Loop = loop
  HeartbeatTimeout = 1
  PruneTimeout = 2
  Reported = {"HEALTHY", "STOPPING", "UNHEALTHY"}
  Environments = {{}, {"restore"}}
INVARIANTS
  OnlySilentAccused
PROPERTIES
  PrunedWereSilent
  SilentDetected
  AliveRestored
