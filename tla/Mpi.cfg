CONSTANTS
  s1 = s1
  v1 = v1
  v2 = v2
  v3 = v3
  v4 = v4
  Sends = {s1}
  Recvs = {v1, v2, v3}
  RecursionDepth = 0
  Users <- MixedUsers
SPECIFICATION Spec
INVARIANTS
  QueuesExact
  RecursionBounded
PROPERTIES
  ImplementsLifecycle
  CompletedIsCalled
CHECK_DEADLOCK FALSE
