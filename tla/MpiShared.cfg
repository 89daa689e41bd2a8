CONSTANTS
  Threads = {t1, t2}
  Requests = {r1, r2, r3}
  None = None
  RecursionDepth = 0
  MaxCancels = 1
SPECIFICATION Spec
INVARIANTS
  OnePlace
  RecursionBounded
PROPERTIES
  ImplementsLifecycle
  CompletedIsCalled
