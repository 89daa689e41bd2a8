CONSTANTS
  Threads = {t1, t2}
  Context = Context
  None = None
  Injects = {i1}
  Sends = {s1}
  Recvs = {v1}
  SharedRecvs = {w1}
  Workloads <- MixedWorkloads
  PostedBy <- Posters
  RecursionDepth = 0
  MaxCompletions = 2
  Cancellable = {v1, w1}
  MaxNesting = 4
  CancelRaces = FALSE
SPECIFICATION Spec
INVARIANTS
  StatesExact
  OwnerCalls
PROPERTIES
  ImplementsLifecycle
  CompletedIsCalled
  CancelReturns
