CONSTANTS
  Threads = {t1}
  Context = Context
  None = None
  Injects = {}
  Sends = {}
  Recvs = {v1}
  SharedRecvs = {}
  Workloads <- MixedWorkloads
  PostedBy <- Posters
  RecursionDepth = 0
  MaxCompletions = 2
  Cancellable = {v1}
  MaxNesting = 4
  CancelRaces = TRUE
SPECIFICATION Spec
PROPERTIES
  CancelReturns
