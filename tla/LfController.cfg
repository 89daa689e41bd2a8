CONSTANTS
  p0 = p0
  p1 = p1
  p2 = p2
  c1 = c1
  c2 = c2
  t0 = t0
  t1 = t1
  t2 = t2
  r1 = r1
  None = None
  Procs = {p0, p1, p2}
  Contexts = {c1, c2}
  Order <- CreationOrder
  CommOf <- Communicators
  This <- Addresses
  Tags = {0, 16777215, 16777216}
  Threads = {t0, t1, t2}
  ProcOf <- ThreadProcs
  Regions = {r1}
  HeapOf <- RegionHeaps
  EndpointTypes = {"single", "multiple", "threadlocalTx", "scalableTx"}
  TxContexts = 2
  MrBind = TRUE
SPECIFICATION Spec
INVARIANTS
  AddressedRight
  TagsMatch
  TxContextsConserved
  ClosesCleanly
PROPERTIES
  ContextsAreMade
CHECK_DEADLOCK FALSE
