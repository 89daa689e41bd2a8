CONSTANTS
  a = a
  b = b
  s1 = s1
  v1 = v1
  w1 = w1
  e1 = e1
  e2 = e2
  e3 = e3
  e4 = e4
  None = None
  Comms = {a, b}
  Sends = {s1}
  Recvs = {v1}
  SharedRecvs = {w1}
  PostedOn <- Posts
  StreamOf <- OnStream
  ToSelf = {v1}
  Events = {e1, e2, e3, e4}
  InitialPool <- Pool
  MaxGroups = 1
  MaxNesting = 3
  Disciplined = TRUE
SPECIFICATION Spec
INVARIANTS
  NotReadyEarly
  EventsExclusive
PROPERTIES
  ImplementsLifecycle
  PostedCompletes
CHECK_DEADLOCK FALSE
