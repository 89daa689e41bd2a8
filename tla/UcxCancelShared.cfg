CONSTANTS
  t1 = t1
  t2 = t2
  s1 = s1
  v1 = v1
  w1 = w1
  w2 = w2
  Threads = {t1, t2}
  Context = Context
  None = None
  Sends = {s1}
  Recvs = {v1}
  SharedRecvs = {w1, w2}
  Handles = {h1, h2}
  RecursionDepth = 0
  Users <- TwoShared
SPECIFICATION Safety
PROPERTIES
  ImplementsLifecycle
