CONSTANTS
  s1 = s1
  v1 = v1
  v2 = v2
  v3 = v3
  v4 = v4
  Sends = {}
  Recvs = {v1, v2, v3, v4}
  RecursionDepth = 0
  Users <- CancellingUsers
SPECIFICATION Safety
INVARIANTS
  ReleaseOwned
