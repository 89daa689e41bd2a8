CONSTANTS
  Ranks = {r1, r2}
  Threads = {t1, t2}
  Kind <- MixedCalls
  MaxCalls = 3
SPECIFICATION Spec
INVARIANTS
  TypeOK
  CallsSynchronised
  RankBarriersMatch
PROPERTIES
  ImplementsPromise
