SPECIFICATION Spec
CONSTANTS
    a = a
    b = b
    Ranks <- TwoRanks
    Comms <- TwoComms
    Routes <- SomeRoutes
    PmiRank <- Swapped
INVARIANTS ConnectsRight FreedOnce PeersFinished
PROPERTIES TeardownEnds
CHECK_DEADLOCK FALSE
