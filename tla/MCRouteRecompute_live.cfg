\* Two tables of the central and one of another city, one failure.
SPECIFICATION FairSpec
CONSTANTS
    Cities = {c1}
    MaxTables = 2
    MaxPeerTables = 1
    MaxPolls = 2
    MaxAttempts = 1
    MaxFaults = 1
INVARIANTS
    IndInv
PROPERTIES
    KeepsRoutes
    RoutesFollowTables
    RecomputationEnds
\* Once the tables of the bound are in the routes nothing is left to do.
CHECK_DEADLOCK FALSE
