SPECIFICATION FairSpec
CONSTANTS
    p1 = p1
    p2 = p2
    p3 = p3
    NoPod = NoPod
    Pods <- ThreePods
    GPU_COUNT = 2
INVARIANTS
    TypeOK
    FleetConsistent
    UnambiguousSeries
PROPERTIES
    SeriesFollowFleet
