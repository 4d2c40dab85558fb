SPECIFICATION FairSpec
CONSTANTS
    MaxSnapshots = 2
    Workers = {w1, w2}
    Requests = {r1, r2}
    PageSizes = {1, 2}
    MaxCrashes = 2
    Kinds = {"docker", "kubernetes"}
INVARIANTS TypeOK ReadyIsBacked
PROPERTIES FollowsLifecycle EraseLeavesNothing StartupEnds CreatingEnds
CHECK_DEADLOCK FALSE
