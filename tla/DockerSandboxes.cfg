SPECIFICATION FairSpec
CONSTANTS
    Sandboxes = {s1}
    WithSidecar = {s1}
    Requests = {r1}
    Renewals = {n1}
    Callbacks = {c1}
    Lifetimes = {0, 1}
    MaxTime = 3
    Extend = 1
    MaxCrashes = 1
INVARIANTS TypeOK LiveIsTimed SidecarHasSandbox
PROPERTIES EndsOnlyWhenDue ExpiredEnds
CHECK_DEADLOCK FALSE
