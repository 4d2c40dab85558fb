SPECIFICATION Spec
CONSTANTS
    Sandboxes = {s1, s2}
    Threads = {t1, t2}
    MaxCrashes = 1
PROPERTIES StartsOnMount
CHECK_DEADLOCK FALSE
