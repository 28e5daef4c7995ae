CONSTANTS
    N = 3
    LeaseTask = {t1, t2}
    Ttl = {1}
    MaxPending = 2
    MaxTime = 1
    MaxLeases = 0
    MaxCrashes = 0
    MaxFailures = 0
    None = None

SPECIFICATION Spec

PROPERTY RefusedOnlyWhenFull

\* A torn file stops the process for good, and the task ids run out.
CHECK_DEADLOCK FALSE
