CONSTANTS
    N = 3
    LeaseTask = {t1, t2}
    Ttl = {1}
    MaxPending = 2
    MaxTime = 1
    MaxLeases = 2
    MaxCrashes = 1
    MaxFailures = 2
    None = None

SPECIFICATION Spec

INVARIANT DepthTellsOutcomes
INVARIANT OutcomesAreCounted
INVARIANT LeaseKept
INVARIANT NoGhostLease
PROPERTY EveryRunSettles
PROPERTY ImplementsFifoMutex

\* A torn file stops the process for good, and the task ids run out.
CHECK_DEADLOCK FALSE
