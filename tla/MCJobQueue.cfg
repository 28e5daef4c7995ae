CONSTANTS
    Job = {j1, j2, j3}
    MaxJobs = 2
    MaxFaults = 2
    None = None

SPECIFICATION Spec

INVARIANT TypeOK
INVARIANT SerialFifo
INVARIANT OutcomeSurvivesRestart
INVARIANT LostOnlyToNewer
PROPERTY OutcomeNeverReversed
PROPERTY EveryRunSettles
PROPERTY ImplementsFifoMutex

\* A torn file stops the server for good, and the job ids run out.
CHECK_DEADLOCK FALSE
