CONSTANTS
    Conn = {1, 2}
    Req = {1, 2}
    None = None
    Strategy = "round"
    ErrorThreshold = 2
    MaxRetries = 2
    InFlight = 1
    MaxFaults <- MCMaxFaults

SPECIFICATION Spec

INVARIANT OneAttemptAnswers
INVARIANT NoOrphanWork
INVARIANT QueuesHaveOwners

\* Every request is made once and the sessions are finitely many.
CHECK_DEADLOCK FALSE
PROPERTY ForwardedRequestsEnd
PROPERTY ClientIsTold
