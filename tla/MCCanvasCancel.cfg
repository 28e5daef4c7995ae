CONSTANTS
    Conn = {1, 2}
    Req = {1}
    None = None
    Strategy = "round"
    ErrorThreshold = 2
    MaxRetries = 2
    InFlight = 1
    MaxFaults <- MCMaxFaults

SPECIFICATION Spec

\* RequestHandler.js:2878
INVARIANT ClosedClientsAreCancelled

CHECK_DEADLOCK FALSE
