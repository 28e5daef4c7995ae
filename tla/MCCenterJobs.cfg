SPECIFICATION Spec
CONSTANTS
  Registry <- MCRegistry
  None = none
  Job = {j1, j2}
  Request <- MCRequest
  MaxRestarts = 1
INVARIANT OutcomesAreTrue
PROPERTY JobsEnd
CHECK_DEADLOCK FALSE
