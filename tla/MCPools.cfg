SPECIFICATION Spec
CONSTANTS
  Account <- MCAccount
  Worker = {w1, w2}
  None = none
  Status <- MCStatus
  LeaseTtl = 1
  MaxCooldown = 2
  Proxy = {p1}
  FailureThreshold = 2
  ProxyCooldown = 1
INVARIANTS
  LeasesExclude
  RestsAreKept
PROPERTY RestsEnd
