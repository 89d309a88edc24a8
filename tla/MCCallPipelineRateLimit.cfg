SPECIFICATION Spec
CONSTANTS
  Calls = {k1, k2, k3}
  alice = alice
  bob = bob
  host = host
  Credentials = {alice, host}
  NoCredential = NoCredential
  Configs <- HttpConfigs
  RateWindow = 2
  MaxClock = 1
  FailureThreshold = 2
  ResetTimeout = 2
INVARIANTS
  RateLimitHolds
