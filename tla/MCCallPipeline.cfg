SPECIFICATION FairSpec
CONSTANTS
  Calls = {k1, k2}
  alice = alice
  bob = bob
  host = host
  Credentials = {alice, bob, host}
  NoCredential = NoCredential
  Configs <- AllConfigs
  RateWindow = 2
  MaxClock = 1
  FailureThreshold = 2
  ResetTimeout = 2
INVARIANTS
  TypeOK
  OwnCredential
  OutcomeTellsEffects
PROPERTIES
  EveryCallAnswered
