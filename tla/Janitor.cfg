CONSTANTS
  r1 = r1 r2 = r2
  Runner = {r1}
  Own = {r1}
  Prefixed = {}
  Has <- OneWithJob
  Grace = 1
  CleanupVolumes = TRUE
  MaxLate = 1
  MaxFaults = 1
SPECIFICATION FairSpec
INVARIANTS TypeOK LeftOnlyIfHeld
PROPERTIES SparesLive LeftoversReaped
