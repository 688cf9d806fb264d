CONSTANTS
  r1 = r1 r2 = r2
  Runner = {r1, r2}
  Own = {r1}
  Prefixed = {r2}
  Has <- JobAndPlain
  Grace = 1
  CleanupVolumes = FALSE
  MaxLate = 0
  MaxFaults = 0
SPECIFICATION Spec
INVARIANTS OnlyOwnNamespace
