CONSTANTS
  c1 = c1 c2 = c2
  Call = {c1, c2}
  Attempts = 2
  Cap = 3
  RetryAfter = 2
  Reset = 2
  MaxFaults = 2
SPECIFICATION FairSpec

PROPERTIES PrimaryHonored
