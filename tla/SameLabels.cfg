CONSTANTS
  Overrides <- OldOverrides
  Configured <- ShippedPools
  Changes <- SomeChanges
  Editor = {d1}
  NameRank <- Alphabetical
  None = None
  MaxEdits = 2
SPECIFICATION Spec
INVARIANT NeverIdentical
