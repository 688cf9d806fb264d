CONSTANTS
  Overrides <- OldOverrides
  Configured <- ShippedPools
  Changes <- SomeChanges
  Editor = {d1, d2}
  NameRank <- Alphabetical
  None = None
  MaxEdits = 2
SPECIFICATION Spec
INVARIANTS BackupHoldsOriginal SavedIsServed
PROPERTIES LabelsDistinct JobsStayServed VariantsKept
