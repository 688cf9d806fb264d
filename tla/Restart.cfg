CONSTANTS
  Overrides <- OldOverrides
  Configured <- ShippedPools
  Changes <- SomeChanges
  Editor = {e1}
  NameRank <- Alphabetical
  None = None
  MaxEdits = 1
SPECIFICATION Spec
PROPERTY EditsSurviveRestart
