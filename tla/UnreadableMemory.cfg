CONSTANTS
  a = a b = b
  Job = {1}
  Repo = {a}
  RepoOf <- OneRepo
  Pool = {1, 2}
  NoPool = 0
  Suits <- SuitsAll
  InitPools = {1}
  Unreadable = {2}
  Poller = {"loop"}
  RunsPerRepo = 1
  MaxFaults = 0
  Events = {"pools"}
SPECIFICATION FairSpec
PROPERTIES FullSweepsKeepRunning
CHECK_DEADLOCK FALSE
