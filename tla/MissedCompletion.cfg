CONSTANTS
  a = a b = b
  Job = {1}
  Repo = {a}
  RepoOf <- OneRepo
  Pool = {1}
  NoPool = 0
  Suits <- SuitsAll
  InitPools = {1}
  Unreadable = {}
  Poller = {"loop"}
  RunsPerRepo = 1
  MaxFaults = 0
  Events = {"loss"}
SPECIFICATION FairSpec
PROPERTIES MissedCompletionRepaired
