CONSTANTS
  a = a b = b
  Job = {1}
  Repo = {a}
  RepoOf <- OneRepo
  Pool = {1, 2}
  NoPool = 0
  Suits <- SuitsAll
  InitPools = {2}
  Unreadable = {}
  Poller = {"loop", "api"}
  RunsPerRepo = 1
  MaxFaults = 2
  Events = {"loss", "github", "crash", "retention", "pools"}
SPECIFICATION FairSpec
INVARIANTS TypeOK
PROPERTIES GhostsPurged DemandRestored
