CONSTANTS
  r1 = r1 r2 = r2 r3 = r3 p1 = p1 p2 = p2 c1 = c1 c2 = c2
  Runner = {r1, r2}
  Pool = {p1}
  Conn = {c1, c2}
  Target = {1, 2}
  NoTarget = 0
  ConnOf <- TwoConns
  RepoScoped = {}
  PoolConfig <- WarmOne
  NoConfig = NoConfig
  InitPools <- StartWarm
  MaxQueue = 2
  MaxFloor = 0
  Events = {"exit", "crash"}
SPECIFICATION FairSpec
PROPERTIES OldestJobServed MinimumRestored
