CONSTANTS
  r1 = r1 r2 = r2 r3 = r3 p1 = p1 p2 = p2 c1 = c1 c2 = c2
  Runner = {r1}
  Pool = {p1, p2}
  Conn = {c1}
  Target = {1}
  NoTarget = 0
  ConnOf <- SoleTarget
  RepoScoped = {c1}
  PoolConfig <- WarmOne
  NoConfig = NoConfig
  InitPools <- StartWarmPair
  MaxQueue = 1
  MaxFloor = 0
  Events = {"pools", "disconnect", "docker", "crash"}
SPECIFICATION FairSpec
PROPERTIES OrphansReaped
