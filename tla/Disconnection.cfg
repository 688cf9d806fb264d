CONSTANTS
  r1 = r1 r2 = r2 r3 = r3 p1 = p1 p2 = p2 c1 = c1 c2 = c2
  Runner = {r1}
  Pool = {p1}
  Conn = {c1}
  Target = {1}
  NoTarget = 0
  ConnOf <- SoleTarget
  RepoScoped = {}
  PoolConfig <- WarmOne
  NoConfig = NoConfig
  InitPools <- StartWarm
  MaxQueue = 1
  MaxFloor = 0
  Events = {"disconnect"}
SPECIFICATION Spec
PROPERTIES DisconnectWaitsForRunners
