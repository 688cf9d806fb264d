CONSTANTS
  r1 = r1 r2 = r2 r3 = r3 p1 = p1 p2 = p2 c1 = c1 c2 = c2
  Runner = {r1, r2, r3}
  Pool = {p1}
  Conn = {c1}
  Target = {1}
  NoTarget = 0
  ConnOf <- SoleTarget
  RepoScoped = {}
  PoolConfig <- UpToTwo
  NoConfig = NoConfig
  InitPools <- StartTwo
  MaxQueue = 2
  MaxFloor = 1
  Events = {"pools", "docker", "crash"}
SPECIFICATION Spec
SYMMETRY RunnerSymmetry
INVARIANTS TypeOK CapacityInv
PROPERTIES CreateWithinMax
