CONSTANTS
  r1 = r1 r2 = r2 r3 = r3 p1 = p1 p2 = p2 c1 = c1 c2 = c2
  Runner = {r1, r2}
  Pool = {p1}
  Conn = {c1}
  Target = {1, 2}
  NoTarget = 0
  ConnOf <- OneConn
  RepoScoped = {c1}
  PoolConfig <- UpToTwo
  NoConfig = NoConfig
  InitPools <- StartTwo
  MaxQueue = 1
  MaxFloor = 0
  Events = {"github", "age", "crash", "partial", "selective", "shutdown"}
SPECIFICATION Spec
SYMMETRY RunnerSymmetry
PROPERTIES BusyKept PlanCarriedOut
