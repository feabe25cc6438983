SPECIFICATION MCSpec
CONSTANTS
  Port = {p1, p2}
  Server = {s1, s2}
  RetainedPort = p1
  NoPort = np
  NoServer = ns
  MaxWorkerCuts = 3
  MaxWorkerJobs = 3
  Recipe = {"r1", "r2"}
  MaxBuildCuts = 3
  Volume = {v1, v2}
  NoHost = nohost
  MaxHostOps = 2
  MaxHostCuts = 2
  MaxImage = 5
  FirstImages = 4
  Retain = 2
  MaxImageOps = 3
  MaxImageMoves = 2
  MaxImageCuts = 2
  Inventory = {i1, i2}
  NoInventory = noinv
  NoSetupServer = nosrv
  MaxSetupCuts = 2
INVARIANTS
 WorkersSafe
 BuildsSafe
 HostsSafe
 ImagesSafe
 

 
CHECK_DEADLOCK FALSE
