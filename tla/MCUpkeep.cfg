SPECIFICATION MCSpec
CONSTANTS
 Version = {v1, v2}
 Later = {}
 Config = {c1, c2}
 Operator = {o1, o2}
 MaxAsks = 3
 MaxEdits = 1
 MaxPairCuts = 1
 Commit = {k1, k2}
 Policy = {q1, q2}
 Deployer = {d1, d2}
 MaxDeploys = 2
 MaxPolicyEdits = 1
 MaxDeployCuts = 1
 MaxClock = 3
 Days = 1
 Minimum = 2
 MaxExports = 1
 MaxBackupCuts = 2
 MaxRestoreCuts = 2
 MaxRestores = 2
 Inst = {i1, i2}
 Port = {p1, p2}
 Addr = {w1}
 Memory = {1, 2}
 Budget = 3
 Maintenance = 1
 RestoreCap = 2
 NoPort = noport
 MaxInstRequests = 2
 MaxDowns = 2
INVARIANTS
 PairsSafe
 DeploysSafe
 BackupsSafe
 RestoresSafe
 InstancesSafe

 
CHECK_DEADLOCK FALSE
