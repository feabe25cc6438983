SPECIFICATION MCSpec
CONSTANTS
 App = {a1, a2}
 Res = {r1, r2}
 MaxMigrations = 2
 MaxAborts = 1
 MaxMigrationCuts = 2
 MaxWrites = 1
 MaxTime = 2
 Retention = 1
 Fewest = 1
 Freshness = 1
 MaxCheckCuts = 1
INVARIANTS
 MigrationSafe
 CheckpointsSafe
PROPERTIES
 StoragePromise
CHECK_DEADLOCK FALSE
