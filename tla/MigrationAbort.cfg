SPECIFICATION MigrationSpec
CONSTANTS
  App = {a1}
  Res = {r1}
  MaxMigrations = 2
  MaxAborts = 1
  MaxMigrationCuts = 2
  MaxWrites = 1
PROPERTIES
  AbortEnds
CHECK_DEADLOCK FALSE
