SPECIFICATION MCSpec
CONSTANTS
 Thread = {t1, t2}
 Create = c
 Deploys = {d}
 Edits = {e}
 Deletes = {x}
 Owner = o
 Mate = m
 Admins = {a1, a2}
 NoThread = nothread
 Asks <- MCAsks
 MaxMishaps = 1
 Handler = {h1, h2}
 Resource = {r1}
 Name = {n1}
 Staff = staff
 People = {p1, p2}
 NoHandler = nohandler
 MaxTeam = 1
 MaxRequests = 3
 Visitor = {v1, v2}
 MaxChanges = 3
 MaxFailures = 1
 MaxGuesses = 2
INVARIANTS
 PortalSafe
 SettingsSafe
 AccountsSafe
PROPERTIES
 PortalPromise
CHECK_DEADLOCK FALSE
