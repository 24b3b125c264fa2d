SPECIFICATION Spec
CONSTANTS
  p1 = p1
  p2 = p2
  t1 = t1
  t2 = t2
  Process = {p1, p2}
  Terminal = {t1, t2}
  Home <- MCHome
  MaxRuns = 2
  MaxCalls = 2
  MaxFaults = 0
  MaxMigrations = 0
  NoRow = NoRow
  NoFile = NoFile
  Invalid = Invalid
  Nobody = Nobody
  Migrator = Migrator
CHECK_DEADLOCK FALSE
PROPERTY DatabaseDegrades
