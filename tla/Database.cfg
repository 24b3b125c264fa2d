SPECIFICATION Spec
CONSTANTS
  p1 = p1
  p2 = p2
  t1 = t1
  t2 = t2
  Process = {p1, p2}
  Terminal = {t1, t2}
  Home <- MCHome
  MaxRuns = 4
  MaxCalls = 4
  MaxFaults = 1
  MaxMigrations = 2
  NoRow = NoRow
  NoFile = NoFile
  Invalid = Invalid
  Nobody = Nobody
  Migrator = Migrator
CHECK_DEADLOCK FALSE
INVARIANTS
  TypeOK
  VersionMeansTables
  ReadySeesTables
  EventsKeepTheirTrail
  RestIsCommitted
