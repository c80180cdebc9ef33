SPECIFICATION Spec
CONSTANTS
  TrustMultiple = 10
  ZeroPercent = 20
  Rows <- MCRows
  DayLength = 2
  Runners = {r1, r2}
  BaseFiles <- MCBaseFiles
  OverrideFiles <- MCOverrideFiles
  Installations <- MCInstallations
  Jobs = {j1, j2}
INVARIANTS
  RollupsExact
  DriftIsUpward
  OverviewMatchesRaw
  SchemaInOrder
PROPERTIES
  EditedStopsAll
  Migrated
CHECK_DEADLOCK FALSE
