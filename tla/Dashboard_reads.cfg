SPECIFICATION DashSpec
CONSTANTS
  RawIds <- MCRawIds
  RowIds = {"seed"}
  Keys = {"k1", "k2", "k3", "k4"}
  Sources = {"eonet", "manual"}
  Columns = {"is_open", "event_date", "category"}
  Values = {0, 1, 2, 3, 4}
  Capture <- MCCapture
  Patches <- MCPatches
  Posts = {}
  Seeds <- MCSeeds
  PageSize = 2
  ExportLimit = 2
  CreatedAt <- MCCreatedAt
  Asks <- MCAsks
  Width <- MCWidth
  First = "day"
  MaxChanges = 2
CHECK_DEADLOCK FALSE
INVARIANTS
  DashboardTypeOK
  StableRowsAreListed
  QuietWalkIsExact
  SummaryAddsUp
  ChartFollowsSelector
  TilesMatchChart
