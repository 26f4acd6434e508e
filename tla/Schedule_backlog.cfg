SPECIFICATION ScheduleSpec
CONSTANTS
  RawIds <- HealthyIds
  RowIds = {"call"}
  Keys = {"k1", "k2"}
  Sources = {"eonet", "manual"}
  Columns = {"open"}
  Values = {0, 1}
  Capture <- Healthy
  Patches = {}
  Posts = {}
  Seeds <- Empty
  Limit = 6
INVARIANTS
  ScheduleTypeOK
  RowShowsItsRaw
PROPERTIES
  EventsGetShown
