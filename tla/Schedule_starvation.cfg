SPECIFICATION ScheduleSpec
CONSTANTS
  RawIds <- DamagedIds
  RowIds = {"call"}
  Keys = {"k1", "k2"}
  Sources = {"eonet", "manual"}
  Columns = {"open"}
  Values = {0, 1}
  Capture <- Damaged
  Patches = {}
  Posts = {}
  Seeds <- Empty
  Limit = 1
PROPERTIES
  EventsGetShown
