SPECIFICATION ScheduleSpec
CONSTANTS
  RawIds <- PoisonedIds
  RowIds = {"call"}
  Keys = {"k1", "k2"}
  Sources = {"eonet", "manual"}
  Columns = {"open"}
  Values = {0, 1}
  Capture <- Poisoned
  Patches = {}
  Posts = {}
  Seeds <- Empty
  Limit = 2
PROPERTIES
  BadRecordsDoNotAbort
