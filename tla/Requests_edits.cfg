SPECIFICATION Spec
CONSTANTS
  q1 = q1
  q2 = q2
  q3 = q3
  Requests <- MCRequests
  RowIds <- MCRowIds
  RawIds <- MCRawIds
  Keys = {"k1", "k2"}
  Sources = {"eonet", "manual"}
  Columns <- MCColumns
  Values = {0, 1}
  Capture <- MCCapture
  Patches <- MCPatches
  Posts <- MCPosts
  Kinds <- Edits
  Stock <- MCStock
  Seeds <- EditSeeds
  Limits = {1, 3}
  AnswerFirst = TRUE
INVARIANTS
  LockDiscipline
  WorkOfOneRequest
PROPERTIES
  IdentityKept
  PatchTouchesOnlyAsked
  PatchAnswersWhatItCommits
  RowsVanishOnlyByDelete
