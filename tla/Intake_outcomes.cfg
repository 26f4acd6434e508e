SPECIFICATION IntakeSpec
CONSTANTS
  Payloads <- MCPayloads
  RetryLimits = {0, 2, 3}
CHECK_DEADLOCK FALSE
INVARIANTS
  IntakeTypeOK
  RowIsFaithful
  SkippedOnlyIfUnfit
  EonetEventsSurvive
  GivesUpWhenExhausted
  RaisesForAReason
