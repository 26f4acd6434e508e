SPECIFICATION FairSpec
CONSTANTS
  q1 = q1
  q2 = q2
  q3 = q3
  Requests <- MCRequests
  Kinds <- MCKinds
  PoolSize = 1
  MaxOverflow = 1
  AnswerOrders = {TRUE, FALSE}
  MaxOutages = 1
INVARIANTS
  ServingTypeOK
  SlotsAreAccounted
  OnlyOutagesFailRequests
  HealthAnswersOutages
PROPERTIES
  EveryoneIsServed
