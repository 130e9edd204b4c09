SPECIFICATION Spec
CONSTANTS
  Owner = owner
  Coordinators = {c1, c2}
  Strangers = {other}
  AttachmentIds = {a1}
  Generations = {g1}
  NoGeneration = noGeneration
  Dates = {1, 2}
  NoDate = noDate
  NoDecision = noDecision
  NoReviewer = noReviewer
  Readers = {}
  MaxVersion = 6
  MaxActivity = 5
  MaxAdditions = 2
INVARIANTS
  TypeOK
  ReviewedOfferIsComplete
  LogExplainsStatus
  LogExplainsDecision
  EveryDecisionNotified
  PurgeRowPerDeletion
PROPERTIES
  RowsOnlyProgress
  ImplementsOfferLifecycle
\* With both counters at their bounds and no reader, nothing is left to do.
CHECK_DEADLOCK FALSE
