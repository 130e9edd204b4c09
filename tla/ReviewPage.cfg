\* One review page, beside another coordinator, the owner and the storage worker.
SPECIFICATION PageSpec
CONSTANTS
  Owner = owner
  Coordinators = {c1, c2}
  Strangers = {}
  AttachmentIds = {a1}
  Generations = {}
  NoGeneration = noGeneration
  Dates = {1}
  NoDate = noDate
  NoDecision = noDecision
  NoReviewer = noReviewer
  Readers = {c1}
  MaxVersion = 5
  MaxActivity = 5
  MaxAdditions = 1
INVARIANTS
  SameETagSameOffer
  SameETagSameAttachments
  PageTellsTheTruth
PROPERTIES
  ConditionalDecisionIsInformed
