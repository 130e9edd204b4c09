SPECIFICATION FairUploadSpec
CONSTANTS
  Owner = owner
  Coordinators = {c1}
  Strangers = {other}
  AttachmentIds = {a1, a2}
  Generations = {g1}
  NoGeneration = noGeneration
  Dates = {}
  NoDate = noDate
  NoDecision = noDecision
  NoReviewer = noReviewer
  Readers = {}
  MaxVersion = 4
  MaxActivity = 3
  MaxAdditions = 2
  Hyphenated = {a2}
INVARIANTS
  WaitingRowsHaveEvents
PROPERTIES
  PlainNamesSettle
  ImplementsDocumentedOffer
\* With the counters at their bounds nothing is left to do.
CHECK_DEADLOCK FALSE
