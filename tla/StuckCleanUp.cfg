SPECIFICATION UploadSpec
CONSTANTS
  Owner = owner
  Coordinators = {c1}
  Strangers = {other}
  AttachmentIds = {a1, a2}
  Generations = {g1}
  NoGeneration = noGeneration
  Dates = {}
  NoDate = noDate
  NoDecision = noDecision
  NoReviewer = noReviewer
  Readers = {}
  MaxVersion = 2
  MaxActivity = 2
  MaxAdditions = 2
  Hyphenated = {a2}
PROPERTIES
  CleanUpSparesFinalized
\* With the counters at their bounds nothing is left to do.
CHECK_DEADLOCK FALSE
