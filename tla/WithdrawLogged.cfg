SPECIFICATION Spec
CONSTANTS
  Owner = owner
  Coordinators = {c1}
  Strangers = {other}
  AttachmentIds = {a1, a2}
  Generations = {g1}
  NoGeneration = noGeneration
  Dates = {1}
  NoDate = noDate
  NoDecision = noDecision
  NoReviewer = noReviewer
  Readers = {}
  MaxVersion = 4
  MaxActivity = 4
  MaxAdditions = 2
INVARIANTS
  WithdrawIsLogged
\* With the counters at their bounds nothing is left to do.
CHECK_DEADLOCK FALSE
