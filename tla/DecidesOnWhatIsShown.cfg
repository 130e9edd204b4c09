\* One review page beside another coordinator and the owner.
SPECIFICATION PageSpec
CONSTANTS
  Owner = owner
  Coordinators = {c1, c2}
  Strangers = {}
  AttachmentIds = {a1, a2}
  Generations = {}
  NoGeneration = noGeneration
  Dates = {}
  NoDate = noDate
  NoDecision = noDecision
  NoReviewer = noReviewer
  Readers = {c1}
  MaxVersion = 6
  MaxActivity = 5
  MaxAdditions = 1
PROPERTIES
  DecidesOnWhatIsShown
