SPECIFICATION ApplySpec
CONSTANTS
  Students = {s1}
  Coordinators = {c1, c2}
  Semesters = {k1, k2}
  Opportunities = {o1}
  InternshipIds = {i1, i2}
  NoStudent = noStudent
  NoSemester = noSemester
  NoInternship = noInternship
  FirstStatuses = {"enrollment_open"}
  Targets = {"enrollment_open", "placement_running"}
  NoOpportunity = noOpportunity
  MaxAttempts = 2
SYMMETRY Symmetry
INVARIANTS
  ApplyTypeOK
  AnswersAreTruthful
PROPERTY
  ImplementsPlacement
  EveryCoordinatorIsTold
