SPECIFICATION Spec
CONSTANTS
  Students = {s1}
  Coordinators = {c1, c2}
  Semesters = {k1, k2}
  Opportunities = {o1}
  InternshipIds = {i1, i2}
  NoStudent = noStudent
  NoSemester = noSemester
  NoInternship = noInternship
  FirstStatuses = {"draft", "enrollment_open"}
  Targets = {"enrollment_open", "placement_running", "reporting", "archived"}
INVARIANTS
  SentinelPerApplication
  ApplicationsArePlaced
  SemestersInUseWereOpened
  TrailExplainsStatus
  SubmitterIsToldOnce
  ArchivalIsAnnounced
PROPERTY
  ImplementsListing
