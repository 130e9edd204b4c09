SPECIFICATION Spec
CONSTANTS
  Students = {s1}
  Coordinators = {c1}
  Semesters = {k1}
  Opportunities = {}
  InternshipIds = {}
  NoStudent = noStudent
  NoSemester = noSemester
  NoInternship = noInternship
  FirstStatuses = {"enrollment_open"}
  Targets = {"enrollment_open", "placement_running", "reporting", "archived"}
PROPERTY
  LeavingEnrollmentIsAnnounced
