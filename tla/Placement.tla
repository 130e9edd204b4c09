------------------------------ MODULE Placement ------------------------------
(* Applying: semesters, opportunities, the semester a student has selected, *)
(* and the creation of an internship, which checks and writes all of them.  *)
(*                                                                          *)
(* Every command handler is one atomic step here, as UnitOfWork promises;   *)
(* ApplyTransaction takes CreateInternship apart into the reads and the     *)
(* commit of its Firestore transaction and shows that it keeps this promise.*)
(* If-Match only ever refuses a command, and every command may come without *)
(* it, so versions do not appear.                                           *)
EXTENDS Naturals, Sequences, FiniteSets

CONSTANTS
  Students,        \* users whose role is 'student'
  Coordinators,    \* users who are, or will be, provisioned as coordinators
  Semesters,       \* natural keys (semesterCode, courseCode)
  Opportunities,   \* opportunity ids: never reused
  InternshipIds,   \* internship ids: never reused
  NoStudent,       \* submittedByUserId undefined
  NoSemester,      \* semesterId undefined
  NoInternship,    \* no sentinel document
  FirstStatuses,   \* bound: the statuses POST /semesters is called with
  Targets          \* bound: the targets POST /semesters/{id}/transitions is called with

SemesterStatuses ==
  {"draft", "enrollment_open", "placement_running", "reporting", "archived"}

SemesterTransitionTargets ==
  {"enrollment_open", "placement_running", "reporting", "archived"}

ASSUME RolesAreDistinct == Students \cap Coordinators = {} /\ NoStudent \notin Students

ASSUME AbsentIsNoId == NoSemester \notin Semesters /\ NoInternship \notin InternshipIds

ASSUME InputsAreAccepted ==
  FirstStatuses \subseteq SemesterStatuses /\ Targets \subseteq SemesterTransitionTargets

VARIABLES
  coordinators,   \* the users provisioned as coordinators so far
  student,        \* what a student's user document says that matters here
  semester,       \* the status of each semester document, "absent" if there is none
  opportunity,    \* the opportunity documents
  trail,          \* the activity subcollection of each opportunity
  internships,    \* the internship documents
  sentinel,       \* the internshipApplications collection, by its document id
  newApplication, \* the new_application notifications
  verdicts,       \* the opportunity_verified/_rejected notifications
  phaseNotice     \* the last semester_phase_changed notification, per student and semester

vars == <<coordinators, student, semester, opportunity, trail, internships,
          sentinel, newApplication, verdicts, phaseNotice>>

opportunityVars == <<opportunity, trail, verdicts>>
semesterVars == <<semester, phaseNotice>>
applicationVars == <<internships, sentinel, newApplication>>

-----------------------------------------------------------------------------
(* Users.                                                                   *)

\* Coordinators are provisioned by an administrator, outside this code.
ProvisionCoordinator(c) ==
  /\ coordinators' = coordinators \cup {c}
  /\ UNCHANGED <<student, semesterVars, opportunityVars, applicationVars>>

\* PATCH /users/{id}: academic info can be filled in, and cleared again.  The
\* semester stays selected.
UpdateUserProfile(s, complete) ==
  /\ student' = [student EXCEPT ![s].complete = complete]
  /\ UNCHANGED <<coordinators, semesterVars, opportunityVars, applicationVars>>

\* A semester in preparation can be selected (SemestersInUseWereOpened).
WrongSelectable(k) == semester[k] \in {"draft", "enrollment_open"}

Selectable(k) == semester[k] = "enrollment_open"

\* PUT /users/{id}/semester-selection
SelectSemester(s, k) ==
  /\ Selectable(k)
  /\ student[s].complete
  /\ student' = [student EXCEPT ![s].semesterId = k]
  /\ UNCHANGED <<coordinators, semesterVars, opportunityVars, applicationVars>>

-----------------------------------------------------------------------------
(* Semesters.                                                               *)

\* POST /semesters: the guard document of the natural key admits one.
CreateSemester(c, k, status) ==
  /\ c \in coordinators
  /\ semester[k] = "absent"
  /\ semester' = [semester EXCEPT ![k] = status]
  /\ UNCHANGED <<coordinators, student, phaseNotice, opportunityVars, applicationVars>>

\* Archiving is announced only at the end of the lifecycle (ArchivalIsAnnounced).
WrongShouldNotifyEnrolledStudents(from, to) ==
  \/ from = "enrollment_open" /\ to = "placement_running"
  \/ from = "reporting" /\ to = "archived"

ShouldNotifyEnrolledStudents(from, to) ==
  \/ from = "enrollment_open" /\ to = "placement_running"
  \/ to = "archived"

Enrolled(k) == {s \in Students : student[s].semesterId = k}

\* POST /semesters/{id}/transitions: isAllowedTransition is always true.
TransitionSemester(c, k, to) ==
  /\ c \in coordinators
  /\ semester[k] # "absent"
  /\ semester' = [semester EXCEPT ![k] = to]
  /\ phaseNotice' =
       [s \in Students |->
          IF s \in Enrolled(k) /\ ShouldNotifyEnrolledStudents(semester[k], to)
          THEN [phaseNotice[s] EXCEPT ![k] = to] ELSE phaseNotice[s]]
  /\ UNCHANGED <<coordinators, student, opportunityVars, applicationVars>>

-----------------------------------------------------------------------------
(* Opportunities.                                                           *)

IsRunning(k) == semester[k] \in {"enrollment_open", "placement_running", "reporting"}

NewOpportunity(status, k, submitter) ==
  [status |-> status, semesterId |-> k, submittedByUserId |-> submitter]

SaveNewOpportunity(o, doc) ==
  /\ opportunity[o].status = "absent"
  /\ opportunity' = [opportunity EXCEPT ![o] = doc]
  /\ UNCHANGED <<coordinators, student, semesterVars, trail, verdicts, applicationVars>>

\* POST /opportunities by a student: in the semester selected, whatever became
\* of the profile since.
SubmitOpportunity(s, o) ==
  LET k == student[s].semesterId
  IN  /\ k # NoSemester
      /\ IsRunning(k)
      /\ SaveNewOpportunity(o, NewOpportunity("pending_verification", k, s))

\* POST /opportunities by a coordinator.
CreateOpportunity(c, k, o) ==
  /\ c \in coordinators
  /\ IsRunning(k)
  /\ SaveNewOpportunity(o, NewOpportunity("draft", k, NoStudent))

\* A submission can be published without its verification (TrailExplainsStatus).
WrongAllowedTransition(from, to) ==
  \/ from \in {"draft", "pending_verification"} /\ to \in {"published", "archived"}
  \/ from = "published" /\ to = "archived"

\* What was archived can be published again (ImplementsListing).
WrongReopeningTransition(from, to) ==
  \/ from \in {"draft", "archived"} /\ to \in {"published", "archived"}
  \/ from = "published" /\ to = "archived"

AllowedTransition(from, to) ==
  \/ from = "draft" /\ to \in {"published", "archived"}
  \/ from = "published" /\ to = "archived"

OpportunityTransitionTargets == {"published", "archived"}

SaveStatus(o, type, to, c) ==
  /\ opportunity' = [opportunity EXCEPT ![o].status = to]
  /\ trail' = [trail EXCEPT ![o] = Append(@, [type |-> type, to |-> to, actor |-> c])]
  /\ UNCHANGED <<coordinators, student, semesterVars, applicationVars>>

\* POST /opportunities/{id}/transitions
TransitionOpportunity(c, o, to) ==
  /\ c \in coordinators
  /\ AllowedTransition(opportunity[o].status, to)
  /\ SaveStatus(o, "transition", to, c)
  /\ UNCHANGED verdicts

VerificationDecisions == {"approved", "rejected"}

VerifiedStatus(decision) == IF decision = "approved" THEN "published" ELSE "rejected"

\* Only an approval is told (SubmitterIsToldOnce).
WrongTellSubmitter(o, decision) ==
  verdicts' = IF opportunity[o].submittedByUserId # NoStudent /\ decision = "approved"
              THEN [verdicts EXCEPT ![o] = Append(@, decision)] ELSE verdicts

TellSubmitter(o, decision) ==
  verdicts' = IF opportunity[o].submittedByUserId # NoStudent
              THEN [verdicts EXCEPT ![o] = Append(@, decision)] ELSE verdicts

\* POST /opportunities/{id}/verifications
VerifyOpportunity(c, o, decision, hasComment) ==
  /\ c \in coordinators
  /\ opportunity[o].status = "pending_verification"
  /\ decision = "rejected" => hasComment
  /\ SaveStatus(o, "verification", VerifiedStatus(decision), c)
  /\ TellSubmitter(o, decision)

-----------------------------------------------------------------------------
(* POST /internships.                                                       *)

Application(i, s, o) ==
  [id |-> i, userId |-> s, opportunityId |-> o, semesterId |-> opportunity[o].semesterId]

HasApplied(s, o) == \E i \in internships : i.userId = s /\ i.opportunityId = o

\* A draft is open to those who know its id (ApplicationsArePlaced).
WrongCanApply(s, o) ==
  /\ student[s].semesterId # NoSemester
  /\ opportunity[o].status \in {"draft", "published"}
  /\ opportunity[o].semesterId = student[s].semesterId
  /\ semester[opportunity[o].semesterId] = "enrollment_open"

CanApply(s, o) ==
  /\ student[s].semesterId # NoSemester
  /\ opportunity[o].status = "published"
  /\ opportunity[o].semesterId = student[s].semesterId
  /\ semester[opportunity[o].semesterId] = "enrollment_open"

\* Both documents are written with `create`, which fails on an existing one.
DocumentsAreNew(i, s, o) ==
  /\ \A other \in internships : other.id # i
  /\ sentinel[<<s, o>>] = NoInternship

\* The sentinel is forgotten (SentinelPerApplication).
WrongSaveApplication(i, s, o, roster) ==
  /\ internships' = internships \cup {Application(i, s, o)}
  /\ newApplication' = newApplication \cup {[to |-> c, about |-> i] : c \in roster}
  /\ UNCHANGED <<coordinators, student, semesterVars, opportunityVars, sentinel>>

SaveApplication(i, s, o, roster) ==
  /\ internships' = internships \cup {Application(i, s, o)}
  /\ sentinel' = [sentinel EXCEPT ![<<s, o>>] = i]
  /\ newApplication' = newApplication \cup {[to |-> c, about |-> i] : c \in roster}
  /\ UNCHANGED <<coordinators, student, semesterVars, opportunityVars>>

CreateInternship(i, s, o) ==
  /\ ~HasApplied(s, o)
  /\ CanApply(s, o)
  /\ DocumentsAreNew(i, s, o)
  /\ SaveApplication(i, s, o, coordinators)

-----------------------------------------------------------------------------
Init ==
  /\ coordinators = {}
  /\ student = [s \in Students |-> [complete |-> FALSE, semesterId |-> NoSemester]]
  /\ semester = [k \in Semesters |-> "absent"]
  /\ opportunity = [o \in Opportunities |-> NewOpportunity("absent", NoSemester, NoStudent)]
  /\ trail = [o \in Opportunities |-> <<>>]
  /\ internships = {}
  /\ sentinel = [key \in Students \X Opportunities |-> NoInternship]
  /\ newApplication = {}
  /\ verdicts = [o \in Opportunities |-> <<>>]
  /\ phaseNotice = [s \in Students |-> [k \in Semesters |-> "none"]]

StudentStep(s) ==
  \/ \E complete \in BOOLEAN : UpdateUserProfile(s, complete)
  \/ \E k \in Semesters : SelectSemester(s, k)
  \/ \E o \in Opportunities : SubmitOpportunity(s, o)

CoordinatorStep(c) ==
  \/ ProvisionCoordinator(c)
  \/ \E k \in Semesters, status \in FirstStatuses : CreateSemester(c, k, status)
  \/ \E k \in Semesters, to \in Targets : TransitionSemester(c, k, to)
  \/ \E k \in Semesters, o \in Opportunities : CreateOpportunity(c, k, o)
  \/ \E o \in Opportunities, to \in OpportunityTransitionTargets :
        TransitionOpportunity(c, o, to)
  \/ \E o \in Opportunities, decision \in VerificationDecisions, hasComment \in BOOLEAN :
        VerifyOpportunity(c, o, decision, hasComment)

Prepare ==
  \/ \E s \in Students : StudentStep(s)
  \/ \E c \in Coordinators : CoordinatorStep(c)

Apply ==
  \E i \in InternshipIds, s \in Students, o \in Opportunities : CreateInternship(i, s, o)

Next == Prepare \/ Apply

Spec == Init /\ [][Next]_vars

-----------------------------------------------------------------------------
(* Properties.                                                              *)

OpportunityStatuses ==
  {"absent", "draft", "pending_verification", "published", "rejected", "archived"}

Applications ==
  [id : InternshipIds, userId : Students, opportunityId : Opportunities, semesterId : Semesters]

TrailEntries ==
  [type : {"transition", "verification"}, to : {"published", "rejected", "archived"},
   actor : Coordinators]

\* Every document keeps its shape.
PlacementTypeOK ==
  /\ coordinators \in SUBSET Coordinators
  /\ student \in [Students -> [complete : BOOLEAN, semesterId : Semesters \cup {NoSemester}]]
  /\ semester \in [Semesters -> SemesterStatuses \cup {"absent"}]
  /\ opportunity \in [Opportunities -> [status : OpportunityStatuses,
                                        semesterId : Semesters \cup {NoSemester},
                                        submittedByUserId : Students \cup {NoStudent}]]
  /\ trail \in [Opportunities -> Seq(TrailEntries)]
  /\ internships \in SUBSET Applications
  /\ sentinel \in [Students \X Opportunities -> InternshipIds \cup {NoInternship}]
  /\ newApplication \in SUBSET [to : Coordinators, about : InternshipIds]
  /\ verdicts \in [Opportunities -> Seq(VerificationDecisions)]
  /\ phaseNotice \in [Students -> [Semesters -> SemesterTransitionTargets \cup {"none"}]]

\* A student has at most one application per opportunity, however many requests
\* were sent, and an id names one application.
OneApplication ==
  \A i, j \in internships :
    (i.userId = j.userId /\ i.opportunityId = j.opportunityId) \/ i.id = j.id => i = j

\* The sentinel documents and the applications name each other: no application
\* lacks its sentinel, and no sentinel blocks a student who has not applied.
SentinelPerApplication ==
  /\ \A i \in internships : sentinel[<<i.userId, i.opportunityId>>] = i.id
  /\ \A s \in Students, o \in Opportunities :
       sentinel[<<s, o>>] # NoInternship => HasApplied(s, o)

\* An application is, for good, to an opportunity that was published, and in the
\* semester of that opportunity, whatever the student selects or the coordinators
\* archive later.
ApplicationsArePlaced ==
  \A i \in internships :
    /\ opportunity[i.opportunityId].status \in {"published", "archived"}
    /\ opportunity[i.opportunityId].semesterId = i.semesterId

\* No student, opportunity or application is in a semester that does not exist or
\* is still being prepared: a semester in use never goes back to draft.
SemestersInUseWereOpened ==
  LET Opened(k) == semester[k] \notin {"absent", "draft"}
  IN  /\ \A s \in Students : student[s].semesterId # NoSemester => Opened(student[s].semesterId)
      /\ \A o \in Opportunities :
           opportunity[o].status # "absent" => Opened(opportunity[o].semesterId)
      /\ \A i \in internships : Opened(i.semesterId)

\* The audit trail tells the status: that of the last entry, or that of the
\* creation.  It starts with a verification exactly if a student submitted the
\* opportunity, so no submission is published or archived unverified.
TrailExplainsStatus ==
  \A o \in Opportunities :
    LET t == trail[o] doc == opportunity[o]
    IN  IF t = <<>>
        THEN doc.status \in {"absent"} \cup
               IF doc.submittedByUserId = NoStudent THEN {"draft"} ELSE {"pending_verification"}
        ELSE /\ doc.status = t[Len(t)].to
             /\ \A n \in DOMAIN t :
                  t[n].type = "verification" <=> n = 1 /\ doc.submittedByUserId # NoStudent

\* The submitter is told of the verification, once and as it was decided.
SubmitterIsToldOnce ==
  \A o \in Opportunities :
    verdicts[o] = IF trail[o] # <<>> /\ trail[o][1].type = "verification"
                  THEN <<IF trail[o][1].to = "published" THEN "approved" ELSE "rejected">>
                  ELSE <<>>

\* Every student whose selected semester is archived has been told that it is:
\* nobody is left behind by a selection that raced the transition, or by a semester
\* that was opened again and archived again.
ArchivalIsAnnounced ==
  \A s \in Students, k \in Semesters :
    student[s].semesterId = k /\ semester[k] = "archived" => phaseNotice[s][k] = "archived"

\* An application is announced to exactly those who are coordinators at the moment it
\* is filed, though the transaction read the roster earlier and more of them may have
\* been provisioned since.
EveryCoordinatorIsTold ==
  [][\A i \in internships' \ internships :
       {n.to : n \in {m \in newApplication' : m.about = i.id}} = coordinators]_vars

\* transition-semester.ts: when a semester leaves enrollment_open, its enrolled
\* students are notified, so that they know applications are closed.
LeavingEnrollmentIsAnnounced ==
  [][\A k \in Semesters :
       semester[k] = "enrollment_open" /\ semester'[k] # "enrollment_open" =>
         \A s \in Enrolled(k) : phaseNotice'[s][k] = semester'[k]]_vars

-----------------------------------------------------------------------------
(* What those who apply are promised: Listing.                              *)

StageOf(status) ==
  CASE status \in {"absent", "draft", "pending_verification"} -> "not yet"
    [] status = "published" -> "on offer"
    [] status \in {"rejected", "archived"} -> "over"

Offered == INSTANCE Listing WITH
             stage <- [o \in Opportunities |-> StageOf(opportunity[o].status)],
             filed <- {[id |-> i.id, userId |-> i.userId, opportunityId |-> i.opportunityId] :
                         i \in internships}

\* To those who apply, all of this is a Listing: however coordinators verify, publish
\* and archive, and whichever semesters open and close, an opportunity comes on offer
\* once and is never offered again, an application is filed only in between, once per
\* student, and is never lost or rewritten.
ImplementsListing == Offered!Spec

=============================================================================
