--------------------------- MODULE PlacementProofs ---------------------------
(* Theorems about Placement, for every number of students, semesters,       *)
(* opportunities and applications.                                          *)
EXTENDS Placement, SequenceTheorems, TLAPS

-----------------------------------------------------------------------------
(* What the actions leave alone.                                            *)

\* Nothing but an application touches the applications and their sentinels.
LEMMA PreparationsKeepApplications == Prepare => UNCHANGED applicationVars
<1>1. ASSUME NEW s \in Students, StudentStep(s) PROVE UNCHANGED applicationVars
  BY <1>1 DEF StudentStep, UpdateUserProfile, SelectSemester, SubmitOpportunity,
     SaveNewOpportunity, applicationVars
<1>2. ASSUME NEW c \in Coordinators, CoordinatorStep(c) PROVE UNCHANGED applicationVars
  BY <1>2 DEF CoordinatorStep, ProvisionCoordinator, CreateSemester, TransitionSemester,
     CreateOpportunity, SaveNewOpportunity, TransitionOpportunity, VerifyOpportunity,
     SaveStatus, applicationVars
<1> QED
  BY <1>1, <1>2 DEF Prepare

\* An application changes nothing else.
LEMMA ApplicationsKeepTheRest ==
  Apply => UNCHANGED <<coordinators, student, semesterVars, opportunityVars>>
BY DEF Apply, CreateInternship, SaveApplication

\* A sequence is empty or has a first element, and appending puts an element after
\* all the others and changes none of them.
LEMMA AppendIsLast ==
  ASSUME NEW S, NEW s \in Seq(S), NEW e \in S
  PROVE  /\ Append(s, e) \in Seq(S)
         /\ Append(s, e) # <<>>
         /\ Len(Append(s, e)) = Len(s) + 1
         /\ DOMAIN Append(s, e) = DOMAIN s \cup {Len(s) + 1}
         /\ \A n \in DOMAIN s : Append(s, e)[n] = s[n]
         /\ Append(s, e)[Len(s) + 1] = e
         /\ s = <<>> => Len(s) = 0 /\ DOMAIN s = {}
         /\ s # <<>> => 1 \in DOMAIN s /\ Len(s) + 1 # 1
<1>1. /\ Append(s, e) \in Seq(S)
      /\ Len(Append(s, e)) = Len(s) + 1
      /\ DOMAIN Append(s, e) = DOMAIN s \cup {Len(s) + 1}
      /\ \A n \in DOMAIN s : Append(s, e)[n] = s[n]
      /\ Append(s, e)[Len(s) + 1] = e
  OBVIOUS
<1>2. Len(s) \in Nat /\ DOMAIN s = 1..Len(s)
  OBVIOUS
<1>3. Append(s, e) # <<>>
  BY <1>1, <1>2
<1>4. s = <<>> => Len(s) = 0 /\ DOMAIN s = {}
  BY <1>2
<1>5. s # <<>> => Len(s) # 0
  BY EmptySeq
<1> QED
  BY <1>1, <1>2, <1>3, <1>4, <1>5

-----------------------------------------------------------------------------
\* A step keeps every document's shape.
LEMMA PlacementTypeStep == PlacementTypeOK /\ [Next]_vars => PlacementTypeOK'
<1> SUFFICES ASSUME PlacementTypeOK, [Next]_vars PROVE PlacementTypeOK'
  OBVIOUS
<1>1. ASSUME NEW s \in Students, StudentStep(s) PROVE PlacementTypeOK'
  <2>1. ASSUME NEW b \in BOOLEAN, UpdateUserProfile(s, b) PROVE PlacementTypeOK'
    BY <2>1 DEF UpdateUserProfile, PlacementTypeOK, semesterVars, opportunityVars,
       applicationVars
  <2>2. ASSUME NEW k \in Semesters, SelectSemester(s, k) PROVE PlacementTypeOK'
    BY <2>2 DEF SelectSemester, PlacementTypeOK, semesterVars, opportunityVars,
       applicationVars
  <2>3. ASSUME NEW o \in Opportunities, SubmitOpportunity(s, o) PROVE PlacementTypeOK'
    BY <2>3 DEF SubmitOpportunity, SaveNewOpportunity, NewOpportunity, PlacementTypeOK,
       OpportunityStatuses, semesterVars, applicationVars
  <2> QED
    BY <1>1, <2>1, <2>2, <2>3 DEF StudentStep
<1>2. ASSUME NEW c \in Coordinators, CoordinatorStep(c) PROVE PlacementTypeOK'
  <2>1. CASE ProvisionCoordinator(c)
    BY <2>1 DEF ProvisionCoordinator, PlacementTypeOK, semesterVars, opportunityVars,
       applicationVars
  <2>2. ASSUME NEW k \in Semesters, NEW status \in FirstStatuses,
               CreateSemester(c, k, status)
        PROVE  PlacementTypeOK'
    BY <2>2, InputsAreAccepted DEF CreateSemester, PlacementTypeOK, opportunityVars,
       applicationVars
  <2>3. ASSUME NEW k \in Semesters, NEW to \in Targets, TransitionSemester(c, k, to)
        PROVE  PlacementTypeOK'
    <3>1. to \in SemesterTransitionTargets /\ to \in SemesterStatuses
      BY InputsAreAccepted DEF SemesterTransitionTargets, SemesterStatuses
    <3>2. phaseNotice' \in [Students -> [Semesters -> SemesterTransitionTargets \cup {"none"}]]
      BY <2>3, <3>1 DEF TransitionSemester, PlacementTypeOK
    <3> QED
      BY <2>3, <3>1, <3>2 DEF TransitionSemester, PlacementTypeOK, opportunityVars,
         applicationVars
  <2>4. ASSUME NEW k \in Semesters, NEW o \in Opportunities, CreateOpportunity(c, k, o)
        PROVE  PlacementTypeOK'
    BY <2>4 DEF CreateOpportunity, SaveNewOpportunity, NewOpportunity, PlacementTypeOK,
       OpportunityStatuses, semesterVars, applicationVars
  <2>5. ASSUME NEW o \in Opportunities, NEW type \in {"transition", "verification"},
               NEW to \in {"published", "rejected", "archived"}, SaveStatus(o, type, to, c)
        PROVE  /\ opportunity' \in [Opportunities ->
                                      [status : OpportunityStatuses,
                                       semesterId : Semesters \cup {NoSemester},
                                       submittedByUserId : Students \cup {NoStudent}]]
               /\ trail' \in [Opportunities -> Seq(TrailEntries)]
               /\ UNCHANGED <<coordinators, student, semesterVars, applicationVars>>
    <3> DEFINE Entry == [type |-> type, to |-> to, actor |-> c]
    <3>1. Entry \in TrailEntries
      BY DEF TrailEntries
    <3>2. Append(trail[o], Entry) \in Seq(TrailEntries)
      BY <3>1, AppendIsLast DEF PlacementTypeOK
    <3>3. trail' = [trail EXCEPT ![o] = Append(trail[o], Entry)]
      BY <2>5 DEF SaveStatus
    <3>4. trail' \in [Opportunities -> Seq(TrailEntries)]
      BY <3>2, <3>3 DEF PlacementTypeOK
    <3>5. to \in OpportunityStatuses
      BY DEF OpportunityStatuses
    <3>6. opportunity' = [opportunity EXCEPT ![o].status = to]
      BY <2>5 DEF SaveStatus
    <3>7. opportunity' \in [Opportunities -> [status : OpportunityStatuses,
                                             semesterId : Semesters \cup {NoSemester},
                                             submittedByUserId : Students \cup {NoStudent}]]
      BY <3>5, <3>6 DEF PlacementTypeOK
    <3>8. UNCHANGED <<coordinators, student, semesterVars, applicationVars>>
      BY <2>5 DEF SaveStatus
    <3> QED
      BY <3>4, <3>7, <3>8
  <2>6. ASSUME NEW o \in Opportunities, NEW to \in OpportunityTransitionTargets,
               TransitionOpportunity(c, o, to)
        PROVE  PlacementTypeOK'
    BY <2>5, <2>6 DEF TransitionOpportunity, OpportunityTransitionTargets, PlacementTypeOK,
       semesterVars, applicationVars
  <2>7. ASSUME NEW o \in Opportunities, NEW d \in VerificationDecisions, NEW b \in BOOLEAN,
               VerifyOpportunity(c, o, d, b)
        PROVE  PlacementTypeOK'
    <3>1. Append(verdicts[o], d) \in Seq(VerificationDecisions)
      BY DEF PlacementTypeOK
    <3>2. verdicts' \in [Opportunities -> Seq(VerificationDecisions)]
      BY <2>7, <3>1 DEF VerifyOpportunity, TellSubmitter, PlacementTypeOK
    <3>3. VerifiedStatus(d) \in {"published", "rejected", "archived"}
      BY DEF VerifiedStatus
    <3>4. SaveStatus(o, "verification", VerifiedStatus(d), c)
      BY <2>7 DEF VerifyOpportunity
    <3> QED
      BY <2>5, <3>2, <3>3, <3>4 DEF PlacementTypeOK, semesterVars, applicationVars
  <2> QED
    BY <1>2, <2>1, <2>2, <2>3, <2>4, <2>6, <2>7 DEF CoordinatorStep
<1>3. ASSUME NEW i \in InternshipIds, NEW s \in Students, NEW o \in Opportunities,
             CreateInternship(i, s, o)
      PROVE  PlacementTypeOK'
  <2>1. opportunity[o].semesterId \in Semesters
    BY <1>3, AbsentIsNoId DEF CreateInternship, CanApply, PlacementTypeOK
  <2>2. Application(i, s, o) \in Applications
    BY <2>1 DEF Application, Applications
  <2>3. {[to |-> c, about |-> i] : c \in coordinators}
          \subseteq [to : Coordinators, about : InternshipIds]
    BY DEF PlacementTypeOK
  <2> QED
    BY <1>3, <2>2, <2>3 DEF CreateInternship, SaveApplication, PlacementTypeOK,
       semesterVars, opportunityVars
<1>4. CASE UNCHANGED vars
  BY <1>4 DEF PlacementTypeOK, vars
<1> QED
  BY <1>1, <1>2, <1>3, <1>4 DEF Next, Prepare, Apply

\* Type correctness of every document.
THEOREM PlacementTypeCorrect == Spec => []PlacementTypeOK
<1>1. Init => PlacementTypeOK
  BY RolesAreDistinct DEF Init, PlacementTypeOK, NewOpportunity, OpportunityStatuses
<1> QED
  BY <1>1, PlacementTypeStep, PTL DEF Spec

-----------------------------------------------------------------------------
(* One application per student and opportunity.                             *)

\* The query of the handler and the documents it creates guard the same thing, so
\* neither half of Unique is inductive alone.
Unique == OneApplication /\ SentinelPerApplication

\* Only an application could break it, and the query and the sentinel are checked.
LEMMA UniqueStep == PlacementTypeOK /\ Unique /\ [Next]_vars => Unique'
<1> USE DEF Unique
<1> SUFFICES ASSUME PlacementTypeOK, Unique, [Next]_vars PROVE Unique'
  OBVIOUS
<1>1. ASSUME UNCHANGED applicationVars PROVE Unique'
  BY <1>1 DEF applicationVars, OneApplication, SentinelPerApplication, HasApplied
<1>2. ASSUME NEW i \in InternshipIds, NEW s \in Students, NEW o \in Opportunities,
             CreateInternship(i, s, o)
      PROVE  Unique'
  <2> DEFINE a == Application(i, s, o)
  <2>1. a.id = i /\ a.userId = s /\ a.opportunityId = o
    BY DEF Application
  <2> HIDE DEF a
  <2>2. /\ internships' = internships \cup {a}
        /\ \A x \in internships : x.id # i /\ ~(x.userId = s /\ x.opportunityId = o)
        /\ sentinel'[<<s, o>>] = i
        /\ \A x \in Students, y \in Opportunities :
             x # s \/ y # o => sentinel'[<<x, y>>] = sentinel[<<x, y>>]
    <3>1. /\ internships' = internships \cup {a}
          /\ \A x \in internships : x.id # i /\ ~(x.userId = s /\ x.opportunityId = o)
      BY <1>2 DEF CreateInternship, HasApplied, DocumentsAreNew, SaveApplication, a
    <3>2. sentinel' = [sentinel EXCEPT ![<<s, o>>] = i]
      BY <1>2 DEF CreateInternship, SaveApplication
    <3>3. DOMAIN sentinel = Students \X Opportunities
      BY DEF PlacementTypeOK
    <3> QED
      BY <3>1, <3>2, <3>3
  <2>3. OneApplication'
    BY <2>1, <2>2 DEF OneApplication
  <2>5. ASSUME NEW x \in internships'
        PROVE  sentinel'[<<x.userId, x.opportunityId>>] = x.id
    <3>1. CASE x = a
      BY <2>1, <2>2, <3>1
    <3>2. CASE x \in internships
      <4>1. x.userId # s \/ x.opportunityId # o
        BY <2>2, <3>2
      <4>2. x.userId \in Students /\ x.opportunityId \in Opportunities
        BY <3>2 DEF PlacementTypeOK, Applications
      <4> QED
        BY <2>2, <3>2, <4>1, <4>2 DEF SentinelPerApplication
    <3> QED
      BY <2>2, <3>1, <3>2
  <2>6. ASSUME NEW x \in Students, NEW y \in Opportunities,
               sentinel'[<<x, y>>] # NoInternship
        PROVE  \E j \in internships' : j.userId = x /\ j.opportunityId = y
    <3>1. CASE x = s /\ y = o
      BY <2>1, <2>2, <3>1
    <3>2. CASE x # s \/ y # o
      BY <2>2, <2>6, <3>2 DEF SentinelPerApplication, HasApplied
    <3> QED
      BY <3>1, <3>2
  <2> QED
    BY <2>3, <2>5, <2>6 DEF SentinelPerApplication, HasApplied
<1>3. CASE Prepare
  BY <1>1, <1>3, PreparationsKeepApplications
<1>4. CASE UNCHANGED vars
  BY <1>1, <1>4 DEF vars, applicationVars
<1> QED
  BY <1>2, <1>3, <1>4 DEF Next, Apply

\* At most one application per student and opportunity, and sentinels and
\* applications that name each other.
THEOREM ApplicationsAreUnique == Spec => [](OneApplication /\ SentinelPerApplication)
<1>1. Init => Unique
  BY DEF Init, Unique, OneApplication, SentinelPerApplication
<1> QED
  BY <1>1, UniqueStep, PlacementTypeCorrect, PTL DEF Spec, Unique

-----------------------------------------------------------------------------
(* What one step can do to one opportunity.                                 *)

Untouched(o) ==
  /\ opportunity'[o] = opportunity[o]
  /\ trail'[o] = trail[o]
  /\ verdicts'[o] = verdicts[o]

Created(o) ==
  /\ opportunity[o].status = "absent"
  /\ opportunity'[o].semesterId \in {k \in Semesters : IsRunning(k)}
  /\ \/ opportunity'[o].status = "draft" /\ opportunity'[o].submittedByUserId = NoStudent
     \/ /\ opportunity'[o].status = "pending_verification"
        /\ opportunity'[o].submittedByUserId \in Students
  /\ trail'[o] = trail[o]
  /\ verdicts'[o] = verdicts[o]

SavedAs(o, type, to) ==
  /\ opportunity'[o].status = to
  /\ opportunity'[o].semesterId = opportunity[o].semesterId
  /\ opportunity'[o].submittedByUserId = opportunity[o].submittedByUserId
  /\ \E c \in Coordinators : trail'[o] = Append(trail[o], [type |-> type, to |-> to, actor |-> c])

Moved(o) ==
  \E to \in OpportunityTransitionTargets :
    /\ AllowedTransition(opportunity[o].status, to)
    /\ SavedAs(o, "transition", to)
    /\ verdicts'[o] = verdicts[o]

Verified(o) ==
  \E decision \in VerificationDecisions :
    /\ opportunity[o].status = "pending_verification"
    /\ SavedAs(o, "verification", VerifiedStatus(decision))
    /\ verdicts'[o] = IF opportunity[o].submittedByUserId # NoStudent
                      THEN Append(verdicts[o], decision) ELSE verdicts[o]

\* Creating an opportunity changes that one alone.
LEMMA NewOpportunityIsCreated ==
  ASSUME PlacementTypeOK, NEW o \in Opportunities, NEW p \in Opportunities, NEW k \in Semesters,
         IsRunning(k), NEW doc, SaveNewOpportunity(p, doc),
         \/ doc = NewOpportunity("draft", k, NoStudent)
         \/ \E s \in Students : doc = NewOpportunity("pending_verification", k, s)
  PROVE  Untouched(o) \/ Created(o)
<1>1. /\ opportunity[p].status = "absent"
      /\ opportunity' = [opportunity EXCEPT ![p] = doc]
      /\ trail' = trail /\ verdicts' = verdicts
  BY DEF SaveNewOpportunity
<1>2. CASE o = p
  <2>1. opportunity'[o] = doc
    BY <1>1, <1>2 DEF PlacementTypeOK
  <2>2. /\ doc.semesterId = k
        /\ \/ doc.status = "draft" /\ doc.submittedByUserId = NoStudent
           \/ doc.status = "pending_verification" /\ doc.submittedByUserId \in Students
    BY DEF NewOpportunity
  <2> QED
    BY <1>1, <1>2, <2>1, <2>2 DEF Created
<1>3. CASE o # p
  BY <1>1, <1>3 DEF Untouched, PlacementTypeOK
<1> QED
  BY <1>2, <1>3

\* Saving a status changes that opportunity and its trail alone.
LEMMA SaveStatusSaves ==
  ASSUME PlacementTypeOK, NEW o \in Opportunities, NEW p \in Opportunities,
         NEW type, NEW to, NEW c \in Coordinators, SaveStatus(p, type, to, c)
  PROVE  /\ o = p => SavedAs(o, type, to)
         /\ o # p => opportunity'[o] = opportunity[o] /\ trail'[o] = trail[o]
<1>1. /\ opportunity' = [opportunity EXCEPT ![p] = [opportunity[p] EXCEPT !.status = to]]
      /\ trail' = [trail EXCEPT ![p] = Append(trail[p], [type |-> type, to |-> to, actor |-> c])]
  BY DEF SaveStatus
<1>2. opportunity[p] \in [status : OpportunityStatuses, semesterId : Semesters \cup {NoSemester},
                          submittedByUserId : Students \cup {NoStudent}]
  BY DEF PlacementTypeOK
<1>3. /\ o = p => opportunity'[o] = [opportunity[o] EXCEPT !.status = to]
      /\ o # p => opportunity'[o] = opportunity[o]
  BY <1>1 DEF PlacementTypeOK
<1>4. /\ o = p => trail'[o] = Append(trail[o], [type |-> type, to |-> to, actor |-> c])
      /\ o # p => trail'[o] = trail[o]
  BY <1>1 DEF PlacementTypeOK
<1>5. o = p => /\ opportunity'[o].status = to
               /\ opportunity'[o].semesterId = opportunity[o].semesterId
               /\ opportunity'[o].submittedByUserId = opportunity[o].submittedByUserId
  BY <1>2, <1>3
<1> QED
  BY <1>3, <1>4, <1>5 DEF SavedAs

\* A step leaves an opportunity alone, creates it, moves it or verifies it.
LEMMA OpportunitySteps ==
  ASSUME PlacementTypeOK, [Next]_vars, NEW o \in Opportunities
  PROVE  Untouched(o) \/ Created(o) \/ Moved(o) \/ Verified(o)
<1>1. CASE UNCHANGED opportunityVars
  BY <1>1 DEF opportunityVars, Untouched
<1>2. ASSUME NEW s \in Students, NEW p \in Opportunities, SubmitOpportunity(s, p)
      PROVE  Untouched(o) \/ Created(o)
  <2>1. student[s].semesterId \in Semesters
    BY <1>2 DEF SubmitOpportunity, PlacementTypeOK
  <2> QED
    BY <1>2, <2>1, NewOpportunityIsCreated DEF SubmitOpportunity
<1>3. ASSUME NEW s \in Students, StudentStep(s) PROVE Untouched(o) \/ Created(o)
  BY <1>1, <1>2, <1>3 DEF StudentStep, UpdateUserProfile, SelectSemester, opportunityVars, Untouched
<1>4. ASSUME NEW c \in Coordinators, NEW k \in Semesters, NEW p \in Opportunities,
             CreateOpportunity(c, k, p)
      PROVE  Untouched(o) \/ Created(o)
  BY <1>4, NewOpportunityIsCreated DEF CreateOpportunity
<1>5. ASSUME NEW c \in Coordinators, NEW p \in Opportunities,
             NEW to \in OpportunityTransitionTargets, TransitionOpportunity(c, p, to)
      PROVE  Untouched(o) \/ Moved(o)
  <2>1. SaveStatus(p, "transition", to, c) /\ verdicts' = verdicts
    BY <1>5 DEF TransitionOpportunity
  <2>2. /\ o = p => SavedAs(o, "transition", to)
        /\ o # p => opportunity'[o] = opportunity[o] /\ trail'[o] = trail[o]
    BY <2>1, SaveStatusSaves
  <2> QED
    BY <1>5, <2>1, <2>2 DEF TransitionOpportunity, Untouched, Moved
<1>6. ASSUME NEW c \in Coordinators, NEW p \in Opportunities, NEW d \in VerificationDecisions,
             NEW b \in BOOLEAN, VerifyOpportunity(c, p, d, b)
      PROVE  Untouched(o) \/ Verified(o)
  <2>1. /\ opportunity[p].status = "pending_verification"
        /\ SaveStatus(p, "verification", VerifiedStatus(d), c)
    BY <1>6 DEF VerifyOpportunity
  <2>2. /\ o = p => SavedAs(o, "verification", VerifiedStatus(d))
        /\ o # p => opportunity'[o] = opportunity[o] /\ trail'[o] = trail[o]
    BY <2>1, SaveStatusSaves
  <2>3. /\ o = p => verdicts'[o] = IF opportunity[o].submittedByUserId # NoStudent
                                   THEN Append(verdicts[o], d) ELSE verdicts[o]
        /\ o # p => verdicts'[o] = verdicts[o]
    BY <1>6 DEF VerifyOpportunity, TellSubmitter, PlacementTypeOK
  <2> QED
    BY <2>1, <2>2, <2>3 DEF Untouched, Verified
<1>7. ASSUME NEW c \in Coordinators, CoordinatorStep(c)
      PROVE  Untouched(o) \/ Created(o) \/ Moved(o) \/ Verified(o)
  <2>1. CASE ProvisionCoordinator(c)
    BY <1>1, <2>1 DEF ProvisionCoordinator
  <2>2. CASE \E k \in Semesters, status \in FirstStatuses : CreateSemester(c, k, status)
    BY <1>1, <2>2 DEF CreateSemester
  <2>3. CASE \E k \in Semesters, to \in Targets : TransitionSemester(c, k, to)
    BY <1>1, <2>3 DEF TransitionSemester
  <2> QED
    BY <1>4, <1>5, <1>6, <1>7, <2>1, <2>2, <2>3 DEF CoordinatorStep
<1>8. CASE Apply
  BY <1>1, <1>8, ApplicationsKeepTheRest
<1>9. CASE UNCHANGED vars
  BY <1>1, <1>9 DEF vars, opportunityVars
<1> QED
  BY <1>3, <1>7, <1>8, <1>9 DEF Next, Prepare

-----------------------------------------------------------------------------
(* Semesters in use.                                                        *)

Opened(k) == semester[k] \notin {"absent", "draft"}

\* No step closes a semester for good: an opened one stays in an opened status.
LEMMA OpenedStaysOpened ==
  ASSUME PlacementTypeOK, [Next]_vars, NEW k \in Semesters, Opened(k)
  PROVE  Opened(k)'
<1>1. CASE UNCHANGED semester
  BY <1>1 DEF Opened
<1>2. ASSUME NEW c \in Coordinators, NEW l \in Semesters, NEW status \in FirstStatuses,
             CreateSemester(c, l, status)
      PROVE  Opened(k)'
  BY <1>2 DEF CreateSemester, Opened, PlacementTypeOK
<1>3. ASSUME NEW c \in Coordinators, NEW l \in Semesters, NEW to \in Targets,
             TransitionSemester(c, l, to)
      PROVE  Opened(k)'
  BY <1>3, InputsAreAccepted DEF TransitionSemester, Opened, PlacementTypeOK,
     SemesterTransitionTargets
<1>4. ASSUME NEW c \in Coordinators, CoordinatorStep(c) PROVE Opened(k)'
  BY <1>1, <1>2, <1>3, <1>4 DEF CoordinatorStep, ProvisionCoordinator, CreateOpportunity,
     SaveNewOpportunity, TransitionOpportunity, VerifyOpportunity, SaveStatus, semesterVars
<1>5. ASSUME NEW s \in Students, StudentStep(s) PROVE Opened(k)'
  BY <1>1, <1>5 DEF StudentStep, UpdateUserProfile, SelectSemester, SubmitOpportunity,
     SaveNewOpportunity, semesterVars
<1>6. CASE Apply
  BY <1>1, <1>6, ApplicationsKeepTheRest DEF semesterVars
<1>7. CASE UNCHANGED vars
  BY <1>1, <1>7 DEF vars
<1> QED
  BY <1>4, <1>5, <1>6, <1>7 DEF Next, Prepare

\* A student's selection stays, or moves to a semester that is open.
LEMMA StudentSteps ==
  ASSUME PlacementTypeOK, [Next]_vars, NEW s \in Students
  PROVE  \/ student'[s].semesterId = student[s].semesterId
         \/ \E k \in Semesters :
              /\ semester[k] = "enrollment_open"
              /\ student'[s].semesterId = k
              /\ UNCHANGED <<semester, phaseNotice>>
<1> DEFINE Goal == \/ student'[s].semesterId = student[s].semesterId
                   \/ \E k \in Semesters :
                        /\ semester[k] = "enrollment_open"
                        /\ student'[s].semesterId = k
                        /\ UNCHANGED <<semester, phaseNotice>>
<1>1. student[s] \in [complete : BOOLEAN, semesterId : Semesters \cup {NoSemester}]
  BY DEF PlacementTypeOK
<1>2. CASE UNCHANGED student
  BY <1>2
<1>3. ASSUME NEW t \in Students, NEW b \in BOOLEAN, UpdateUserProfile(t, b)
      PROVE  student'[s].semesterId = student[s].semesterId
  <2>1. student' = [student EXCEPT ![t] = [student[t] EXCEPT !.complete = b]]
    BY <1>3 DEF UpdateUserProfile
  <2> QED
    BY <1>1, <2>1 DEF PlacementTypeOK
<1>4. ASSUME NEW t \in Students, NEW k \in Semesters, SelectSemester(t, k)
      PROVE  Goal
  <2>1. student' = [student EXCEPT ![t] = [student[t] EXCEPT !.semesterId = k]]
    BY <1>4 DEF SelectSemester
  <2>2. semester[k] = "enrollment_open" /\ UNCHANGED <<semester, phaseNotice>>
    BY <1>4 DEF SelectSemester, Selectable, semesterVars
  <2>3. t = s => student'[s].semesterId = k
    BY <1>1, <2>1 DEF PlacementTypeOK
  <2>4. t # s => student'[s] = student[s]
    BY <2>1 DEF PlacementTypeOK
  <2> QED
    BY <2>2, <2>3, <2>4
<1>5. ASSUME NEW t \in Students, StudentStep(t) PROVE Goal
  BY <1>2, <1>3, <1>4, <1>5 DEF StudentStep, SubmitOpportunity, SaveNewOpportunity
<1>6. ASSUME NEW c \in Coordinators, CoordinatorStep(c) PROVE UNCHANGED student
  BY <1>6 DEF CoordinatorStep, ProvisionCoordinator, CreateSemester, TransitionSemester,
     CreateOpportunity, SaveNewOpportunity, TransitionOpportunity, VerifyOpportunity, SaveStatus
<1>7. CASE Apply
  BY <1>2, <1>7, ApplicationsKeepTheRest
<1>8. CASE UNCHANGED vars
  BY <1>2, <1>8 DEF vars
<1> QED
  BY <1>2, <1>5, <1>6, <1>7, <1>8 DEF Next, Prepare

\* An opportunity is in a semester from its creation on.
PlacesAreNamed ==
  \A o \in Opportunities :
    opportunity[o].status # "absent" => opportunity[o].semesterId \in Semesters

\* Both ways of creating an opportunity name a semester, and nothing changes it.
LEMMA OpportunitiesHavePlaces == Spec => []PlacesAreNamed
<1>1. Init => PlacesAreNamed
  BY DEF Init, PlacesAreNamed, NewOpportunity
<1>2. PlacementTypeOK /\ PlacesAreNamed /\ [Next]_vars => PlacesAreNamed'
  <2> SUFFICES ASSUME PlacementTypeOK, PlacesAreNamed, [Next]_vars, NEW o \in Opportunities,
                      opportunity'[o].status # "absent"
               PROVE  opportunity'[o].semesterId \in Semesters
    BY DEF PlacesAreNamed
  <2>1. CASE Created(o)
    BY <2>1 DEF Created
  <2>2. CASE Moved(o) \/ Verified(o)
    BY <2>2 DEF Moved, Verified, SavedAs, AllowedTransition, PlacesAreNamed
  <2>3. CASE Untouched(o)
    BY <2>3 DEF Untouched, PlacesAreNamed
  <2> QED
    BY <2>1, <2>2, <2>3, OpportunitySteps
<1> QED
  BY <1>1, <1>2, PlacementTypeCorrect, PTL DEF Spec

\* An application is a new one only if all the checks passed.
LEMMA ApplicationSteps ==
  ASSUME [Next]_vars, NEW x \in internships', x \notin internships
  PROVE  \E i \in InternshipIds, s \in Students, o \in Opportunities :
           x = Application(i, s, o) /\ CreateInternship(i, s, o)
<1>1. Apply
  BY PreparationsKeepApplications DEF Next, vars, applicationVars
<1> QED
  BY <1>1 DEF Apply, CreateInternship, SaveApplication

\* No student, opportunity or application is in a semester that is absent or in draft.
THEOREM SemestersInUse == Spec => []SemestersInUseWereOpened
<1>1. Init => SemestersInUseWereOpened
  BY DEF Init, SemestersInUseWereOpened, NewOpportunity
<1>2. /\ PlacementTypeOK /\ PlacesAreNamed /\ SemestersInUseWereOpened /\ [Next]_vars
      => SemestersInUseWereOpened'
  <2> SUFFICES ASSUME PlacementTypeOK, PlacesAreNamed, SemestersInUseWereOpened, [Next]_vars
               PROVE  SemestersInUseWereOpened'
    OBVIOUS
  <2>1. ASSUME NEW k \in Semesters, Opened(k)
        PROVE  semester'[k] \notin {"absent", "draft"}
    BY <2>1, OpenedStaysOpened DEF Opened
  <2>2. ASSUME NEW s \in Students, student'[s].semesterId # NoSemester
        PROVE  semester'[student'[s].semesterId] \notin {"absent", "draft"}
    <3>1. CASE student'[s].semesterId = student[s].semesterId
      <4>1. student[s].semesterId \in Semesters /\ Opened(student[s].semesterId)
        BY <2>2, <3>1 DEF PlacementTypeOK, SemestersInUseWereOpened, Opened
      <4> QED
        BY <2>1, <3>1, <4>1
    <3>2. CASE \E k \in Semesters :
                 /\ semester[k] = "enrollment_open"
                 /\ student'[s].semesterId = k
                 /\ UNCHANGED <<semester, phaseNotice>>
      BY <3>2
    <3> QED
      BY <3>1, <3>2, StudentSteps
  <2>3. ASSUME NEW o \in Opportunities, opportunity'[o].status # "absent"
        PROVE  semester'[opportunity'[o].semesterId] \notin {"absent", "draft"}
    <3>1. CASE /\ opportunity[o].status # "absent"
               /\ opportunity'[o].semesterId = opportunity[o].semesterId
      <4>1. Opened(opportunity[o].semesterId)
        BY <3>1 DEF SemestersInUseWereOpened, Opened
      <4>2. opportunity[o].semesterId \in Semesters
        BY <3>1 DEF PlacesAreNamed
      <4> QED
        BY <2>1, <3>1, <4>1, <4>2
    <3>2. CASE Created(o)
      <4>1. opportunity'[o].semesterId \in Semesters /\ Opened(opportunity'[o].semesterId)
        BY <3>2 DEF Created, IsRunning, Opened
      <4> QED
        BY <2>1, <4>1
    <3>3. CASE Moved(o) \/ Verified(o)
      BY <3>1, <3>3 DEF Moved, Verified, SavedAs, AllowedTransition
    <3>4. CASE Untouched(o)
      BY <2>3, <3>1, <3>4 DEF Untouched
    <3> QED
      BY <3>2, <3>3, <3>4, OpportunitySteps
  <2>4. ASSUME NEW x \in internships'
        PROVE  semester'[x.semesterId] \notin {"absent", "draft"}
    <3>1. CASE x \in internships
      <4>1. x.semesterId \in Semesters /\ Opened(x.semesterId)
        BY <3>1 DEF PlacementTypeOK, Applications, SemestersInUseWereOpened, Opened
      <4> QED
        BY <2>1, <4>1
    <3>2. CASE x \notin internships
      <4>1. PICK i \in InternshipIds, s \in Students, o \in Opportunities :
                   x = Application(i, s, o) /\ CreateInternship(i, s, o)
        BY <3>2, ApplicationSteps
      <4>2. x.semesterId = opportunity[o].semesterId
        BY <4>1 DEF Application
      <4>3. semester' = semester /\ semester[opportunity[o].semesterId] = "enrollment_open"
        BY <4>1 DEF CreateInternship, CanApply, SaveApplication, semesterVars
      <4> QED
        BY <4>2, <4>3
    <3> QED
      BY <3>1, <3>2
  <2> QED
    BY <2>2, <2>3, <2>4 DEF SemestersInUseWereOpened
<1> QED
  BY <1>1, <1>2, PlacementTypeCorrect, OpportunitiesHavePlaces, PTL DEF Spec

-----------------------------------------------------------------------------
\* An application is, for good, to an opportunity that was published in its semester.
THEOREM ApplicationsStayPlaced == Spec => []ApplicationsArePlaced
<1>1. Init => ApplicationsArePlaced
  BY DEF Init, ApplicationsArePlaced
<1>2. PlacementTypeOK /\ ApplicationsArePlaced /\ [Next]_vars => ApplicationsArePlaced'
  <2> SUFFICES ASSUME PlacementTypeOK, ApplicationsArePlaced, [Next]_vars,
                      NEW x \in internships'
               PROVE  /\ opportunity'[x.opportunityId].status \in {"published", "archived"}
                      /\ opportunity'[x.opportunityId].semesterId = x.semesterId
    BY DEF ApplicationsArePlaced
  <2>1. CASE x \in internships
    <3>1. x.opportunityId \in Opportunities
      BY <2>1 DEF PlacementTypeOK, Applications
    <3>2. /\ opportunity[x.opportunityId].status \in {"published", "archived"}
          /\ opportunity[x.opportunityId].semesterId = x.semesterId
      BY <2>1 DEF ApplicationsArePlaced
    <3>3. CASE Moved(x.opportunityId)
      BY <3>2, <3>3 DEF Moved, SavedAs, OpportunityTransitionTargets
    <3> QED
      BY <3>1, <3>2, <3>3, OpportunitySteps DEF Untouched, Created, Verified
  <2>2. CASE x \notin internships
    <3>1. PICK i \in InternshipIds, s \in Students, o \in Opportunities :
                 x = Application(i, s, o) /\ CreateInternship(i, s, o)
      BY <2>2, ApplicationSteps
    <3>2. x.opportunityId = o /\ x.semesterId = opportunity[o].semesterId
      BY <3>1 DEF Application
    <3>3. opportunity' = opportunity /\ opportunity[o].status = "published"
      BY <3>1 DEF CreateInternship, CanApply, SaveApplication, opportunityVars
    <3> QED
      BY <3>2, <3>3
  <2> QED
    BY <2>1, <2>2
<1> QED
  BY <1>1, <1>2, PlacementTypeCorrect, PTL DEF Spec

-----------------------------------------------------------------------------
(* The audit trail of an opportunity.                                       *)

\* What the trail says of an opportunity that was saved, when it explained its
\* status before.
LEMMA TrailOfSaved ==
  ASSUME PlacementTypeOK, TrailExplainsStatus, NEW o \in Opportunities,
         NEW type \in {"transition", "verification"},
         NEW to \in {"published", "rejected", "archived"}, SavedAs(o, type, to),
         type = "verification" <=> trail[o] = <<>> /\ opportunity[o].submittedByUserId # NoStudent
  PROVE  /\ trail'[o] # <<>>
         /\ opportunity'[o].status = trail'[o][Len(trail'[o])].to
         /\ \A n \in DOMAIN trail'[o] :
              trail'[o][n].type = "verification"
                <=> n = 1 /\ opportunity'[o].submittedByUserId # NoStudent
<1> DEFINE t == trail[o]
<1>1. PICK c \in Coordinators : trail'[o] = Append(t, [type |-> type, to |-> to, actor |-> c])
  BY DEF SavedAs
<1> DEFINE e == [type |-> type, to |-> to, actor |-> c]
<1>2. t \in Seq(TrailEntries) /\ e \in TrailEntries
  BY DEF PlacementTypeOK, TrailEntries
<1>3. e.type = type /\ e.to = to
  OBVIOUS
<1>4. t # <<>> => \A n \in DOMAIN t :
        t[n].type = "verification" <=> n = 1 /\ opportunity[o].submittedByUserId # NoStudent
  BY DEF TrailExplainsStatus
<1>5. opportunity'[o].status = to
      /\ opportunity'[o].submittedByUserId = opportunity[o].submittedByUserId
  BY DEF SavedAs
<1>6. trail'[o] = Append(t, e)
  BY <1>1
<1> HIDE DEF t, e
<1>7. /\ Append(t, e) # <<>>
      /\ Len(Append(t, e)) = Len(t) + 1
      /\ DOMAIN Append(t, e) = DOMAIN t \cup {Len(t) + 1}
      /\ \A n \in DOMAIN t : Append(t, e)[n] = t[n]
      /\ Append(t, e)[Len(t) + 1] = e
      /\ t = <<>> => Len(t) = 0 /\ DOMAIN t = {}
      /\ t # <<>> => 1 \in DOMAIN t /\ Len(t) + 1 # 1
  BY <1>2, AppendIsLast
<1>8. ASSUME NEW n \in DOMAIN Append(t, e)
      PROVE  Append(t, e)[n].type = "verification"
               <=> n = 1 /\ opportunity[o].submittedByUserId # NoStudent
  <2>1. CASE n \in DOMAIN t
    BY <1>4, <1>7, <2>1
  <2>2. CASE n = Len(t) + 1
    <3>1. Append(t, e)[n].type = type
      BY <1>3, <1>7, <2>2
    <3>2. n = 1 <=> t = <<>>
      BY <1>7, <2>2
    <3> QED
      BY <3>1, <3>2 DEF t
  <2> QED
    BY <1>7, <2>1, <2>2
<1> QED
  BY <1>3, <1>5, <1>6, <1>7, <1>8

\* The status without a trail, and with one.
LEMMA StatusBeforeTrail ==
  ASSUME PlacementTypeOK, TrailExplainsStatus, NEW o \in Opportunities
  PROVE  /\ opportunity[o].status = "absent" => trail[o] = <<>>
         /\ opportunity[o].status = "draft" =>
              trail[o] = <<>> /\ opportunity[o].submittedByUserId = NoStudent
         /\ opportunity[o].status = "pending_verification" =>
              trail[o] = <<>> /\ opportunity[o].submittedByUserId # NoStudent
         /\ opportunity[o].status = "published" => trail[o] # <<>>
<1>1. trail[o] # <<>> => opportunity[o].status \in {"published", "rejected", "archived"}
  <2> SUFFICES ASSUME trail[o] # <<>>
               PROVE  opportunity[o].status \in {"published", "rejected", "archived"}
    OBVIOUS
  <2>1. trail[o] \in Seq(TrailEntries)
    BY DEF PlacementTypeOK
  <2>2. Len(trail[o]) \in DOMAIN trail[o]
    BY <2>1, EmptySeq
  <2>3. trail[o][Len(trail[o])] \in TrailEntries
    BY <2>1, <2>2
  <2> QED
    BY <2>3 DEF TrailExplainsStatus, TrailEntries
<1> QED
  BY <1>1 DEF TrailExplainsStatus

\* The trail tells the status, and starts with the verification of a submission.
THEOREM TrailsExplain == Spec => []TrailExplainsStatus
<1>1. Init => TrailExplainsStatus
  BY DEF Init, TrailExplainsStatus, NewOpportunity
<1>2. PlacementTypeOK /\ TrailExplainsStatus /\ [Next]_vars => TrailExplainsStatus'
  <2> SUFFICES ASSUME PlacementTypeOK, TrailExplainsStatus, [Next]_vars,
                      NEW o \in Opportunities
               PROVE  LET t == trail'[o] doc == opportunity'[o]
                      IN  IF t = <<>>
                          THEN doc.status \in {"absent"} \cup
                                 IF doc.submittedByUserId = NoStudent
                                 THEN {"draft"} ELSE {"pending_verification"}
                          ELSE /\ doc.status = t[Len(t)].to
                               /\ \A n \in DOMAIN t :
                                    t[n].type = "verification"
                                      <=> n = 1 /\ doc.submittedByUserId # NoStudent
    BY DEF TrailExplainsStatus
  <2>1. CASE Untouched(o)
    BY <2>1 DEF Untouched, TrailExplainsStatus
  <2>2. CASE Created(o)
    BY <2>2, StatusBeforeTrail, RolesAreDistinct DEF Created
  <2>3. CASE Moved(o)
    <3>1. PICK to \in OpportunityTransitionTargets :
                 AllowedTransition(opportunity[o].status, to) /\ SavedAs(o, "transition", to)
      BY <2>3 DEF Moved
    <3>2. trail[o] = <<>> => opportunity[o].submittedByUserId = NoStudent
      BY <3>1, StatusBeforeTrail DEF AllowedTransition
    <3>3. to \in {"published", "rejected", "archived"}
      BY DEF OpportunityTransitionTargets
    <3> QED
      BY <3>1, <3>2, <3>3, TrailOfSaved
  <2>4. CASE Verified(o)
    <3>1. PICK d \in VerificationDecisions :
                 /\ opportunity[o].status = "pending_verification"
                 /\ SavedAs(o, "verification", VerifiedStatus(d))
      BY <2>4 DEF Verified
    <3>2. trail[o] = <<>> /\ opportunity[o].submittedByUserId # NoStudent
      BY <3>1, StatusBeforeTrail
    <3>3. VerifiedStatus(d) \in {"published", "rejected", "archived"}
      BY DEF VerifiedStatus
    <3> QED
      BY <3>1, <3>2, <3>3, TrailOfSaved
  <2> QED
    BY <2>1, <2>2, <2>3, <2>4, OpportunitySteps
<1> QED
  BY <1>1, <1>2, PlacementTypeCorrect, PTL DEF Spec

\* The submitter is told of the verification, once and as it was decided.
THEOREM SubmittersAreTold == Spec => []SubmitterIsToldOnce
<1>1. Init => SubmitterIsToldOnce
  BY DEF Init, SubmitterIsToldOnce
<1>2. PlacementTypeOK /\ TrailExplainsStatus /\ SubmitterIsToldOnce /\ [Next]_vars
        => SubmitterIsToldOnce'
  <2> SUFFICES ASSUME PlacementTypeOK, TrailExplainsStatus, SubmitterIsToldOnce, [Next]_vars,
                      NEW o \in Opportunities
               PROVE  verdicts'[o] =
                        IF trail'[o] # <<>> /\ trail'[o][1].type = "verification"
                        THEN <<IF trail'[o][1].to = "published" THEN "approved" ELSE "rejected">>
                        ELSE <<>>
    BY DEF SubmitterIsToldOnce
  <2>1. CASE Untouched(o) \/ Created(o)
    BY <2>1 DEF Untouched, Created, SubmitterIsToldOnce
  <2>2. ASSUME NEW c \in Coordinators, NEW type \in {"transition", "verification"},
               NEW to \in {"published", "rejected", "archived"},
               trail'[o] = Append(trail[o], [type |-> type, to |-> to, actor |-> c])
        PROVE  /\ trail'[o] # <<>>
               /\ trail[o] = <<>> => trail'[o][1].type = type /\ trail'[o][1].to = to
               /\ trail[o] # <<>> => trail'[o][1] = trail[o][1]
    <3> DEFINE t == trail[o]
               e == [type |-> type, to |-> to, actor |-> c]
    <3>1. t \in Seq(TrailEntries) /\ e \in TrailEntries
      BY DEF PlacementTypeOK, TrailEntries
    <3>2. e.type = type /\ e.to = to
      OBVIOUS
    <3>3. trail'[o] = Append(t, e)
      BY <2>2
    <3> HIDE DEF e
    <3>4. /\ Append(t, e) # <<>>
          /\ \A n \in DOMAIN t : Append(t, e)[n] = t[n]
          /\ Append(t, e)[Len(t) + 1] = e
          /\ t = <<>> => Len(t) = 0
          /\ t # <<>> => 1 \in DOMAIN t
      BY <3>1, AppendIsLast
    <3> QED
      BY <3>2, <3>3, <3>4
  <2>3. CASE Moved(o)
    <3>1. PICK to \in OpportunityTransitionTargets, c \in Coordinators :
                 trail'[o] = Append(trail[o], [type |-> "transition", to |-> to, actor |-> c])
      BY <2>3 DEF Moved, SavedAs
    <3>2. to \in {"published", "rejected", "archived"} /\ verdicts'[o] = verdicts[o]
      BY <2>3 DEF Moved, OpportunityTransitionTargets
    <3> QED
      BY <2>2, <3>1, <3>2 DEF SubmitterIsToldOnce
  <2>4. CASE Verified(o)
    <3>1. PICK d \in VerificationDecisions :
                 /\ opportunity[o].status = "pending_verification"
                 /\ SavedAs(o, "verification", VerifiedStatus(d))
                 /\ verdicts'[o] = IF opportunity[o].submittedByUserId # NoStudent
                                   THEN Append(verdicts[o], d) ELSE verdicts[o]
      BY <2>4 DEF Verified
    <3>2. trail[o] = <<>> /\ opportunity[o].submittedByUserId # NoStudent
      BY <3>1, StatusBeforeTrail
    <3>3. verdicts[o] = <<>>
      BY <3>2 DEF SubmitterIsToldOnce
    <3>4. verdicts'[o] = <<d>>
      BY <3>1, <3>2, <3>3
    <3>5. PICK c \in Coordinators :
                 trail'[o] = Append(trail[o], [type |-> "verification",
                                               to |-> VerifiedStatus(d), actor |-> c])
      BY <3>1 DEF SavedAs
    <3>6. VerifiedStatus(d) \in {"published", "rejected", "archived"}
      BY DEF VerifiedStatus
    <3>7. trail'[o] # <<>> /\ trail'[o][1].type = "verification"
          /\ trail'[o][1].to = VerifiedStatus(d)
      BY <2>2, <3>2, <3>5, <3>6
    <3>8. d = IF VerifiedStatus(d) = "published" THEN "approved" ELSE "rejected"
      BY DEF VerifiedStatus, VerificationDecisions
    <3> QED
      BY <3>4, <3>7, <3>8
  <2> QED
    BY <2>1, <2>3, <2>4, OpportunitySteps
<1> QED
  BY <1>1, <1>2, PlacementTypeCorrect, TrailsExplain, PTL DEF Spec

-----------------------------------------------------------------------------
(* Archival.                                                                *)

\* What one step can do to a semester, and to what a student was told of it.
LEMMA SemesterSteps ==
  ASSUME PlacementTypeOK, [Next]_vars, NEW s \in Students, NEW k \in Semesters
  PROVE  \/ semester'[k] = semester[k] /\ phaseNotice'[s][k] = phaseNotice[s][k]
         \/ semester[k] = "absent" /\ student' = student
         \/ /\ student' = student
            /\ semester'[k] = "archived" /\ student[s].semesterId = k
                 => phaseNotice'[s][k] = "archived"
<1> DEFINE Goal == \/ semester'[k] = semester[k] /\ phaseNotice'[s][k] = phaseNotice[s][k]
                   \/ semester[k] = "absent" /\ student' = student
                   \/ /\ student' = student
                      /\ semester'[k] = "archived" /\ student[s].semesterId = k
                           => phaseNotice'[s][k] = "archived"
<1>1. CASE UNCHANGED semesterVars
  BY <1>1 DEF semesterVars
<1>2. ASSUME NEW c \in Coordinators, NEW l \in Semesters, NEW status \in FirstStatuses,
             CreateSemester(c, l, status)
      PROVE  Goal
  BY <1>2 DEF CreateSemester, PlacementTypeOK
<1>3. ASSUME NEW c \in Coordinators, NEW l \in Semesters, NEW to \in Targets,
             TransitionSemester(c, l, to)
      PROVE  Goal
  <2>1. phaseNotice[s] \in [Semesters -> SemesterTransitionTargets \cup {"none"}]
    BY DEF PlacementTypeOK
  <2>2. phaseNotice'[s] = IF s \in Enrolled(l) /\ ShouldNotifyEnrolledStudents(semester[l], to)
                          THEN [phaseNotice[s] EXCEPT ![l] = to] ELSE phaseNotice[s]
    BY <1>3 DEF TransitionSemester
  <2>3. semester' = [semester EXCEPT ![l] = to] /\ student' = student
    BY <1>3 DEF TransitionSemester
  <2>4. CASE l # k
    BY <2>1, <2>2, <2>3, <2>4 DEF PlacementTypeOK
  <2>5. CASE l = k
    <3>1. semester'[k] = to
      BY <2>3, <2>5 DEF PlacementTypeOK
    <3>2. ASSUME to = "archived", student[s].semesterId = k
          PROVE  phaseNotice'[s][k] = "archived"
      BY <2>1, <2>2, <2>5, <3>2 DEF Enrolled, ShouldNotifyEnrolledStudents
    <3> QED
      BY <2>3, <3>1, <3>2
  <2> QED
    BY <2>4, <2>5
<1>4. ASSUME NEW c \in Coordinators, CoordinatorStep(c) PROVE Goal
  BY <1>1, <1>2, <1>3, <1>4 DEF CoordinatorStep, ProvisionCoordinator, CreateOpportunity,
     SaveNewOpportunity, TransitionOpportunity, VerifyOpportunity, SaveStatus
<1>5. ASSUME NEW t \in Students, StudentStep(t) PROVE UNCHANGED semesterVars
  BY <1>5 DEF StudentStep, UpdateUserProfile, SelectSemester, SubmitOpportunity,
     SaveNewOpportunity
<1>6. CASE Apply
  BY <1>1, <1>6, ApplicationsKeepTheRest
<1>7. CASE UNCHANGED vars
  BY <1>1, <1>7 DEF vars, semesterVars
<1> QED
  BY <1>1, <1>4, <1>5, <1>6, <1>7 DEF Next, Prepare

\* Every student whose selected semester is archived has been told that it is.
THEOREM ArchivalsAreAnnounced == Spec => []ArchivalIsAnnounced
<1>1. Init => ArchivalIsAnnounced
  BY DEF Init, ArchivalIsAnnounced
<1>2. PlacementTypeOK /\ SemestersInUseWereOpened /\ ArchivalIsAnnounced /\ [Next]_vars
        => ArchivalIsAnnounced'
  <2> SUFFICES ASSUME PlacementTypeOK, SemestersInUseWereOpened, ArchivalIsAnnounced, [Next]_vars,
                      NEW s \in Students, NEW k \in Semesters,
                      student'[s].semesterId = k, semester'[k] = "archived"
               PROVE  phaseNotice'[s][k] = "archived"
    BY DEF ArchivalIsAnnounced
  <2>1. student'[s].semesterId = student[s].semesterId
    BY StudentSteps
  <2>2. semester[k] # "absent"
    BY <2>1, AbsentIsNoId DEF SemestersInUseWereOpened
  <2>3. semester[k] = "archived" => phaseNotice[s][k] = "archived"
    BY <2>1 DEF ArchivalIsAnnounced
  <2> QED
    BY <2>1, <2>2, <2>3, SemesterSteps
<1> QED
  BY <1>1, <1>2, PlacementTypeCorrect, SemestersInUse, PTL DEF Spec

-----------------------------------------------------------------------------
(* What those who apply are promised.                                       *)

\* A step touches one opportunity, if any.
LEMMA OneOpportunityAtATime ==
  ASSUME [Next]_vars
  PROVE  \/ opportunity' = opportunity
         \/ \E o \in Opportunities : \E doc : opportunity' = [opportunity EXCEPT ![o] = doc]
<1>1. ASSUME NEW s \in Students, StudentStep(s)
      PROVE  \/ opportunity' = opportunity
             \/ \E o \in Opportunities : \E doc : opportunity' = [opportunity EXCEPT ![o] = doc]
  BY <1>1 DEF StudentStep, UpdateUserProfile, SelectSemester, SubmitOpportunity,
     SaveNewOpportunity, opportunityVars
<1>2. ASSUME NEW c \in Coordinators, CoordinatorStep(c)
      PROVE  \/ opportunity' = opportunity
             \/ \E o \in Opportunities : \E doc : opportunity' = [opportunity EXCEPT ![o] = doc]
  BY <1>2 DEF CoordinatorStep, ProvisionCoordinator, CreateSemester, TransitionSemester,
     CreateOpportunity, SaveNewOpportunity, TransitionOpportunity, VerifyOpportunity,
     SaveStatus, opportunityVars
<1>3. CASE Apply
  BY <1>3, ApplicationsKeepTheRest DEF opportunityVars
<1>4. CASE UNCHANGED vars
  BY <1>4 DEF vars
<1> QED
  BY <1>1, <1>2, <1>3, <1>4 DEF Next, Prepare

Stage == [o \in Opportunities |-> StageOf(opportunity[o].status)]

Filing(x) == [id |-> x.id, userId |-> x.userId, opportunityId |-> x.opportunityId]

Filed == {Filing(x) : x \in internships}

\* An opportunity's stage moves as Publish and End move it.
LEMMA StagesOnlyAdvance ==
  ASSUME PlacementTypeOK, [Next]_vars, NEW o \in Opportunities
  PROVE  \/ Stage'[o] = Stage[o]
         \/ Stage[o] = "not yet" /\ Stage'[o] = "on offer"
         \/ Stage[o] # "over" /\ Stage'[o] = "over"
<1>1. /\ Stage[o] = StageOf(opportunity[o].status)
      /\ Stage'[o] = StageOf(opportunity'[o].status)
  BY DEF Stage
<1>2. /\ StageOf("absent") = "not yet" /\ StageOf("draft") = "not yet"
      /\ StageOf("pending_verification") = "not yet" /\ StageOf("published") = "on offer"
      /\ StageOf("rejected") = "over" /\ StageOf("archived") = "over"
  BY DEF StageOf
<1>3. CASE Untouched(o)
  BY <1>1, <1>3 DEF Untouched
<1>4. CASE Created(o)
  BY <1>1, <1>2, <1>4 DEF Created
<1>5. CASE Moved(o)
  BY <1>1, <1>2, <1>5 DEF Moved, SavedAs, AllowedTransition, OpportunityTransitionTargets
<1>6. CASE Verified(o)
  BY <1>1, <1>2, <1>6 DEF Verified, SavedAs, VerifiedStatus
<1> QED
  BY <1>3, <1>4, <1>5, <1>6, OpportunitySteps

\* A preparation publishes or ends one opportunity, or is nothing that Listing sees.
LEMMA PreparationRefines ==
  ASSUME PlacementTypeOK, Prepare
  PROVE  Offered!Next \/ UNCHANGED <<Stage, Filed>>
<1>1. Filed' = Filed
  BY PreparationsKeepApplications DEF Filed, applicationVars
<1>2. CASE opportunity' = opportunity
  BY <1>1, <1>2 DEF Stage
<1>3. ASSUME NEW o \in Opportunities, NEW doc, opportunity' = [opportunity EXCEPT ![o] = doc]
      PROVE  Offered!Next \/ UNCHANGED <<Stage, Filed>>
  <2>1. \A p \in Opportunities : p # o => opportunity'[p] = opportunity[p]
    BY <1>3 DEF PlacementTypeOK
  <2>2. Stage' = [Stage EXCEPT ![o] = Stage'[o]]
    BY <2>1 DEF Stage
  <2>3. Stage'[o] = Stage[o] => Stage' = Stage
    BY <2>2 DEF Stage
  <2>4. Stage[o] = "not yet" /\ Stage'[o] = "on offer" => Offered!Publish(o)
    BY <1>1, <2>2 DEF Offered!Publish, Stage, Filed, Filing
  <2>5. Stage[o] # "over" /\ Stage'[o] = "over" => Offered!End(o)
    BY <1>1, <2>2 DEF Offered!End, Stage, Filed, Filing
  <2>6. Next
    BY DEF Next
  <2>7. \/ Stage'[o] = Stage[o]
        \/ Stage[o] = "not yet" /\ Stage'[o] = "on offer"
        \/ Stage[o] # "over" /\ Stage'[o] = "over"
    BY <2>6, StagesOnlyAdvance
  <2> QED
    BY <1>1, <2>3, <2>4, <2>5, <2>7 DEF Offered!Next
<1> QED
  BY <1>2, <1>3, OneOpportunityAtATime DEF Next

\* An application is filed: on offer, and the first of that student.
LEMMA ApplicationRefines ==
  ASSUME PlacementTypeOK, NEW i \in InternshipIds, NEW s \in Students, NEW o \in Opportunities,
         CreateInternship(i, s, o)
  PROVE  Offered!File(i, s, o)
<1>1. Stage[o] = "on offer"
  BY DEF CreateInternship, CanApply, Stage, StageOf
<1>2. Stage' = Stage
  BY DEF CreateInternship, SaveApplication, opportunityVars, Stage
<1>3. \A y \in Filed : y.id # i /\ ~(y.userId = s /\ y.opportunityId = o)
  BY DEF CreateInternship, HasApplied, DocumentsAreNew, Filed, Filing
<1>4. Filing(Application(i, s, o)) = [id |-> i, userId |-> s, opportunityId |-> o]
  BY DEF Filing, Application
<1>5. Filed' = Filed \cup {[id |-> i, userId |-> s, opportunityId |-> o]}
  <2>1. internships' = internships \cup {Application(i, s, o)}
    BY DEF CreateInternship, SaveApplication
  <2> QED
    BY <1>4, <2>1 DEF Filed
<1> QED
  BY <1>1, <1>2, <1>3, <1>5 DEF Offered!File, Stage, Filed, Filing

\* Coordinators, semesters, verifications, sentinels and notifications apart, all of
\* Placement is a Listing: one stretch on offer, one application per student within it.
THEOREM PlacementImplementsListing == Spec => ImplementsListing
<1>1. Init => Offered!Init
  BY DEF Init, Offered!Init, NewOpportunity, StageOf
<1>2. PlacementTypeOK /\ [Next]_vars => [Offered!Next]_Offered!vars
  <2> SUFFICES ASSUME PlacementTypeOK, [Next]_vars
               PROVE  Offered!Next \/ UNCHANGED <<Stage, Filed>>
    BY DEF Offered!vars, Stage, Filed, Filing
  <2>1. CASE Apply
    BY <2>1, ApplicationRefines DEF Apply, Offered!Next
  <2>2. CASE UNCHANGED vars
    BY <2>2 DEF vars, Stage, Filed
  <2> QED
    BY <2>1, <2>2, PreparationRefines DEF Next
<1> QED
  BY <1>1, <1>2, PlacementTypeCorrect, PTL DEF Spec, ImplementsListing, Offered!Spec

-----------------------------------------------------------------------------
(* Who is told of an application.                                           *)

\* A notice is of an application that is there.
NoticesAreOfApplications ==
  \A n \in newApplication : \E x \in internships : x.id = n.about

LEMMA NoticesStep == NoticesAreOfApplications /\ [Next]_vars => NoticesAreOfApplications'
<1> SUFFICES ASSUME NoticesAreOfApplications, [Next]_vars PROVE NoticesAreOfApplications'
  OBVIOUS
<1>1. CASE UNCHANGED applicationVars
  BY <1>1 DEF applicationVars, NoticesAreOfApplications
<1>2. ASSUME NEW i \in InternshipIds, NEW s \in Students, NEW o \in Opportunities,
             CreateInternship(i, s, o)
      PROVE  NoticesAreOfApplications'
  <2>1. /\ internships' = internships \cup {Application(i, s, o)}
        /\ newApplication' = newApplication \cup {[to |-> c, about |-> i] : c \in coordinators}
    BY <1>2 DEF CreateInternship, SaveApplication
  <2>2. Application(i, s, o).id = i
    BY DEF Application
  <2> QED
    BY <2>1, <2>2 DEF NoticesAreOfApplications
<1> QED
  BY <1>1, <1>2, PreparationsKeepApplications DEF Next, Apply, vars, applicationVars

\* Exactly the coordinators of the moment are told of an application: its id is new,
\* so no earlier notice is about it.
THEOREM ApplicationsAreAnnounced == Spec => EveryCoordinatorIsTold
<1>1. Init => NoticesAreOfApplications
  BY DEF Init, NoticesAreOfApplications
<1>2. NoticesAreOfApplications /\ [Next]_vars
        => [\A i \in internships' \ internships :
              {n.to : n \in {m \in newApplication' : m.about = i.id}} = coordinators]_vars
  <2> SUFFICES ASSUME NoticesAreOfApplications, [Next]_vars,
                      NEW i \in internships', i \notin internships
               PROVE  {n.to : n \in {m \in newApplication' : m.about = i.id}} = coordinators
    OBVIOUS
  <2>1. PICK r \in InternshipIds, s \in Students, o \in Opportunities :
          i = Application(r, s, o) /\ CreateInternship(r, s, o)
    BY ApplicationSteps
  <2>2. /\ newApplication' = newApplication \cup {[to |-> c, about |-> r] : c \in coordinators}
        /\ \A y \in internships : y.id # r
    BY <2>1 DEF CreateInternship, DocumentsAreNew, SaveApplication
  <2>3. i.id = r
    BY <2>1 DEF Application
  <2>4. \A n \in newApplication : n.about # r
    BY <2>2 DEF NoticesAreOfApplications
  <2>5. ASSUME NEW n \in newApplication', n.about = i.id PROVE n.to \in coordinators
    BY <2>2, <2>3, <2>4, <2>5
  <2>6. ASSUME NEW c \in coordinators
        PROVE  \E n \in {m \in newApplication' : m.about = i.id} : n.to = c
    <3>1. [to |-> c, about |-> r] \in newApplication'
      BY <2>2
    <3> QED
      BY <2>3, <3>1
  <2> QED
    BY <2>5, <2>6
<1> QED
  BY <1>1, <1>2, NoticesStep, PTL DEF Spec, EveryCoordinatorIsTold

=============================================================================
