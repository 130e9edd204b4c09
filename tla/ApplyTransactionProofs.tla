------------------------ MODULE ApplyTransactionProofs ------------------------
(* Theorems about ApplyTransaction: the transaction of CreateInternship     *)
(* implements the one step of Placement, so that every theorem about        *)
(* Placement holds of it, and its answers are truthful.                     *)
EXTENDS ApplyTransaction, PlacementProofs

Afterwards == {"opportunity", "semester", "coordinators", "commit"}

\* A request that has been sent names its student and its opportunity, and once the
\* student was read, a semester.
Named(v) ==
  /\ v.phase # "idle" => v.userId \in Students /\ v.opportunityId \in Opportunities
  /\ v.phase \in Afterwards => v.semesterId \in Semesters

RequestOK ==
  /\ request \in [InternshipIds -> Requests]
  /\ \A r \in InternshipIds : Named(request[r])

\* A request keeps its names once it has been sent.
SameNames(v, w) == w.userId = v.userId /\ w.opportunityId = v.opportunityId

\* What one step makes of a request, v, and why.
Becomes(r, v) ==
  /\ v \in Requests
  /\ Named(v)
  /\ v.phase # "idle"
  /\ IF request[r].phase = "idle" THEN v.phase = "existing" ELSE SameNames(request[r], v)
  /\ v.phase = "created" => Commit(r)
  /\ v.phase = "duplicate_application" => HasApplied(request[r].userId, request[r].opportunityId)
  /\ v.phase = "already_exists" => ~CreatesSucceed(r)

\* The fields of a request.
LEMMA RequestFields ==
  ASSUME NEW phase, NEW s, NEW o, NEW k, NEW roster, NEW attempt
  PROVE  LET v == Request(phase, s, o, k, roster, attempt)
         IN  /\ v.phase = phase /\ v.userId = s /\ v.opportunityId = o /\ v.semesterId = k
             /\ v.roster = roster /\ v.attempt = attempt
             /\ phase \in Phases /\ s \in Students \cup {NoStudent}
                  /\ o \in Opportunities \cup {NoOpportunity} /\ k \in Semesters \cup {NoSemester}
                  /\ roster \in SUBSET Coordinators /\ attempt \in 0..MaxAttempts
                => v \in Requests
BY DEF Request, Requests

\* A request that has not been sent is well formed.
LEMMA IdleIsNamed == Idle \in Requests /\ Idle.phase = "idle" /\ Named(Idle)
BY AttemptsAreCounted DEF Idle, Request, Requests, Phases, Answers, Refusals, Named, Afterwards

\* A request that goes on keeps its names.
LEMMA ContinueBecomes ==
  ASSUME RequestOK, NEW r \in InternshipIds, request[r].phase # "idle",
         NEW phase \in Phases \ {"idle"}, NEW k \in Semesters \cup {NoSemester},
         NEW roster \in SUBSET Coordinators, NEW attempt \in 0..MaxAttempts,
         Continue(r, phase, k, roster, attempt),
         phase \in Afterwards => k \in Semesters,
         phase = "created" => Commit(r),
         phase = "duplicate_application"
           => HasApplied(request[r].userId, request[r].opportunityId),
         phase = "already_exists" => ~CreatesSucceed(r)
  PROVE  \E v \in Requests : request' = [request EXCEPT ![r] = v] /\ Becomes(r, v)
<1> DEFINE v == Request(phase, request[r].userId, request[r].opportunityId, k, roster, attempt)
<1>1. request' = [request EXCEPT ![r] = v]
  BY DEF Continue
<1>2. /\ request[r].userId \in Students
      /\ request[r].opportunityId \in Opportunities
  BY DEF RequestOK, Named
<1>3. v \in Requests
  BY <1>2, RequestFields
<1>4. /\ v.phase = phase /\ v.semesterId = k
      /\ v.userId = request[r].userId /\ v.opportunityId = request[r].opportunityId
  BY RequestFields
<1> HIDE DEF v
<1>5. Becomes(r, v)
  BY <1>2, <1>3, <1>4 DEF Becomes, Named, SameNames
<1> QED
  BY <1>1, <1>3, <1>5

\* A retry forgets what was read, or gives up.
LEMMA RetryBecomes ==
  ASSUME RequestOK, NEW r \in InternshipIds, Retry(r), request[r].phase # "idle"
  PROVE  \E v \in Requests : request' = [request EXCEPT ![r] = v] /\ Becomes(r, v)
<1>1. request[r].attempt \in 0..MaxAttempts
  BY DEF RequestOK, Requests
<1>2. CASE request[r].attempt < MaxAttempts
  <2>1. Continue(r, "existing", NoSemester, {}, request[r].attempt + 1)
    BY <1>2 DEF Retry
  <2>2. request[r].attempt + 1 \in 0..MaxAttempts
    BY <1>1, <1>2, AttemptsAreCounted
  <2>3. "existing" \in Phases \ {"idle"} /\ "existing" \notin Afterwards
    BY DEF Phases, Afterwards
  <2> QED
    BY <2>1, <2>2, <2>3, ContinueBecomes
<1>3. CASE ~(request[r].attempt < MaxAttempts)
  <2>1. Continue(r, "failed", NoSemester, {}, 0)
    BY <1>3 DEF Retry, Answer
  <2>2. "failed" \in Phases \ {"idle"} /\ "failed" \notin Afterwards
    BY DEF Phases, Answers, Afterwards
  <2>3. 0 \in 0..MaxAttempts
    BY AttemptsAreCounted
  <2> QED
    BY <2>1, <2>2, <2>3, ContinueBecomes
<1> QED
  BY <1>2, <1>3

\* An answer keeps the names and nothing else.
LEMMA AnswerBecomes ==
  ASSUME RequestOK, NEW r \in InternshipIds, NEW answer \in Answers, Answer(r, answer),
         request[r].phase # "idle",
         answer = "created" => Commit(r),
         answer = "duplicate_application"
           => HasApplied(request[r].userId, request[r].opportunityId),
         answer = "already_exists" => ~CreatesSucceed(r)
  PROVE  \E v \in Requests : request' = [request EXCEPT ![r] = v] /\ Becomes(r, v)
<1>1. Continue(r, answer, NoSemester, {}, 0)
  BY DEF Answer
<1>2. answer \in Phases \ {"idle"} /\ answer \notin Afterwards
  BY DEF Phases, Answers, Refusals, Afterwards
<1>3. 0 \in 0..MaxAttempts
  BY AttemptsAreCounted
<1> QED
  BY <1>1, <1>2, <1>3, ContinueBecomes

\* What a step of a request makes of it.
LEMMA RequestStepBecomes ==
  ASSUME PlacementTypeOK, RequestOK, NEW r \in InternshipIds, RequestStep(r)
  PROVE  \E v \in Requests : request' = [request EXCEPT ![r] = v] /\ Becomes(r, v)
<1> DEFINE Goal == \E v \in Requests : request' = [request EXCEPT ![r] = v] /\ Becomes(r, v)
<1>1. request[r] \in Requests /\ Named(request[r]) /\ request[r].attempt \in 0..MaxAttempts
      /\ request[r].semesterId \in Semesters \cup {NoSemester}
  BY DEF RequestOK, Requests
<1>2. "refused" \in Answers /\ "duplicate_application" \in Answers
      /\ "already_exists" \in Answers /\ "created" \in Answers
  BY DEF Answers, Refusals
<1>3. /\ {"student", "opportunity", "semester", "coordinators", "commit"} \subseteq Phases \ {"idle"}
      /\ "student" \notin Afterwards
      /\ {"opportunity", "semester", "coordinators", "commit"} \subseteq Afterwards
  BY DEF Phases, Afterwards
<1>4. ASSUME NEW s \in Students, NEW o \in Opportunities, Send(r, s, o) PROVE Goal
  <2> DEFINE v == Request("existing", s, o, NoSemester, {}, 1)
  <2>1. request' = [request EXCEPT ![r] = v] /\ request[r].phase = "idle"
    BY <1>4 DEF Send
  <2>2. v \in Requests
    <3>1. "existing" \in Phases /\ 1 \in 0..MaxAttempts
      BY AttemptsAreCounted DEF Phases
    <3> QED
      BY <3>1, RequestFields
  <2>3. v.phase = "existing" /\ v.userId = s /\ v.opportunityId = o
    BY RequestFields
  <2> HIDE DEF v
  <2>4. Becomes(r, v)
    BY <2>1, <2>2, <2>3 DEF Becomes, Named, Afterwards
  <2> QED
    BY <2>1, <2>2, <2>4
<1>5. CASE ReadExisting(r)
  <2>1. request[r].phase = "existing"
    BY <1>5 DEF ReadExisting
  <2>2. CASE HasApplied(request[r].userId, request[r].opportunityId)
    <3>1. Answer(r, "duplicate_application")
      BY <1>5, <2>2 DEF ReadExisting
    <3> QED
      BY <1>2, <2>1, <2>2, <3>1, AnswerBecomes
  <2>3. CASE ~HasApplied(request[r].userId, request[r].opportunityId)
    <3>1. Continue(r, "student", request[r].semesterId, {}, request[r].attempt)
      BY <1>5, <2>3 DEF ReadExisting, Proceed
    <3> QED
      BY <1>1, <1>3, <2>1, <3>1, ContinueBecomes
  <2> QED
    BY <2>2, <2>3
<1>6. CASE ReadStudent(r)
  <2> DEFINE k == student[request[r].userId].semesterId
  <2>1. request[r].phase = "student"
    BY <1>6 DEF ReadStudent
  <2>2. k \in Semesters \cup {NoSemester}
    BY <1>1, <2>1 DEF Named, PlacementTypeOK
  <2>3. CASE k = NoSemester
    <3>1. Answer(r, "refused")
      BY <1>6, <2>3 DEF ReadStudent
    <3> QED
      BY <1>2, <2>1, <3>1, AnswerBecomes
  <2>4. CASE k # NoSemester
    <3>1. Continue(r, "opportunity", k, {}, request[r].attempt)
      BY <1>6, <2>4 DEF ReadStudent
    <3> HIDE DEF k
    <3> QED
      BY <1>1, <1>3, <2>1, <2>2, <2>4, <3>1, ContinueBecomes
  <2> QED
    BY <2>3, <2>4
<1>7. CASE ReadOpportunity(r)
  <2>1. request[r].phase = "opportunity" /\ request[r].semesterId \in Semesters
    BY <1>1, <1>3, <1>7 DEF ReadOpportunity, Named
  <2>2. CASE Answer(r, "refused")
    BY <1>2, <2>1, <2>2, AnswerBecomes
  <2>3. CASE Proceed(r, "semester")
    BY <1>1, <1>3, <2>1, <2>3, ContinueBecomes DEF Proceed
  <2> QED
    BY <1>7, <2>2, <2>3 DEF ReadOpportunity
<1>8. CASE ReadSemester(r)
  <2>1. request[r].phase = "semester" /\ request[r].semesterId \in Semesters
    BY <1>1, <1>3, <1>8 DEF ReadSemester, Named
  <2>2. CASE Answer(r, "refused")
    BY <1>2, <2>1, <2>2, AnswerBecomes
  <2>3. CASE Proceed(r, "coordinators")
    BY <1>1, <1>3, <2>1, <2>3, ContinueBecomes DEF Proceed
  <2> QED
    BY <1>8, <2>2, <2>3 DEF ReadSemester
<1>9. CASE ReadCoordinators(r)
  <2>1. request[r].phase = "coordinators" /\ request[r].semesterId \in Semesters
    BY <1>1, <1>3, <1>9 DEF ReadCoordinators, Named
  <2>2. coordinators \in SUBSET Coordinators
    BY DEF PlacementTypeOK
  <2>3. Continue(r, "commit", request[r].semesterId, coordinators, request[r].attempt)
    BY <1>9 DEF ReadCoordinators
  <2> QED
    BY <1>1, <1>3, <2>1, <2>2, <2>3, ContinueBecomes
<1>10. CASE CommitAcknowledged(r)
  <2>1. Commit(r) /\ Answer(r, "created") /\ request[r].phase # "idle"
    BY <1>10 DEF CommitAcknowledged, Commit
  <2> QED
    BY <1>2, <2>1, AnswerBecomes
<1>11. CASE CommitUnacknowledged(r)
  BY <1>11, RetryBecomes DEF CommitUnacknowledged, Commit
<1>12. CASE CommitAlreadyExists(r)
  <2>1. ~CreatesSucceed(r) /\ Answer(r, "already_exists") /\ request[r].phase # "idle"
    BY <1>12 DEF CommitAlreadyExists
  <2> QED
    BY <1>2, <2>1, AnswerBecomes
<1>13. CASE Abort(r)
  BY <1>13, RetryBecomes DEF Abort, InFlight
<1> QED
  BY <1>4, <1>5, <1>6, <1>7, <1>8, <1>9, <1>10, <1>11, <1>12, <1>13 DEF RequestStep

-----------------------------------------------------------------------------
(* The transaction implements the step.                                     *)

\* A commit is the one step of Placement: what the handler checked holds again, and a
\* sentinel that is still new shows that there is no earlier application, even though
\* the query for one was not locked.
LEMMA CommitRefines ==
  ASSUME PlacementTypeOK, Unique, RequestOK, NEW r \in InternshipIds, Commit(r)
  PROVE  CreateInternship(r, request[r].userId, request[r].opportunityId)
<1> DEFINE s == request[r].userId
           o == request[r].opportunityId
<1>1. s \in Students /\ o \in Opportunities /\ request[r].semesterId \in Semesters
  BY DEF Commit, RequestOK, Named, Afterwards
<1>2. DocumentsAreNew(r, s, o) /\ SaveApplication(r, s, o, coordinators)
  BY DEF Commit, CreatesSucceed, ReadsStillHold
<1>3. CanApply(s, o)
  BY <1>1, AbsentIsNoId DEF Commit, ReadsStillHold, IsOffered, IsOpen, CanApply
<1>4. ~HasApplied(s, o)
  <2> SUFFICES ASSUME NEW x \in internships, x.userId = s, x.opportunityId = o PROVE FALSE
    BY DEF HasApplied
  <2>1. sentinel[<<s, o>>] = x.id
    BY DEF Unique, SentinelPerApplication
  <2>2. sentinel[<<s, o>>] = NoInternship
    BY <1>2 DEF DocumentsAreNew
  <2>3. x.id \in InternshipIds
    BY DEF PlacementTypeOK, Applications
  <2> QED
    BY <2>1, <2>2, <2>3, AbsentIsNoId
<1> QED
  BY <1>2, <1>3, <1>4 DEF CreateInternship

\* A step of a request is a commit, or nothing that Placement sees.
LEMMA RequestStepRefines ==
  ASSUME PlacementTypeOK, Unique, RequestOK, NEW r \in InternshipIds, RequestStep(r)
  PROVE  Apply \/ UNCHANGED vars
<1>1. CASE Commit(r)
  <2>1. request[r].userId \in Students /\ request[r].opportunityId \in Opportunities
    BY <1>1 DEF Commit, RequestOK, Named
  <2> QED
    BY <1>1, <2>1, CommitRefines DEF Apply
<1>2. CASE ~Commit(r)
  BY <1>2 DEF RequestStep, Send, ReadExisting, ReadStudent, ReadOpportunity, ReadSemester,
     ReadCoordinators, CommitAcknowledged, CommitUnacknowledged, CommitAlreadyExists, Abort
<1> QED
  BY <1>1, <1>2

ApplyInv == PlacementTypeOK /\ Unique /\ RequestOK

\* Every step is a step of Placement or a stutter.
LEMMA StepRefines == ApplyInv /\ [ApplyNext]_applyVars => [Next]_vars
BY RequestStepRefines DEF ApplyInv, ApplyNext, applyVars, Next

\* ApplyInv is inductive: of Placement by refinement, of the requests one by one.
LEMMA ApplyInvStep == ApplyInv /\ [ApplyNext]_applyVars => ApplyInv'
<1> SUFFICES ASSUME ApplyInv, [ApplyNext]_applyVars PROVE ApplyInv'
  OBVIOUS
<1>1. PlacementTypeOK' /\ Unique'
  BY StepRefines, PlacementTypeStep, UniqueStep DEF ApplyInv
<1>2. ASSUME NEW r \in InternshipIds, RequestStep(r) PROVE RequestOK'
  <2>1. PICK v \in Requests : request' = [request EXCEPT ![r] = v] /\ Becomes(r, v)
    BY <1>2, RequestStepBecomes DEF ApplyInv
  <2>2. Named(v)
    BY <2>1 DEF Becomes
  <2>3. \A q \in InternshipIds : request'[q] = IF q = r THEN v ELSE request[q]
    BY <2>1 DEF ApplyInv, RequestOK
  <2>4. \A q \in InternshipIds : Named(request'[q])
    BY <2>2, <2>3 DEF ApplyInv, RequestOK
  <2>5. request' \in [InternshipIds -> Requests]
    BY <2>1 DEF ApplyInv, RequestOK
  <2> QED
    BY <2>4, <2>5 DEF RequestOK, Named
<1>3. ASSUME UNCHANGED request PROVE RequestOK'
  BY <1>3 DEF ApplyInv, RequestOK, Named
<1>4. RequestOK'
  BY <1>2, <1>3 DEF ApplyNext, applyVars
<1> QED
  BY <1>1, <1>4 DEF ApplyInv

\* ApplyInv holds throughout.
LEMMA ApplyInvariant == ApplySpec => []ApplyInv
<1>1. ApplyInit => ApplyInv
  <2> SUFFICES ASSUME ApplyInit PROVE ApplyInv
    OBVIOUS
  <2>1. PlacementTypeOK
    BY RolesAreDistinct DEF ApplyInit, Init, PlacementTypeOK, NewOpportunity, OpportunityStatuses
  <2>2. Unique
    BY DEF ApplyInit, Init, Unique, OneApplication, SentinelPerApplication
  <2>3. RequestOK
    BY IdleIsNamed DEF ApplyInit, RequestOK
  <2> QED
    BY <2>1, <2>2, <2>3 DEF ApplyInv
<1> QED
  BY <1>1, ApplyInvStep, PTL DEF ApplySpec

\* Read by read, aborted, run again, with a commit whose acknowledgement may be lost:
\* the transaction creates an application as the one step of Placement does.
THEOREM TransactionImplementsPlacement == ApplySpec => ImplementsPlacement
<1>1. ApplyInit => Init
  BY DEF ApplyInit
<1> QED
  BY <1>1, StepRefines, ApplyInvariant, PTL DEF ApplySpec, ImplementsPlacement, Spec

\* Every document and every request keeps its shape.
THEOREM ApplyTypeCorrect == ApplySpec => []ApplyTypeOK
<1>1. ApplyInv => ApplyTypeOK
  BY DEF ApplyInv, RequestOK, Named, ApplyTypeOK
<1> QED
  BY <1>1, ApplyInvariant, PTL

\* However the requests interleave, a student has one application per opportunity.
THEOREM TransactionsApplyOnce == ApplySpec => []OneApplication
<1>1. ApplyInv => OneApplication
  BY DEF ApplyInv, Unique
<1> QED
  BY <1>1, ApplyInvariant, PTL

\* The roster an attempt read is the one it announces to, or it does not commit:
\* exactly the coordinators of the moment are told of an application.
THEOREM TransactionsAreAnnounced == ApplySpec => EveryCoordinatorIsTold
BY TransactionImplementsPlacement, ApplicationsAreAnnounced DEF ImplementsPlacement

\* Down to single reads and commits, what those who apply are promised is a Listing.
THEOREM TransactionImplementsListing == ApplySpec => ImplementsListing
BY TransactionImplementsPlacement, PlacementImplementsListing DEF ImplementsPlacement

-----------------------------------------------------------------------------
(* The answers.                                                             *)

\* The id of an application is that of the request that created it.
IdsNameRequests ==
  \A x \in internships :
    /\ x.id \in InternshipIds
    /\ request[x.id].phase # "idle"
    /\ x.userId = request[x.id].userId
    /\ x.opportunityId = request[x.id].opportunityId

Truthful(r, v) ==
  /\ v.phase = "created" => \E x \in internships' : x.id = r
  /\ v.phase \in {"duplicate_application", "already_exists"} =>
       \E x \in internships' : x.userId = v.userId /\ x.opportunityId = v.opportunityId

\* An application stays, and a new one is that of a commit.
LEMMA CommitsAdd ==
  ASSUME NEW r \in InternshipIds, RequestStep(r)
  PROVE  IF Commit(r)
         THEN internships' = internships \cup
                {Application(r, request[r].userId, request[r].opportunityId)}
         ELSE internships' = internships
<1>1. CASE Commit(r)
  BY <1>1 DEF Commit, SaveApplication
<1>2. CASE ~Commit(r)
  BY <1>2 DEF RequestStep, Send, ReadExisting, ReadStudent, ReadOpportunity, ReadSemester,
     ReadCoordinators, CommitAcknowledged, CommitUnacknowledged, CommitAlreadyExists, Abort, vars
<1> QED
  BY <1>1, <1>2

\* What a client is told is so.
THEOREM AnswersAreTrue == ApplySpec => []AnswersAreTruthful
<1> DEFINE Inv == AnswersAreTruthful /\ IdsNameRequests
<1>1. ApplyInit => Inv
  BY IdleIsNamed DEF ApplyInit, Init, AnswersAreTruthful, IdsNameRequests
<1>2. ApplyInv /\ Inv /\ [ApplyNext]_applyVars => Inv'
  <2> SUFFICES ASSUME ApplyInv, Inv, [ApplyNext]_applyVars PROVE Inv'
    OBVIOUS
  <2>1. ASSUME NEW r \in InternshipIds, RequestStep(r) PROVE Inv'
    <3> DEFINE a == Application(r, request[r].userId, request[r].opportunityId)
    <3>1. PICK v \in Requests : request' = [request EXCEPT ![r] = v] /\ Becomes(r, v)
      BY <2>1, RequestStepBecomes DEF ApplyInv
    <3>2. \A q \in InternshipIds : request'[q] = IF q = r THEN v ELSE request[q]
      BY <3>1 DEF ApplyInv, RequestOK
    <3>3. internships' = IF Commit(r) THEN internships \cup {a} ELSE internships
      BY <2>1, CommitsAdd
    <3>4. a.id = r /\ a.userId = request[r].userId /\ a.opportunityId = request[r].opportunityId
      BY DEF Application
    <3>5. Commit(r) => request[r].phase # "idle"
      BY DEF Commit
    <3> HIDE DEF a
    <3>6. /\ v.phase # "idle"
          /\ IF request[r].phase = "idle" THEN v.phase = "existing"
             ELSE v.userId = request[r].userId /\ v.opportunityId = request[r].opportunityId
      BY <3>1 DEF Becomes, SameNames
    <3>7. ASSUME NEW x \in internships'
          PROVE  /\ x.id \in InternshipIds /\ request'[x.id].phase # "idle"
                 /\ x.userId = request'[x.id].userId
                 /\ x.opportunityId = request'[x.id].opportunityId
      <4>1. CASE x \in internships
        BY <3>2, <3>6, <4>1 DEF IdsNameRequests
      <4>2. CASE Commit(r) /\ x = a
        BY <3>2, <3>4, <3>5, <3>6, <4>2
      <4> QED
        BY <3>3, <4>1, <4>2
    <3>8. ~CreatesSucceed(r) /\ request[r].phase # "idle"
            => HasApplied(request[r].userId, request[r].opportunityId)
      <4>1. request[r].phase # "idle"
              => request[r].userId \in Students /\ request[r].opportunityId \in Opportunities
        BY DEF ApplyInv, RequestOK, Named
      <4>2. ASSUME NEW x \in internships, x.id = r
            PROVE  HasApplied(request[r].userId, request[r].opportunityId)
        BY <4>2 DEF IdsNameRequests, HasApplied
      <4>3. request[r].phase # "idle"
              /\ sentinel[<<request[r].userId, request[r].opportunityId>>] # NoInternship
              => HasApplied(request[r].userId, request[r].opportunityId)
        BY <4>1 DEF ApplyInv, Unique, SentinelPerApplication
      <4> QED
        BY <4>2, <4>3 DEF CreatesSucceed, DocumentsAreNew
    <3>9. Truthful(r, v)
      <4>1. CASE v.phase = "created"
        <5>1. Commit(r)
          BY <3>1, <4>1 DEF Becomes
        <5> QED
          BY <3>3, <3>4, <4>1, <5>1 DEF Truthful
      <4>2. CASE v.phase \in {"duplicate_application", "already_exists"}
        <5>1. request[r].phase # "idle"
          BY <3>6, <4>2
        <5>2. HasApplied(request[r].userId, request[r].opportunityId)
          BY <3>1, <3>8, <4>2, <5>1 DEF Becomes
        <5> QED
          BY <3>3, <3>6, <4>2, <5>1, <5>2 DEF Truthful, HasApplied
      <4> QED
        BY <4>1, <4>2 DEF Truthful
    <3>10. ASSUME NEW q \in InternshipIds PROVE Truthful(q, request'[q])
      <4>1. CASE q = r
        BY <3>2, <3>9, <4>1
      <4>2. CASE q # r
        BY <3>2, <3>3, <4>2 DEF AnswersAreTruthful, HasApplied, Truthful
      <4> QED
        BY <4>1, <4>2
    <3> QED
      BY <3>7, <3>10 DEF Truthful, AnswersAreTruthful, HasApplied, IdsNameRequests
  <2>2. CASE UNCHANGED <<request, internships>>
    BY <2>2 DEF AnswersAreTruthful, HasApplied, IdsNameRequests
  <2>3. CASE Prepare /\ UNCHANGED request
    BY <2>2, <2>3, PreparationsKeepApplications DEF applicationVars
  <2> QED
    BY <2>1, <2>2, <2>3 DEF ApplyNext, applyVars, vars
<1> QED
  BY <1>1, <1>2, ApplyInvariant, PTL DEF ApplySpec

=============================================================================
