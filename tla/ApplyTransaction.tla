--------------------------- MODULE ApplyTransaction ---------------------------
(* CreateInternship as Firestore runs it: one read after the other, while   *)
(* other requests commit, then a commit that takes effect only if what this *)
(* attempt read still holds and every document it creates is new.  The SDK  *)
(* runs the handler again, with the same internship id, when the commit is  *)
(* aborted or its acknowledgement is lost, a bounded number of times.       *)
(*                                                                          *)
(* The query for an earlier application is not assumed to lock the result   *)
(* it found empty: it is the race window that the code's own comment leaves *)
(* to the sentinel.  The other commands are the atomic steps of Placement.  *)
EXTENDS Placement

CONSTANTS
  NoOpportunity,  \* a request that has not been sent names none
  MaxAttempts     \* bound: the attempts of runTransaction

ASSUME AttemptsAreCounted ==
  NoOpportunity \notin Opportunities /\ MaxAttempts \in Nat \ {0}

VARIABLE request   \* the POST /internships requests, by the internship id each has minted

applyVars == <<vars, request>>

Refusals == {"duplicate_application", "refused"}

\* The answers a client gets: created, a refusal, ALREADY_EXISTS from the commit,
\* or the last error once the attempts are used up.
Answers == {"created", "already_exists", "failed"} \cup Refusals

Phases == {"idle", "existing", "student", "opportunity", "semester", "coordinators",
           "commit"} \cup Answers

Request(phase, s, o, k, roster, attempt) ==
  [phase |-> phase, userId |-> s, opportunityId |-> o, semesterId |-> k,
   roster |-> roster, attempt |-> attempt]

Idle == Request("idle", NoStudent, NoOpportunity, NoSemester, {}, 0)

InFlight(r) == request[r].phase \notin {"idle"} \cup Answers

\* The same request in another phase, with what its attempt has read.
Continue(r, phase, k, roster, attempt) ==
  request' = [request EXCEPT ![r] = Request(phase, request[r].userId, request[r].opportunityId,
                                            k, roster, attempt)]

Proceed(r, phase) == Continue(r, phase, request[r].semesterId, {}, request[r].attempt)

\* The client is answered, and what the attempt read is gone.
Answer(r, answer) == Continue(r, answer, NoSemester, {}, 0)

\* The handler starts over, unless this was its last attempt.
Retry(r) ==
  IF request[r].attempt < MaxAttempts
  THEN Continue(r, "existing", NoSemester, {}, request[r].attempt + 1)
  ELSE Answer(r, "failed")

-----------------------------------------------------------------------------
(* The handler, read by read.                                               *)

\* The request keeps no student (ApplyTypeOK).
WrongSend(r, s, o) ==
  /\ request[r].phase = "idle"
  /\ request' = [request EXCEPT ![r] = Request("existing", NoStudent, o, NoSemester, {}, 1)]
  /\ UNCHANGED vars

Send(r, s, o) ==
  /\ request[r].phase = "idle"
  /\ request' = [request EXCEPT ![r] = Request("existing", s, o, NoSemester, {}, 1)]
  /\ UNCHANGED vars

ReadExisting(r) ==
  /\ request[r].phase = "existing"
  /\ IF HasApplied(request[r].userId, request[r].opportunityId)
     THEN Answer(r, "duplicate_application")
     ELSE Proceed(r, "student")
  /\ UNCHANGED vars

ReadStudent(r) ==
  LET k == student[request[r].userId].semesterId
  IN  /\ request[r].phase = "student"
      /\ IF k = NoSemester THEN Answer(r, "refused")
         ELSE Continue(r, "opportunity", k, {}, request[r].attempt)
      /\ UNCHANGED vars

IsOffered(r) ==
  LET doc == opportunity[request[r].opportunityId]
  IN  doc.status = "published" /\ doc.semesterId = request[r].semesterId

ReadOpportunity(r) ==
  /\ request[r].phase = "opportunity"
  /\ IF IsOffered(r) THEN Proceed(r, "semester") ELSE Answer(r, "refused")
  /\ UNCHANGED vars

IsOpen(r) == semester[request[r].semesterId] = "enrollment_open"

ReadSemester(r) ==
  /\ request[r].phase = "semester"
  /\ IF IsOpen(r) THEN Proceed(r, "coordinators") ELSE Answer(r, "refused")
  /\ UNCHANGED vars

ReadCoordinators(r) ==
  /\ request[r].phase = "coordinators"
  /\ Continue(r, "commit", request[r].semesterId, coordinators, request[r].attempt)
  /\ UNCHANGED vars

-----------------------------------------------------------------------------
(* The commit.                                                              *)

\* The query for the coordinators does not lock what it found (EveryCoordinatorIsTold).
WrongReadsStillHold(r) ==
  /\ student[request[r].userId].semesterId = request[r].semesterId
  /\ IsOffered(r)
  /\ IsOpen(r)

ReadsStillHold(r) ==
  /\ student[request[r].userId].semesterId = request[r].semesterId
  /\ IsOffered(r)
  /\ IsOpen(r)
  /\ coordinators = request[r].roster

\* The sentinel is written with `set`, which overwrites (ImplementsPlacement).
WrongCreatesSucceed(r) == \A i \in internships : i.id # r

CreatesSucceed(r) == DocumentsAreNew(r, request[r].userId, request[r].opportunityId)

\* The writes of the attempt take effect.
Commit(r) ==
  /\ request[r].phase = "commit"
  /\ ReadsStillHold(r)
  /\ CreatesSucceed(r)
  /\ SaveApplication(r, request[r].userId, request[r].opportunityId, request[r].roster)

CommitAcknowledged(r) == Commit(r) /\ Answer(r, "created")

\* The commit took effect and the SDK never learns of it.
CommitUnacknowledged(r) == Commit(r) /\ Retry(r)

\* Every error of the commit is translated to a conflict (AnswersAreTruthful).
WrongCommitAlreadyExists(r) ==
  /\ request[r].phase = "commit"
  /\ Answer(r, "already_exists")
  /\ UNCHANGED vars

\* ALREADY_EXISTS is not retried.
CommitAlreadyExists(r) ==
  /\ request[r].phase = "commit"
  /\ ~CreatesSucceed(r)
  /\ Answer(r, "already_exists")
  /\ UNCHANGED vars

\* Something the attempt read has changed, a lock was contended, a call timed out.
Abort(r) ==
  /\ InFlight(r)
  /\ Retry(r)
  /\ UNCHANGED vars

-----------------------------------------------------------------------------
ApplyInit == Init /\ request = [r \in InternshipIds |-> Idle]

RequestStep(r) ==
  \/ \E s \in Students, o \in Opportunities : Send(r, s, o)
  \/ ReadExisting(r)
  \/ ReadStudent(r)
  \/ ReadOpportunity(r)
  \/ ReadSemester(r)
  \/ ReadCoordinators(r)
  \/ CommitAcknowledged(r)
  \/ CommitUnacknowledged(r)
  \/ CommitAlreadyExists(r)
  \/ Abort(r)

ApplyNext ==
  \/ \E r \in InternshipIds : RequestStep(r)
  \/ Prepare /\ UNCHANGED request

ApplySpec == ApplyInit /\ [][ApplyNext]_applyVars

-----------------------------------------------------------------------------
(* Properties.                                                              *)

Requests ==
  [phase : Phases, userId : Students \cup {NoStudent},
   opportunityId : Opportunities \cup {NoOpportunity},
   semesterId : Semesters \cup {NoSemester}, roster : SUBSET Coordinators,
   attempt : 0..MaxAttempts]

\* A request that has been sent names its student and its opportunity.
ApplyTypeOK ==
  /\ PlacementTypeOK
  /\ request \in [InternshipIds -> Requests]
  /\ \A r \in InternshipIds :
       request[r].phase # "idle" =>
         request[r].userId \in Students /\ request[r].opportunityId \in Opportunities

\* What a client is told is so: "created" means that the application with its id is
\* there, and a refusal as a duplicate that the student has applied, if only by an
\* earlier attempt of the same request whose acknowledgement was lost.
AnswersAreTruthful ==
  \A r \in InternshipIds :
    /\ request[r].phase = "created" => \E i \in internships : i.id = r
    /\ request[r].phase \in {"duplicate_application", "already_exists"} =>
         HasApplied(request[r].userId, request[r].opportunityId)

\* Read by read, committed late, aborted and run again, a request still creates its
\* application as CreateInternship does in one step: all the checks hold at the
\* moment of the writes, and the coordinators notified are those of that moment.
ImplementsPlacement == Spec

=============================================================================
