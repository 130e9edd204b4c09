----------------------------- MODULE Internship -----------------------------
(* The Internship aggregate: one student's application to one opportunity,  *)
(* from `applied` to a final status, with its offer attachments, activity   *)
(* timeline, the purge outbox and the notifications its decisions send.     *)
(*                                                                          *)
(* Every command handler runs inside one serializable Firestore transaction *)
(* and a thrown error rolls the whole of it back, so a handler is one       *)
(* atomic action whose guard is the conjunction of its checks.  What is NOT *)
(* atomic is a client: it GETs the parent document and the attachments in   *)
(* two reads, thinks, and only later sends a command, with the version it   *)
(* read in If-Match or with none.                                           *)
(*                                                                          *)
(* When the acknowledgement of a commit is lost, the SDK runs the callback   *)
(* of the transaction again.  Most handlers mint their ids in the callback, *)
(* so the second run is what the same command sent again would be.  The     *)
(* upload intent mints its id before: it may write the same row twice.      *)
(*                                                                          *)
(* Operators whose name starts with Wrong are not part of the model: each   *)
(* is the operator defined after it with a mistake, kept to show that the   *)
(* property named in its comment notices that mistake.                      *)
EXTENDS Integers, Sequences, FiniteSets

CONSTANTS
  Owner,            \* the student who owns the internship
  Coordinators,     \* users whose role is 'coordinator'
  Strangers,        \* other students
  AttachmentIds,    \* att_<uuid>: each is minted for one upload intent
  Generations,      \* GCS object generations an OBJECT_FINALIZE can carry
  NoGeneration,     \* storageGeneration undefined
  Dates,            \* calendar days an offer can name
  NoDate,           \* a date field that is undefined
  NoDecision,       \* coordinatorDecision undefined
  NoReviewer,       \* reviewedByUserId undefined
  Readers,          \* the users whose cached GET is followed
  MaxVersion,       \* bound: the version counter
  MaxActivity,      \* bound: the length of the timeline
  MaxAdditions      \* bound: how often one upload intent writes its row

ASSUME UsersAreDistinct ==
  /\ Owner \notin Coordinators \cup Strangers
  /\ Coordinators \cap Strangers = {}
  /\ NoReviewer \notin {Owner} \cup Coordinators \cup Strangers
  /\ Readers \subseteq {Owner} \cup Coordinators

ASSUME DatesAreDays == Dates \subseteq Nat /\ NoDate \notin Nat

ASSUME BoundsAreNaturals ==
  MaxVersion \in Nat /\ MaxActivity \in Nat /\ MaxAdditions \in Nat

ASSUME UndefinedIsNoValue ==
  /\ NoGeneration \notin Generations
  /\ NoDecision \notin {"approved", "rejected", "changes_requested"}

VARIABLES
  internship,   \* the fields of the parent document, but for its version
  version,      \* the optimistic-concurrency counter of the parent document
  attachments,  \* the attachments subcollection
  activity,     \* the activity subcollection, in creation order
  purgeQueue,   \* the attachmentPurgeQueue outbox rows of this internship
  notified,     \* the offer_decision notifications sent to the owner
  view,         \* what each reader's latest GET has returned so far
  unacked,      \* the upload intents carried out whose acknowledgement was lost
  added         \* how often the row of each attachment was written anew: history

intents == <<unacked, added>>

vars == <<internship, version, attachments, activity, purgeQueue, notified, view,
          unacked, added>>

-----------------------------------------------------------------------------
Users == {Owner} \cup Coordinators \cup Strangers

Statuses == {"applied", "offer_pending_review", "offer_changes_requested",
             "offer_approved", "rejected", "withdrawn"}

Decisions == {"approved", "rejected", "changes_requested"}

ActivityTypes == {"apply", "submit_offer", "comment", "approve_offer",
                  "request_changes", "reject", "edit", "withdraw"}

\* "absent": its intent has not been carried out yet; "deleted": no row any more.
UploadStatuses == {"absent", "uploading", "finalized", "deleted"}

MaybeDates == Dates \cup {NoDate}

Role(u) == IF u \in Coordinators THEN "coordinator" ELSE "student"

RequireRole(u, role) == Role(u) = role

RequireSelfOrRole(u, privileged) == u = Owner \/ Role(u) \in privileged

\* If-Match is optional; versions start at 1, so 0 stands for "no header".
NoIfMatch == 0

\* Any version up to the current one will do (ConditionalDecisionIsInformed).
WrongIfMatchHolds(ifMatch) == ifMatch # NoIfMatch => ifMatch <= version

IfMatchHolds(ifMatch) == ifMatch # NoIfMatch => ifMatch = version

-----------------------------------------------------------------------------
(* The aggregate's own rules.                                               *)

DatesOrdered(doc) ==
  doc.startDate # NoDate /\ doc.endDate # NoDate => doc.startDate <= doc.endDate

\* `a ?? b`
OrElse(date, old) == IF date = NoDate THEN old ELSE date

IsFinalized(a) == attachments[a].uploadStatus = "finalized"

HasRow(a) == attachments[a].uploadStatus \in {"uploading", "finalized"}

Rows == {a \in AttachmentIds : HasRow(a)}

Editable(status) == status \notin {"offer_approved", "rejected", "withdrawn"}

\* A pending offer can be submitted again (ImplementsOfferLifecycle).
WrongSubmittable(status) ==
  status \in {"applied", "offer_changes_requested", "offer_pending_review"}

Submittable(status) == status \in {"applied", "offer_changes_requested"}

Withdrawable(status) ==
  status \in {"applied", "offer_pending_review", "offer_changes_requested"}

\* Attachments can be deleted during the review (ReviewedOfferIsComplete).
WrongDeletableStatuses == {"applied", "offer_changes_requested", "offer_pending_review"}

DeletableStatuses == {"applied", "offer_changes_requested"}

\* endDate is replaced as given: null in a PATCH clears it, and for a PATCH
\* without it the handler passes the stored one.
WithOfferDetails(doc, start, end) ==
  [doc EXCEPT !.startDate = OrElse(start, doc.startDate), !.endDate = end]

\* A resubmission forgets half of the last decision (LogExplainsDecision).
WrongSubmitted(doc, start, end) ==
  [doc EXCEPT !.status = "offer_pending_review", !.coordinatorDecision = NoDecision]

Submitted(doc, start, end) ==
  [doc EXCEPT !.startDate = OrElse(start, doc.startDate),
              !.endDate = OrElse(end, doc.endDate),
              !.status = "offer_pending_review"]

\* The decision is stored where a status belongs (TypeOK).
WrongStatusOfDecision == [d \in Decisions |-> d]

StatusOfDecision ==
  [d \in Decisions |-> CASE d = "approved" -> "offer_approved"
                         [] d = "changes_requested" -> "offer_changes_requested"
                         [] d = "rejected" -> "rejected"]

Decided(doc, decision, reviewer) ==
  [doc EXCEPT !.status = StatusOfDecision[decision],
              !.coordinatorDecision = decision,
              !.reviewedByUserId = reviewer]

CommentIsEnough(decision, hasComment) ==
  decision \in {"changes_requested", "rejected"} => hasComment

ActivityOfDecision ==
  [d \in Decisions |-> CASE d = "approved" -> "approve_offer"
                         [] d = "changes_requested" -> "request_changes"
                         [] d = "rejected" -> "reject"]

-----------------------------------------------------------------------------
(* The repository's save(): every handler below raises exactly one event.   *)

\* A deletion leaves the version alone (SameETagSameAttachments).
WrongEventRotatesParent(kind) ==
  kind \notin {"commented", "attachment_added", "attachment_finalized", "attachment_removed"}

EventRotatesParent(kind) ==
  kind \notin {"commented", "attachment_added", "attachment_finalized"}

\* Submissions are not logged (LogExplainsStatus).
WrongLoggedEvents == {"applied", "offer_edited", "decided", "commented"}

\* The kinds whose activity row is written.  'withdrawn' is not one of them.
LoggedEvents == {"applied", "offer_edited", "offer_submitted", "decided", "commented"}

\* An edit is written under the old version (SameETagSameOffer).
WrongWriteParent(kind, doc) ==
  /\ internship' = IF EventRotatesParent(kind) THEN doc ELSE internship
  /\ version' = IF EventRotatesParent(kind) /\ kind # "offer_edited"
                THEN version + 1 ELSE version
  /\ version' <= MaxVersion

WriteParent(kind, doc) ==
  /\ internship' = IF EventRotatesParent(kind) THEN doc ELSE internship
  /\ version' = IF EventRotatesParent(kind) THEN version + 1 ELSE version
  /\ version' <= MaxVersion

WriteActivity(kind, type, author) ==
  /\ activity' = IF kind \in LoggedEvents
                 THEN Append(activity, [type |-> type, author |-> author])
                 ELSE activity
  /\ Len(activity') <= MaxActivity

SaveLogged(kind, doc, type, author) ==
  /\ WriteParent(kind, doc)
  /\ WriteActivity(kind, type, author)
  /\ UNCHANGED <<attachments, purgeQueue, intents>>

SaveAttachment(kind, a, row) ==
  /\ WriteParent(kind, internship)
  /\ attachments' = [attachments EXCEPT ![a] = row]
  /\ UNCHANGED <<activity, purgeQueue>>

\* Its document id is minted anew for every deletion; here the rows are numbered.
\* `addition` tells which writing of the attachment's row it undoes: history.
PurgeRow(a, user) ==
  [id |-> Cardinality(purgeQueue) + 1, attachment |-> a, generation |-> attachments[a].storageGeneration,
   requestedBy |-> user, addition |-> added[a]]

\* The outbox row is forgotten (PurgeRowPerDeletion).
WrongSaveRemoval(a, user) ==
  /\ WriteParent("attachment_removed", internship)
  /\ attachments' = [attachments EXCEPT ![a] = [uploadStatus |-> "deleted",
                                                storageGeneration |-> NoGeneration]]
  /\ UNCHANGED <<purgeQueue, activity, intents>>

SaveRemoval(a, user) ==
  /\ WriteParent("attachment_removed", internship)
  /\ attachments' = [attachments EXCEPT ![a] = [uploadStatus |-> "deleted",
                                                storageGeneration |-> NoGeneration]]
  /\ purgeQueue' = purgeQueue \cup {PurgeRow(a, user)}
  /\ UNCHANGED <<activity, intents>>

-----------------------------------------------------------------------------
(* The command handlers.                                                    *)

\* PATCH /internships/{id}
UpdateInternship(u, ifMatch, start, end) ==
  LET next == WithOfferDetails(internship, start, end)
  IN  /\ RequireRole(u, "student")
      /\ RequireSelfOrRole(u, {})
      /\ IfMatchHolds(ifMatch)
      /\ Editable(internship.status)
      /\ DatesOrdered(next)
      /\ SaveLogged("offer_edited", next, "edit", Owner)
      /\ UNCHANGED <<notified, view>>

\* POST /internships/{id}/offer-submissions
SubmitInternshipOffer(u, ifMatch, start, end) ==
  LET next == Submitted(internship, start, end)
  IN  /\ RequireRole(u, "student")
      /\ RequireSelfOrRole(u, {})
      /\ IfMatchHolds(ifMatch)
      /\ \E a \in AttachmentIds : IsFinalized(a)
      /\ Submittable(internship.status)
      /\ DatesOrdered(next)
      /\ SaveLogged("offer_submitted", next, "submit_offer", Owner)
      /\ UNCHANGED <<notified, view>>

\* The notification is left out (EveryDecisionNotified).
WrongDecideInternshipOffer(u, ifMatch, decision, hasComment) ==
  /\ RequireRole(u, "coordinator")
  /\ IfMatchHolds(ifMatch)
  /\ internship.status = "offer_pending_review"
  /\ CommentIsEnough(decision, hasComment)
  /\ SaveLogged("decided", Decided(internship, decision, u),
                ActivityOfDecision[decision], u)
  /\ UNCHANGED <<notified, view>>

\* POST /internships/{id}/decisions: the owner's notification is created in the
\* same transaction.
DecideInternshipOffer(u, ifMatch, decision, hasComment) ==
  /\ RequireRole(u, "coordinator")
  /\ IfMatchHolds(ifMatch)
  /\ internship.status = "offer_pending_review"
  /\ CommentIsEnough(decision, hasComment)
  /\ SaveLogged("decided", Decided(internship, decision, u),
                ActivityOfDecision[decision], u)
  /\ notified' = Append(notified, decision)
  /\ UNCHANGED view

\* POST /internships/{id}/withdrawals
WithdrawInternship(u, ifMatch) ==
  /\ RequireRole(u, "student")
  /\ RequireSelfOrRole(u, {})
  /\ IfMatchHolds(ifMatch)
  /\ Withdrawable(internship.status)
  /\ SaveLogged("withdrawn", [internship EXCEPT !.status = "withdrawn"],
                "withdraw", Owner)
  /\ UNCHANGED <<notified, view>>

\* POST /internships/{id}/comments: no If-Match, in every status.
AddInternshipComment(u) ==
  /\ RequireSelfOrRole(u, {"coordinator"})
  /\ SaveLogged("commented", internship, "comment", u)
  /\ UNCHANGED <<notified, view>>

\* What recordAttachmentUploadIntent and the save do for an id that has no row.
AddRow(a) ==
  /\ SaveAttachment("attachment_added", a,
                    [uploadStatus |-> "uploading", storageGeneration |-> NoGeneration])
  /\ added' = [added EXCEPT ![a] = @ + 1]

\* The acknowledgement of the commit arrives, or is lost.
Acknowledged(a) ==
  \/ unacked' = unacked \ {a}
  \/ added'[a] < MaxAdditions /\ unacked' = unacked \cup {a}

\* POST /internships/{id}/attachments/upload-intents, the transaction, with an id
\* just minted: the row is written before the client has anything to upload to.
CreateUploadIntent(u, a) ==
  /\ RequireRole(u, "student")
  /\ RequireSelfOrRole(u, {})
  /\ attachments[a].uploadStatus = "absent"
  /\ AddRow(a)
  /\ Acknowledged(a)
  /\ UNCHANGED <<notified, view>>

\* The same transaction after a lost acknowledgement, with the same id: a row that
\* is there is left alone, one that was deleted meanwhile is written again.
RunIntentAgain(a) ==
  /\ a \in unacked
  /\ \/ ~HasRow(a) /\ AddRow(a)
     \/ HasRow(a) /\ UNCHANGED <<internship, version, attachments, activity, purgeQueue, added>>
  /\ Acknowledged(a)
  /\ UNCHANGED <<notified, view>>

\* A finalized row is finalized again (RowsOnlyProgress).
WrongFinalizeAttachment(a, generation) ==
  /\ HasRow(a)
  /\ SaveAttachment("attachment_finalized", a,
                    [uploadStatus |-> "finalized", storageGeneration |-> generation])
  /\ UNCHANGED intents

\* What finalizeAttachment does to a row; it returns false, and the handlers
\* do not save, for an unknown or an already finalized attachment.
FinalizeAttachment(a, generation) ==
  /\ HasRow(a) /\ ~IsFinalized(a)
  /\ SaveAttachment("attachment_finalized", a,
                    [uploadStatus |-> "finalized", storageGeneration |-> generation])
  /\ UNCHANGED intents

\* POST /internships/{id}/attachments/{aid}/confirm: nothing is asked of
\* storage, and no generation is known.
ConfirmAttachment(u, a) ==
  /\ RequireRole(u, "student")
  /\ RequireSelfOrRole(u, {})
  /\ FinalizeAttachment(a, NoGeneration)
  /\ UNCHANGED <<notified, view>>

\* The storage-event worker.
FinalizeStorageAttachment(a, generation) ==
  /\ FinalizeAttachment(a, generation)
  /\ UNCHANGED <<notified, view>>

\* DELETE /internships/{id}/attachments/{aid}
DeleteAttachment(u, a) ==
  /\ RequireRole(u, "student")
  /\ RequireSelfOrRole(u, {})
  /\ internship.status \in DeletableStatuses
  /\ HasRow(a)
  /\ SaveRemoval(a, u)
  /\ UNCHANGED <<notified, view>>

-----------------------------------------------------------------------------
(* GET /internships/{id}: the parent document first, then, outside any      *)
(* transaction, the attachments.  The ETag is the version of the first read.*)

ReadParent(u) ==
  /\ RequireSelfOrRole(u, {"coordinator"})
  /\ view' = [view EXCEPT ![u] = [phase |-> "parent", version |-> version,
                                  internship |-> internship, seen |-> {}]]
  /\ UNCHANGED <<internship, version, attachments, activity, purgeQueue, notified, intents>>

ReadAttachments(u) ==
  /\ view[u].phase = "parent"
  /\ view' = [view EXCEPT ![u].phase = "ready", ![u].seen = Rows]
  /\ UNCHANGED <<internship, version, attachments, activity, purgeQueue, notified, intents>>

-----------------------------------------------------------------------------
Applied == [status |-> "applied", startDate |-> NoDate, endDate |-> NoDate,
            coordinatorDecision |-> NoDecision, reviewedByUserId |-> NoReviewer]

\* What createApplication and insertNew leave behind.
Init ==
  /\ internship = Applied
  /\ version = 1
  /\ attachments = [a \in AttachmentIds |-> [uploadStatus |-> "absent",
                                             storageGeneration |-> NoGeneration]]
  /\ activity = <<[type |-> "apply", author |-> Owner]>>
  /\ purgeQueue = {}
  /\ notified = <<>>
  /\ view = [u \in Readers |-> [phase |-> "none", version |-> 0,
                                internship |-> Applied, seen |-> {}]]
  /\ unacked = {}
  /\ added = [a \in AttachmentIds |-> 0]

IfMatches == 0..MaxVersion

OfferStep(u, ifMatch) ==
  \/ \E start, end \in MaybeDates : UpdateInternship(u, ifMatch, start, end)
  \/ \E start, end \in MaybeDates : SubmitInternshipOffer(u, ifMatch, start, end)
  \/ \E decision \in Decisions, hasComment \in BOOLEAN :
        DecideInternshipOffer(u, ifMatch, decision, hasComment)
  \/ WithdrawInternship(u, ifMatch)

UserStep(u) ==
  \/ \E ifMatch \in IfMatches : OfferStep(u, ifMatch)
  \/ AddInternshipComment(u)
  \/ \E a \in AttachmentIds : \/ CreateUploadIntent(u, a)
                              \/ ConfirmAttachment(u, a)
                              \/ DeleteAttachment(u, a)

Next ==
  \/ \E u \in Users : UserStep(u)
  \/ \E a \in AttachmentIds : RunIntentAgain(a)
  \/ \E a \in AttachmentIds, g \in Generations \cup {NoGeneration} :
        FinalizeStorageAttachment(a, g)
  \/ \E u \in Readers : ReadParent(u) \/ ReadAttachments(u)

Spec == Init /\ [][Next]_vars

-----------------------------------------------------------------------------
(* Properties.                                                              *)

InternshipDocs ==
  [status : Statuses, startDate : MaybeDates, endDate : MaybeDates,
   coordinatorDecision : Decisions \cup {NoDecision},
   reviewedByUserId : Users \cup {NoReviewer}]

\* Every variable keeps the shape its Firestore document has.
TypeOK ==
  /\ internship \in InternshipDocs
  /\ version \in Nat
  /\ attachments \in [AttachmentIds ->
                        [uploadStatus : UploadStatuses,
                         storageGeneration : Generations \cup {NoGeneration}]]
  /\ activity \in Seq([type : ActivityTypes, author : Users])
  /\ purgeQueue \in SUBSET [id : Nat, attachment : AttachmentIds,
                            generation : Generations \cup {NoGeneration},
                            requestedBy : Users, addition : Nat]
  /\ IsFiniteSet(purgeQueue)
  /\ notified \in Seq(Decisions)
  /\ view \in [Readers -> [phase : {"none", "parent", "ready"}, version : Nat,
                           internship : InternshipDocs, seen : SUBSET AttachmentIds]]
  /\ unacked \in SUBSET AttachmentIds
  /\ added \in [AttachmentIds -> Nat]

\* An offer under review, approved or rejected has a finalized attachment and
\* coherent dates, whatever edits, uploads, confirmations, storage events and
\* deletions came between the submission and now.
ReviewedOfferIsComplete ==
  internship.status \in {"offer_pending_review", "offer_approved", "rejected"} =>
    /\ \E a \in AttachmentIds : IsFinalized(a)
    /\ DatesOrdered(internship)

\* i is the last entry of a timeline whose type is one of types.
IsLast(i, timeline, types) ==
  /\ i \in DOMAIN timeline
  /\ timeline[i].type \in types
  /\ \A j \in DOMAIN timeline : j > i => timeline[j].type \notin types

DecisionTypes == {"approve_offer", "request_changes", "reject"}

StatusLogged ==
  [t \in {"apply", "submit_offer"} \cup DecisionTypes |->
     CASE t = "apply" -> "applied"
       [] t = "submit_offer" -> "offer_pending_review"
       [] t = "approve_offer" -> "offer_approved"
       [] t = "request_changes" -> "offer_changes_requested"
       [] t = "reject" -> "rejected"]

\* The timeline tells the status: until a withdrawal, the status is the one the
\* last transition entry of the timeline leads to, so a reader of the audit trail
\* never sees another outcome than the document holds.
LogExplainsStatus ==
  internship.status # "withdrawn" =>
    \E i \in DOMAIN activity :
      /\ IsLast(i, activity, DOMAIN StatusLogged)
      /\ internship.status = StatusLogged[activity[i].type]

\* The decision and the reviewer the document names are those of the last
\* decision entry of the timeline, also after the offer is submitted again.
LogExplainsDecision ==
  \/ /\ internship.coordinatorDecision = NoDecision
     /\ internship.reviewedByUserId = NoReviewer
     /\ \A i \in DOMAIN activity : activity[i].type \notin DecisionTypes
  \/ \E i \in DOMAIN activity :
       /\ IsLast(i, activity, DecisionTypes)
       /\ internship.coordinatorDecision \in Decisions
       /\ activity[i].type = ActivityOfDecision[internship.coordinatorDecision]
       /\ activity[i].author = internship.reviewedByUserId

\* The notifications and the decisions of the timeline correspond, in order:
\* at[i] is the entry of the decision the i-th notification is about.
Tells(at, log, told) ==
  /\ at \in [DOMAIN told -> DOMAIN log]
  /\ \A i, j \in DOMAIN told : i < j => at[i] < at[j]
  /\ \A i \in DOMAIN told : log[at[i]].type = ActivityOfDecision[told[i]]
  /\ \A k \in DOMAIN log :
       log[k].type \in DecisionTypes => \E i \in DOMAIN told : at[i] = k

\* The owner is notified of every decision in the timeline, once and in order.
EveryDecisionNotified ==
  \E at \in [DOMAIN notified -> DOMAIN activity] : Tells(at, activity, notified)

\* A version identifies the parent document: as long as the ETag of a GET still
\* matches, no field it returned has changed.
SameETagSameOffer ==
  \A u \in Readers :
    view[u].phase # "none" /\ view[u].version = version =>
      view[u].internship = internship

\* The same for the attachments, although they are read after the parent and
\* outside any transaction: as long as the ETag matches, every attachment the
\* GET listed still has its row.  (More may have been added.)
SameETagSameAttachments ==
  \A u \in Readers :
    view[u].phase = "ready" /\ view[u].version = version => view[u].seen \subseteq Rows

\* Every time a row was written it is there still, or was undone by exactly one row
\* of the outbox: also when an intent that runs again brings back a row that another
\* tab has deleted, and that is then deleted once more.
PurgeRowPerDeletion ==
  /\ \A a \in AttachmentIds : \A n \in 1..added[a] :
       \/ HasRow(a) /\ n = added[a]
       \/ \E r \in purgeQueue : r.attachment = a /\ r.addition = n
  /\ \A r \in purgeQueue : ~(HasRow(r.attachment) /\ r.addition = added[r.attachment])
  /\ \A r, s \in purgeQueue : r.attachment = s.attachment /\ r.addition = s.addition => r = s

\* Only the parties write the timeline, each in its role: the owner applies,
\* edits and submits, a coordinator decides, and no other student appears.
EntriesAreAttributable ==
  \A i \in DOMAIN activity :
    /\ activity[i].author \notin Strangers
    /\ activity[i].type \in DecisionTypes <=>
         activity[i].type # "comment" /\ activity[i].author \in Coordinators

Rank == [s \in UploadStatuses |-> CASE s = "absent" -> 0 [] s = "uploading" -> 1
                                    [] s = "finalized" -> 2 [] s = "deleted" -> 3]

\* An attachment row only moves forward, and a finalized one is never rewritten: a
\* duplicated or late storage event cannot undo a confirmation, change the recorded
\* generation or revive a deleted row.  Only an intent whose acknowledgement was lost
\* brings its row back, and once acknowledged none is run again.
RowsOnlyProgress ==
  [][\A a \in AttachmentIds :
       /\ \/ Rank[attachments[a].uploadStatus] <= Rank[attachments[a].uploadStatus']
          \/ a \in unacked /\ attachments[a].uploadStatus = "deleted"
                          /\ attachments[a].uploadStatus' = "uploading"
       /\ attachments[a].uploadStatus = attachments[a].uploadStatus'
            => attachments[a] = attachments[a]'
       /\ attachments[a].uploadStatus # "absent" /\ a \notin unacked
            => a \notin unacked']_vars

\* A coordinator who decides with the ETag of the GET they reviewed decides on
\* what they saw: the same offer, and none of the attachments they saw is gone.
ConditionalDecisionIsInformed ==
  [][\A u \in Readers :
       (/\ view[u].phase = "ready"
        /\ \E d \in Decisions, hasComment \in BOOLEAN :
             DecideInternshipOffer(u, view[u].version, d, hasComment))
       => view[u].internship = internship /\ view[u].seen \subseteq Rows]_vars

(* A statement the repository's documentation makes and the code does not   *)
(* keep.                                                                    *)

\* WORKFLOW-API-SPEC 8.4: all actions are recorded in the timeline, so a
\* withdrawn internship has its `withdraw` entry.
WithdrawIsLogged ==
  internship.status = "withdrawn" =>
    \E i \in DOMAIN activity : activity[i].type = "withdraw"

-----------------------------------------------------------------------------
(* What the aggregate promises: OfferLifecycle.                             *)

StageOf ==
  IF internship.status \in {"applied", "offer_changes_requested"} THEN "student"
  ELSE IF internship.status = "offer_pending_review" THEN "coordinator" ELSE "closed"

Submissions(timeline) == {i \in DOMAIN timeline : timeline[i].type = "submit_offer"}

Offer == INSTANCE OfferLifecycle WITH
           stage <- StageOf,
           submitted <- Cardinality(Submissions(activity)),
           answers <- notified

\* The aggregate takes turns as OfferLifecycle says: the submissions counted in
\* the timeline and the decisions notified to the owner alternate, whatever
\* edits, comments, uploads and readers do in between.
ImplementsOfferLifecycle == Offer!Spec

=============================================================================
