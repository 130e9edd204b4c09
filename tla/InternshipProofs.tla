-------------------------- MODULE InternshipProofs --------------------------
(* Theorems about Internship, for every number of users, attachments and    *)
(* dates and every bound.                                                   *)
EXTENDS Internship, FiniteSetTheorems, TLAPS

-----------------------------------------------------------------------------
(* Lemmas about the operators the actions are built from.                   *)

\* Appending puts an element after all the others and changes none of them.
LEMMA AppendIsLast ==
  ASSUME NEW S, NEW s \in Seq(S), NEW e \in S
  PROVE  /\ Append(s, e) \in Seq(S)
         /\ Len(Append(s, e)) = Len(s) + 1
         /\ DOMAIN Append(s, e) = DOMAIN s \cup {Len(s) + 1}
         /\ \A i \in DOMAIN s : Append(s, e)[i] = s[i] /\ i < Len(s) + 1
         /\ Append(s, e)[Len(s) + 1] = e
  OBVIOUS

\* Merging dates into a document yields a document.
LEMMA DocsAreClosed ==
  ASSUME NEW doc \in InternshipDocs, NEW start \in MaybeDates, NEW end \in MaybeDates
  PROVE  /\ WithOfferDetails(doc, start, end) \in InternshipDocs
         /\ Submitted(doc, start, end) \in InternshipDocs
         /\ \A d \in Decisions, u \in Users : Decided(doc, d, u) \in InternshipDocs
         /\ [doc EXCEPT !.status = "withdrawn"] \in InternshipDocs
  BY DEF WithOfferDetails, Submitted, Decided, StatusOfDecision, Decisions, OrElse,
         InternshipDocs, Statuses, MaybeDates

\* A handler that saves a logged event leaves well-typed variables behind.
LEMMA SaveLoggedTypes ==
  ASSUME TypeOK, NEW kind, NEW doc \in InternshipDocs, NEW type \in ActivityTypes,
         NEW author \in Users, SaveLogged(kind, doc, type, author)
  PROVE  /\ internship' \in InternshipDocs
         /\ version' \in Nat
         /\ activity' \in Seq([type : ActivityTypes, author : Users])
         /\ UNCHANGED <<attachments, purgeQueue, unacked, added>>
<1>1. internship' \in InternshipDocs /\ version' \in Nat
  BY DEF TypeOK, SaveLogged, WriteParent
<1>2. activity' \in Seq([type : ActivityTypes, author : Users])
  <2> DEFINE Entry == [type |-> type, author |-> author]
  <2>1. Entry \in [type : ActivityTypes, author : Users]
    OBVIOUS
  <2>2. Append(activity, Entry) \in Seq([type : ActivityTypes, author : Users])
    BY <2>1, AppendIsLast DEF TypeOK
  <2> QED
    BY <2>2 DEF TypeOK, SaveLogged, WriteActivity
<1> QED
  BY <1>1, <1>2 DEF SaveLogged, intents

\* Writing a row and an acknowledgement leave well-typed variables behind.
LEMMA AddRowTypes ==
  ASSUME TypeOK, NEW a \in AttachmentIds, AddRow(a), Acknowledged(a),
         UNCHANGED <<notified, view>>
  PROVE  TypeOK'
BY DEF TypeOK, AddRow, Acknowledged, SaveAttachment, WriteParent, UploadStatuses

\* Every handler leaves well-typed documents behind.
LEMMA TypesAreInductive ==
  ASSUME TypeOK, [Next]_vars
  PROVE  TypeOK'
<1> internship \in InternshipDocs /\ Owner \in Users
  BY DEF TypeOK, Users
<1>1. ASSUME NEW u \in Users, NEW m \in IfMatches, NEW start \in MaybeDates,
             NEW end \in MaybeDates, UpdateInternship(u, m, start, end)
      PROVE  TypeOK'
  <2> WithOfferDetails(internship, start, end) \in InternshipDocs
    BY DocsAreClosed
  <2> SaveLogged("offer_edited", WithOfferDetails(internship, start, end), "edit", Owner)
    BY <1>1 DEF UpdateInternship
  <2> QED
    BY <1>1, SaveLoggedTypes DEF UpdateInternship, TypeOK, ActivityTypes
<1>2. ASSUME NEW u \in Users, NEW m \in IfMatches, NEW start \in MaybeDates,
             NEW end \in MaybeDates, SubmitInternshipOffer(u, m, start, end)
      PROVE  TypeOK'
  <2> Submitted(internship, start, end) \in InternshipDocs
    BY DocsAreClosed
  <2> SaveLogged("offer_submitted", Submitted(internship, start, end), "submit_offer", Owner)
    BY <1>2 DEF SubmitInternshipOffer
  <2> QED
    BY <1>2, SaveLoggedTypes DEF SubmitInternshipOffer, TypeOK, ActivityTypes
<1>3. ASSUME NEW u \in Users, NEW m \in IfMatches, NEW d \in Decisions,
             NEW c \in BOOLEAN, DecideInternshipOffer(u, m, d, c)
      PROVE  TypeOK'
  <2> NoDate \in MaybeDates
    BY DEF MaybeDates
  <2> Decided(internship, d, u) \in InternshipDocs
    BY DocsAreClosed
  <2> ActivityOfDecision[d] \in ActivityTypes
    BY DEF ActivityOfDecision, Decisions, ActivityTypes
  <2> SaveLogged("decided", Decided(internship, d, u), ActivityOfDecision[d], u)
    BY <1>3 DEF DecideInternshipOffer
  <2>1. /\ internship' \in InternshipDocs /\ version' \in Nat
        /\ activity' \in Seq([type : ActivityTypes, author : Users])
        /\ UNCHANGED <<attachments, purgeQueue, unacked, added>>
    BY SaveLoggedTypes
  <2>2. notified' = Append(notified, d) /\ UNCHANGED view
    BY <1>3 DEF DecideInternshipOffer
  <2>3. notified' \in Seq(Decisions)
    BY <2>2 DEF TypeOK
  <2> QED
    BY <2>1, <2>2, <2>3 DEF TypeOK
<1>4. ASSUME NEW u \in Users, NEW m \in IfMatches, WithdrawInternship(u, m)
      PROVE  TypeOK'
  <2> [internship EXCEPT !.status = "withdrawn"] \in InternshipDocs
    BY DEF InternshipDocs, Statuses
  <2> SaveLogged("withdrawn", [internship EXCEPT !.status = "withdrawn"], "withdraw", Owner)
    BY <1>4 DEF WithdrawInternship
  <2> QED
    BY <1>4, SaveLoggedTypes DEF WithdrawInternship, TypeOK, ActivityTypes
<1>5. ASSUME NEW u \in Users, AddInternshipComment(u) PROVE TypeOK'
  <2> SaveLogged("commented", internship, "comment", u)
    BY <1>5 DEF AddInternshipComment
  <2> QED
    BY <1>5, SaveLoggedTypes DEF AddInternshipComment, TypeOK, ActivityTypes
<1>6. ASSUME NEW u \in Users, NEW a \in AttachmentIds, CreateUploadIntent(u, a)
      PROVE  TypeOK'
  BY <1>6, AddRowTypes DEF CreateUploadIntent
<1>7. ASSUME NEW a \in AttachmentIds, NEW g \in Generations \cup {NoGeneration},
             FinalizeAttachment(a, g), UNCHANGED <<notified, view>>
      PROVE  TypeOK'
  BY <1>7 DEF TypeOK, FinalizeAttachment, SaveAttachment, WriteParent, UploadStatuses, intents
<1>8. ASSUME NEW u \in Users, NEW a \in AttachmentIds, DeleteAttachment(u, a)
      PROVE  TypeOK'
  <2>1. Cardinality(purgeQueue) \in Nat
    BY FS_CardinalityType DEF TypeOK
  <2>2. PurgeRow(a, u) \in [id : Nat, attachment : AttachmentIds,
                            generation : Generations \cup {NoGeneration},
                            requestedBy : Users, addition : Nat]
    BY <2>1 DEF TypeOK, PurgeRow
  <2>3. IsFiniteSet(purgeQueue \cup {PurgeRow(a, u)})
    BY FS_AddElement DEF TypeOK
  <2> QED
    BY <1>8, <2>2, <2>3
    DEF TypeOK, DeleteAttachment, SaveRemoval, WriteParent, UploadStatuses, intents
<1>9. ASSUME NEW u \in Readers, ReadParent(u) PROVE TypeOK'
  BY <1>9 DEF TypeOK, ReadParent, intents
<1>10. ASSUME NEW u \in Readers, ReadAttachments(u) PROVE TypeOK'
  BY <1>10 DEF TypeOK, ReadAttachments, Rows, intents
<1>11. CASE UNCHANGED vars
  BY <1>11 DEF vars, TypeOK
<1>12. ASSUME NEW a \in AttachmentIds, RunIntentAgain(a) PROVE TypeOK'
  <2>1. CASE AddRow(a)
    BY <1>12, <2>1, AddRowTypes DEF RunIntentAgain
  <2>2. CASE UNCHANGED <<internship, version, attachments, activity, purgeQueue, added>>
    BY <1>12, <2>2 DEF RunIntentAgain, Acknowledged, TypeOK
  <2> QED
    BY <1>12, <2>1, <2>2 DEF RunIntentAgain
<1> QED
  BY <1>1, <1>2, <1>3, <1>4, <1>5, <1>6, <1>7, <1>8, <1>9, <1>10, <1>11, <1>12
  DEF Next, UserStep, OfferStep, ConfirmAttachment, FinalizeStorageAttachment

\* Type correctness of every document (all the handlers write what the schemas
\* read back).
THEOREM TypeCorrect == Spec => []TypeOK
<1>1. Init => TypeOK
  BY UsersAreDistinct, UndefinedIsNoValue, FS_EmptySet
  DEF Init, TypeOK, Applied, InternshipDocs, Statuses, MaybeDates, UploadStatuses,
      ActivityTypes, Users
<1>2. TypeOK /\ [Next]_vars => TypeOK'
  BY TypesAreInductive
<1> QED
  BY <1>1, <1>2, PTL DEF Spec

-----------------------------------------------------------------------------
(* The offer under review.                                                  *)

\* Deciding keeps the dates of the document.
LEMMA DecidedKeepsDates ==
  ASSUME TypeOK, NEW d \in Decisions, NEW u
  PROVE  /\ Decided(internship, d, u).startDate = internship.startDate
         /\ Decided(internship, d, u).endDate = internship.endDate
  BY DEF TypeOK, InternshipDocs, Decided

\* The set of finalized attachments loses an element only in a deletable status.
LEMMA ReviewedOfferIsInductive ==
  ASSUME TypeOK, ReviewedOfferIsComplete, [Next]_vars
  PROVE  ReviewedOfferIsComplete'
<1> USE DEF ReviewedOfferIsComplete
<1>1. ASSUME NEW u \in Users, NEW m \in IfMatches, NEW start \in MaybeDates,
             NEW end \in MaybeDates, UpdateInternship(u, m, start, end)
      PROVE  ReviewedOfferIsComplete'
  <2>1. /\ internship' = WithOfferDetails(internship, start, end)
        /\ attachments' = attachments
        /\ DatesOrdered(WithOfferDetails(internship, start, end))
    BY <1>1 DEF UpdateInternship, SaveLogged, WriteParent, EventRotatesParent
  <2>2. internship'.status = internship.status
    BY <2>1 DEF WithOfferDetails, TypeOK, InternshipDocs
  <2> QED
    BY <2>1, <2>2 DEF IsFinalized, DatesOrdered
<1>2. ASSUME NEW u \in Users, NEW m \in IfMatches, NEW start \in MaybeDates,
             NEW end \in MaybeDates, SubmitInternshipOffer(u, m, start, end)
      PROVE  ReviewedOfferIsComplete'
  <2>1. /\ internship' = Submitted(internship, start, end)
        /\ attachments' = attachments
        /\ DatesOrdered(Submitted(internship, start, end))
        /\ \E a \in AttachmentIds : IsFinalized(a)
    BY <1>2 DEF SubmitInternshipOffer, SaveLogged, WriteParent, EventRotatesParent
  <2> QED
    BY <2>1 DEF IsFinalized, DatesOrdered
<1>3. ASSUME NEW u \in Users, NEW m \in IfMatches, NEW d \in Decisions,
             NEW c \in BOOLEAN, DecideInternshipOffer(u, m, d, c)
      PROVE  ReviewedOfferIsComplete'
  <2>1. /\ internship' = Decided(internship, d, u)
        /\ attachments' = attachments
        /\ internship.status = "offer_pending_review"
    BY <1>3 DEF DecideInternshipOffer, SaveLogged, WriteParent, EventRotatesParent
  <2> QED
    BY <2>1, DecidedKeepsDates DEF IsFinalized, DatesOrdered
<1>4. ASSUME NEW u \in Users, NEW m \in IfMatches, WithdrawInternship(u, m)
      PROVE  ReviewedOfferIsComplete'
  <2>1. internship'.status = "withdrawn"
    BY <1>4 DEF WithdrawInternship, SaveLogged, WriteParent, EventRotatesParent,
                TypeOK, InternshipDocs
  <2> QED
    BY <2>1
<1>5. ASSUME NEW u \in Users, AddInternshipComment(u) PROVE ReviewedOfferIsComplete'
  BY <1>5 DEF AddInternshipComment, SaveLogged, WriteParent, EventRotatesParent,
              IsFinalized, DatesOrdered
<1>0. ASSUME NEW a \in AttachmentIds, ~HasRow(a), AddRow(a) PROVE ReviewedOfferIsComplete'
  BY <1>0 DEF TypeOK, AddRow, SaveAttachment, WriteParent, EventRotatesParent, HasRow,
              IsFinalized, DatesOrdered
<1>6. ASSUME NEW u \in Users, NEW a \in AttachmentIds, CreateUploadIntent(u, a)
      PROVE  ReviewedOfferIsComplete'
  BY <1>0, <1>6 DEF CreateUploadIntent, HasRow
<1>7. ASSUME NEW a \in AttachmentIds, NEW g, FinalizeAttachment(a, g)
      PROVE  ReviewedOfferIsComplete'
  BY <1>7 DEF TypeOK, FinalizeAttachment, SaveAttachment, WriteParent,
              EventRotatesParent, IsFinalized, DatesOrdered
<1>8. ASSUME NEW u \in Users, NEW a \in AttachmentIds, DeleteAttachment(u, a)
      PROVE  ReviewedOfferIsComplete'
  BY <1>8 DEF DeleteAttachment, SaveRemoval, WriteParent, EventRotatesParent,
              DeletableStatuses
<1>9. ASSUME UNCHANGED <<internship, attachments>> PROVE ReviewedOfferIsComplete'
  BY <1>9 DEF IsFinalized, DatesOrdered
<1>10. ASSUME NEW a \in AttachmentIds, RunIntentAgain(a) PROVE ReviewedOfferIsComplete'
  BY <1>0, <1>9, <1>10 DEF RunIntentAgain
<1> QED
  BY <1>1, <1>2, <1>3, <1>4, <1>5, <1>6, <1>7, <1>8, <1>9, <1>10
  DEF Next, UserStep, OfferStep, ConfirmAttachment, FinalizeStorageAttachment,
      ReadParent, ReadAttachments, vars

\* Whatever edits, uploads, confirmations, storage events and deletions race, an
\* offer under review, approved or rejected has a finalized attachment and
\* coherent dates.
THEOREM ReviewedOffersAreComplete == Spec => []ReviewedOfferIsComplete
<1>1. Init => ReviewedOfferIsComplete
  BY DEF Init, Applied, ReviewedOfferIsComplete
<1>2. TypeOK /\ ReviewedOfferIsComplete /\ [Next]_vars => ReviewedOfferIsComplete'
  BY ReviewedOfferIsInductive
<1> QED
  BY <1>1, <1>2, TypeCorrect, PTL DEF Spec

-----------------------------------------------------------------------------
(* The ETag.                                                                *)

\* Every step that is not a read rotates the version, or else leaves the parent
\* document alone and takes no attachment away.
LEMMA VersionGuardsOffer ==
  ASSUME TypeOK, Next
  PROVE  \/ version' = version + 1 /\ UNCHANGED view
         \/ UNCHANGED <<internship, version, view>> /\ Rows \subseteq Rows'
         \/ \E u \in Readers : ReadParent(u) \/ ReadAttachments(u)
<1> DEFINE Goal == \/ version' = version + 1 /\ UNCHANGED view
                   \/ UNCHANGED <<internship, version, view>> /\ Rows \subseteq Rows'
                   \/ \E u \in Readers : ReadParent(u) \/ ReadAttachments(u)
<1>1. ASSUME NEW u \in Users, NEW m \in IfMatches, OfferStep(u, m) PROVE Goal
  BY <1>1 DEF OfferStep, UpdateInternship, SubmitInternshipOffer, DecideInternshipOffer,
              WithdrawInternship, SaveLogged, WriteParent, EventRotatesParent
<1>2. ASSUME NEW u \in Users, AddInternshipComment(u) PROVE Goal
  BY <1>2 DEF AddInternshipComment, SaveLogged, WriteParent, EventRotatesParent, Rows, HasRow
<1>3. ASSUME NEW a \in AttachmentIds, AddRow(a), UNCHANGED view PROVE Goal
  BY <1>3 DEF AddRow, SaveAttachment, WriteParent, EventRotatesParent, Rows, HasRow, TypeOK
<1>4. ASSUME NEW a \in AttachmentIds, NEW g, FinalizeAttachment(a, g), UNCHANGED view
      PROVE  Goal
  BY <1>4 DEF FinalizeAttachment, SaveAttachment, WriteParent, EventRotatesParent,
              Rows, HasRow, TypeOK
<1>5. ASSUME NEW u \in Users, NEW a \in AttachmentIds, DeleteAttachment(u, a) PROVE Goal
  BY <1>5 DEF DeleteAttachment, SaveRemoval, WriteParent, EventRotatesParent
<1>6. ASSUME NEW a \in AttachmentIds, RunIntentAgain(a) PROVE Goal
  BY <1>3, <1>6 DEF RunIntentAgain, Rows, HasRow
<1> QED
  BY <1>1, <1>2, <1>3, <1>4, <1>5, <1>6
  DEF Next, UserStep, ConfirmAttachment, FinalizeStorageAttachment, CreateUploadIntent

\* The strengthening: what a reader holds is never ahead of the document, and a
\* version that was read is a real one, not the absent If-Match.
ViewsAreOld ==
  /\ version >= 1
  /\ \A u \in Readers :
       /\ view[u].version <= version
       /\ view[u].phase # "none" => view[u].version >= 1

CacheInv == ViewsAreOld /\ SameETagSameOffer /\ SameETagSameAttachments

LEMMA CacheInvIsInductive ==
  ASSUME TypeOK, CacheInv, [Next]_vars
  PROVE  CacheInv'
<1> USE DEF CacheInv, ViewsAreOld, SameETagSameOffer, SameETagSameAttachments
<1>1. CASE version' = version + 1 /\ UNCHANGED view
  BY <1>1 DEF TypeOK
<1>2. CASE UNCHANGED <<internship, version, view>> /\ Rows \subseteq Rows'
  BY <1>2 DEF TypeOK
<1>3. ASSUME NEW u \in Readers, ReadParent(u) PROVE CacheInv'
  <2>1. view'[u] = [phase |-> "parent", version |-> version,
                    internship |-> internship, seen |-> {}]
    BY <1>3 DEF ReadParent, TypeOK
  <2>2. \A w \in Readers \ {u} : view'[w] = view[w]
    BY <1>3 DEF ReadParent, TypeOK
  <2>3. UNCHANGED <<internship, version, attachments>>
    BY <1>3 DEF ReadParent
  <2>4. Rows' = Rows
    BY <2>3 DEF Rows, HasRow
  <2>5. ViewsAreOld'
    <3>1. \A w \in Readers \ {u} :
            /\ view'[w].version <= version'
            /\ view'[w].phase # "none" => view'[w].version >= 1
      BY <2>2, <2>3
    <3>2. view'[u].version = version' /\ version' >= 1
      BY <2>1, <2>3
    <3>3. version' \in Nat
      BY <2>3 DEF TypeOK
    <3> QED
      BY <3>1, <3>2, <3>3
  <2>6. SameETagSameOffer'
    <3> SUFFICES ASSUME NEW w \in Readers, view'[w].phase # "none", view'[w].version = version'
                 PROVE  view'[w].internship = internship'
      OBVIOUS
    <3>1. CASE w = u
      BY <2>1, <2>3, <3>1
    <3>2. CASE w # u
      BY <2>2, <2>3, <3>2
    <3> QED
      BY <3>1, <3>2
  <2>7. SameETagSameAttachments'
    <3> SUFFICES ASSUME NEW w \in Readers, view'[w].phase = "ready", view'[w].version = version'
                 PROVE  view'[w].seen \subseteq Rows'
      OBVIOUS
    <3>1. w # u
      BY <2>1
    <3> QED
      BY <2>2, <2>3, <2>4, <3>1
  <2> QED
    BY <2>5, <2>6, <2>7
<1>4. ASSUME NEW u \in Readers, ReadAttachments(u) PROVE CacheInv'
  <2>1. /\ view'[u].version = view[u].version
        /\ view'[u].internship = view[u].internship
        /\ view'[u].seen = Rows
        /\ view[u].phase = "parent"
    BY <1>4 DEF ReadAttachments, TypeOK
  <2>2. \A w \in Readers \ {u} : view'[w] = view[w]
    BY <1>4 DEF ReadAttachments, TypeOK
  <2>3. UNCHANGED <<internship, version, attachments>>
    BY <1>4 DEF ReadAttachments
  <2>4. Rows' = Rows
    BY <2>3 DEF Rows, HasRow
  <2>5. ViewsAreOld'
    BY <2>1, <2>2, <2>3 DEF TypeOK
  <2>6. SameETagSameOffer'
    <3> SUFFICES ASSUME NEW w \in Readers, view'[w].phase # "none", view'[w].version = version'
                 PROVE  view'[w].internship = internship'
      OBVIOUS
    <3>1. CASE w = u
      BY <2>1, <2>3, <3>1
    <3>2. CASE w # u
      BY <2>2, <2>3, <3>2
    <3> QED
      BY <3>1, <3>2
  <2>7. SameETagSameAttachments'
    <3> SUFFICES ASSUME NEW w \in Readers, view'[w].phase = "ready", view'[w].version = version'
                 PROVE  view'[w].seen \subseteq Rows'
      OBVIOUS
    <3>1. CASE w = u
      BY <2>1, <2>4, <3>1
    <3>2. CASE w # u
      BY <2>2, <2>3, <2>4, <3>2
    <3> QED
      BY <3>1, <3>2
  <2> QED
    BY <2>5, <2>6, <2>7
<1>5. CASE UNCHANGED vars
  BY <1>5 DEF vars, Rows, HasRow
<1> QED
  BY <1>1, <1>2, <1>3, <1>4, <1>5, VersionGuardsOffer

LEMMA CacheInvariant == Spec => []CacheInv
<1>1. Init => CacheInv
  BY DEF Init, CacheInv, ViewsAreOld, SameETagSameOffer, SameETagSameAttachments
<1>2. TypeOK /\ CacheInv /\ [Next]_vars => CacheInv'
  BY CacheInvIsInductive
<1> QED
  BY <1>1, <1>2, TypeCorrect, PTL DEF Spec

\* An ETag that still matches vouches for every field of the parent document that
\* the GET returned, for any number of concurrent readers and writers.
THEOREM ETagVouchesForOffer == Spec => []SameETagSameOffer
<1>1. CacheInv => SameETagSameOffer
  BY DEF CacheInv
<1> QED
  BY <1>1, CacheInvariant, PTL

\* It also vouches for the attachments the GET listed, although they were read
\* later and outside any transaction.
THEOREM ETagVouchesForAttachments == Spec => []SameETagSameAttachments
<1>1. CacheInv => SameETagSameAttachments
  BY DEF CacheInv
<1> QED
  BY <1>1, CacheInvariant, PTL

\* A decision sent with If-Match is taken on the offer the coordinator reviewed.
THEOREM ConditionalDecisionsAreInformed == Spec => ConditionalDecisionIsInformed
<1>1. CacheInv =>
        \A u \in Readers :
          (/\ view[u].phase = "ready"
           /\ \E d \in Decisions, hasComment \in BOOLEAN :
                DecideInternshipOffer(u, view[u].version, d, hasComment))
          => view[u].internship = internship /\ view[u].seen \subseteq Rows
  <2> SUFFICES ASSUME CacheInv, NEW u \in Readers, view[u].phase = "ready",
                      NEW d \in Decisions, NEW c \in BOOLEAN,
                      DecideInternshipOffer(u, view[u].version, d, c)
               PROVE  view[u].internship = internship /\ view[u].seen \subseteq Rows
    OBVIOUS
  <2>1. view[u].version >= 1
    BY DEF CacheInv, ViewsAreOld
  <2>2. view[u].version = version
    BY <2>1 DEF DecideInternshipOffer, IfMatchHolds, NoIfMatch
  <2> QED
    BY <2>2 DEF CacheInv, SameETagSameOffer, SameETagSameAttachments
<1> QED
  BY <1>1, CacheInvariant, PTL DEF ConditionalDecisionIsInformed

-----------------------------------------------------------------------------
(* The attachments and the outbox.                                          *)

\* Only three kinds of step touch the attachments, the outbox or the account of what was
\* added.
LEMMA AttachmentSteps ==
  ASSUME TypeOK, [Next]_vars
  PROVE  \/ UNCHANGED <<attachments, purgeQueue, added>>
         \/ \E a \in AttachmentIds :
              /\ ~HasRow(a) /\ AddRow(a)
              /\ attachments[a].uploadStatus = "absent" \/ a \in unacked
         \/ \E a \in AttachmentIds, g \in Generations \cup {NoGeneration} :
               FinalizeAttachment(a, g)
         \/ \E u \in Users, a \in AttachmentIds : DeleteAttachment(u, a)
<1> DEFINE Goal ==
      \/ UNCHANGED <<attachments, purgeQueue, added>>
      \/ \E a \in AttachmentIds :
           /\ ~HasRow(a) /\ AddRow(a)
           /\ attachments[a].uploadStatus = "absent" \/ a \in unacked
      \/ \E a \in AttachmentIds, g \in Generations \cup {NoGeneration} :
            FinalizeAttachment(a, g)
      \/ \E u \in Users, a \in AttachmentIds : DeleteAttachment(u, a)
<1>1. ASSUME NEW u \in Users, NEW a \in AttachmentIds, CreateUploadIntent(u, a) PROVE Goal
  BY <1>1 DEF CreateUploadIntent, HasRow
<1>2. ASSUME NEW a \in AttachmentIds, RunIntentAgain(a) PROVE Goal
  BY <1>2 DEF RunIntentAgain
<1>3. CASE \/ \E u \in Users, a \in AttachmentIds : CreateUploadIntent(u, a)
           \/ \E a \in AttachmentIds : RunIntentAgain(a)
  BY <1>1, <1>2, <1>3
<1>4. CASE \/ \E u \in Users, m \in IfMatches : OfferStep(u, m)
           \/ \E u \in Users : AddInternshipComment(u)
           \/ \E u \in Readers : ReadParent(u) \/ ReadAttachments(u)
           \/ UNCHANGED vars
  BY <1>4 DEF OfferStep, UpdateInternship, SubmitInternshipOffer, DecideInternshipOffer,
     WithdrawInternship, AddInternshipComment, SaveLogged, ReadParent, ReadAttachments,
     vars, intents
<1>5. CASE \/ \E u \in Users, a \in AttachmentIds :
                ConfirmAttachment(u, a) \/ DeleteAttachment(u, a)
           \/ \E a \in AttachmentIds, g \in Generations \cup {NoGeneration} :
                FinalizeStorageAttachment(a, g)
  BY <1>5 DEF ConfirmAttachment, FinalizeStorageAttachment
<1> QED
  BY <1>3, <1>4, <1>5 DEF Next, UserStep

\* An acknowledgement is lost of a first run, or of one that runs again.
LEMMA OnlyIntentsAreUnacked ==
  ASSUME TypeOK, [Next]_vars, NEW b \in AttachmentIds, b \in unacked'
  PROVE  attachments[b].uploadStatus = "absent" \/ b \in unacked
<1>1. ASSUME NEW u \in Users, NEW a \in AttachmentIds, CreateUploadIntent(u, a)
      PROVE  attachments[b].uploadStatus = "absent" \/ b \in unacked
  BY <1>1 DEF CreateUploadIntent, Acknowledged
<1>2. ASSUME NEW a \in AttachmentIds, RunIntentAgain(a) PROVE b \in unacked
  BY <1>2 DEF RunIntentAgain, Acknowledged
<1>3. CASE unacked' = unacked
  BY <1>3
<1>4. \/ unacked' = unacked
      \/ \E u \in Users, a \in AttachmentIds : CreateUploadIntent(u, a)
      \/ \E a \in AttachmentIds : RunIntentAgain(a)
  BY DEF Next, UserStep, OfferStep, UpdateInternship, SubmitInternshipOffer,
     DecideInternshipOffer, WithdrawInternship, AddInternshipComment, SaveLogged,
     ConfirmAttachment, FinalizeStorageAttachment, FinalizeAttachment, DeleteAttachment,
     SaveRemoval, ReadParent, ReadAttachments, vars, intents
<1> QED
  BY <1>1, <1>2, <1>3, <1>4

\* Writings of a row are numbered: the outbox undoes none of the future.
Numbering ==
  /\ \A a \in AttachmentIds : attachments[a].uploadStatus = "absent" <=> added[a] = 0
  /\ \A r \in purgeQueue : r.addition \in 1..added[r.attachment]

OutboxInv == Numbering /\ PurgeRowPerDeletion

LEMMA OutboxIsInductive ==
  ASSUME TypeOK, OutboxInv, [Next]_vars
  PROVE  OutboxInv'
<1> USE DEF OutboxInv, Numbering, PurgeRowPerDeletion
<1> added \in [AttachmentIds -> Nat] /\ \A r \in purgeQueue : r.attachment \in AttachmentIds
  BY DEF TypeOK
<1>1. ASSUME NEW a \in AttachmentIds, ~HasRow(a), AddRow(a) PROVE OutboxInv'
  <2>1. /\ added'[a] = added[a] + 1 /\ purgeQueue' = purgeQueue
        /\ attachments'[a].uploadStatus = "uploading"
        /\ \A b \in AttachmentIds \ {a} :
             attachments'[b] = attachments[b] /\ added'[b] = added[b]
    BY <1>1 DEF AddRow, SaveAttachment, TypeOK
  <2>2. HasRow(a)' /\ \A b \in AttachmentIds \ {a} : HasRow(b)' <=> HasRow(b)
    BY <2>1 DEF HasRow
  <2>3. Numbering'
    BY <2>1
  <2>4. ASSUME NEW b \in AttachmentIds, NEW n \in 1..added'[b]
        PROVE  \/ HasRow(b)' /\ n = added'[b]
               \/ \E r \in purgeQueue' : r.attachment = b /\ r.addition = n
    <3>1. CASE b = a
      <4>1. CASE n = added[a] + 1
        BY <2>1, <2>2, <3>1, <4>1
      <4>2. CASE n \in 1..added[a]
        BY <1>1, <2>1, <3>1, <4>2
      <4> QED
        BY <2>1, <3>1, <4>1, <4>2
    <3>2. CASE b # a
      BY <2>1, <2>2, <2>4, <3>2
    <3> QED
      BY <3>1, <3>2
  <2>5. \A r \in purgeQueue' : ~(HasRow(r.attachment)' /\ r.addition = added'[r.attachment])
    BY <2>1, <2>2
  <2> QED
    BY <2>1, <2>3, <2>4, <2>5
<1>2. ASSUME NEW a \in AttachmentIds, NEW g, FinalizeAttachment(a, g) PROVE OutboxInv'
  <2>1. /\ UNCHANGED <<purgeQueue, added>>
        /\ attachments[a].uploadStatus = "uploading"
        /\ attachments'[a].uploadStatus = "finalized"
        /\ \A b \in AttachmentIds \ {a} : attachments'[b] = attachments[b]
    BY <1>2 DEF FinalizeAttachment, SaveAttachment, HasRow, IsFinalized, intents, TypeOK
  <2>2. \A b \in AttachmentIds : HasRow(b)' <=> HasRow(b)
    BY <2>1 DEF HasRow
  <2> QED
    BY <2>1, <2>2
<1>3. ASSUME NEW u \in Users, NEW a \in AttachmentIds, DeleteAttachment(u, a)
      PROVE  OutboxInv'
  <2> DEFINE new == PurgeRow(a, u)
  <2>1. /\ purgeQueue' = purgeQueue \cup {new} /\ added' = added
        /\ HasRow(a)
        /\ attachments'[a].uploadStatus = "deleted"
        /\ \A b \in AttachmentIds \ {a} : attachments'[b] = attachments[b]
    BY <1>3 DEF DeleteAttachment, SaveRemoval, intents, TypeOK
  <2>2. new.attachment = a /\ new.addition = added[a]
    BY DEF PurgeRow
  <2> HIDE DEF new
  <2>3. ~HasRow(a)' /\ \A b \in AttachmentIds \ {a} : HasRow(b)' <=> HasRow(b)
    BY <2>1 DEF HasRow
  <2>4. added[a] \in 1..added[a]
    BY <2>1 DEF HasRow
  <2>5. Numbering'
    BY <2>1, <2>2, <2>4 DEF HasRow
  <2>6. \A r \in purgeQueue : ~(r.attachment = new.attachment /\ r.addition = new.addition)
    BY <2>1, <2>2
  <2>7. ASSUME NEW b \in AttachmentIds, NEW n \in 1..added'[b]
        PROVE  \/ HasRow(b)' /\ n = added'[b]
               \/ \E r \in purgeQueue' : r.attachment = b /\ r.addition = n
    <3>1. CASE HasRow(b) /\ n = added[b]
      BY <2>1, <2>2, <2>3, <3>1
    <3>2. CASE ~(HasRow(b) /\ n = added[b])
      BY <2>1, <2>7, <3>2
    <3> QED
      BY <3>1, <3>2
  <2>8. \A r \in purgeQueue' : ~(HasRow(r.attachment)' /\ r.addition = added'[r.attachment])
    BY <2>1, <2>2, <2>3
  <2>9. \A r, s \in purgeQueue' :
          r.attachment = s.attachment /\ r.addition = s.addition => r = s
    BY <2>1, <2>6
  <2> QED
    BY <2>5, <2>7, <2>8, <2>9
<1>4. CASE UNCHANGED <<attachments, purgeQueue, added>>
  BY <1>4 DEF HasRow
<1> QED
  BY <1>1, <1>2, <1>3, <1>4, AttachmentSteps

LEMMA OutboxInvariant == Spec => []OutboxInv
<1>1. Init => OutboxInv
  BY DEF Init, OutboxInv, Numbering, PurgeRowPerDeletion
<1>2. TypeOK /\ OutboxInv /\ [Next]_vars => OutboxInv'
  BY OutboxIsInductive
<1> QED
  BY <1>1, <1>2, TypeCorrect, PTL DEF Spec

\* Deleting a row and queueing its purge are one step: each writing of a row is there
\* still or has one outbox row, also when an intent that runs again writes it anew.
\* The outbox matches the deletions: each writing of a row is there still or undone by
\* exactly one purge row, however often an intent runs again after another tab's delete.
THEOREM OutboxMatchesDeletions == Spec => []PurgeRowPerDeletion
<1>1. OutboxInv => PurgeRowPerDeletion
  BY DEF OutboxInv
<1> QED
  BY <1>1, OutboxInvariant, PTL

\* An attachment row only moves forward, a finalized row is never rewritten, and only
\* an intent that was not acknowledged brings its row back.
THEOREM RowsProgress == Spec => RowsOnlyProgress
<1> DEFINE Progress(a) ==
      /\ \/ Rank[attachments[a].uploadStatus] <= Rank[attachments[a].uploadStatus']
         \/ a \in unacked /\ attachments[a].uploadStatus = "deleted"
                         /\ attachments[a].uploadStatus' = "uploading"
      /\ attachments[a].uploadStatus = attachments[a].uploadStatus'
           => attachments[a] = attachments[a]'
      /\ attachments[a].uploadStatus # "absent" /\ a \notin unacked => a \notin unacked'
<1>1. ASSUME TypeOK, [Next]_vars, NEW b \in AttachmentIds PROVE Progress(b)
  <2>0. attachments[b].uploadStatus \in UploadStatuses
    BY <1>1 DEF TypeOK
  <2>1. ASSUME NEW a \in AttachmentIds, ~HasRow(a), AddRow(a),
               attachments[a].uploadStatus = "absent" \/ a \in unacked
        PROVE  \/ attachments'[b] = attachments[b]
               \/ /\ attachments[b].uploadStatus = "absent"
                  /\ attachments'[b].uploadStatus = "uploading"
               \/ /\ b \in unacked /\ attachments[b].uploadStatus = "deleted"
                  /\ attachments'[b].uploadStatus = "uploading"
    BY <1>1, <2>0, <2>1 DEF AddRow, SaveAttachment, HasRow, UploadStatuses, TypeOK
  <2>2. ASSUME NEW a \in AttachmentIds, NEW g, FinalizeAttachment(a, g)
        PROVE  \/ attachments'[b] = attachments[b]
               \/ /\ attachments[b].uploadStatus = "uploading"
                  /\ attachments'[b].uploadStatus = "finalized"
    BY <1>1, <2>2 DEF FinalizeAttachment, SaveAttachment, HasRow, IsFinalized, TypeOK
  <2>3. ASSUME NEW u \in Users, NEW a \in AttachmentIds, DeleteAttachment(u, a)
        PROVE  \/ attachments'[b] = attachments[b]
               \/ /\ attachments[b].uploadStatus \in {"uploading", "finalized"}
                  /\ attachments'[b].uploadStatus = "deleted"
    BY <1>1, <2>3 DEF DeleteAttachment, SaveRemoval, HasRow, TypeOK
  <2>4. \/ attachments'[b] = attachments[b]
        \/ /\ attachments[b].uploadStatus = "absent"
           /\ attachments'[b].uploadStatus = "uploading"
        \/ /\ b \in unacked /\ attachments[b].uploadStatus = "deleted"
           /\ attachments'[b].uploadStatus = "uploading"
        \/ /\ attachments[b].uploadStatus = "uploading"
           /\ attachments'[b].uploadStatus = "finalized"
        \/ /\ attachments[b].uploadStatus \in {"uploading", "finalized"}
           /\ attachments'[b].uploadStatus = "deleted"
    BY <1>1, <2>1, <2>2, <2>3, AttachmentSteps
  <2>5. /\ \/ Rank[attachments[b].uploadStatus] <= Rank[attachments'[b].uploadStatus]
           \/ b \in unacked /\ attachments[b].uploadStatus = "deleted"
                           /\ attachments'[b].uploadStatus = "uploading"
        /\ attachments[b].uploadStatus = attachments'[b].uploadStatus
             => attachments[b] = attachments'[b]
    BY <2>0, <2>4 DEF Rank, UploadStatuses
  <2>6. attachments[b].uploadStatus # "absent" /\ b \notin unacked => b \notin unacked'
    BY <1>1, OnlyIntentsAreUnacked
  <2> QED
    BY <2>5, <2>6
<1>2. TypeOK /\ [Next]_vars => \A a \in AttachmentIds : Progress(a)
  BY <1>1
<1> QED
  BY <1>2, TypeCorrect, PTL DEF Spec, RowsOnlyProgress

-----------------------------------------------------------------------------
(* The timeline.                                                            *)

Entries == [type : ActivityTypes, author : Users]

\* What one more entry does to the last entry of a kind.
LEMMA LastAfterAppend ==
  ASSUME NEW log \in Seq(Entries), NEW e \in Entries, NEW types
  PROVE  /\ e.type \in types => IsLast(Len(log) + 1, Append(log, e), types)
         /\ Append(log, e)[Len(log) + 1] = e
         /\ e.type \notin types =>
              \A i : IsLast(i, log, types) =>
                      IsLast(i, Append(log, e), types) /\ Append(log, e)[i] = log[i]
         /\ \A j \in DOMAIN Append(log, e) :
              \/ j \in DOMAIN log /\ Append(log, e)[j] = log[j]
              \/ j = Len(log) + 1
<1> DEFINE longer == Append(log, e)
<1>1. /\ DOMAIN longer = DOMAIN log \cup {Len(log) + 1}
      /\ \A i \in DOMAIN log : longer[i] = log[i] /\ i < Len(log) + 1
      /\ longer[Len(log) + 1] = e
  BY AppendIsLast
<1>2. DOMAIN log = 1..Len(log) /\ Len(log) \in Nat
  OBVIOUS
<1> HIDE DEF longer
<1>3. e.type \in types => IsLast(Len(log) + 1, longer, types)
  BY <1>1, <1>2 DEF IsLast
<1>4. ASSUME e.type \notin types, NEW i, IsLast(i, log, types)
      PROVE  IsLast(i, longer, types) /\ longer[i] = log[i]
  BY <1>1, <1>2, <1>4 DEF IsLast
<1> QED
  BY <1>1, <1>3, <1>4 DEF longer

\* The steps that write the timeline, with the entry they write, and what the
\* others leave alone.
TimelineStep ==
  \/ UNCHANGED <<internship, activity, notified>>
  \/ /\ Withdrawable(internship.status)
     /\ UNCHANGED notified
     /\ internship'.status = "withdrawn"
     /\ internship'.coordinatorDecision = internship.coordinatorDecision
     /\ internship'.reviewedByUserId = internship.reviewedByUserId
     /\ UNCHANGED activity
  \/ \E e \in Entries :
       /\ activity' = Append(activity, e)
       /\ UNCHANGED notified
       /\ e.type \in {"edit", "comment"}
       /\ e.type = "edit" => e.author = Owner
       /\ e.author \notin Strangers
       /\ internship'.status = internship.status
       /\ internship'.coordinatorDecision = internship.coordinatorDecision
       /\ internship'.reviewedByUserId = internship.reviewedByUserId
  \/ /\ Submittable(internship.status)
     /\ UNCHANGED notified
     /\ activity' = Append(activity, [type |-> "submit_offer", author |-> Owner])
     /\ internship'.status = "offer_pending_review"
     /\ internship'.coordinatorDecision = internship.coordinatorDecision
     /\ internship'.reviewedByUserId = internship.reviewedByUserId
  \/ \E d \in Decisions, u \in Coordinators :
       /\ internship.status = "offer_pending_review"
       /\ notified' = Append(notified, d)
       /\ activity' = Append(activity, [type |-> ActivityOfDecision[d], author |-> u])
       /\ internship'.status = StatusOfDecision[d]
       /\ internship'.coordinatorDecision = d
       /\ internship'.reviewedByUserId = u

LEMMA StepsAreTimelineSteps ==
  ASSUME TypeOK, [Next]_vars
  PROVE  TimelineStep
<1> USE DEF TimelineStep
<1> internship \in InternshipDocs /\ Owner \in Users
  BY DEF TypeOK, Users
<1>1. ASSUME NEW u \in Users, NEW m \in IfMatches, NEW start \in MaybeDates,
             NEW end \in MaybeDates, UpdateInternship(u, m, start, end)
      PROVE  TimelineStep
  <2>1. /\ UNCHANGED notified
        /\ activity' = Append(activity, [type |-> "edit", author |-> Owner])
        /\ internship' = WithOfferDetails(internship, start, end)
    BY <1>1 DEF UpdateInternship, SaveLogged, WriteParent, WriteActivity,
                EventRotatesParent, LoggedEvents
  <2>2. /\ internship'.status = internship.status
        /\ internship'.coordinatorDecision = internship.coordinatorDecision
        /\ internship'.reviewedByUserId = internship.reviewedByUserId
    BY <2>1 DEF WithOfferDetails, InternshipDocs
  <2>3. [type |-> "edit", author |-> Owner] \in Entries
    BY DEF Entries, ActivityTypes
  <2> QED
    BY <2>1, <2>2, <2>3, UsersAreDistinct
<1>2. ASSUME NEW u \in Users, NEW m \in IfMatches, NEW start \in MaybeDates,
             NEW end \in MaybeDates, SubmitInternshipOffer(u, m, start, end)
      PROVE  TimelineStep
  <2>1. /\ Submittable(internship.status)
        /\ UNCHANGED notified
        /\ activity' = Append(activity, [type |-> "submit_offer", author |-> Owner])
        /\ internship' = Submitted(internship, start, end)
    BY <1>2 DEF SubmitInternshipOffer, SaveLogged, WriteParent, WriteActivity,
                EventRotatesParent, LoggedEvents
  <2> QED
    BY <2>1 DEF Submitted, InternshipDocs
<1>3. ASSUME NEW u \in Users, NEW m \in IfMatches, NEW d \in Decisions,
             NEW c \in BOOLEAN, DecideInternshipOffer(u, m, d, c)
      PROVE  TimelineStep
  <2>1. /\ internship.status = "offer_pending_review"
        /\ notified' = Append(notified, d)
        /\ activity' = Append(activity, [type |-> ActivityOfDecision[d], author |-> u])
        /\ internship' = Decided(internship, d, u)
    BY <1>3 DEF DecideInternshipOffer, SaveLogged, WriteParent, WriteActivity,
                EventRotatesParent, LoggedEvents
  <2>2. u \in Coordinators
    BY <1>3 DEF DecideInternshipOffer, RequireRole, Role
  <2> QED
    BY <2>1, <2>2 DEF Decided, InternshipDocs
<1>4. ASSUME NEW u \in Users, NEW m \in IfMatches, WithdrawInternship(u, m)
      PROVE  TimelineStep
  BY <1>4 DEF WithdrawInternship, SaveLogged, WriteParent, WriteActivity,
              EventRotatesParent, LoggedEvents, InternshipDocs
<1>5. ASSUME NEW u \in Users, AddInternshipComment(u) PROVE TimelineStep
  <2>1. /\ UNCHANGED notified
        /\ activity' = Append(activity, [type |-> "comment", author |-> u])
        /\ internship' = internship
    BY <1>5 DEF AddInternshipComment, SaveLogged, WriteParent, WriteActivity,
                EventRotatesParent, LoggedEvents
  <2>2. u \notin Strangers
    BY <1>5, UsersAreDistinct DEF AddInternshipComment, RequireSelfOrRole, Role
  <2>3. [type |-> "comment", author |-> u] \in Entries
    BY DEF Entries, ActivityTypes
  <2> QED
    BY <2>1, <2>2, <2>3
<1>6. ASSUME NEW u \in Users, NEW a \in AttachmentIds, CreateUploadIntent(u, a)
      PROVE  TimelineStep
  BY <1>6 DEF CreateUploadIntent, AddRow, SaveAttachment, WriteParent
<1>7. ASSUME NEW a \in AttachmentIds, NEW g, FinalizeAttachment(a, g),
             UNCHANGED <<notified, view>>
      PROVE  TimelineStep
  BY <1>7 DEF FinalizeAttachment, SaveAttachment, WriteParent
<1>8. ASSUME NEW u \in Users, NEW a \in AttachmentIds, DeleteAttachment(u, a)
      PROVE  TimelineStep
  BY <1>8 DEF DeleteAttachment, SaveRemoval, WriteParent
<1>9. ASSUME NEW a \in AttachmentIds, RunIntentAgain(a) PROVE TimelineStep
  BY <1>9 DEF RunIntentAgain, AddRow, SaveAttachment, WriteParent
<1> QED
  BY <1>1, <1>2, <1>3, <1>4, <1>5, <1>6, <1>7, <1>8, <1>9
  DEF Next, UserStep, OfferStep, ConfirmAttachment, FinalizeStorageAttachment,
      ReadParent, ReadAttachments, vars

LogInv == LogExplainsStatus /\ LogExplainsDecision /\ EntriesAreAttributable

LEMMA LogInvIsInductive ==
  ASSUME TypeOK, LogInv, [Next]_vars
  PROVE  LogInv'
<1> activity \in Seq(Entries) /\ Owner \notin Coordinators \cup Strangers
  BY UsersAreDistinct DEF TypeOK, Entries
<1> USE DEF LogInv
<1>1. CASE UNCHANGED <<internship, activity>>
  BY <1>1 DEF LogExplainsStatus, LogExplainsDecision, EntriesAreAttributable
<1>2. CASE /\ internship'.status = "withdrawn"
           /\ internship'.coordinatorDecision = internship.coordinatorDecision
           /\ internship'.reviewedByUserId = internship.reviewedByUserId
           /\ UNCHANGED activity
  BY <1>2 DEF LogExplainsStatus, LogExplainsDecision, EntriesAreAttributable
<1>3. ASSUME NEW e \in Entries, activity' = Append(activity, e),
             e.type \in {"edit", "comment"}, e.type = "edit" => e.author = Owner,
             e.author \notin Strangers,
             internship'.status = internship.status,
             internship'.coordinatorDecision = internship.coordinatorDecision,
             internship'.reviewedByUserId = internship.reviewedByUserId
      PROVE  LogInv'
  <2>1. e.type \notin DOMAIN StatusLogged /\ e.type \notin DecisionTypes
    BY <1>3 DEF StatusLogged, DecisionTypes
  <2>2. LogExplainsStatus'
    <3> SUFFICES ASSUME internship'.status # "withdrawn"
                 PROVE  \E k \in DOMAIN activity' :
                          /\ IsLast(k, activity', DOMAIN StatusLogged)
                          /\ internship'.status = StatusLogged[activity'[k].type]
      BY DEF LogExplainsStatus
    <3>1. PICK k \in DOMAIN activity : /\ IsLast(k, activity, DOMAIN StatusLogged)
                                       /\ internship.status = StatusLogged[activity[k].type]
      BY <1>3 DEF LogExplainsStatus
    <3>2. IsLast(k, activity', DOMAIN StatusLogged) /\ activity'[k] = activity[k]
      BY <1>3, <2>1, <3>1, LastAfterAppend
    <3> QED
      BY <1>3, <3>1, <3>2 DEF IsLast
  <2>3. LogExplainsDecision'
    <3>1. CASE \E k \in DOMAIN activity :
                 /\ IsLast(k, activity, DecisionTypes)
                 /\ internship.coordinatorDecision \in Decisions
                 /\ activity[k].type = ActivityOfDecision[internship.coordinatorDecision]
                 /\ activity[k].author = internship.reviewedByUserId
      <4>1. PICK k \in DOMAIN activity :
                 /\ IsLast(k, activity, DecisionTypes)
                 /\ internship.coordinatorDecision \in Decisions
                 /\ activity[k].type = ActivityOfDecision[internship.coordinatorDecision]
                 /\ activity[k].author = internship.reviewedByUserId
        BY <3>1
      <4>2. IsLast(k, activity', DecisionTypes) /\ activity'[k] = activity[k]
        BY <1>3, <2>1, <4>1, LastAfterAppend
      <4> QED
        BY <1>3, <4>1, <4>2 DEF LogExplainsDecision, IsLast
    <3>2. CASE /\ internship.coordinatorDecision = NoDecision
               /\ internship.reviewedByUserId = NoReviewer
               /\ \A k \in DOMAIN activity : activity[k].type \notin DecisionTypes
      BY <1>3, <2>1, <3>2, LastAfterAppend DEF LogExplainsDecision
    <3> QED
      BY <3>1, <3>2 DEF LogExplainsDecision
  <2>4. EntriesAreAttributable'
    BY <1>3, <2>1, LastAfterAppend DEF EntriesAreAttributable
  <2> QED
    BY <2>2, <2>3, <2>4
<1>4. CASE /\ activity' = Append(activity, [type |-> "submit_offer", author |-> Owner])
           /\ internship'.status = "offer_pending_review"
           /\ internship'.coordinatorDecision = internship.coordinatorDecision
           /\ internship'.reviewedByUserId = internship.reviewedByUserId
  <2> DEFINE e == [type |-> "submit_offer", author |-> Owner]
             n == Len(activity) + 1
  <2>0. e \in Entries
    BY DEF Entries, ActivityTypes, Users
  <2>1. /\ e.type = "submit_offer" /\ e.author = Owner
        /\ e.type \in DOMAIN StatusLogged /\ e.type \notin DecisionTypes
        /\ StatusLogged["submit_offer"] = "offer_pending_review"
    BY DEF StatusLogged, DecisionTypes
  <2> HIDE DEF e
  <2>2. activity' = Append(activity, e)
    BY <1>4 DEF e
  <2>3. LogExplainsStatus'
    <3>1. IsLast(n, activity', DOMAIN StatusLogged) /\ activity'[n] = e
      BY <2>0, <2>1, <2>2, LastAfterAppend
    <3> QED
      BY <1>4, <2>1, <3>1 DEF LogExplainsStatus, IsLast
  <2>4. LogExplainsDecision'
    <3>1. CASE \E k \in DOMAIN activity :
                 /\ IsLast(k, activity, DecisionTypes)
                 /\ internship.coordinatorDecision \in Decisions
                 /\ activity[k].type = ActivityOfDecision[internship.coordinatorDecision]
                 /\ activity[k].author = internship.reviewedByUserId
      <4>1. PICK k \in DOMAIN activity :
                 /\ IsLast(k, activity, DecisionTypes)
                 /\ internship.coordinatorDecision \in Decisions
                 /\ activity[k].type = ActivityOfDecision[internship.coordinatorDecision]
                 /\ activity[k].author = internship.reviewedByUserId
        BY <3>1
      <4>2. IsLast(k, activity', DecisionTypes) /\ activity'[k] = activity[k]
        BY <2>0, <2>1, <2>2, <4>1, LastAfterAppend
      <4> QED
        BY <1>4, <4>1, <4>2 DEF LogExplainsDecision, IsLast
    <3>2. CASE /\ internship.coordinatorDecision = NoDecision
               /\ internship.reviewedByUserId = NoReviewer
               /\ \A k \in DOMAIN activity : activity[k].type \notin DecisionTypes
      BY <1>4, <2>0, <2>1, <2>2, <3>2, LastAfterAppend DEF LogExplainsDecision
    <3> QED
      BY <3>1, <3>2 DEF LogExplainsDecision
  <2>5. EntriesAreAttributable'
    BY <2>0, <2>1, <2>2, LastAfterAppend DEF EntriesAreAttributable
  <2> QED
    BY <2>3, <2>4, <2>5
<1>5. ASSUME NEW d \in Decisions, NEW u \in Coordinators,
             activity' = Append(activity, [type |-> ActivityOfDecision[d], author |-> u]),
             internship'.status = StatusOfDecision[d],
             internship'.coordinatorDecision = d,
             internship'.reviewedByUserId = u
      PROVE  LogInv'
  <2> DEFINE e == [type |-> ActivityOfDecision[d], author |-> u]
             n == Len(activity) + 1
  <2>0. e \in Entries
    BY DEF Entries, ActivityTypes, Users, ActivityOfDecision, Decisions
  <2>1. /\ e.type = ActivityOfDecision[d] /\ e.author = u
        /\ e.type \in DOMAIN StatusLogged /\ e.type \in DecisionTypes
        /\ StatusLogged[e.type] = StatusOfDecision[d]
        /\ e.type # "comment" /\ u \notin Strangers
    BY UsersAreDistinct
    DEF StatusLogged, DecisionTypes, ActivityOfDecision, StatusOfDecision, Decisions
  <2> HIDE DEF e
  <2>2. activity' = Append(activity, e)
    BY <1>5 DEF e
  <2>3. /\ IsLast(n, activity', DOMAIN StatusLogged)
        /\ IsLast(n, activity', DecisionTypes)
        /\ activity'[n] = e
    BY <2>0, <2>1, <2>2, LastAfterAppend
  <2>4. LogExplainsStatus'
    BY <1>5, <2>1, <2>3 DEF LogExplainsStatus, IsLast
  <2>5. LogExplainsDecision'
    BY <1>5, <2>1, <2>3 DEF LogExplainsDecision, IsLast
  <2>6. EntriesAreAttributable'
    BY <2>0, <2>1, <2>2, LastAfterAppend DEF EntriesAreAttributable
  <2> QED
    BY <2>4, <2>5, <2>6
<1> QED
  BY <1>1, <1>2, <1>3, <1>4, <1>5, StepsAreTimelineSteps DEF TimelineStep

LEMMA LogInvariant == Spec => []LogInv
<1>1. Init => LogInv
  <2> SUFFICES ASSUME Init PROVE LogInv
    OBVIOUS
  <2>1. /\ DOMAIN activity = {1}
        /\ activity[1].type = "apply" /\ activity[1].author = Owner
        /\ internship.status = "applied"
        /\ internship.coordinatorDecision = NoDecision
        /\ internship.reviewedByUserId = NoReviewer
    BY DEF Init, Applied
  <2>2. Owner \notin Coordinators \cup Strangers
    BY UsersAreDistinct
  <2> QED
    BY <2>1, <2>2 DEF LogInv, LogExplainsStatus, LogExplainsDecision, IsLast,
                      EntriesAreAttributable, StatusLogged, DecisionTypes
<1>2. TypeOK /\ LogInv /\ [Next]_vars => LogInv'
  BY LogInvIsInductive
<1> QED
  BY <1>1, <1>2, TypeCorrect, PTL DEF Spec

\* Until a withdrawal, the status is the one the timeline's last transition leads to.
THEOREM TimelineExplainsStatus == Spec => []LogExplainsStatus
<1>1. LogInv => LogExplainsStatus
  BY DEF LogInv
<1> QED
  BY <1>1, LogInvariant, PTL

\* The decision and reviewer on the document are those of the last decision logged.
THEOREM TimelineExplainsDecision == Spec => []LogExplainsDecision
<1>1. LogInv => LogExplainsDecision
  BY DEF LogInv
<1> QED
  BY <1>1, LogInvariant, PTL

\* Nobody but the parties writes the timeline, each in its role.
THEOREM TimelineIsAttributable == Spec => []EntriesAreAttributable
<1>1. LogInv => EntriesAreAttributable
  BY DEF LogInv
<1> QED
  BY <1>1, LogInvariant, PTL

\* One more entry that is no decision leaves the correspondence of
\* notifications and decisions as it is.
LEMMA TellsAfterOther ==
  ASSUME NEW log \in Seq(Entries), NEW told \in Seq(Decisions), NEW e \in Entries,
         e.type \notin DecisionTypes, NEW at, Tells(at, log, told)
  PROVE  Tells(at, Append(log, e), told)
<1> DEFINE longer == Append(log, e)
<1>1. /\ DOMAIN longer = DOMAIN log \cup {Len(log) + 1}
      /\ \A i \in DOMAIN log : longer[i] = log[i]
      /\ longer[Len(log) + 1] = e
  BY AppendIsLast
<1> HIDE DEF longer
<1>2. Tells(at, longer, told)
  BY <1>1 DEF Tells
<1> QED
  BY <1>2 DEF longer

\* A decision and its notification extend the correspondence by one pair.
LEMMA TellsAfterDecision ==
  ASSUME NEW log \in Seq(Entries), NEW told \in Seq(Decisions),
         NEW e \in Entries, NEW d \in Decisions,
         e.type = ActivityOfDecision[d], NEW at, Tells(at, log, told)
  PROVE  \E more \in [DOMAIN Append(told, d) -> DOMAIN Append(log, e)] :
           Tells(more, Append(log, e), Append(told, d))
<1> DEFINE longer == Append(log, e)
           tellings == Append(told, d)
           more == [i \in DOMAIN tellings |-> IF i = Len(told) + 1
                                              THEN Len(log) + 1 ELSE at[i]]
<1>1. /\ DOMAIN longer = DOMAIN log \cup {Len(log) + 1}
      /\ \A i \in DOMAIN log : longer[i] = log[i] /\ i < Len(log) + 1
      /\ longer[Len(log) + 1] = e
  BY AppendIsLast
<1>2. /\ DOMAIN tellings = DOMAIN told \cup {Len(told) + 1}
      /\ \A i \in DOMAIN told : tellings[i] = told[i] /\ i < Len(told) + 1
      /\ tellings[Len(told) + 1] = d
  OBVIOUS
<1>3. /\ DOMAIN log = 1..Len(log) /\ Len(log) \in Nat
      /\ DOMAIN told = 1..Len(told) /\ Len(told) \in Nat
  OBVIOUS
<1> HIDE DEF longer, tellings
<1>4. \A i \in DOMAIN told : more[i] = at[i] /\ at[i] \in DOMAIN log
  BY <1>2, <1>3 DEF Tells
<1>5. more[Len(told) + 1] = Len(log) + 1
  BY <1>2
<1>6. more \in [DOMAIN tellings -> DOMAIN longer]
  BY <1>1, <1>2, <1>4
<1> HIDE DEF more
<1>7. \A i, j \in DOMAIN tellings : i < j => more[i] < more[j]
  <2> SUFFICES ASSUME NEW i \in DOMAIN tellings, NEW j \in DOMAIN tellings, i < j
               PROVE  more[i] < more[j]
    OBVIOUS
  <2>1. i \in DOMAIN told
    BY <1>2, <1>3
  <2>2. CASE j = Len(told) + 1
    BY <1>1, <1>4, <1>5, <2>1, <2>2
  <2>3. CASE j \in DOMAIN told
    BY <1>4, <2>1, <2>3 DEF Tells
  <2> QED
    BY <1>2, <2>2, <2>3
<1>8. ASSUME NEW i \in DOMAIN tellings
      PROVE  longer[more[i]].type = ActivityOfDecision[tellings[i]]
  <2>1. CASE i = Len(told) + 1
    BY <1>1, <1>2, <1>5, <2>1
  <2>2. CASE i \in DOMAIN told
    <3>1. longer[more[i]] = log[at[i]] /\ tellings[i] = told[i]
      BY <1>1, <1>2, <1>4, <2>2
    <3>2. log[at[i]].type = ActivityOfDecision[told[i]]
      BY <2>2 DEF Tells
    <3> QED
      BY <3>1, <3>2
  <2> QED
    BY <1>2, <2>1, <2>2
<1>9. ASSUME NEW k \in DOMAIN longer, longer[k].type \in DecisionTypes
      PROVE  \E i \in DOMAIN tellings : more[i] = k
  <2>1. CASE k = Len(log) + 1
    BY <1>2, <1>5, <2>1
  <2>2. CASE k \in DOMAIN log
    <3>1. PICK i \in DOMAIN told : at[i] = k
      BY <1>1, <1>9, <2>2 DEF Tells
    <3> QED
      BY <1>2, <1>4, <3>1
  <2> QED
    BY <1>1, <2>1, <2>2
<1> QED
  BY <1>6, <1>7, <1>8, <1>9 DEF Tells, longer, tellings

\* The owner is notified of every decision, once and in order.
THEOREM DecisionsAreNotified == Spec => []EveryDecisionNotified
<1>1. Init => EveryDecisionNotified
  <2> SUFFICES ASSUME Init PROVE EveryDecisionNotified
    OBVIOUS
  <2>1. notified = << >> /\ activity = <<[type |-> "apply", author |-> Owner]>>
    BY DEF Init
  <2>2. DOMAIN notified = {} /\ DOMAIN activity = {1} /\ activity[1].type = "apply"
    BY <2>1
  <2>3. [i \in {} |-> 1] \in [DOMAIN notified -> DOMAIN activity]
    BY <2>2
  <2> QED
    BY <2>2, <2>3 DEF EveryDecisionNotified, Tells, DecisionTypes
<1>2. TypeOK /\ EveryDecisionNotified /\ [Next]_vars => EveryDecisionNotified'
  <2> SUFFICES ASSUME TypeOK, EveryDecisionNotified, [Next]_vars
               PROVE  EveryDecisionNotified'
    OBVIOUS
  <2>0. activity \in Seq(Entries) /\ notified \in Seq(Decisions)
    BY DEF TypeOK, Entries
  <2> PICK at \in [DOMAIN notified -> DOMAIN activity] : Tells(at, activity, notified)
    BY DEF EveryDecisionNotified
  <2>1. CASE UNCHANGED <<activity, notified>>
    BY <2>1 DEF EveryDecisionNotified
  <2>2. ASSUME NEW e \in Entries, activity' = Append(activity, e),
               UNCHANGED notified, e.type \notin DecisionTypes
        PROVE  EveryDecisionNotified'
    <3>1. Tells(at, activity', notified')
      BY <2>0, <2>2, TellsAfterOther
    <3> QED
      BY <3>1 DEF EveryDecisionNotified, Tells
  <2>3. ASSUME NEW d \in Decisions, NEW u \in Coordinators,
               notified' = Append(notified, d),
               activity' = Append(activity, [type |-> ActivityOfDecision[d], author |-> u])
        PROVE  EveryDecisionNotified'
    <3>1. [type |-> ActivityOfDecision[d], author |-> u] \in Entries
      BY DEF Entries, ActivityTypes, Users, ActivityOfDecision, Decisions
    <3> QED
      BY <2>0, <2>3, <3>1, TellsAfterDecision DEF EveryDecisionNotified
  <2>4. [type |-> "submit_offer", author |-> Owner] \in Entries
    BY DEF Entries, ActivityTypes, Users
  <2> QED
    BY <2>1, <2>2, <2>3, <2>4, StepsAreTimelineSteps DEF TimelineStep, DecisionTypes
<1> QED
  BY <1>1, <1>2, TypeCorrect, PTL DEF Spec

-----------------------------------------------------------------------------
(* The aggregate implements OfferLifecycle.                                 *)

\* One more entry is one more submission exactly when it is one.
LEMMA SubmissionsAfterAppend ==
  ASSUME NEW log \in Seq(Entries), NEW e \in Entries
  PROVE  /\ Cardinality(Submissions(log)) \in Nat
         /\ Cardinality(Submissions(Append(log, e))) =
              Cardinality(Submissions(log)) + (IF e.type = "submit_offer" THEN 1 ELSE 0)
<1>1. Submissions(log) \subseteq 1..Len(log) /\ Len(log) \in Nat
  BY DEF Submissions
<1>2. IsFiniteSet(Submissions(log)) /\ Len(log) + 1 \notin Submissions(log)
  <2>1. IsFiniteSet(1..Len(log))
    BY <1>1, FS_Interval
  <2> QED
    BY <1>1, <2>1, FS_Subset
<1>3. Cardinality(Submissions(log)) \in Nat
  BY <1>2, FS_CardinalityType
<1>4. Submissions(Append(log, e)) =
        Submissions(log) \cup (IF e.type = "submit_offer" THEN {Len(log) + 1} ELSE {})
  BY AppendIsLast, <1>1 DEF Submissions
<1>5. CASE e.type = "submit_offer"
  BY <1>2, <1>3, <1>4, <1>5, FS_AddElement
<1>6. CASE e.type # "submit_offer"
  BY <1>3, <1>4, <1>6
<1> QED
  BY <1>5, <1>6, <1>3

\* Every step of the aggregate is a step of OfferLifecycle or changes nothing of it.
LEMMA StepsImplementOfferSteps ==
  ASSUME TypeOK, [Next]_vars
  PROVE  [Offer!Next]_(Offer!vars)
<1> activity \in Seq(Entries) /\ internship.status \in Statuses
  BY DEF TypeOK, Entries, InternshipDocs
<1>1. CASE UNCHANGED <<internship, activity, notified>>
  BY <1>1 DEF Offer!vars, StageOf
<1>2. CASE /\ Withdrawable(internship.status)
           /\ UNCHANGED notified
           /\ internship'.status = "withdrawn"
           /\ UNCHANGED activity
  <2>1. Offer!Withdraw
    BY <1>2 DEF Offer!Withdraw, StageOf, Withdrawable
  <2> QED
    BY <2>1 DEF Offer!Next
<1>3. ASSUME NEW e \in Entries, activity' = Append(activity, e), UNCHANGED notified,
             e.type \in {"edit", "comment"}, internship'.status = internship.status
      PROVE  [Offer!Next]_(Offer!vars)
  <2>1. Cardinality(Submissions(activity')) = Cardinality(Submissions(activity))
    BY <1>3, SubmissionsAfterAppend
  <2> QED
    BY <1>3, <2>1 DEF Offer!vars, StageOf
<1>4. CASE /\ Submittable(internship.status)
           /\ UNCHANGED notified
           /\ activity' = Append(activity, [type |-> "submit_offer", author |-> Owner])
           /\ internship'.status = "offer_pending_review"
  <2>1. [type |-> "submit_offer", author |-> Owner] \in Entries
    BY DEF Entries, ActivityTypes, Users
  <2>2. Cardinality(Submissions(activity')) = Cardinality(Submissions(activity)) + 1
    BY <1>4, <2>1, SubmissionsAfterAppend
  <2>3. Offer!Submit
    BY <1>4, <2>2 DEF Offer!Submit, StageOf, Submittable
  <2> QED
    BY <2>3 DEF Offer!Next
<1>5. ASSUME NEW d \in Decisions, NEW u \in Coordinators,
             internship.status = "offer_pending_review",
             notified' = Append(notified, d),
             activity' = Append(activity, [type |-> ActivityOfDecision[d], author |-> u]),
             internship'.status = StatusOfDecision[d]
      PROVE  [Offer!Next]_(Offer!vars)
  <2>1. /\ [type |-> ActivityOfDecision[d], author |-> u] \in Entries
        /\ ActivityOfDecision[d] # "submit_offer"
    BY DEF Entries, ActivityTypes, Users, ActivityOfDecision, Decisions
  <2>2. Cardinality(Submissions(activity')) = Cardinality(Submissions(activity))
    BY <1>5, <2>1, SubmissionsAfterAppend
  <2>3. StageOf = "coordinator"
        /\ StageOf' = IF d = "changes_requested" THEN "student" ELSE "closed"
    BY <1>5 DEF StageOf, StatusOfDecision, Decisions
  <2>4. Offer!Answer(d)
    BY <1>5, <2>2, <2>3 DEF Offer!Answer
  <2>5. d \in Offer!Answers
    BY DEF Decisions, Offer!Answers
  <2> QED
    BY <2>4, <2>5 DEF Offer!Next
<1> QED
  BY <1>1, <1>2, <1>3, <1>4, <1>5, StepsAreTimelineSteps DEF TimelineStep

\* The student and the coordinators take turns: every submission is answered at
\* most once and notified exactly then, and a closed offer stays closed.
THEOREM AggregateImplementsOffer == Spec => ImplementsOfferLifecycle
<1>1. Init => Offer!Init
  <2> SUFFICES ASSUME Init PROVE Offer!Init
    OBVIOUS
  <2>1. Submissions(activity) = {}
    BY DEF Init, Submissions
  <2> QED
    BY <2>1, FS_EmptySet DEF Init, Applied, Offer!Init, StageOf
<1>2. TypeOK /\ [Next]_vars => [Offer!Next]_(Offer!vars)
  BY StepsImplementOfferSteps
<1> QED
  BY <1>1, <1>2, TypeCorrect, PTL DEF Spec, ImplementsOfferLifecycle, Offer!Spec

=============================================================================
