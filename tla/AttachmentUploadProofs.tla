----------------------- MODULE AttachmentUploadProofs -----------------------
(* Theorems about AttachmentUpload, for every number of attachments, files, *)
(* generations and users.                                                   *)
EXTENDS AttachmentUpload, InternshipProofs

-----------------------------------------------------------------------------
(* Types.                                                                   *)

\* What surrounds the aggregate keeps its shape.
LEMMA UploadTypeIsInductive ==
  ASSUME UploadTypeOK, [UploadNext]_uploadVars
  PROVE  UploadTypeOK'
<1> USE DEF UploadTypeOK, UploadPhases
<1>1. CASE OtherStep
  BY <1>1 DEF OtherStep, pageVars, storageVars
<1>2. CASE LoadPage
  BY <1>2 DEF LoadPage, Rows, storageVars
<1>3. ASSUME NEW a \in AttachmentIds, PageStep(a) PROVE UploadTypeOK'
  <2>1. ASSUME NEW g \in Generations, NEW answered \in BOOLEAN, Put(a, g, answered)
        PROVE  UploadTypeOK'
    BY <2>1 DEF Put, StorageEvents
  <2>2. ASSUME NEW answered \in BOOLEAN, ConfirmUpload(a, answered) PROVE UploadTypeOK'
    BY <2>2 DEF ConfirmUpload, storageVars
  <2>3. CASE CleanUpTimedOut(a) \/ CleanUpStuck(a)
    BY <2>3 DEF CleanUpTimedOut, CleanUpStuck, storageVars
  <2>4. CASE RequestIntent(a) \/ MintUrl(a) \/ GiveUp(a) \/ ConfirmLost(a)
    BY <2>4 DEF RequestIntent, MintUrl, GiveUp, ConfirmLost, storageVars
  <2>5. CASE \E deadline \in BOOLEAN : Poll(a, deadline)
    BY <2>5 DEF Poll, storageVars
  <2> QED
    BY <1>3, <2>1, <2>2, <2>3, <2>4, <2>5 DEF PageStep
<1>4. ASSUME NEW e \in events, DeliverFinalizeEvent(e) PROVE UploadTypeOK'
  BY <1>4 DEF DeliverFinalizeEvent, pageVars, storageVars
<1>5. CASE UNCHANGED uploadVars
  BY <1>5 DEF uploadVars
<1> QED
  BY <1>1, <1>2, <1>3, <1>4, <1>5 DEF UploadNext

\* Type correctness of the page, the bucket and the worker: in particular every
\* storage event carries a generation.
THEOREM UploadTypeCorrect == UploadSpec => []UploadTypeOK
<1>1. UploadInit => UploadTypeOK
  BY DEF UploadInit, UploadTypeOK, UploadPhases
<1>2. UploadTypeOK /\ [UploadNext]_uploadVars => UploadTypeOK'
  BY UploadTypeIsInductive
<1> QED
  BY <1>1, <1>2, PTL DEF UploadSpec

-----------------------------------------------------------------------------
(* The page, the bucket and the worker only ever do to the aggregate what   *)
(* the aggregate allows.                                                    *)

LEMMA UploadStepsAreInternshipSteps ==
  ASSUME UploadTypeOK, [UploadNext]_uploadVars
  PROVE  [Next]_vars
<1> Owner \in Users
  BY DEF Users
<1>1. CASE OtherStep
  BY <1>1 DEF OtherStep, Next, UserStep
<1>2. CASE LoadPage
  BY <1>2 DEF LoadPage
<1>3. ASSUME NEW a \in AttachmentIds, PageStep(a) PROVE [Next]_vars
  <2>1. CASE RequestIntent(a)
    BY <2>1 DEF RequestIntent, Next, UserStep
  <2>2. CASE \E answered \in BOOLEAN : ConfirmUpload(a, answered)
    BY <2>2 DEF ConfirmUpload, Next, UserStep
  <2>3. ASSUME DeleteOrIgnore(a) PROVE [Next]_vars
    BY <2>3 DEF DeleteOrIgnore, Next, UserStep
  <2>4. CASE CleanUpTimedOut(a) \/ CleanUpStuck(a)
    BY <2>3, <2>4 DEF CleanUpTimedOut, CleanUpStuck
  <2>5. CASE \/ MintUrl(a) \/ GiveUp(a) \/ ConfirmLost(a)
             \/ \E g \in Generations, answered \in BOOLEAN : Put(a, g, answered)
             \/ \E deadline \in BOOLEAN : Poll(a, deadline)
    BY <2>5 DEF MintUrl, GiveUp, ConfirmLost, Put, Poll
  <2> QED
    BY <1>3, <2>1, <2>2, <2>4, <2>5 DEF PageStep
<1>4. ASSUME NEW e \in events, DeliverFinalizeEvent(e) PROVE [Next]_vars
  <2>1. e.generation \in Generations
    BY DEF UploadTypeOK, StorageEvents
  <2> QED
    BY <1>4, <2>1 DEF DeliverFinalizeEvent, Next
<1>5. CASE UNCHANGED uploadVars
  BY <1>5 DEF uploadVars
<1> QED
  BY <1>1, <1>2, <1>3, <1>4, <1>5 DEF UploadNext

\* Everything proved of the aggregate alone holds of the aggregate among pages,
\* storage events and clean-ups.
THEOREM UploadImplementsInternship == UploadSpec => Spec
<1>1. UploadInit => Init
  BY DEF UploadInit
<1>2. UploadTypeOK /\ [UploadNext]_uploadVars => [Next]_vars
  BY UploadStepsAreInternshipSteps
<1> QED
  BY <1>1, <1>2, UploadTypeCorrect, PTL DEF UploadSpec, Spec

-----------------------------------------------------------------------------
(* Finalized attachments and their bytes.                                   *)

\* An event names at most the attachment it was emitted for.
LEMMA MatchesIsIdentity ==
  ASSUME NEW a \in AttachmentIds, NEW b \in AttachmentIds, Matches(a, b)
  PROVE  a = b
<1> DEFINE Parts == AttachmentIds \cup {"offer", "letter"}
<1>1. ASSUME NEW x \in AttachmentIds PROVE Leaf(x)[1] = x
  <2>1. <<x>> \in Seq(Parts) /\ Len(<<x>>) = 1 /\ <<x>>[1] = x
    OBVIOUS
  <2>2. ASSUME NEW rest \in Seq(Parts) PROVE (<<x>> \o rest)[1] = x
    BY <2>1, <2>2
  <2>3. <<"offer">> \in Seq(Parts) /\ <<"offer", "letter">> \in Seq(Parts)
    OBVIOUS
  <2> QED
    BY <2>2, <2>3 DEF Leaf
<1>2. Leaf(b) = Leaf(a)
  BY DEF Matches
<1> QED
  BY <1>1, <1>2

\* Why FinalizedHasObject is inductive: the page confirms only what has landed,
\* and an event tells of an object.
ObjectInv ==
  /\ FinalizedHasObject
  /\ \A a \in AttachmentIds : upload[a] = "landed" => object[a] # NoGeneration
  /\ \A e \in events : object[e.attachment] # NoGeneration

\* Only a confirmation of a landed upload and a storage event finalize a row.
LEMMA FinalizedBy ==
  ASSUME TypeOK, UploadTypeOK, [UploadNext]_uploadVars,
         NEW a \in AttachmentIds, IsFinalized(a)', ~IsFinalized(a)
  PROVE  upload[a] = "landed" \/ \E e \in events : e.attachment = a
<1> USE DEF IsFinalized
<1>1. ASSUME NEW b \in AttachmentIds, NEW g, FinalizeAttachment(b, g) PROVE a = b
  BY <1>1 DEF FinalizeAttachment, SaveAttachment, TypeOK
<1>2. ASSUME NEW b \in AttachmentIds, AddRow(b) PROVE FALSE
  BY <1>2 DEF AddRow, SaveAttachment, TypeOK
<1>3. ASSUME NEW b \in AttachmentIds, NEW u \in Users, DeleteAttachment(u, b) PROVE FALSE
  BY <1>3 DEF DeleteAttachment, SaveRemoval, TypeOK
<1>4. attachments' # attachments
  OBVIOUS
<1> Owner \in Users
  BY DEF Users
<1>5. ~OtherStep
  BY <1>2, <1>3, <1>4 DEF OtherStep, RunIntentAgain, OfferStep, UpdateInternship, SubmitInternshipOffer,
     DecideInternshipOffer, WithdrawInternship, AddInternshipComment, SaveLogged
<1>6. ~LoadPage /\ ~UNCHANGED uploadVars
  BY <1>4 DEF LoadPage, uploadVars, vars
<1>7. ASSUME NEW b \in AttachmentIds, PageStep(b) PROVE upload[a] = "landed"
  <2>1. \E answered \in BOOLEAN : ConfirmUpload(b, answered)
    BY <1>2, <1>3, <1>4, <1>7
    DEF PageStep, RequestIntent, CreateUploadIntent, MintUrl, GiveUp, Put, ConfirmLost, Poll,
        CleanUpTimedOut, CleanUpStuck, DeleteOrIgnore, vars
  <2>2. upload[b] = "landed" /\ FinalizeAttachment(b, NoGeneration)
    BY <1>4, <2>1 DEF ConfirmUpload, ConfirmAttachment, vars
  <2> QED
    BY <1>1, <2>2
<1>8. ASSUME NEW e \in events, DeliverFinalizeEvent(e) PROVE e.attachment = a
  <2>1. PICK b \in AttachmentIds : /\ Matches(e.attachment, b)
                                   /\ FinalizeAttachment(b, e.generation)
    BY <1>4, <1>8 DEF DeliverFinalizeEvent, FinalizeStorageAttachment, vars
  <2>2. e.attachment \in AttachmentIds
    BY DEF UploadTypeOK, StorageEvents
  <2> QED
    BY <1>1, <2>1, <2>2, MatchesIsIdentity
<1> QED
  BY <1>5, <1>6, <1>7, <1>8 DEF UploadNext

\* The bucket only grows, an event is emitted with its object, and an upload has
\* landed only with one.
LEMMA ObjectSteps ==
  ASSUME UploadTypeOK, [UploadNext]_uploadVars
  PROVE  \/ \E a \in AttachmentIds, g \in Generations, answered \in BOOLEAN :
              Put(a, g, answered)
         \/ /\ UNCHANGED <<object, events>>
            /\ \A a \in AttachmentIds : upload[a]' = "landed" => upload[a] = "landed"
BY DEF UploadTypeOK, UploadNext, PageStep, OtherStep, LoadPage, RequestIntent, MintUrl,
       GiveUp, ConfirmUpload, ConfirmLost, Poll, CleanUpTimedOut, CleanUpStuck,
       DeliverFinalizeEvent, pageVars, storageVars, uploadVars

LEMMA ObjectInvIsInductive ==
  ASSUME TypeOK, UploadTypeOK, ObjectInv, [UploadNext]_uploadVars
  PROVE  ObjectInv'
<1> DEFINE Kept ==
      /\ \A a \in AttachmentIds : object[a] # NoGeneration => object'[a] # NoGeneration
      /\ \A a \in AttachmentIds : upload'[a] = "landed" => object'[a] # NoGeneration
      /\ \A e \in events' : object'[e.attachment] # NoGeneration
<1>1. Kept
  <2>1. ASSUME NEW a \in AttachmentIds, NEW g \in Generations, NEW answered \in BOOLEAN,
               Put(a, g, answered)
        PROVE  Kept
    BY <2>1, UndefinedIsNoValue DEF Put, ObjectInv, UploadTypeOK, StorageEvents
  <2>2. CASE /\ UNCHANGED <<object, events>>
             /\ \A a \in AttachmentIds : upload[a]' = "landed" => upload[a] = "landed"
    BY <2>2 DEF ObjectInv
  <2> QED
    BY <2>1, <2>2, ObjectSteps
<1>2. FinalizedHasObject'
  <2> SUFFICES ASSUME NEW a \in AttachmentIds, IsFinalized(a)'
               PROVE  object'[a] # NoGeneration
    BY DEF FinalizedHasObject
  <2>1. CASE IsFinalized(a)
    BY <1>1, <2>1 DEF ObjectInv, FinalizedHasObject
  <2>2. CASE ~IsFinalized(a)
    BY <1>1, <2>2, FinalizedBy DEF ObjectInv
  <2> QED
    BY <2>1, <2>2
<1> QED
  BY <1>1, <1>2 DEF ObjectInv

\* A finalized attachment has its bytes in the bucket, although the confirm
\* endpoint does not look: the discipline of the page and of the worker suffices.
THEOREM FinalizedObjectsExist == UploadSpec => []FinalizedHasObject
<1>1. UploadInit => ObjectInv
  BY DEF UploadInit, Init, ObjectInv, FinalizedHasObject, IsFinalized
<1>2. TypeOK /\ UploadTypeOK /\ ObjectInv /\ [UploadNext]_uploadVars => ObjectInv'
  BY ObjectInvIsInductive
<1>3. ObjectInv => FinalizedHasObject
  BY DEF ObjectInv
<1> QED
  BY <1>1, <1>2, <1>3, UploadTypeCorrect, UploadImplementsInternship, TypeCorrect, PTL
  DEF UploadSpec

-----------------------------------------------------------------------------
(* No object is lost track of.                                              *)

\* Why NoUntrackedObject is inductive: the row is written before the page has a
\* URL to PUT to, and a row once written leaves a trace for good.  Nor does an intent
\* that may run again have a URL, and so no object, yet.
TrackedInv ==
  \A a \in AttachmentIds :
    /\ upload[a] # "none" => attachments[a].uploadStatus # "absent"
    /\ object[a] # NoGeneration => upload[a] # "none"
    /\ a \in unacked => upload[a] \in {"none", "minting", "over"} /\ object[a] = NoGeneration

\* A row is never unwritten.
LEMMA RowsAreRemembered ==
  ASSUME TypeOK, [Next]_vars, NEW a \in AttachmentIds, attachments[a].uploadStatus # "absent"
  PROVE  attachments'[a].uploadStatus # "absent"
<1>1. ASSUME NEW b \in AttachmentIds, AddRow(b)
      PROVE  attachments'[a].uploadStatus # "absent"
  BY <1>1 DEF AddRow, SaveAttachment, TypeOK
<1>2. ASSUME NEW b \in AttachmentIds, NEW g, FinalizeAttachment(b, g)
      PROVE  attachments'[a].uploadStatus # "absent"
  BY <1>2 DEF FinalizeAttachment, SaveAttachment, TypeOK
<1>3. ASSUME NEW b \in AttachmentIds, NEW u \in Users, DeleteAttachment(u, b)
      PROVE  attachments'[a].uploadStatus # "absent"
  BY <1>3 DEF DeleteAttachment, SaveRemoval, TypeOK
<1>4. CASE UNCHANGED <<attachments, purgeQueue>>
  BY <1>4
<1> QED
  BY <1>1, <1>2, <1>3, <1>4, AttachmentSteps

LEMMA TrackedInvIsInductive ==
  ASSUME TypeOK, UploadTypeOK, TrackedInv, [UploadNext]_uploadVars
  PROVE  TrackedInv'
<1> SUFFICES ASSUME NEW a \in AttachmentIds
             PROVE  /\ upload'[a] # "none" => attachments'[a].uploadStatus # "absent"
                    /\ object'[a] # NoGeneration => upload'[a] # "none"
                    /\ a \in unacked' => /\ upload'[a] \in {"none", "minting", "over"}
                                        /\ object'[a] = NoGeneration
  BY DEF TrackedInv
<1>1. attachments[a].uploadStatus # "absent" => attachments'[a].uploadStatus # "absent"
  BY UploadStepsAreInternshipSteps, RowsAreRemembered
<1>2. upload[a] # "none" => upload'[a] # "none"
  BY DEF UploadTypeOK, UploadNext, PageStep, OtherStep, LoadPage, RequestIntent, MintUrl,
         GiveUp, Put, ConfirmUpload, ConfirmLost, Poll, CleanUpTimedOut, CleanUpStuck,
         DeliverFinalizeEvent, pageVars, uploadVars
<1>3. ASSUME upload[a] = "none", upload'[a] # "none" PROVE RequestIntent(a)
  BY <1>3 DEF UploadTypeOK, UploadNext, PageStep, OtherStep, LoadPage, RequestIntent,
         MintUrl, GiveUp, Put, ConfirmUpload, ConfirmLost, Poll, CleanUpTimedOut,
         CleanUpStuck, DeliverFinalizeEvent, pageVars, uploadVars
<1>4. RequestIntent(a) => attachments'[a].uploadStatus = "uploading"
  BY DEF RequestIntent, CreateUploadIntent, AddRow, SaveAttachment, TypeOK
<1>5. object[a] = NoGeneration /\ object'[a] # NoGeneration => upload[a] = "putting"
  BY DEF UploadTypeOK, UploadNext, PageStep, OtherStep, LoadPage, RequestIntent, MintUrl,
         GiveUp, Put, ConfirmUpload, ConfirmLost, Poll, CleanUpTimedOut, CleanUpStuck,
         DeliverFinalizeEvent, storageVars, uploadVars
<1>6. ASSUME a \in unacked', upload[a] \in {"none", "minting", "over"}
      PROVE  upload'[a] \in {"none", "minting", "over"}
  BY <1>6 DEF UploadTypeOK, UploadNext, PageStep, OtherStep, LoadPage, RequestIntent, MintUrl,
         GiveUp, Put, ConfirmUpload, ConfirmLost, Poll, CleanUpTimedOut, CleanUpStuck,
         DeliverFinalizeEvent, pageVars, uploadVars, vars
<1>7. a \in unacked' => /\ upload[a] \in {"none", "minting", "over"}
                       /\ object[a] = NoGeneration
  BY UploadStepsAreInternshipSteps, OnlyIntentsAreUnacked DEF TrackedInv
<1> QED
  BY <1>1, <1>2, <1>3, <1>4, <1>5, <1>6, <1>7 DEF TrackedInv

\* However late a PUT lands, and whichever clean-up took its row, a row or the
\* outbox names the object.
THEOREM ObjectsAreTracked == UploadSpec => []NoUntrackedObject
<1>1. UploadInit => TrackedInv
  BY DEF UploadInit, Init, TrackedInv
<1>2. TypeOK /\ UploadTypeOK /\ TrackedInv /\ [UploadNext]_uploadVars => TrackedInv'
  BY TrackedInvIsInductive
<1>3. TypeOK /\ TrackedInv /\ OutboxInv => NoUntrackedObject
  <2> SUFFICES ASSUME TypeOK, TrackedInv, OutboxInv, NEW a \in AttachmentIds,
                      object[a] # NoGeneration, ~HasRow(a)
               PROVE  \E r \in purgeQueue : r.attachment = a
    BY DEF NoUntrackedObject
  <2>1. added[a] \in Nat /\ added[a] # 0
    BY DEF TypeOK, TrackedInv, OutboxInv, Numbering
  <2>2. added[a] \in 1..added[a]
    BY <2>1
  <2> QED
    BY <2>2 DEF OutboxInv, PurgeRowPerDeletion
<1> QED
  BY <1>1, <1>2, <1>3, UploadTypeCorrect, UploadImplementsInternship, TypeCorrect,
     OutboxInvariant, PTL DEF UploadSpec

-----------------------------------------------------------------------------
(* Rows that wait for their storage event.                                  *)

\* Why WaitingRowsHaveEvents is inductive: an upload is PUT once, and not before
\* its URL is out.
EventInv ==
  /\ WaitingRowsHaveEvents
  /\ \A e \in events : upload[e.attachment] \notin {"none", "minting", "putting"}

\* Only its intent makes a row wait, run for the first time or again.
LEMMA WaitsSinceIntent ==
  ASSUME TypeOK, [Next]_vars, NEW a \in AttachmentIds,
         attachments'[a].uploadStatus = "uploading", attachments[a].uploadStatus # "uploading"
  PROVE  attachments[a].uploadStatus = "absent" \/ a \in unacked
<1>1. ASSUME NEW b \in AttachmentIds, AddRow(b) PROVE a = b
  BY <1>1 DEF AddRow, SaveAttachment, TypeOK
<1>2. ASSUME NEW b \in AttachmentIds, NEW g, FinalizeAttachment(b, g) PROVE FALSE
  BY <1>2 DEF FinalizeAttachment, SaveAttachment, TypeOK
<1>3. ASSUME NEW b \in AttachmentIds, NEW u \in Users, DeleteAttachment(u, b) PROVE FALSE
  BY <1>3 DEF DeleteAttachment, SaveRemoval, TypeOK
<1> QED
  BY <1>1, <1>2, <1>3, AttachmentSteps

\* A file name without hyphens leads the worker back to its own row.
LEMMA PlainNamesMatch ==
  ASSUME NEW a \in AttachmentIds \ Hyphenated
  PROVE  Matches(a, a)
<1> DEFINE Parts == AttachmentIds \cup {"offer"}
           leaf == <<a>> \o <<"offer">>
           id == SubSeq(leaf, 1, Len(leaf) - 1)
<1>1. <<a>> \in Seq(Parts) /\ <<"offer">> \in Seq(Parts)
  OBVIOUS
<1>2. leaf \in Seq(Parts) /\ Len(leaf) = 2 /\ leaf[1] = a
  BY <1>1
<1> HIDE DEF leaf
<1>3. id \in Seq(Parts) /\ Len(id) = 1 /\ id[1] = a
  BY <1>2
<1> HIDE DEF id
<1>4. <<a>> = id
  BY <1>1, <1>3
<1> QED
  BY <1>4 DEF Matches, ParsedAttachmentId, Leaf, leaf, id

\* The delivery of an event settles the row that it names.
LEMMA DeliveriesSettle ==
  ASSUME TypeOK, NEW e \in events, DeliverFinalizeEvent(e), NEW a \in AttachmentIds,
         Matches(e.attachment, a), e.attachment \in AttachmentIds
  PROVE  attachments'[a].uploadStatus # "uploading"
<1>1. ASSUME NEW b \in AttachmentIds, Matches(e.attachment, b),
             FinalizeStorageAttachment(b, e.generation)
      PROVE  attachments'[a].uploadStatus # "uploading"
  <2>1. a = b
    BY <1>1, MatchesIsIdentity
  <2> QED
    BY <1>1, <2>1 DEF FinalizeStorageAttachment, FinalizeAttachment, SaveAttachment, TypeOK
<1>2. ASSUME ~Finalizable(a), UNCHANGED vars PROVE attachments'[a].uploadStatus # "uploading"
  BY <1>2 DEF Finalizable, HasRow, IsFinalized, vars
<1> QED
  BY <1>1, <1>2 DEF DeliverFinalizeEvent

\* An acknowledgement is of a delivery.
LEMMA AcknowledgedSteps ==
  ASSUME [UploadNext]_uploadVars
  PROVE  \/ acked' = acked
         \/ \E e \in events : /\ DeliverFinalizeEvent(e)
                            /\ acked' = acked \cup {e}
                            /\ UNCHANGED <<pageVars, storageVars>>
BY DEF UploadNext, PageStep, OtherStep, LoadPage, RequestIntent, MintUrl, GiveUp, Put,
       ConfirmUpload, ConfirmLost, Poll, CleanUpTimedOut, CleanUpStuck,
       DeliverFinalizeEvent, uploadVars

\* What has been PUT stays PUT.
LEMMA UploadsGoOn ==
  ASSUME UploadTypeOK, [UploadNext]_uploadVars, NEW a \in AttachmentIds,
         upload[a] \notin {"none", "minting", "putting"}
  PROVE  upload'[a] \notin {"none", "minting", "putting"}
BY DEF UploadTypeOK, UploadNext, PageStep, OtherStep, LoadPage, RequestIntent, MintUrl,
       GiveUp, Put, ConfirmUpload, ConfirmLost, Poll, CleanUpTimedOut, CleanUpStuck,
       DeliverFinalizeEvent, pageVars, uploadVars

LEMMA EventInvIsInductive ==
  ASSUME TypeOK, UploadTypeOK, TrackedInv, EventInv, [UploadNext]_uploadVars
  PROVE  EventInv'
<1>1. [Next]_vars
  BY UploadStepsAreInternshipSteps
<1>2. ASSUME NEW b \in AttachmentIds, NEW g \in Generations, NEW answered \in BOOLEAN,
             Put(b, g, answered)
      PROVE  EventInv'
  <2> DEFINE new == [attachment |-> b, generation |-> g]
  <2>1. /\ upload[b] = "putting"
        /\ object' = [object EXCEPT ![b] = g]
        /\ events' = events \cup {new}
        /\ upload' = [upload EXCEPT ![b] = IF answered THEN "landed" ELSE "over"]
        /\ UNCHANGED <<attachments, acked>>
    BY <1>2 DEF Put, vars
  <2>2. new \notin events
    BY <2>1 DEF EventInv
  <2>3. new \notin acked
    BY <2>2 DEF UploadTypeOK
  <2>4. WaitingRowsHaveEvents'
    <3> SUFFICES ASSUME NEW a \in AttachmentIds \ Hyphenated,
                        object'[a] # NoGeneration, attachments'[a].uploadStatus = "uploading"
                 PROVE  \E e \in events' \ acked' : e.attachment = a /\ Matches(e.attachment, a)
      BY DEF WaitingRowsHaveEvents, Matches, ParsedAttachmentId, Leaf
    <3>1. CASE a = b
      BY <2>1, <2>3, <3>1, PlainNamesMatch
    <3>2. CASE a # b
      BY <2>1, <3>2 DEF EventInv, WaitingRowsHaveEvents, UploadTypeOK
    <3> QED
      BY <3>1, <3>2
  <2>5. \A e \in events' : upload'[e.attachment] \notin {"none", "minting", "putting"}
    BY <2>1 DEF EventInv, UploadTypeOK, StorageEvents
  <2> QED
    BY <2>4, <2>5 DEF EventInv
<1>3. CASE UNCHANGED <<object, events>>
  <2>1. WaitingRowsHaveEvents'
    <3> SUFFICES ASSUME NEW a \in AttachmentIds \ Hyphenated,
                        object'[a] # NoGeneration, attachments'[a].uploadStatus = "uploading"
                 PROVE  \E e \in events' \ acked' : e.attachment = a /\ Matches(e.attachment, a)
      BY DEF WaitingRowsHaveEvents, Matches, ParsedAttachmentId, Leaf
    <3>1. attachments[a].uploadStatus = "uploading"
      BY <1>1, <1>3, WaitsSinceIntent DEF TrackedInv
    <3>2. PICK e \in events \ acked : e.attachment = a /\ Matches(e.attachment, a)
      BY <1>3, <3>1 DEF EventInv, WaitingRowsHaveEvents
    <3>3. ~DeliverFinalizeEvent(e)
      BY <3>2, DeliveriesSettle
    <3>4. e \notin acked'
      BY <3>2, <3>3, AcknowledgedSteps
    <3> QED
      BY <1>3, <3>2, <3>4
  <2>2. \A e \in events' : upload'[e.attachment] \notin {"none", "minting", "putting"}
    BY <1>3, UploadsGoOn DEF EventInv, UploadTypeOK, StorageEvents
  <2> QED
    BY <2>1, <2>2 DEF EventInv
<1> QED
  BY <1>2, <1>3, ObjectSteps

\* The safety half of PlainNamesSettle: as long as an object waits, so does an event
\* that settles it, however often others were delivered before.
THEOREM WaitingRowsAreServed == UploadSpec => []WaitingRowsHaveEvents
<1>1. UploadInit => TrackedInv /\ EventInv
  BY DEF UploadInit, Init, TrackedInv, EventInv, WaitingRowsHaveEvents
<1>2. /\ TypeOK /\ UploadTypeOK /\ TrackedInv /\ EventInv /\ [UploadNext]_uploadVars
      => TrackedInv' /\ EventInv'
  BY TrackedInvIsInductive, EventInvIsInductive
<1>3. EventInv => WaitingRowsHaveEvents
  BY DEF EventInv
<1> QED
  BY <1>1, <1>2, <1>3, UploadTypeCorrect, UploadImplementsInternship, TypeCorrect, PTL
  DEF UploadSpec

-----------------------------------------------------------------------------
(* What the coordinators are promised.                                      *)

Document == [a \in AttachmentIds |-> attachments[a].uploadStatus]

Bytes == {a \in AttachmentIds : object[a] # NoGeneration}

Purging == {<<r.attachment, r.addition>> : r \in purgeQueue}

\* A step that leaves the attachments alone takes a turn in the review, if anything.
LEMMA OfferTurns ==
  ASSUME TypeOK, [Next]_vars, UNCHANGED attachments
  PROVE  \/ ReviewStage' = ReviewStage
         \/ /\ ReviewStage = "student" /\ ReviewStage' = "coordinator"
            /\ \E a \in AttachmentIds : IsFinalized(a)
         \/ ReviewStage = "coordinator" /\ ReviewStage' \in {"student", "decided"}
         \/ ReviewStage \in {"student", "coordinator"} /\ ReviewStage' = "withdrawn"
<1> DEFINE Goal ==
      \/ ReviewStage' = ReviewStage
      \/ /\ ReviewStage = "student" /\ ReviewStage' = "coordinator"
         /\ \E a \in AttachmentIds : IsFinalized(a)
      \/ ReviewStage = "coordinator" /\ ReviewStage' \in {"student", "decided"}
      \/ ReviewStage \in {"student", "coordinator"} /\ ReviewStage' = "withdrawn"
<1>1. ASSUME internship'.status = internship.status PROVE Goal
  BY <1>1 DEF ReviewStage
<1>2. ASSUME NEW u \in Users, NEW m \in IfMatches, OfferStep(u, m) PROVE Goal
  <2>1. ASSUME NEW start \in MaybeDates, NEW end \in MaybeDates,
               UpdateInternship(u, m, start, end)
        PROVE  Goal
    BY <1>1, <2>1 DEF UpdateInternship, SaveLogged, WriteParent, EventRotatesParent,
       WithOfferDetails, TypeOK, InternshipDocs
  <2>2. ASSUME NEW start \in MaybeDates, NEW end \in MaybeDates,
               SubmitInternshipOffer(u, m, start, end)
        PROVE  Goal
    BY <2>2 DEF SubmitInternshipOffer, SaveLogged, WriteParent, EventRotatesParent,
       Submittable, Submitted, ReviewStage, TypeOK, InternshipDocs
  <2>3. ASSUME NEW decision \in Decisions, NEW hasComment \in BOOLEAN,
               DecideInternshipOffer(u, m, decision, hasComment)
        PROVE  Goal
    BY <2>3 DEF DecideInternshipOffer, SaveLogged, WriteParent, EventRotatesParent,
       Decided, StatusOfDecision, Decisions, ReviewStage, TypeOK, InternshipDocs
  <2>4. CASE WithdrawInternship(u, m)
    BY <2>4 DEF WithdrawInternship, SaveLogged, WriteParent, EventRotatesParent,
       Withdrawable, ReviewStage, TypeOK, InternshipDocs
  <2> QED
    BY <1>2, <2>1, <2>2, <2>3, <2>4 DEF OfferStep
<1>3. CASE ~\E u \in Users, m \in IfMatches : OfferStep(u, m)
  <2>1. internship' = internship
    BY <1>3 DEF Next, UserStep, AddInternshipComment, CreateUploadIntent, RunIntentAgain, AddRow,
       ConfirmAttachment, FinalizeStorageAttachment, FinalizeAttachment, DeleteAttachment, SaveAttachment,
       SaveRemoval, SaveLogged, WriteParent, ReadParent, ReadAttachments, vars
  <2> QED
    BY <1>1, <2>1
<1> QED
  BY <1>2, <1>3

\* A step on an attachment leaves the offer alone, and moves one row.
LEMMA RowSteps ==
  ASSUME TypeOK, [Next]_vars
  PROVE  \/ UNCHANGED <<attachments, purgeQueue, added>>
         \/ \E a \in AttachmentIds :
              /\ UNCHANGED <<internship, purgeQueue>>
              /\ Document[a] \in {"absent", "deleted"}
              /\ Document[a] = "absent" \/ a \in unacked
              /\ Document' = [Document EXCEPT ![a] = "uploading"]
              /\ added' = [added EXCEPT ![a] = @ + 1]
         \/ \E a \in AttachmentIds :
              /\ UNCHANGED <<internship, purgeQueue, added>>
              /\ Document[a] = "uploading"
              /\ Document' = [Document EXCEPT ![a] = "finalized"]
         \/ \E a \in AttachmentIds :
              /\ UNCHANGED <<internship, added>>
              /\ internship.status \in DeletableStatuses
              /\ Document[a] \in {"uploading", "finalized"}
              /\ Document' = [Document EXCEPT ![a] = "deleted"]
              /\ Purging' = Purging \cup {<<a, added[a]>>}
<1> USE DEF TypeOK, Document, WriteParent
<1>1. ASSUME NEW a \in AttachmentIds, ~HasRow(a), AddRow(a)
      PROVE  /\ UNCHANGED <<internship, purgeQueue>>
             /\ Document[a] \in {"absent", "deleted"}
             /\ Document' = [Document EXCEPT ![a] = "uploading"]
             /\ added' = [added EXCEPT ![a] = @ + 1]
  BY <1>1 DEF AddRow, SaveAttachment, HasRow, UploadStatuses
<1>2. ASSUME NEW a \in AttachmentIds, NEW g \in Generations \cup {NoGeneration},
             FinalizeAttachment(a, g)
      PROVE  /\ UNCHANGED <<internship, purgeQueue, added>>
             /\ Document[a] = "uploading"
             /\ Document' = [Document EXCEPT ![a] = "finalized"]
  BY <1>2 DEF FinalizeAttachment, SaveAttachment, HasRow, IsFinalized, intents
<1>3. ASSUME NEW u \in Users, NEW a \in AttachmentIds, DeleteAttachment(u, a)
      PROVE  /\ UNCHANGED <<internship, added>>
             /\ internship.status \in DeletableStatuses
             /\ Document[a] \in {"uploading", "finalized"}
             /\ Document' = [Document EXCEPT ![a] = "deleted"]
             /\ Purging' = Purging \cup {<<a, added[a]>>}
  <2>1. PurgeRow(a, u).attachment = a /\ PurgeRow(a, u).addition = added[a]
    BY DEF PurgeRow
  <2>2. purgeQueue' = purgeQueue \cup {PurgeRow(a, u)}
    BY <1>3 DEF DeleteAttachment, SaveRemoval
  <2>3. Purging' = Purging \cup {<<a, added[a]>>}
    BY <2>1, <2>2 DEF Purging
  <2> QED
    BY <1>3, <2>3 DEF DeleteAttachment, SaveRemoval, HasRow, intents
<1>4. ASSUME NEW a \in AttachmentIds
      PROVE  attachments[a].uploadStatus = Document[a]
  OBVIOUS
<1> QED
  BY <1>1, <1>2, <1>3, <1>4, AttachmentSteps

LEMMA UploadStepsImplementDocumented ==
  ASSUME TypeOK, UploadTypeOK, ObjectInv, TrackedInv, [UploadNext]_uploadVars
  PROVE  [Documented!Next]_Documented!vars
<1> SUFFICES Documented!Next \/ UNCHANGED <<ReviewStage, Document, added, Bytes, Purging>>
  BY DEF Documented!vars, Document, Bytes, Purging
<1> USE DEF Document, Bytes, Purging
<1>1. ASSUME NEW a \in AttachmentIds, NEW g \in Generations, NEW answered \in BOOLEAN,
             Put(a, g, answered)
      PROVE  Documented!Store(a)
  <2>1. UNCHANGED <<ReviewStage, Document, added, Purging>>
    BY <1>1 DEF Put, vars, ReviewStage
  <2>2. Document[a] # "absent"
    BY <1>1 DEF Put, TrackedInv
  <2>3. Bytes' = Bytes \cup {a}
    BY <1>1, UndefinedIsNoValue DEF Put, UploadTypeOK
  <2> QED
    BY <2>1, <2>2, <2>3 DEF Documented!Store
<1>2. CASE UNCHANGED <<object, events>>
  <2>1. [Next]_vars /\ Bytes' = Bytes
    BY <1>2, UploadStepsAreInternshipSteps
  <2>2. CASE UNCHANGED <<attachments, purgeQueue, added>>
    <3>1. UNCHANGED <<Document, added, Purging>>
      BY <2>2
    <3>2. (\E a \in AttachmentIds : IsFinalized(a))
            => \E a \in AttachmentIds : Document[a] = "finalized"
      BY DEF IsFinalized
    <3> QED
      BY <2>1, <2>2, <3>1, <3>2, OfferTurns
      DEF Documented!Next, Documented!Submit, Documented!Decide, Documented!Withdraw
  <2>3. ASSUME UNCHANGED internship PROVE ReviewStage' = ReviewStage
    BY <2>3 DEF ReviewStage
  <2>4. ASSUME NEW a \in AttachmentIds, UNCHANGED <<internship, purgeQueue>>,
               Document[a] \in {"absent", "deleted"}, Document[a] = "absent" \/ a \in unacked,
               Document' = [Document EXCEPT ![a] = "uploading"],
               added' = [added EXCEPT ![a] = @ + 1]
        PROVE  Documented!Announce(a)
    <3>1. a \notin Bytes
      BY <2>4 DEF TrackedInv
    <3> QED
      BY <2>1, <2>3, <2>4, <3>1 DEF Documented!Announce
  <2>5. ASSUME NEW a \in AttachmentIds, UNCHANGED <<internship, purgeQueue, added>>,
               Document[a] = "uploading", Document' = [Document EXCEPT ![a] = "finalized"]
        PROVE  Documented!Finalize(a)
    <3>1. IsFinalized(a)' /\ ~IsFinalized(a)
      BY <2>5 DEF IsFinalized
    <3>2. a \in Bytes
      BY <3>1, FinalizedBy DEF ObjectInv
    <3> QED
      BY <2>1, <2>3, <2>5, <3>2 DEF Documented!Finalize
  <2>6. ASSUME NEW a \in AttachmentIds, UNCHANGED <<internship, added>>,
               internship.status \in DeletableStatuses,
               Document[a] \in {"uploading", "finalized"},
               Document' = [Document EXCEPT ![a] = "deleted"],
               Purging' = Purging \cup {<<a, added[a]>>}
        PROVE  Documented!Drop(a)
    <3>1. ReviewStage = "student"
      BY <2>6 DEF ReviewStage, DeletableStatuses
    <3> QED
      BY <2>1, <2>3, <2>6, <3>1 DEF Documented!Drop
  <2> QED
    BY <2>1, <2>2, <2>4, <2>5, <2>6, RowSteps DEF Documented!Next
<1> QED
  BY <1>1, <1>2, ObjectSteps DEF Documented!Next

\* Pages, backend, bucket and worker together keep what a coordinator relies on: no
\* document to open without its bytes, none dropped under review or after a decision,
\* and whatever is dropped handed to the purge.
THEOREM UploadImplementsDocumentedOffer == UploadSpec => ImplementsDocumentedOffer
<1>1. UploadInit => ObjectInv /\ TrackedInv
  BY DEF UploadInit, Init, ObjectInv, FinalizedHasObject, IsFinalized, TrackedInv
<1>2. /\ TypeOK /\ UploadTypeOK /\ ObjectInv /\ TrackedInv /\ [UploadNext]_uploadVars
      => ObjectInv' /\ TrackedInv'
  BY ObjectInvIsInductive, TrackedInvIsInductive
<1>3. UploadInit => Documented!Init
  BY DEF UploadInit, Init, Applied, ReviewStage, Documented!Init
<1>4. /\ TypeOK /\ UploadTypeOK /\ ObjectInv /\ TrackedInv /\ [UploadNext]_uploadVars
      => [Documented!Next]_Documented!vars
  BY UploadStepsImplementDocumented
<1> QED
  BY <1>1, <1>2, <1>3, <1>4, UploadTypeCorrect, UploadImplementsInternship, TypeCorrect, PTL
  DEF UploadSpec, ImplementsDocumentedOffer, Documented!Spec

\* The coordinator who reviews an offer, or looks up a decided one, has a finalized
\* document whose bytes are in the bucket and whose row the outbox does not undo: a purge
\* row of the same name can only be of an earlier writing of that row.
THEOREM ReviewersHaveDocuments == UploadSpec => []Documented!ReviewsHaveDocuments
<1>1. TypeOK /\ ReviewStage \in {"coordinator", "decided"} =>
        internship.status \in {"offer_pending_review", "offer_approved", "rejected"}
  BY DEF TypeOK, InternshipDocs, Statuses, ReviewStage
<1>2. ASSUME TypeOK, FinalizedHasObject, ReviewedOfferIsComplete, PurgeRowPerDeletion,
             ReviewStage \in {"coordinator", "decided"}
      PROVE  \E a \in AttachmentIds : /\ Document[a] = "finalized"
                                      /\ a \in Bytes
                                      /\ <<a, added[a]>> \notin Purging
  <2>1. PICK a \in AttachmentIds : IsFinalized(a)
    BY <1>1, <1>2 DEF ReviewedOfferIsComplete
  <2>2. Document[a] = "finalized" /\ a \in Bytes
    BY <1>2, <2>1 DEF Document, Bytes, FinalizedHasObject, IsFinalized
  <2>3. HasRow(a)
    BY <2>1 DEF HasRow, IsFinalized
  <2>4. \A r \in purgeQueue : ~(r.attachment = a /\ r.addition = added[a])
    BY <1>2, <2>3 DEF PurgeRowPerDeletion
  <2>5. <<a, added[a]>> \notin Purging
    BY <2>4 DEF Purging
  <2> QED
    BY <2>2, <2>5
<1>3. TypeOK /\ FinalizedHasObject /\ ReviewedOfferIsComplete /\ PurgeRowPerDeletion
        => Documented!ReviewsHaveDocuments
  BY <1>2 DEF Documented!ReviewsHaveDocuments, Document, Bytes, Purging
<1> QED
  BY <1>3, FinalizedObjectsExist, UploadImplementsInternship, TypeCorrect,
     ReviewedOffersAreComplete, OutboxMatchesDeletions, PTL

=============================================================================
