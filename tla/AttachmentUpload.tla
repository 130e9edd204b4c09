-------------------------- MODULE AttachmentUpload --------------------------
(* How an offer document gets from the student's browser into the bucket    *)
(* and onto the internship: the parties are the student's page (possibly    *)
(* open in several tabs), the backend, Cloud Storage and the storage-event  *)
(* worker, and nothing but single Firestore transactions is atomic.         *)
(*                                                                          *)
(* The backend's part is Internship, extended here with what surrounds it.  *)
(* The page is the one in the repository: it confirms an upload only after  *)
(* its PUT was answered with success, and it deletes rows it takes to be    *)
(* stuck, both on load and when its polling runs out of time.               *)
(* (Wrong... operators: see Internship.)                                    *)
EXTENDS Internship

CONSTANT Hyphenated   \* attachments whose sanitized file name has a '-' before its first '.'

ASSUME HyphenatedAreAttachments == Hyphenated \subseteq AttachmentIds

VARIABLES
  upload,   \* how far the page is with the upload of each attachment
  object,   \* the generation of the object at each attachment's path, if any
  events,   \* the OBJECT_FINALIZE events Cloud Storage has emitted
  acked,    \* those the worker has acknowledged at least once
  stuck     \* rows a page load found unfinalized and has yet to DELETE

pageVars == <<upload, stuck>>
storageVars == <<object, events>>
uploadVars == <<vars, upload, object, events, acked, stuck>>

-----------------------------------------------------------------------------
(* `<attachmentId>-<file name>`, split at the hyphens that come before the  *)
(* first '.': the id is one atom, a file name has one or more parts.        *)

Leaf(a) == <<a>> \o (IF a \in Hyphenated THEN <<"offer", "letter">> ELSE <<"offer">>)

\* /^(att_[A-Za-z0-9_-]+)-/ is greedy: it takes all but the last part.
ParsedAttachmentId(leaf) == SubSeq(leaf, 1, Len(leaf) - 1)

\* The rows a storage event for the path of a can mean.
Matches(a, b) == <<b>> = ParsedAttachmentId(Leaf(a)) /\ Leaf(b) = Leaf(a)

-----------------------------------------------------------------------------
(* The upload of one attachment, as the page drives it.                     *)

\* The intent's transaction commits; the URL is minted only when it has returned.
RequestIntent(a) ==
  /\ upload[a] = "none"
  /\ CreateUploadIntent(Owner, a)
  /\ upload' = [upload EXCEPT ![a] = "minting"]
  /\ UNCHANGED <<storageVars, acked, stuck>>

\* createUploadUrl succeeds and the response reaches the page.
MintUrl(a) ==
  /\ upload[a] = "minting"
  /\ a \notin unacked
  /\ upload' = [upload EXCEPT ![a] = "putting"]
  /\ UNCHANGED <<vars, storageVars, acked, stuck>>

\* Signing fails, a response is lost, the URL expires or the tab is closed:
\* the page forgets the upload and whatever has been written stays.
GiveUp(a) ==
  /\ upload[a] \in {"minting", "putting", "landed", "polling", "timedOut"}
  /\ upload' = [upload EXCEPT ![a] = "over"]
  /\ UNCHANGED <<vars, storageVars, acked, stuck>>

\* The object lands and Cloud Storage emits the event; the response may get
\* lost, which ends the page's flow.
Put(a, generation, answered) ==
  /\ upload[a] = "putting"
  /\ object' = [object EXCEPT ![a] = generation]
  /\ events' = events \cup {[attachment |-> a, generation |-> generation]}
  /\ upload' = [upload EXCEPT ![a] = IF answered THEN "landed" ELSE "over"]
  /\ UNCHANGED <<vars, acked, stuck>>

\* The page does not wait for the PUT (ImplementsDocumentedOffer).
WrongConfirmUpload(a, answered) ==
  /\ upload[a] \in {"putting", "landed"}
  /\ \/ ConfirmAttachment(Owner, a)
     \/ (~HasRow(a) \/ IsFinalized(a)) /\ UNCHANGED vars
  /\ upload' = [upload EXCEPT ![a] =
                  IF answered /\ HasRow(a) THEN "over" ELSE "polling"]
  /\ UNCHANGED <<storageVars, acked, stuck>>

\* The confirm request: it finalizes, or finds nothing to do, or 404s on a row
\* that is gone.  `answered`: a response that is lost sends the page polling too.
ConfirmUpload(a, answered) ==
  /\ upload[a] = "landed"
  /\ \/ ConfirmAttachment(Owner, a)
     \/ (~HasRow(a) \/ IsFinalized(a)) /\ UNCHANGED vars
  /\ upload' = [upload EXCEPT ![a] =
                  IF answered /\ HasRow(a) THEN "over" ELSE "polling"]
  /\ UNCHANGED <<storageVars, acked, stuck>>

\* The confirm request never reaches the backend.
ConfirmLost(a) ==
  /\ upload[a] = "landed"
  /\ upload' = [upload EXCEPT ![a] = "polling"]
  /\ UNCHANGED <<vars, storageVars, acked, stuck>>

\* One GET of pollAttachmentFinalized; at the deadline the last one decides.
Poll(a, deadline) ==
  /\ upload[a] = "polling"
  /\ \/ IsFinalized(a) /\ upload' = [upload EXCEPT ![a] = "over"]
     \/ ~IsFinalized(a) /\ deadline /\ upload' = [upload EXCEPT ![a] = "timedOut"]
  /\ UNCHANGED <<vars, storageVars, acked, stuck>>

\* A DELETE whose failure (404, 409) the page ignores.
DeleteOrIgnore(a) ==
  \/ DeleteAttachment(Owner, a)
  \/ (~HasRow(a) \/ internship.status \notin DeletableStatuses) /\ UNCHANGED vars

\* ... and then the row is deleted as stuck.
CleanUpTimedOut(a) ==
  /\ upload[a] = "timedOut"
  /\ DeleteOrIgnore(a)
  /\ upload' = [upload EXCEPT ![a] = "over"]
  /\ UNCHANGED <<storageVars, acked, stuck>>

-----------------------------------------------------------------------------
(* A page load, in any tab.                                                 *)

\* The GET: every row that is not finalized is taken to be left over.
LoadPage ==
  /\ stuck = {}
  /\ stuck' = {a \in Rows : ~IsFinalized(a)}
  /\ stuck' # {}
  /\ UNCHANGED <<vars, upload, storageVars, acked>>

\* The DELETEs that follow.
CleanUpStuck(a) ==
  /\ a \in stuck
  /\ DeleteOrIgnore(a)
  /\ stuck' = stuck \ {a}
  /\ UNCHANGED <<upload, storageVars, acked>>

-----------------------------------------------------------------------------
(* The worker.  Delivery is at least once and unordered: an event may be    *)
(* delivered again after it was acknowledged.  A transient failure throws,  *)
(* changes nothing and is redelivered; a logical failure is absorbed.       *)

Finalizable(b) == HasRow(b) /\ ~IsFinalized(b)

\* A transient failure is acknowledged (PlainNamesSettle).
WrongDeliverFinalizeEvent(e) ==
  /\ e \in events
  /\ \/ \E b \in AttachmentIds :
          Matches(e.attachment, b) /\ FinalizeStorageAttachment(b, e.generation)
     \/ UNCHANGED vars
  /\ acked' = acked \cup {e}
  /\ UNCHANGED <<pageVars, storageVars>>

DeliverFinalizeEvent(e) ==
  /\ e \in events
  /\ \/ \E b \in AttachmentIds :
          Matches(e.attachment, b) /\ FinalizeStorageAttachment(b, e.generation)
     \/ /\ ~\E b \in AttachmentIds : Matches(e.attachment, b) /\ Finalizable(b)
        /\ UNCHANGED vars
  /\ acked' = acked \cup {e}
  /\ UNCHANGED <<pageVars, storageVars>>

-----------------------------------------------------------------------------
UploadInit ==
  /\ Init
  /\ upload = [a \in AttachmentIds |-> "none"]
  /\ object = [a \in AttachmentIds |-> NoGeneration]
  /\ events = {}
  /\ acked = {}
  /\ stuck = {}

\* What the rest of the system does to the same internship meanwhile: other clients,
\* and the SDK, which runs an intent again whether or not its page still waits.
OtherStep ==
  /\ \/ \E u \in Users : \/ \E ifMatch \in IfMatches : OfferStep(u, ifMatch)
                         \/ AddInternshipComment(u)
                         \/ \E a \in AttachmentIds : DeleteAttachment(u, a)
     \/ \E a \in AttachmentIds : RunIntentAgain(a)
  /\ UNCHANGED <<pageVars, storageVars, acked>>

PageStep(a) ==
  \/ RequestIntent(a) \/ MintUrl(a) \/ GiveUp(a)
  \/ \E g \in Generations, answered \in BOOLEAN : Put(a, g, answered)
  \/ \E answered \in BOOLEAN : ConfirmUpload(a, answered)
  \/ ConfirmLost(a)
  \/ \E deadline \in BOOLEAN : Poll(a, deadline)
  \/ CleanUpTimedOut(a) \/ CleanUpStuck(a)

DeliverSomeEvent(a) == \E e \in events \ acked : e.attachment = a /\ DeliverFinalizeEvent(e)

UploadNext ==
  \/ OtherStep
  \/ LoadPage
  \/ \E a \in AttachmentIds : PageStep(a)
  \/ \E e \in events : DeliverFinalizeEvent(e)

UploadSpec == UploadInit /\ [][UploadNext]_uploadVars

\* Eventarc redelivers (retry: true) until the worker acknowledges; nothing else
\* is assumed to happen, the student and the page least of all.
FairUploadSpec ==
  UploadSpec /\ \A a \in AttachmentIds : WF_uploadVars(DeliverSomeEvent(a))

-----------------------------------------------------------------------------
(* Properties.                                                              *)

UploadPhases == {"none", "minting", "putting", "landed", "polling", "timedOut", "over"}

StorageEvents == [attachment : AttachmentIds, generation : Generations]

\* The surroundings of the aggregate keep their shape.
UploadTypeOK ==
  /\ upload \in [AttachmentIds -> UploadPhases]
  /\ object \in [AttachmentIds -> Generations \cup {NoGeneration}]
  /\ events \in SUBSET StorageEvents
  /\ acked \in SUBSET events
  /\ stuck \in SUBSET AttachmentIds

\* No attachment is finalized unless its bytes are in the bucket, although the
\* confirm endpoint asks storage nothing: the page only confirms after a PUT that
\* succeeded, and the worker only acts on an event.  So an offer that a coordinator
\* can decide has a document to open.
FinalizedHasObject ==
  \A a \in AttachmentIds : IsFinalized(a) => object[a] # NoGeneration

\* The bucket holds no object that neither a row nor the outbox names, however
\* late a PUT lands after its row was cleaned up.
NoUntrackedObject ==
  \A a \in AttachmentIds :
    object[a] # NoGeneration => HasRow(a) \/ \E r \in purgeQueue : r.attachment = a

\* Once an object has landed under a name without hyphens, its row settles: it is
\* finalized, or deleted, even if the page is closed at once.
PlainNamesSettle ==
  \A a \in AttachmentIds \ Hyphenated :
    object[a] # NoGeneration ~> attachments[a].uploadStatus \in {"finalized", "deleted"}

\* Why PlainNamesSettle holds: an object whose row is still waiting for it has a
\* storage event that the worker has never acknowledged, and that names the row.
\* Eventarc delivers it again until it is; no acknowledgement was wasted.
WaitingRowsHaveEvents ==
  \A a \in AttachmentIds \ Hyphenated :
    object[a] # NoGeneration /\ attachments[a].uploadStatus = "uploading" =>
      \E e \in events \ acked : e.attachment = a /\ Matches(e.attachment, a)

(* Two statements the repository makes and the code does not keep.          *)

\* WORKFLOW-API-SPEC 7.11: after the PUT succeeds, the worker flips the row to
\* `finalized` -- whatever the file is called.
EveryNameSettles ==
  \A a \in AttachmentIds :
    object[a] # NoGeneration ~> attachments[a].uploadStatus \in {"finalized", "deleted"}

\* The page's comment on its clean-up: it deletes attachments stuck in the
\* uploading state, hence never one that is finalized.
CleanUpSparesFinalized ==
  [][\A a \in AttachmentIds :
       (CleanUpStuck(a) \/ CleanUpTimedOut(a)) /\ IsFinalized(a) => HasRow(a)']_uploadVars

-----------------------------------------------------------------------------
(* What the coordinators are promised: DocumentedOffer.                     *)

ReviewStage ==
  CASE internship.status \in {"applied", "offer_changes_requested"} -> "student"
    [] internship.status = "offer_pending_review" -> "coordinator"
    [] internship.status \in {"offer_approved", "rejected"} -> "decided"
    [] internship.status = "withdrawn" -> "withdrawn"

Documented == INSTANCE DocumentedOffer WITH
                stage <- ReviewStage,
                document <- [a \in AttachmentIds |-> attachments[a].uploadStatus],
                announced <- added,
                bytes <- {a \in AttachmentIds : object[a] # NoGeneration},
                purging <- {<<r.attachment, r.addition>> : r \in purgeQueue}

\* The page, the backend, the bucket and the worker together are a DocumentedOffer,
\* although none of them sees the bytes, the row, the offer and the outbox at once.
ImplementsDocumentedOffer == Documented!Spec

=============================================================================
