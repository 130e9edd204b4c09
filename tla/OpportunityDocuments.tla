-------------------------- MODULE OpportunityDocuments --------------------------
(* One opportunity, its position-description attachments, the bucket and    *)
(* the storage worker, under coordinators' tabs that read it in two queries *)
(* and write it with or without If-Match.                                   *)
(*                                                                          *)
(* Every save rotates the version, the worker's and the upload intent's     *)
(* too.  A command is one Firestore transaction, so one step; when its      *)
(* acknowledgement is lost the SDK runs it once more on the documents as     *)
(* they are by then.  The attachment id of an intent is minted before the   *)
(* transaction, the id of a purge row inside it.                            *)
EXTENDS Naturals, FiniteSets

CONSTANTS
  Files,        \* attachment ids: never minted twice
  Tabs,         \* coordinators' tabs
  Contents,     \* what the edited fields can hold
  Initial,      \* what they hold when the opportunity is created
  MaxCommands,  \* bound: the commands that are sent
  MaxPuts,      \* bound: the PUTs through one signed URL
  MaxPending    \* bound: the commands with a lost acknowledgement at a time

ASSUME InitialIsContent == Initial \in Contents

ASSUME BoundsAreNumbers == MaxCommands \in Nat /\ MaxPuts \in Nat /\ MaxPending \in Nat

VARIABLES
  opp,       \* opportunities/{id}
  docs,      \* its attachments subcollection
  purges,    \* attachmentPurgeQueue
  url,       \* the signed PUT URL of each attachment
  stored,    \* how many PUTs each object has seen: its generation
  events,    \* the OBJECT_FINALIZE events: delivered any number of times, in any order
  tab,       \* what the tabs have read
  pending,   \* the commands carried out whose acknowledgement was lost
  sent,      \* how many commands were sent
  recorded   \* how often an attachment was added: history

vars == <<opp, docs, purges, url, stored, events, tab, pending, sent, recorded>>

Statuses == {"draft", "pending_verification", "published", "rejected", "archived"}

Opportunity(version, status, content) ==
  [version |-> version, status |-> status, content |-> content]

Attachment(state, gen) == [state |-> state, gen |-> gen]

NoAttachment == Attachment("none", 0)

Attached(f) == docs[f] # NoAttachment

-----------------------------------------------------------------------------
(* GET /opportunities/{id}: the parent, then the attachments, outside any   *)
(* transaction.                                                             *)

Tab(phase, parent, attachments) ==
  [phase |-> phase, parent |-> parent, attachments |-> attachments]

ReadParent(k) ==
  /\ tab[k].phase # "listing"
  /\ tab' = [tab EXCEPT ![k] = Tab("listing", opp, tab[k].attachments)]
  /\ UNCHANGED <<opp, docs, purges, url, stored, events, pending, sent, recorded>>

ListAttachments(k) ==
  /\ tab[k].phase = "listing"
  /\ tab' = [tab EXCEPT ![k] = Tab("loaded", tab[k].parent, docs)]
  /\ UNCHANGED <<opp, docs, purges, url, stored, events, pending, sent, recorded>>

-----------------------------------------------------------------------------
(* Commands, as what one run of the handler does.  `ifMatch` is the version *)
(* the If-Match header names, 0 without.                                    *)

Command(kind, arg, ifMatch) == [kind |-> kind, arg |-> arg, ifMatch |-> ifMatch]

Matches(ifMatch) == ifMatch = 0 \/ ifMatch = opp.version

Save(status, content) == opp' = Opportunity(opp.version + 1, status, content)

AttachmentsStay == UNCHANGED <<docs, purges, recorded>>

\* PATCH: the fields are overwritten, whatever the status.
UpdateOpportunity(c) ==
  /\ c.kind = "update"
  /\ Matches(c.ifMatch)
  /\ Save(opp.status, c.arg)
  /\ AttachmentsStay

IsAllowedTransition(from, to) ==
  \/ from = "draft" /\ to \in {"published", "archived"}
  \/ from = "published" /\ to = "archived"

TransitionOpportunity(c) ==
  /\ c.kind = "transition"
  /\ Matches(c.ifMatch)
  /\ IsAllowedTransition(opp.status, c.arg)
  /\ Save(c.arg, opp.content)
  /\ AttachmentsStay

VerifyOpportunity(c) ==
  /\ c.kind = "verify"
  /\ Matches(c.ifMatch)
  /\ opp.status = "pending_verification"
  /\ c.arg \in {"published", "rejected"}
  /\ Save(c.arg, opp.content)
  /\ AttachmentsStay

\* recordAttachmentUploadIntent: an id that is there already is left alone.
RecordIntent(c) ==
  /\ c.kind = "intent"
  /\ ~Attached(c.arg)
  /\ Save(opp.status, opp.content)
  /\ docs' = [docs EXCEPT ![c.arg] = Attachment("uploading", 0)]
  /\ recorded' = [recorded EXCEPT ![c.arg] = @ + 1]
  /\ UNCHANGED purges

\* A row of the purge queue.  Its id is the version it was written with; `of` tells
\* which addition of the attachment it undoes: history.
Purge(f) == [id |-> opp.version + 1, file |-> f, gen |-> docs[f].gen, of |-> recorded[f]]

\* An attachment that is gone is queued again (PurgedOnce).
WrongMayRemove(f) == recorded[f] > 0

\* removeAttachment: NotFound if it is not there.
MayRemove(f) == Attached(f)

RemoveAttachment(c) ==
  /\ c.kind = "remove"
  /\ MayRemove(c.arg)
  /\ Save(opp.status, opp.content)
  /\ docs' = [docs EXCEPT ![c.arg] = NoAttachment]
  /\ purges' = purges \cup {Purge(c.arg)}
  /\ UNCHANGED recorded

\* The handler, to the commit.
Run(c) ==
  \/ UpdateOpportunity(c)
  \/ TransitionOpportunity(c)
  \/ VerifyOpportunity(c)
  \/ RecordIntent(c)
  \/ RemoveAttachment(c)

MayRun(c) ==
  \/ c.kind = "update" /\ Matches(c.ifMatch)
  \/ c.kind = "transition" /\ Matches(c.ifMatch) /\ IsAllowedTransition(opp.status, c.arg)
  \/ c.kind = "verify" /\ Matches(c.ifMatch) /\ opp.status = "pending_verification"
  \/ c.kind = "intent" /\ ~Attached(c.arg)
  \/ c.kind = "remove" /\ MayRemove(c.arg)

-----------------------------------------------------------------------------
(* Commands sent, and commands run again.                                   *)

Send(c) ==
  /\ sent < MaxCommands
  /\ Run(c)
  /\ sent' = sent + 1
  /\ \/ UNCHANGED pending
     \/ Cardinality(pending) < MaxPending /\ pending' = pending \cup {c}
  /\ UNCHANGED <<url, stored, events, tab>>

\* The coordinators' page sends no If-Match; other clients of the API may.
Headers == {0} \cup {tab[k].parent.version : k \in {j \in Tabs : tab[j].phase = "loaded"}}

SendUpdate == \E content \in Contents, e \in Headers : Send(Command("update", content, e))

SendTransition ==
  \E to \in {"published", "archived"}, e \in Headers : Send(Command("transition", to, e))

SendVerification ==
  \E to \in {"published", "rejected"}, e \in Headers : Send(Command("verify", to, e))

SendIntent == \E f \in Files : recorded[f] = 0 /\ Send(Command("intent", f, 0))

SendRemoval == \E f \in Files : Send(Command("remove", f, 0))

RunAgain(c) ==
  /\ Run(c)
  /\ pending' = pending \ {c}
  /\ UNCHANGED <<url, stored, events, tab, sent>>

\* 404, 409 or 412 for a command that was carried out; an intent is answered.
RefuseAgain(c) ==
  /\ ~MayRun(c)
  /\ pending' = pending \ {c}
  /\ UNCHANGED <<opp, docs, purges, url, stored, events, tab, sent, recorded>>

-----------------------------------------------------------------------------
(* The bucket and the worker.                                               *)

\* The URL is signed before the intent is recorded (StoredIsTracked).
WrongSignUrl(f) ==
  /\ url[f] = "none"
  /\ url' = [url EXCEPT ![f] = "live"]
  /\ UNCHANGED <<opp, docs, purges, stored, events, tab, pending, sent, recorded>>

\* After the transaction of the intent; when signing fails, the row stays behind.
SignUrl(f) ==
  /\ recorded[f] > 0 /\ url[f] = "none"
  /\ \A c \in pending : c # Command("intent", f, 0)
  /\ url' = [url EXCEPT ![f] = "live"]
  /\ UNCHANGED <<opp, docs, purges, stored, events, tab, pending, sent, recorded>>

ExpireUrl(f) ==
  /\ url[f] = "live"
  /\ url' = [url EXCEPT ![f] = "expired"]
  /\ UNCHANGED <<opp, docs, purges, stored, events, tab, pending, sent, recorded>>

\* The URL is good for any number of PUTs; each makes a generation and an event.
Put(f) ==
  /\ url[f] = "live" /\ stored[f] < MaxPuts
  /\ stored' = [stored EXCEPT ![f] = @ + 1]
  /\ events' = events \cup {[file |-> f, gen |-> stored[f] + 1]}
  /\ UNCHANGED <<opp, docs, purges, url, tab, pending, sent, recorded>>

\* The generation is not kept (DocumentsTypeOK).
WrongFinalized(gen) == Attachment("finalized", 0)

\* withFinalized: the generation of the first event that arrives.
Finalized(gen) == Attachment("finalized", gen)

\* The worker's save leaves the version alone, as it does for internships (EditsAreInformed).
WrongFinalizeAttachment(e) ==
  /\ docs[e.file].state = "uploading"
  /\ docs' = [docs EXCEPT ![e.file] = Finalized(e.gen)]
  /\ UNCHANGED opp

\* finalizeAttachment: a row that is finalized, or gone, is left alone.
FinalizeAttachment(e) ==
  /\ docs[e.file].state = "uploading"
  /\ docs' = [docs EXCEPT ![e.file] = Finalized(e.gen)]
  /\ Save(opp.status, opp.content)

Deliver(e) ==
  /\ FinalizeAttachment(e)
  /\ UNCHANGED <<purges, url, stored, events, tab, pending, sent, recorded>>

-----------------------------------------------------------------------------
Init ==
  /\ opp \in {Opportunity(1, status, Initial) : status \in {"draft", "pending_verification"}}
  /\ docs = [f \in Files |-> NoAttachment]
  /\ purges = {}
  /\ url = [f \in Files |-> "none"]
  /\ stored = [f \in Files |-> 0]
  /\ events = {}
  /\ tab = [k \in Tabs |-> Tab("closed", opp, docs)]
  /\ pending = {}
  /\ sent = 0
  /\ recorded = [f \in Files |-> 0]

Next ==
  \/ \E k \in Tabs : ReadParent(k) \/ ListAttachments(k)
  \/ SendUpdate \/ SendTransition \/ SendVerification \/ SendIntent \/ SendRemoval
  \/ \E c \in pending : RunAgain(c) \/ RefuseAgain(c)
  \/ \E f \in Files : SignUrl(f) \/ ExpireUrl(f) \/ Put(f)
  \/ \E e \in events : Deliver(e)

Spec == Init /\ [][Next]_vars

-----------------------------------------------------------------------------
(* Properties.                                                              *)

\* Every document keeps its shape, and a finalized attachment names a generation that
\* was stored.
DocumentsTypeOK ==
  /\ opp \in [version : Nat \ {0}, status : Statuses, content : Contents]
  /\ \A f \in Files :
       /\ url[f] \in {"none", "live", "expired"}
       /\ stored[f] \in Nat
       /\ \/ docs[f] \in {NoAttachment, Attachment("uploading", 0)}
          \/ docs[f].state = "finalized" /\ docs[f].gen \in 1..stored[f]
  /\ \A p \in purges : p.gen \in 0..stored[p.file]

\* A command whose If-Match still holds is made in full view: fields, status and
\* attachments are those its tab shows, although the tab read them in two queries and
\* the worker, uploads, deletions and other coordinators write in between.
EditsAreInformed ==
  \A k \in Tabs :
    tab[k].phase = "loaded" /\ Matches(tab[k].parent.version) =>
      tab[k].parent = opp /\ tab[k].attachments = docs

\* Every addition of an attachment is either there or undone by exactly one row of the
\* purge queue: neither a removal run again after a lost acknowledgement nor an intent
\* run again after the removal, nor late or repeated events, upset the account.
PurgedOnce ==
  /\ \A f \in Files : \A n \in 1..recorded[f] :
       \/ Attached(f) /\ n = recorded[f]
       \/ \E p \in purges : p.file = f /\ p.of = n
  /\ \A p, q \in purges : p.file = q.file /\ p.of = q.of => p = q
  /\ \A p \in purges : ~(Attached(p.file) /\ p.of = recorded[p.file])

\* Whatever the bucket holds is named by a row of the opportunity or of the purge queue,
\* though its URL outlives the row and is good for PUTs after the removal.
StoredIsTracked ==
  \A f \in Files : stored[f] > 0 => Attached(f) \/ \E p \in purges : p.file = f

\* A command that was sent with If-Match took effect once and for all: whatever commits
\* between its run and the SDK's retry, the version it names has gone for good.
MatchedCommandsRunOnce == \A c \in pending : c.ifMatch # 0 => ~Matches(c.ifMatch)

-----------------------------------------------------------------------------
(* What those who apply are promised, as in Placement: Listing.             *)

Stage ==
  CASE opp.status \in {"draft", "pending_verification"} -> "not yet"
    [] opp.status = "published" -> "on offer"
    [] opp.status \in {"rejected", "archived"} -> "over"

Offered == INSTANCE Listing WITH
             Students <- {}, Opportunities <- {"this"}, InternshipIds <- {},
             stage <- [o \in {"this"} |-> Stage], filed <- {}

\* Also when transitions and verifications run again, and edits, uploads and removals
\* come at any time, the opportunity is on offer in one stretch of time.
ImplementsListing == Offered!Spec

=============================================================================
