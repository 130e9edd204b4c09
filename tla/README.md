# Internbot: a TLA+ verification of the internship workflow

Internbot runs the placement workflow of a university: students apply to published
opportunities, negotiate an offer with coordinators, upload the offer's documents and
ask for help in tickets. This directory holds TLA+ models of the backend's core, TLC
configurations that check them on small instances, and TLAPS proofs of the theorems
that hold for every instance. Paths below are relative to `src/`; `…/` stands for
`backend/src/`.

## 1. The system

| Component | State it keeps | Operations | What is hard about it |
|---|---|---|---|
| Internship aggregate (`…/domain/entities/internship.ts`, `…/application/commands`) | status, offer dates, decision and reviewer; attachments; activity timeline; `version` | edit, submit, decide, withdraw, comment, upload intent, confirm, finalize, delete attachment | commands of owner, coordinators and a storage worker interleave; clients act on what they read earlier |
| Internship repository (`…/infrastructure/firestore/firestore-internship-repository.ts`) | Firestore documents, uniqueness sentinel, purge outbox | insert, update by event kind | one event kind rotates the version, another does not; several documents per save |
| Internship reads (`…/application/read-models/internship.ts`) | none | GET = parent document, then attachments, no transaction | torn reads under one ETag |
| Attachment upload (student page, Cloud Storage, `…/workers/sync-attachment-metadata.ts`) | the page's progress, the bucket, pending storage events | intent, PUT, confirm, poll, clean up, storage event | four parties, nothing atomic across them; lost responses, duplicated and late events, several tabs |
| Contract review page (`frontend/src/components/coordinator/ReviewDecisionPanel.tsx`, `…/ContractReviewClient.tsx`) | what a coordinator's page shows and says | open, decide, refresh | shows one GET, decides with another; lost answers, refusals, other coordinators |
| Attachments and edits of opportunities (`…/domain/entities/opportunity.ts`, `update-opportunity.ts`, the worker's other branch) | fields, version, attachment rows | edit, transition, verify, intent, delete, storage event, GET in two queries | every save rotates the version; commands run again; a signed URL good for several PUTs |
| Purge queue (`…/infrastructure/firestore/attachment-purge-queue.ts`) | outbox rows | written with each deletion | written atomically; nothing in the repository drains it |
| Authorization (`…/infrastructure/authorization`) | none | role and ownership guards | |
| Opportunities, semesters, applying (`…/domain/entities/{opportunity,semester}.ts`, `create-internship.ts`) | opportunity and semester lifecycles, student's selected semester | create, verify, transition, select, apply | checks across four aggregates; duplicate-application race |
| Users, JIT bootstrap (`…/api/auth/platform-user-hydrator.ts`) | users, identity sentinels | hydrate, create | lookup outside the transaction that creates; first requests race; a lost acknowledgement makes the winner lose to itself |
| Unit of work, error translation (`…/infrastructure/firestore`) | none | run, retry, commit, translate | `create` conflicts surface at commit, outside the translation |
| Tickets (`…/domain/entities/ticket.ts`) | status, replies, activity | open, reply, transition | owner and coordinators at once; a status can come back; commands that run again after a lost acknowledgement |
| Notifications (`mark-all-notifications-read.ts`, `frontend/src/app/student/notifications/page.tsx`) | rows, what is unread; what the page shows as read | fan-out, mark, mark all, open and leave the page | batches of 200 while new rows arrive; an answer that reaches another visit of the page |
| HTTP edge, AI proxies, RAG service, frontend, infrastructure | none of the above | validation, wording, I/O | not modelled |

Interaction. A route builds a command; its handler runs in `UnitOfWork.execute`, one
serializable Firestore transaction in which a thrown error discards every write. Handlers
call aggregates, which validate, change themselves and collect domain events; the
repository's `save()` turns the events into writes. Outside that atomicity are the
clients (a GET, then later a command, with or without `If-Match`), the signed upload
(row first, URL after the transaction, PUT to the bucket, storage event to the worker,
confirmation by the page), and the page's clean-ups.

What makes each component correct: for the aggregate, that a reviewed offer is complete,
that each submission gets one answer, that the timeline, the document, the outbox and the
notifications agree, and that an ETag vouches for what was read; for the upload, that a
finalized row has its bytes, that no object is lost track of and that uploads settle; for
applying, at most one application per student and opportunity, in a semester that was
open; for the review page, that what it says of a decision is so; for an opportunity, that
a matching ETag vouches for fields and attachments and that each addition of an attachment
is there or queued for purging once; for users, one user per identity, to whom everything
asked meanwhile belongs; for tickets, that activity, status and notifications agree and
that a conditional transition is informed, even when commands run twice; for the inbox,
that mark-all leaves nothing unread that it saw, comes to an end, and that the page shows
nothing as read that is not.
`PROJECT.json` lists the hazards, each at its line.

## 2. The modules

- `OfferLifecycle`: the abstract specification. Student and coordinators take turns, each
  submission gets at most one answer, and an approval, a rejection or a withdrawal ends it.
- `Internship`: the aggregate with its repository, its readers and its outbox.
- `AttachmentUpload` (extends `Internship`): page, bucket and worker around it.
- `Placement`: profiles, semesters, opportunities and applications, one atomic step per
  command; an abstract specification of the transaction of `CreateInternship` too.
- `ApplyTransaction` (extends `Placement`): that transaction read by read, with commits,
  aborts and retries. `MCApplyTransaction` adds its symmetry for TLC.
- `ReviewPage` (extends `Internship`): the coordinators' contract review page around it.
- `Inbox`: notifications, mark-all in batches, and the student's page.
- `SupportTickets` (extends `Inbox`): tickets, replies, transitions, commands run again.
- `JitBootstrap`: requests at the edge, and the user created at the first of an identity.
- `SupportDesk` (composes `JitBootstrap` and `SupportTickets`): every request of a student
  is hydrated, then carries out one command as the user the hydrator named.
- `OpportunityDocuments`: one opportunity with attachments, bucket, worker and tabs.
- `Listing`, `DocumentedOffer`, `HelpDesk`: three more abstract specifications, of what
  applicants, coordinators and those who ask for help may rely on (below).
- `InternshipProofs`, `AttachmentUploadProofs`, `ReviewPageProofs`, `PlacementProofs`,
  `ApplyTransactionProofs`, `SupportTicketsProofs`, `SupportDeskProofs`,
  `OpportunityDocumentsProofs`: the theorems and their lemmas.

### The abstract specifications

Each says in a page what a component promises to somebody who sees none of its machinery,
and is implemented by the modules that have the machinery:

| Abstract | Promise | Left out | Implemented by |
|---|---|---|---|
| `OfferLifecycle` | turn-taking; one answer per submission | attachments, versions, timeline, notifications | `Internship`, and so `AttachmentUpload`, `ReviewPage` |
| `Listing` | an opportunity is on offer in one stretch of time; an application is filed within it, once per student, under an id of its own, and stays | semesters, profiles, drafts, verifications, sentinels, notifications | `Placement`, and so `ApplyTransaction`; `OpportunityDocuments` for its one opportunity |
| `DocumentedOffer` | a document can be opened only once its bytes are stored; an offer is reviewed only with one and keeps it; what is dropped is purged in the same step, and is announced again only while it has no bytes | tabs, signed URLs, events, polling, clean-ups, transactions run again | `AttachmentUpload` |
| `HelpDesk` | one account per verified identity; a ticket stays with the account that opened it; its status moves only as a ticket may | racing requests, sentinels, versions, activity, commands run twice, inboxes | `SupportDesk` |

The mappings are read off the documents: the stage of a listing is the status of the
opportunity (`draft` and `pending_verification` are "not yet", `rejected` and `archived` are
"over"); the account of an identity is its sentinel; a document of an offer is its row's
`uploadStatus`, its bytes the object in the bucket, its announcements the times its row was
written anew; of these the purge rows name the ones that were undone.

### Internship

| Variable | In the code |
|---|---|
| `internship` | the parent document: `status`, `startDate`, `endDate`, `coordinatorDecision`, `reviewedByUserId` |
| `version` | its `version`, the ETag |
| `attachments` | the `attachments` subcollection, as a function; an id without a row is `absent` until its intent is first carried out, and `deleted` once its row is gone |
| `activity` | the `activity` subcollection in creation order: type and author |
| `purgeQueue` | the rows of `attachmentPurgeQueue` for this internship, numbered; each with the writing of the attachment's row that it undoes (history) |
| `notified` | the `offer_decision` notifications created for the owner |
| `view` | what each followed reader's GET has returned so far |
| `unacked` | the upload intents carried out whose acknowledgement was lost, so that the SDK runs them again |
| `added` | how often the row of each attachment was written anew: history |

One action per command handler, with all of its checks as conjuncts and all the writes of
`save()` as primed variables: `UpdateInternship`, `SubmitInternshipOffer`,
`DecideInternshipOffer`, `WithdrawInternship`, `AddInternshipComment`, `CreateUploadIntent`,
`ConfirmAttachment`, `DeleteAttachment`, `FinalizeStorageAttachment` (the worker).
`RunIntentAgain` is an upload intent after a lost acknowledgement: its id is minted before
the transaction (`…/application/commands/create-internship-attachment-upload-intent.ts:63`),
so the second run leaves a row that is there alone, and writes one anew that another tab's
clean-up has deleted meanwhile, although the purge row of that deletion is queued and names
the same path. The other handlers that write a document mint its id inside; a second run of
theirs is what the same command sent again would be, and in the model any command may be
sent again. `ReadParent` and `ReadAttachments` are the two reads of a GET. Every command may
come with any `If-Match` value or none. `EventRotatesParent` and `LoggedEvents` are the two
switches of the code that decide what a save writes; the kind `withdrawn` is missing from
the second, as in the code. `Init` is what `createApplication` and `insertNew` leave behind.

Abstracted: `offerDate`, comment texts (only whether one was given), file names, time
stamps, ids of timeline entries. A handler that refuses changes nothing and is not a step.

### AttachmentUpload

`upload` is how far the page is with each attachment, `object` the generation in the bucket,
`events` the storage events emitted, `acked` those the worker has acknowledged at least
once, `stuck` the rows a page load has listed and still has to DELETE. `RequestIntent`,
`MintUrl`, `Put`, `ConfirmUpload`, `ConfirmLost`, `Poll`, `CleanUpTimedOut`, `LoadPage` and
`CleanUpStuck` follow `handleUpload`, `pollAttachmentFinalized` and the load effect of
`frontend/src/app/student/applications/view/_client.tsx`; `GiveUp` is every way in which a
page forgets an upload (a failed signature, a lost response, a closed tab). The URL is
minted only when the transaction has returned, so `MintUrl` waits until the intent is not in
`unacked`; the intent itself runs again whether or not a page waits (`OtherStep`). A
response is `answered` or lost. `DeliverFinalizeEvent` delivers any emitted event, again
too. `Leaf` and `ParsedAttachmentId` keep of an object name what the greedy pattern of
`attachment-storage-path.ts` can tell apart: the hyphens before the first dot.

Steps on the aggregate are the actions of `Internship`, unchanged; `UploadImplementsInternship`
proves that nothing else happens to it.

### Placement

| Variable | In the code |
|---|---|
| `coordinators` | the users provisioned as coordinators: what `listCoordinators` returns |
| `student` | of a student's document: whether the academic info is complete, and `semesterId` |
| `semester` | the status of each semester document, by natural key; `absent` if there is none |
| `opportunity` | each opportunity document: `status`, `semesterId`, `submittedByUserId` |
| `trail` | its `activity` subcollection: type, resulting status and actor |
| `internships`, `sentinel` | the internship documents as they were created; `internshipApplications` by its document id |
| `newApplication`, `verdicts`, `phaseNotice` | the notifications of new applications, of verifications and (the last one) of semester phases |

`UpdateUserProfile`, `SelectSemester`, `CreateSemester`, `TransitionSemester`,
`SubmitOpportunity` and `CreateOpportunity` (the two branches of one handler),
`TransitionOpportunity`, `VerifyOpportunity` and `CreateInternship` are the handlers of
those names. `TransitionSemester` has no guard on the two statuses, as
`isAllowedTransition` has none. `ProvisionCoordinator` stands for an administrator: no
handler makes a coordinator. Versions are left out: `If-Match` only refuses, and every
command may come without it. So are texts, dates and the attachments of an opportunity.

### ApplyTransaction

`request` holds, for each minted internship id, how far its POST /internships has come and
what the current attempt has read. `ReadExisting` to `ReadCoordinators` are the reads of
`CreateInternshipCommandHandler.handle` in their order, each with its refusal. `Commit`
takes effect if what the attempt read still holds and both `create`s find no document; it
is acknowledged (`CommitAcknowledged`) or its acknowledgement is lost and the handler runs
again with the same id (`CommitUnacknowledged`), as it does after any other `Abort`, at
most `MaxAttempts` times. What Firestore does here is external and modelled from how
`FirestoreUnitOfWork` relies on it. One thing is assumed weaker than Firestore gives it:
the query for an earlier application is not validated at the commit, because the code's
own comment (`…/application/commands/create-internship.ts:35`) leaves that to the sentinel.

### ReviewPage

`page` is, per coordinator, the step of the page (`closed`, `loading`, `idle`, `checking`,
`refreshing`), the offer and attachments it shows, the decision being submitted, and what
it says (`sent`, `already`, `failed`). `view` of `Internship` is the GET under way, in its
two reads. `Submit` is the click: it starts a second GET that is not shown; `AlreadyReviewed`
and `Refreshed` follow `handleAlreadyReviewed`; `DecisionSent`, `DecisionUnacknowledged`,
`DecisionRefused` (412) and `RequestFails` are the ways `decideInternship` ends. The POST and
its answer are one step: what the page says of a decision stays true whatever happens in
between, since decisions are never undone, and a refusal depends on the version alone, which
never comes back. All other clients, the coordinator's other tabs included, send the
commands of `Internship` in `OtherStep`.

### Inbox, SupportTickets, JitBootstrap, SupportDesk

| Variable | In the code |
|---|---|
| `rows`, `tellings` | the `notifications` collection; a count that keeps apart the rows of different transactions |
| `unread` | the rows of followed readers with `readAt: null` |
| `sweep` | the calls of PUT /notifications: idle, running (between two batches) or answered |
| `page` | the student's notifications page: rows listed, and of these the ones shown as read |
| `ticket`, `activity`, `replies` | the ticket documents and their two subcollections |
| `was` | the status at each version of a ticket: history, to say what an `If-Match` had seen |
| `minted`, `pending`, `ranTwice` | ids given to commands; commands carried out whose acknowledgement was lost; those that then took effect again |
| `verified`, `users`, `sentinel`, `request` | e-mail verification at the identity provider; `users`; `userIdentities`; the requests whose lookup found nothing |
| `openedBy` | the identity that opened each ticket: history |

`Run(c)` is one run of a ticket handler to its commit. `Send` runs it for the first time,
`RunAgain` after a lost acknowledgement, on the documents as they are by then, with the same
activity or reply id (minted outside the transaction, `…/application/commands/transition-ticket.ts`)
and new notification ids (minted inside); `RefuseAgain` is that second run refused.
`NextBatch` is one transaction of mark-all, `UnacknowledgedBatch` one that will run again.
In `JitBootstrap` a lookup that finds its user is taken together with the command, as users
and sentinels never change; one that finds nothing (`LookUpInVain`) is a step of its own,
and `InsertUser` then writes user and sentinel with `create`.

### OpportunityDocuments

`opp` is the opportunity (version, status, an edited content), `docs` its attachments,
`purges` its outbox rows, `url` the signed URLs, `stored` the generations in the bucket,
`events` the storage events, `tab` what tabs have read in two queries, `pending` as above,
`recorded` how often a row was added for each file (history). Every save rotates the
version (`Save`), the worker's too (`FinalizeAttachment`). A command names any version its
tab may have read, or none. The id of an intent is minted before its transaction: run again
after another coordinator's removal, it adds the row once more. That an event of a
hyphenated name finds no row is a matter of `AttachmentUpload`; here events need not be
delivered.

## 3. The runs

| Run | Bounds | What it shows |
|---|---|---|
| `timeline` | 2 coordinators, a stranger, 1 attachment whose intent writes its row at most twice, 2 dates, version ≤ 6, timeline ≤ 5; 205,930 states | all invariants of the aggregate; a purge row for each writing that was undone; rows only progress, or are brought back by an intent run again; refinement of `OfferLifecycle` |
| `review_page` | one page, 2 coordinators, the owner, 1 attachment, 1 date, version ≤ 5, timeline ≤ 5; each intent run once; 903,149 states | ETags vouch for offer and attachments; conditional decisions are informed; the page tells the truth |
| `upload` | 2 attachments, one with a hyphenated name, each row written at most twice, version ≤ 4, timeline ≤ 3; 431,694 states | refinement of `DocumentedOffer`: bytes behind finalized rows, no untracked object, documents kept under review; plain names settle, and until they do an event is owed to each waiting row |
| `placement` | 1 student, 2 coordinators, 2 semesters, 1 opportunity, 2 internship ids, every status | what was checked across four aggregates stays true; audit trail, verdicts and archival notices agree with the documents; refinement of `Listing` |
| `applying` | the same with 2 requests, 2 attempts each and two semester statuses | refinement of `Placement`, and so one application; truthful answers; every coordinator of the moment is told |
| `support` | 1 identity, 2 user ids, 2 first requests, 2 coordinators of whom 1 acts, 1 ticket, 1 sweep, batches of 1, 3 commands, 1 lost acknowledgement at a time; 346,900 states | one user per identity; refinement of `HelpDesk`, and so who owns the tickets; activity, status and notifications of a ticket agree; mark-all is thorough and ends |
| `opportunity_documents` | 2 attachments, 1 tab, 3 commands, 2 PUTs per URL, 1 lost acknowledgement at a time; 697,013 states | a matching ETag vouches for the whole; each addition purged once; no object nobody names |
| `decides_on_what_is_shown` | as `review_page`, with 2 attachments, no dates, version ≤ 6 | what a page lists may be gone when it decides (section 5) |
| `withdraw_logged`, `hyphenated_names`, `stuck_clean_up`, `left_enrollment` | as above, smaller | four more statements of the repository that the code does not keep (section 5) |

Why the bounds suffice. The version starts at 1 and the timeline with its `apply` entry; a
submission, a decision and an edit take one of each, a deletion a version only, a comment an
entry only, a withdrawal a version only. Six versions and five entries in `timeline` are
therefore two rounds of review (submit, changes requested, resubmit, decide again), where
the stale decision of the first is still in the document, with one deletion somewhere
between; or one round with two edits. A second round with an edit as well does not fit, and
comments are found in the shorter histories only. Two coordinators are needed for the
reviewer to differ between rounds, two dates for an order to be violated. One attachment,
written at most twice (`MaxAdditions`), is uploaded, deleted, brought back by its intent and
deleted once more; a deletion there always empties the offer. That a deletion may leave
another attachment is a matter of `upload`, with two of them: its four versions and three
entries are a submission, a decision and a deletion, or three deletions; a second round does
not fit. There the worker's step does not rotate the version and is never cut off by a
bound, so fairness of it means what it says. The bounds are `MaxVersion`, `MaxActivity` and
`MaxAdditions`; a run may reach all of them, hence `CHECK_DEADLOCK FALSE` where no reader is
there to keep moving.

In `placement`, two semesters are what a student can switch between and what an
opportunity can fail to match; two coordinators compete for a verification, and one of them
may be provisioned after an application was read. `applying` needs two requests of one
student for the duplicate race, and two attempts for a retry after a lost acknowledgement;
its semesters are open or not, which is all that the transaction asks of them. Neither run
has a bound in a guard: every sequence ends, or repeats, by itself.

In `review_page`, five versions and five timeline entries are exactly a submission, changes
requested, a resubmission and a second decision while a page is open, which separates one
review from the next; in place of the last there may be an edit, which separates an edit
from a review, or a deletion. One attachment suffices because deleting the last one forces a
version on anyone who resubmits. Intents are not run again there (`MaxAdditions` is 1; the
states would be too many): that is for `timeline` and `upload`, and the theorems about pages
do not depend on it. `decides_on_what_is_shown` needs one version more, for the deletion
between the rounds, and a second attachment to resubmit with; edits of dates, which the page
does not show, do not matter to it. The second coordinator decides without a page. In
`support`, two user ids and two requests make the race of the bootstrap and its lost
acknowledgement; three commands are a ticket opened, moved and replied to, or moved twice; a
batch of one makes every second unread row another pass of mark-all, as 200 do in the code;
the coordinator who does not act is there to be told. In `opportunity_documents`, three
commands are an intent, its removal and an edit, or an intent, a removal and the intent run
again; two PUTs make a generation that is overwritten. `CHECK_DEADLOCK FALSE` there and in
`support`: once the commands are used up everything comes to rest.

Fairness. `FairUploadSpec` has weak fairness of delivering an unacknowledged event to the
worker, per attachment. The function is deployed with `retry: true` (`…/index.ts`), so
Eventarc redelivers until it succeeds. `SupportDesk` has weak fairness of the next batch of
each call of mark-all: the handler's loop runs on by itself; that a batch is repeated for
ever because its acknowledgement is lost is excluded by nothing but the SDK's bounded
attempts, and not needed, since each repetition takes rows off. No page, student or
coordinator is assumed to do anything.

Each property has a mutant: a definition of the model replaced by a plausible mistake (the
operators named `Wrong…`), which the property notices.

## 4. What is proved

For every number of users, attachments, dates and generations and every bound, from the
assumptions `UsersAreDistinct`, `DatesAreDays`, `BoundsAreNaturals`, `UndefinedIsNoValue`
and `HyphenatedAreAttachments` (all of which say only that distinct things are distinct
and that sets are what they are called):

- `TypeCorrect`, and from it each of the following.
- `ReviewedOffersAreComplete`: inductive with the types, because the set of finalized
  attachments shrinks only in a deletable status and a reviewed status is entered only by a
  submission that checked.
- `ETagVouchesForOffer`, `ETagVouchesForAttachments`, `ConditionalDecisionsAreInformed`:
  the strengthening `CacheInv` adds that no cached version is newer than the document's;
  lemma `VersionGuardsOffer` says that each step either rotates the version, or leaves the
  offer alone and loses no row, or reads. A reader between its two reads may hold an old
  parent and newer attachments; if a row was lost in between, the version has moved on.
- `OutboxMatchesDeletions`: with `Numbering` (a row is absent until it is first written, and no
  purge row is of a writing that has not happened), so that a row brought back starts a writing
  of its own, which the purge row queued under its path does not undo. `AttachmentSteps` says
  which steps touch rows, outbox or numbering.
- `RowsProgress`: the same steps row by row; `OnlyIntentsAreUnacked` says that an acknowledged
  intent does not run again.
- `DecisionsAreNotified`: the timeline's decisions, filtered, are the notifications in their
  order; `Tells` states it of the two sequences by position, which a step preserves without
  an induction over the filter.
- `TimelineExplainsStatus`, `TimelineExplainsDecision`, `TimelineIsAttributable`: with
  `LogInv`; `StepsAreTimelineSteps` reduces every step to one of six effects on document
  and timeline, and `LastAfterAppend` says how the last entry of a kind moves when one is
  appended.
- `AggregateImplementsOffer`: the refinement mapping reads the stage off the status, counts
  submissions in the timeline and takes the notifications as the answers.
- `UploadTypeCorrect`, `UploadImplementsInternship`: every step of the larger system is a
  step of the aggregate or leaves it alone, so all of the above holds there too.
- `FinalizedObjectsExist`: with `ObjectInv` (a landed upload has its object, an event has
  its object) and `MatchesIsIdentity` (an event names at most its own attachment).
- `ObjectsAreTracked`: with `TrackedInv` (a page with a URL has had its row written, a row
  once written leaves a trace for good, and an intent that may run again has no URL out and no
  object yet) and `OutboxInvariant`.
- `WaitingRowsAreServed`, the safety half of `PlainNamesSettle`: an object whose row waits
  has an event the worker has not acknowledged. `EventInv` adds that the page of an upload
  with an event is past its PUT, so that no row starts to wait once its event is out;
  `WaitsSinceIntent` says that only an intent makes a row wait, run first or again (and then, by
  `TrackedInv`, before there is an object), `DeliveriesSettle` that a
  delivery leaves no row waiting that its event names;
  `PlainNamesMatch` that a name without hyphens leads to its own row. With weak fairness of
  the delivery this is the whole argument for the liveness property, except for the last
  step, which the prover cannot take.
- `UploadImplementsDocumentedOffer`: `OfferTurns` maps what leaves attachments alone to a
  turn of the review, `RowSteps` what touches a row to a move of one document. That
  `Finalize` needs the bytes is `FinalizedObjectsExist` in the state after the step; that
  `Submit` needs a document is the handler's own check; that `Drop` happens on the student's
  turn only is `DeletableStatuses`; that `Announce` of a dropped document finds no bytes is
  `TrackedInv`. `ReviewersHaveDocuments` joins `FinalizedObjectsExist`,
  `ReviewedOffersAreComplete` and `OutboxMatchesDeletions`: the document is finalized, stored,
  and its present announcement is not in the purge queue.

For every number of students, coordinators, semesters, opportunities, ids and attempts,
from `RolesAreDistinct`, `AbsentIsNoId`, `InputsAreAccepted` and `AttemptsAreCounted`:

- `PlacementTypeCorrect`, and from it the rest.
- `ApplicationsAreUnique`: `OneApplication` and `SentinelPerApplication` are inductive
  together (`Unique`).
- `SemestersInUse`: `OpenedStaysOpened` says that no step takes an opened semester back to
  draft, and `StudentSteps`, `OpportunitySteps` and `ApplicationSteps` that whatever enters
  a semester enters an opened one.
- `ApplicationsStayPlaced`, `TrailsExplain`, `SubmittersAreTold`: `OpportunitySteps` reduces
  every step to one of four effects on one opportunity (untouched, created, moved,
  verified), `TrailOfSaved` says what an appended entry does to the trail.
- `ArchivalsAreAnnounced`: needs `SemestersInUse`, since a semester could otherwise be
  created as archived under a student who already selected it.
- `PlacementImplementsListing`: `OneOpportunityAtATime` and `StagesOnlyAdvance` map every
  preparation to `Publish`, `End` or a stutter; `ApplicationRefines` needs `Unique`, since
  `File` asks for the first application of the student, and the handler asks the sentinel.
- `ApplicationsAreAnnounced`: with `NoticesAreOfApplications` (no notice speaks of an
  internship that is not there), so that the notices about a new application are those its
  own transaction wrote.
- `TransactionImplementsPlacement`: with `RequestOK` (past the read of the student, an
  attempt has a semester) and `Unique`: `CommitRefines` derives that there is no earlier
  application from the sentinel being new, since the query is not relied upon. Every other
  step of a request is a stutter. All theorems about `Placement` follow for the transaction;
  `TransactionsApplyOnce` states the one that matters most, `TransactionsAreAnnounced` that a
  coordinator provisioned between the read of the roster and the commit is told all the same
  (the attempt that read the old roster does not commit), and `TransactionImplementsListing`
  that the reads and commits implement `Listing`, two refinements up.
- `AnswersAreTrue`: with `IdsNameRequests` (an application's id is that of the request that
  created it), which is what makes an ALREADY_EXISTS after a lost acknowledgement truthful.

For review pages, from the assumptions of `Internship`:

- `ReviewsAreOfInternship`: every step of and around a page is a step of the aggregate or a
  stutter (`PageStepsAreSteps`; a POST is a decision with a bounded If-Match), so what is
  proved of `Internship` holds with pages too.
- `PagesAreTruthful`: `ReaderInv` says of one page what its stage implies (`SinceThen`: an
  offer that was under review when it was shown and is no longer has been decided or
  withdrawn since; `SentIsLogged`); `ReviewsGoOn` says that decisions and withdrawals are
  never undone, `OthersKeepReader` that nobody else's step disturbs a page.

- `PagesDecideInformed`, `ReviewsImplementOffer`: two theorems of the aggregate that matter to
  a page, carried over: what it decides is informed by its second GET, and each submission
  has one answer.

For the support desk, for any number of identities, users, requests, coordinators, tickets,
commands, sweeps and batch size, from `AbsenceIsNoOne`, `InboxesOfStudents`, `CoordinatorsAct`,
`SweepsAreSomebodys`, `BatchesAreNotEmpty` and `CoordinatorsReadElsewhere` (distinct things are
distinct; a student's inbox is that of a user id): `IInv`, the conjunction of

- `EdgeInv` (`OneUserPerIdentity`, and who is about to get a user has a verified address):
  `InsertKeepsUsers`, since both documents are written with `create`;
- `TicketInv`: the ticket properties need `IdsAreOfThePast` (what a first run writes is new)
  and `PendingAreDone` (a command that may run again is on record, and the version it names
  is gone, hence `MatchedRunOnce`). `RunKeepsDoings`, `RunKeepsExplained`, `RunKeepsTold` say
  what one run does, first or second;
- `InboxInv`: for `MarkAllIsThorough`, a short batch is all there was (`LastBatchIsTheRest`),
  and nothing owed becomes unread again; for `PageIsTruthful`, `SweepsAreOfPages`: while a call
  is under way its page lists nothing unread that the call does not owe;
- `TicketsKeepTheirOwner`, because a sentinel never changes once it is there.

`DeskImplementsHelpDesk` uses all of it: `InsertRefines` (the two `create`s register an
identity that had no account, under a user id nobody has), `OpeningRefines` (the user a
request found, or made, is the account of the identity), and `RunRefines` with
`AllowedMoves`: a transition, run for the first time or again, moves one ticket along
`Moves`, and a reply leaves tickets as they are.

For opportunities, from `InitialIsContent` and `BoundsAreNumbers`:

- `EditsInformed`: `Readings`, and `SaveLeavesTabsBehind`: every write to fields or attachments
  rotates the version, so a version read is the present one only if nothing was written since,
  between the two queries included.
- `PurgedExactlyOnce`: with `Numbering` (additions of a file are counted, none of the queue is
  of a future one). `TypeCorrect` includes that a kept generation was stored (`Generations`).
- `ObjectsAreTracked`: with `Signed` (a URL is out only for a file that was added, and an
  object needs a URL); what was added is there or in the queue by `Numbering`.
- `MatchedRunOnce`: with `Spent` (the version that a command waiting to run again had named is
  of the past), from `PendingHaveRun`, `RunsRotate` and `VersionsGrow`.
- `DocumentsImplementListing`: `StageMoves`, from `StageByStatus`. Every save but those of a
  transition and a verification keeps the status, and these two, run twice or not, never take
  an opportunity back.

Only model-checked: the liveness properties (`PlainNamesSettle`, `MarkAllReturns`, and
`EveryNameSettles`, which fails). Both of the first two rest on weak fairness, hence on
ENABLED, which the prover does not handle; `WaitingRowsAreServed` and `MarkAllIsThorough` are
the safety they rest on. Every invariant, every action property and every refinement that a
passing run checks is also a theorem.

The other way round, a few properties are theorems that no run lists, because a refinement
the run checks implies them on the instance: `FinalizedHasObject` and `NoUntrackedObject`
(`DocumentedOffer` finalizes only what is stored, stores only what was announced, and purges
what it drops), `OneApplication` (`Placement` files no second one), `TicketsHaveAnOwner`
(`HelpDesk`). `PlacementTypeOK` is a part of `ApplyTypeOK`. `MatchedCommandsRunOnce` and
`ImplementsListing` of `OpportunityDocuments`, `UploadTypeOK`, `EntriesAreAttributable` and
`ReviewsHaveDocuments` are stated by theorems alone.

## 5. Where code and documentation part

- The review panel reads the offer again at the click and sends the ETag of that unseen GET,
  so a coordinator can decide on a resubmission none of whose documents their page lists
  (`docs/WORKFLOW-API-SPEC.md:1180`, `:296`): run `decides_on_what_is_shown`.
- A withdrawal leaves no timeline entry (`docs/WORKFLOW-API-SPEC.md:2282`): run `withdraw_logged`.
- The worker never finalizes an upload whose file name has a hyphen before its first dot, the
  specification's own example included (`docs/WORKFLOW-API-SPEC.md:1981`, `:1989`): run
  `hyphenated_names`. For internships the page's confirmation usually hides it; opportunity
  attachments have no such endpoint.
- A semester can leave `enrollment_open` for `reporting`, and its students are not told that
  applications are closed (`…/application/commands/transition-semester.ts:24`): run
  `left_enrollment`.
- A page's clean-up of stuck uploads can delete a finalized attachment: run `stuck_clean_up`.

Noted while reading, with no run:

- Uploads are accepted in every status (`…/domain/entities/internship.ts:364`), although
  `docs/WORKFLOW-API-SPEC.md:2005` says that they are locked during a review; an attachment is
  visible to reads before it is finalized (`:1989` says only after); every semester transition
  is allowed (`…/domain/entities/semester.ts:202` against section 7.5).
- The loser of the bootstrap race gets a 500, and so does a winner whose acknowledgement was
  lost (`LoseRace`): ALREADY_EXISTS is raised at commit, outside `translateFirestoreErrors`. The
  hydrator's comment has both end at the same user, and the next request does.
- An unconditional transition of a ticket that runs again after a lost acknowledgement can take
  effect twice, with one activity row for both; a reply then notifies twice. The specification
  accepts duplicates (`docs/WORKFLOW-API-SPEC.md:308`). Ticket pages send no `If-Match`.
- A 412 between the review panel's GET and its POST is shown as "API integration unavailable",
  and after a lost answer the next click says "already been reviewed" of the coordinator's own
  decision; the 409 that `isAlreadyReviewedError` looks for cannot come with a version.
- The student's page polls every 2 s while an attachment is unfinalized, "so the submit button
  unlocks automatically" (`frontend/src/app/student/applications/view/_client.tsx:482`), but a
  poll that fails changes nothing the effect depends on, so none follows it until a reload.
- `markedReadCount` counts too little after a lost acknowledgement; a double click on "Mark
  read" takes two off the page's unread count.
- The edit dialogs of opportunities always send `semesterId`
  (`frontend/src/app/coordinator/opportunities/page.tsx:559`), which the route refuses
  (`…/api/routes/opportunities.ts:218`), so no such edit succeeds. That page also merges
  answers into the list it captured at the click: of two rows archived at once, the second
  answer shows the first row as it was.
- A PUT repeated within the life of its signed URL replaces a document without a trace in the
  database; a PUT after the row was removed leaves an object only its purge row names.
- An upload intent run again after a lost acknowledgement brings back a row that was removed
  meanwhile, by another coordinator or by another tab's clean-up. The purge row of that removal
  has no generation and names the path of the document that may then be uploaded: whoever
  drains the queue one day must not take it for an order to delete that document.

## 6. Not modelled

- HTTP validation, mapping and formatting; OpenAPI; rate limits: no state. The models take
  any input these let through.
- The AI proxies and the RAG service: stateless calls to external models.
- The other pages of the frontend, infrastructure, seed and mock data. These pages load once
  and send single commands; the models take such commands from any client at any time.
  Together they are most of the repository's lines.
- Lists, filters and paging of reads; e-mail delivery of notifications, which no code does;
  edits of semester names and dates, which no command depends on; the student number parsed
  from the e-mail address.
- `delete()` of the repositories has no caller, and nothing drains the purge queue.
- Firestore's own limits on a transaction, which a semester transition with many students
  could meet.
