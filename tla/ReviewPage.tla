------------------------------- MODULE ReviewPage -------------------------------
(* The coordinators' contract review page, over the aggregate Internship.   *)
(*                                                                          *)
(* The page shows what a GET returned when it was opened.  A click on a     *)
(* decision makes a second GET, which is not shown: it stops if the offer   *)
(* is no longer under review, and otherwise posts the decision with the     *)
(* ETag of that second GET.  Each coordinator has one such page; what other *)
(* clients send, other tabs of the same coordinator included, are the       *)
(* commands of Internship.                                                  *)
EXTENDS Internship

VARIABLE page  \* what the review page of each coordinator shows and waits for

pageVars == <<vars, page>>

-----------------------------------------------------------------------------
(* `asked` is how many decisions there had been when what is shown was      *)
(* read: history, for the properties.                                       *)
Page(step, offer, listed, asked, said) ==
  [step |-> step, offer |-> offer, listed |-> listed, asked |-> asked, said |-> said,
   submitting |-> NoDecision]

Closed == Page("closed", Applied, {}, 0, "nothing")

\* canReview
CanReview(u) == page[u].offer.status = "offer_pending_review"

Fresh(u) == view[u].internship

Turn(u, p) == page' = [page EXCEPT ![u] = p]

\* getInternship, to its first read.
Get(u, p) == ReadParent(u) /\ Turn(u, p)

\* The answer of the GET: setBackendStatus, setContract, setAttachments.
Show(u, said) ==
  /\ view[u].phase = "ready"
  /\ Turn(u, Page("idle", Fresh(u), view[u].seen, page[u].asked, said))
  /\ UNCHANGED vars

\* The page goes on without an answer.
GoOn(u, said) ==
  /\ Turn(u, [page[u] EXCEPT !.step = "idle", !.said = said, !.submitting = NoDecision])
  /\ UNCHANGED vars

-----------------------------------------------------------------------------
(* Opening the page.                                                        *)

Open(u) ==
  /\ page[u].step = "closed"
  /\ Get(u, Page("loading", Applied, {}, Len(notified), "nothing"))

Loaded(u) == page[u].step = "loading" /\ Show(u, "nothing")

\* Left, or "Unable to load this contract review".  A submission under way goes on
\* like one of another tab, with the page not there to say so.
Close(u) ==
  /\ page[u].step # "closed"
  /\ Turn(u, Closed)
  /\ UNCHANGED vars

-----------------------------------------------------------------------------
(* submit(decision)                                                         *)

Submit(u, decision, hasComment) ==
  /\ page[u].step = "idle"
  /\ CanReview(u)
  /\ CommentIsEnough(decision, hasComment)
  /\ Get(u, [page[u] EXCEPT !.step = "checking", !.said = "nothing",
                            !.submitting = decision])

\* handleAlreadyReviewed: said first, then onAlreadyReviewed reads the contract again.
AlreadyReviewed(u) ==
  /\ page[u].step = "checking" /\ view[u].phase = "ready"
  /\ Fresh(u).status # "offer_pending_review"
  /\ Get(u, [page[u] EXCEPT !.step = "refreshing", !.said = "already"])

Refreshed(u) == page[u].step = "refreshing" /\ Show(u, "already")

\* The refresh fails: only the message tells.
RefreshFails(u) == page[u].step = "refreshing" /\ GoOn(u, "already")

MayPost(u) ==
  /\ page[u].step = "checking" /\ view[u].phase = "ready"
  /\ Fresh(u).status = "offer_pending_review"

\* The comment is the one the click was checked with.
Post(u) ==
  \E hasComment \in BOOLEAN :
    DecideInternshipOffer(u, view[u].version, page[u].submitting, hasComment)

\* handleDecisionSuccess: the status shown is the one the decision leads to; the
\* answer is not read.
DecisionSent(u) ==
  /\ MayPost(u)
  /\ Post(u)
  /\ Turn(u, [page[u] EXCEPT !.step = "idle", !.said = "sent",
                             !.submitting = NoDecision,
                             !.offer.status = StatusOfDecision[page[u].submitting]])

\* The decision is made and its answer lost.
DecisionUnacknowledged(u) ==
  /\ MayPost(u)
  /\ Post(u)
  /\ Turn(u, [page[u] EXCEPT !.step = "idle", !.said = "failed", !.submitting = NoDecision])

\* isAlreadyReviewedError takes a 412 for a review (PageTellsTheTruth).
WrongDecisionRefused(u) ==
  /\ MayPost(u)
  /\ ~IfMatchHolds(view[u].version)
  /\ GoOn(u, "already")

\* 412.  The version of the second GET is gone; the 409 of isAlreadyReviewedError
\* cannot be the answer, for with that version the offer is under review.
DecisionRefused(u) ==
  /\ MayPost(u)
  /\ ~IfMatchHolds(view[u].version)
  /\ GoOn(u, "failed")

\* The second GET, or the POST before it has any effect, fails.
RequestFails(u) == page[u].step = "checking" /\ GoOn(u, "failed")

-----------------------------------------------------------------------------
PageInit == Init /\ page = [u \in Readers |-> Closed]

PageStep(u) ==
  \/ Open(u)
  \/ Loaded(u)
  \/ Close(u)
  \/ \E decision \in Decisions, hasComment \in BOOLEAN : Submit(u, decision, hasComment)
  \/ AlreadyReviewed(u)
  \/ Refreshed(u)
  \/ RefreshFails(u)
  \/ DecisionSent(u)
  \/ DecisionUnacknowledged(u)
  \/ DecisionRefused(u)
  \/ RequestFails(u)
  \/ page[u].step \in {"loading", "checking", "refreshing"} /\ ReadAttachments(u) /\ UNCHANGED page

OtherStep ==
  \/ \E u \in Users : UserStep(u)
  \/ \E a \in AttachmentIds : RunIntentAgain(a)
  \/ \E a \in AttachmentIds, g \in Generations \cup {NoGeneration} :
        FinalizeStorageAttachment(a, g)

PageNext ==
  \/ \E u \in Readers : PageStep(u)
  \/ OtherStep /\ UNCHANGED page

PageSpec == PageInit /\ [][PageNext]_pageVars

-----------------------------------------------------------------------------
(* Properties.                                                              *)

\* What the page says of the review is so.  Once it says that the decision was sent,
\* the timeline has that decision by that coordinator, made since the offer shown was
\* read; when it says that the item has already been reviewed, somebody has decided
\* since then, or the student has withdrawn.  An edit of the offer, which refuses the
\* decision just as well, is never taken for a review.
PageTellsTheTruth ==
  \A u \in Readers :
    /\ page[u].said = "sent" =>
         /\ Len(notified) > page[u].asked
         /\ \E i \in DOMAIN activity :
              /\ activity[i].type \in DecisionTypes
              /\ StatusLogged[activity[i].type] = page[u].offer.status
              /\ activity[i].author = u
    /\ page[u].said = "already" =>
         internship.status = "withdrawn" \/ Len(notified) > page[u].asked

\* WORKFLOW-API-SPEC 7.7: the ETag is there to detect lost updates.  So a coordinator
\* whose decision is accepted has decided on documents the page lists: at least one of
\* those it shows is still attached.
DecidesOnWhatIsShown ==
  [][\A u \in Readers :
       page[u].said # "sent" /\ page'[u].said = "sent" /\ page[u].listed # {} =>
         page[u].listed \cap Rows # {}]_pageVars

=============================================================================
