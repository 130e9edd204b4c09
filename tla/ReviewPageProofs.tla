---------------------------- MODULE ReviewPageProofs ----------------------------
(* Theorems about the review page: it is one more client of the aggregate,  *)
(* so what is proved of Internship holds of it, and what it says of a       *)
(* review is so, for any number of coordinators with such a page.           *)
EXTENDS ReviewPage, InternshipProofs

Steps == {"closed", "loading", "idle", "checking", "refreshing"}

Messages == {"nothing", "sent", "already", "failed"}

PageRecords ==
  [step : Steps, offer : InternshipDocs, listed : SUBSET AttachmentIds, asked : Nat,
   said : Messages, submitting : Decisions \cup {NoDecision}]

\* Every page keeps its shape, and submits a decision while it checks.
PageTypeOK ==
  /\ page \in [Readers -> PageRecords]
  /\ \A u \in Readers : page[u].step = "checking" => page[u].submitting \in Decisions

\* The offer a new application starts with is an internship document.
LEMMA AppliedIsADoc == Applied \in InternshipDocs
BY DEF Applied, InternshipDocs, Statuses, MaybeDates

\* A page built from typed parts is a page record, and its fields are those parts.
LEMMA PageIsARecord ==
  ASSUME NEW step \in Steps, NEW offer \in InternshipDocs, NEW listed \in SUBSET AttachmentIds,
         NEW asked \in Nat, NEW said \in Messages
  PROVE  /\ Page(step, offer, listed, asked, said) \in PageRecords
         /\ Page(step, offer, listed, asked, said).step = step
         /\ Page(step, offer, listed, asked, said).offer = offer
         /\ Page(step, offer, listed, asked, said).asked = asked
         /\ Page(step, offer, listed, asked, said).said = said
BY DEF Page, PageRecords

\* A step changes the page of the one who takes it.
LEMMA TurnChangesOne ==
  ASSUME PageTypeOK, NEW u \in Readers, NEW p, Turn(u, p)
  PROVE  /\ page'[u] = p
         /\ \A w \in Readers \ {u} : page'[w] = page[w]
         /\ p \in PageRecords => page' \in [Readers -> PageRecords]
BY DEF Turn, PageTypeOK

\* What the posts of the page are: decisions with If-Match.
LEMMA PostIsADecision ==
  ASSUME TypeOK, PageTypeOK, NEW u \in Readers, MayPost(u), Post(u)
  PROVE  /\ page[u].submitting \in Decisions
         /\ u \in Users
         /\ \E m \in IfMatches, hasComment \in BOOLEAN :
              DecideInternshipOffer(u, m, page[u].submitting, hasComment)
<1>1. page[u].submitting \in Decisions
  BY DEF MayPost, PageTypeOK
<1>2. u \in Users
  BY UsersAreDistinct DEF Users
<1>3. PICK hasComment \in BOOLEAN :
        DecideInternshipOffer(u, view[u].version, page[u].submitting, hasComment)
  BY DEF Post
<1>4. view[u].version \in Nat /\ version \in Nat
  BY DEF TypeOK
<1>5. version' = version + 1 /\ version' <= MaxVersion /\ IfMatchHolds(view[u].version)
  BY <1>3 DEF DecideInternshipOffer, SaveLogged, WriteParent, EventRotatesParent
<1>6. view[u].version \in IfMatches
  BY <1>4, <1>5, BoundsAreNaturals DEF IfMatchHolds, NoIfMatch, IfMatches
<1> QED
  BY <1>1, <1>2, <1>3, <1>6

\* Every step of the page and around it is a step of the aggregate, or none of its
\* business.
LEMMA PageStepsAreSteps ==
  ASSUME TypeOK, PageTypeOK, [PageNext]_pageVars
  PROVE  [Next]_vars
<1>1. ASSUME NEW u \in Readers, NEW p, Get(u, p) PROVE Next
  BY <1>1 DEF Get, Next
<1>2. ASSUME NEW u \in Readers, PageStep(u) PROVE [Next]_vars
  <2>1. CASE Open(u)
    BY <2>1, <1>1 DEF Open
  <2>2. CASE Loaded(u)
    BY <2>2 DEF Loaded, Show
  <2>3. CASE Close(u)
    BY <2>3 DEF Close
  <2>4. ASSUME NEW d \in Decisions, NEW c \in BOOLEAN, Submit(u, d, c) PROVE [Next]_vars
    BY <2>4, <1>1 DEF Submit
  <2>5. CASE AlreadyReviewed(u)
    BY <2>5, <1>1 DEF AlreadyReviewed
  <2>6. CASE Refreshed(u)
    BY <2>6 DEF Refreshed, Show
  <2>7. CASE RefreshFails(u) \/ DecisionRefused(u) \/ RequestFails(u)
    BY <2>7 DEF RefreshFails, DecisionRefused, RequestFails, GoOn
  <2>8. CASE DecisionSent(u) \/ DecisionUnacknowledged(u)
    <3>1. MayPost(u) /\ Post(u)
      BY <2>8 DEF DecisionSent, DecisionUnacknowledged
    <3> QED
      BY <3>1, PostIsADecision DEF Next, UserStep, OfferStep
  <2>9. CASE ReadAttachments(u)
    BY <2>9 DEF Next
  <2> QED
    BY <1>2, <2>1, <2>2, <2>3, <2>4, <2>5, <2>6, <2>7, <2>8, <2>9 DEF PageStep
<1>3. CASE OtherStep
  BY <1>3 DEF OtherStep, Next
<1>4. CASE UNCHANGED pageVars
  BY <1>4 DEF pageVars
<1> QED
  BY <1>2, <1>3, <1>4 DEF PageNext

\* No step breaks the shape of a page.
LEMMA PageTypesAreInductive ==
  ASSUME TypeOK, PageTypeOK, [PageNext]_pageVars
  PROVE  PageTypeOK'
<1>0. ASSUME NEW u \in Readers, NEW p \in PageRecords, Turn(u, p),
             p.step = "checking" => p.submitting \in Decisions
      PROVE  PageTypeOK'
  BY <1>0, TurnChangesOne DEF PageTypeOK
<1>1. ASSUME NEW u \in Readers, PageStep(u) PROVE PageTypeOK'
  <2> page[u] \in PageRecords /\ view[u].internship \in InternshipDocs
      /\ view[u].seen \in SUBSET AttachmentIds
    BY DEF PageTypeOK, TypeOK
  <2>1. CASE Open(u)
    <3>1. Len(notified) \in Nat
      BY DEF TypeOK
    <3> DEFINE p == Page("loading", Applied, {}, Len(notified), "nothing")
    <3>2. p \in PageRecords /\ p.step = "loading"
      BY <3>1, AppliedIsADoc, PageIsARecord DEF Steps, Messages
    <3>3. Turn(u, p)
      BY <2>1 DEF Open, Get
    <3> QED
      BY <1>0, <3>2, <3>3
  <2>2. ASSUME NEW said \in Messages, Show(u, said) PROVE PageTypeOK'
    <3> DEFINE p == Page("idle", Fresh(u), view[u].seen, page[u].asked, said)
    <3>1. page[u].asked \in Nat
      BY DEF PageRecords
    <3>2. p \in PageRecords /\ p.step = "idle"
      BY <3>1, PageIsARecord DEF Steps, Fresh
    <3>3. Turn(u, p)
      BY <2>2 DEF Show
    <3> QED
      BY <1>0, <3>2, <3>3
  <2>3. CASE Close(u)
    <3>1. Closed \in PageRecords /\ Closed.step = "closed"
      BY AppliedIsADoc, PageIsARecord DEF Closed, Steps, Messages
    <3> QED
      BY <1>0, <2>3, <3>1 DEF Close
  <2>4. ASSUME NEW d \in Decisions, NEW c \in BOOLEAN, Submit(u, d, c) PROVE PageTypeOK'
    <3> DEFINE p == [page[u] EXCEPT !.step = "checking", !.said = "nothing", !.submitting = d]
    <3>1. p \in PageRecords /\ p.submitting = d
      BY DEF PageRecords, Steps, Messages
    <3>2. Turn(u, p)
      BY <2>4 DEF Submit, Get
    <3> QED
      BY <1>0, <3>1, <3>2
  <2>5. CASE AlreadyReviewed(u)
    <3> DEFINE p == [page[u] EXCEPT !.step = "refreshing", !.said = "already"]
    <3>1. p \in PageRecords /\ p.step = "refreshing"
      BY DEF PageRecords, Steps, Messages
    <3>2. Turn(u, p)
      BY <2>5 DEF AlreadyReviewed, Get
    <3> QED
      BY <1>0, <3>1, <3>2
  <2>6. ASSUME NEW said \in Messages, GoOn(u, said) PROVE PageTypeOK'
    <3> DEFINE p == [page[u] EXCEPT !.step = "idle", !.said = said, !.submitting = NoDecision]
    <3>1. p \in PageRecords /\ p.step = "idle"
      BY DEF PageRecords, Steps
    <3>2. Turn(u, p)
      BY <2>6 DEF GoOn
    <3> QED
      BY <1>0, <3>1, <3>2
  <2>7. CASE DecisionSent(u)
    <3> DEFINE p == [page[u] EXCEPT !.step = "idle", !.said = "sent", !.submitting = NoDecision,
                                    !.offer.status = StatusOfDecision[page[u].submitting]]
    <3>1. StatusOfDecision[page[u].submitting] \in Statuses
      BY <2>7 DEF DecisionSent, MayPost, PageTypeOK, StatusOfDecision, Decisions, Statuses
    <3>2. p \in PageRecords /\ p.step = "idle"
      BY <3>1 DEF PageRecords, Steps, Messages, InternshipDocs
    <3>3. Turn(u, p)
      BY <2>7 DEF DecisionSent
    <3> QED
      BY <1>0, <3>2, <3>3
  <2>8. CASE DecisionUnacknowledged(u)
    <3> DEFINE p == [page[u] EXCEPT !.step = "idle", !.said = "failed", !.submitting = NoDecision]
    <3>1. p \in PageRecords /\ p.step = "idle"
      BY DEF PageRecords, Steps, Messages
    <3>2. Turn(u, p)
      BY <2>8 DEF DecisionUnacknowledged
    <3> QED
      BY <1>0, <3>1, <3>2
  <2>9. CASE UNCHANGED page
    BY <2>9 DEF PageTypeOK
  <2> QED
    BY <1>1, <2>1, <2>2, <2>3, <2>4, <2>5, <2>6, <2>7, <2>8, <2>9
    DEF PageStep, Loaded, Refreshed, RefreshFails, DecisionRefused, RequestFails, Messages
<1>2. CASE UNCHANGED page
  BY <1>2 DEF PageTypeOK
<1> QED
  BY <1>1, <1>2 DEF PageNext, pageVars

\* Both shapes, from the start.
LEMMA PagesAreTyped == PageSpec => [](TypeOK /\ PageTypeOK)
<1>1. PageInit => TypeOK /\ PageTypeOK
  <2> SUFFICES ASSUME PageInit PROVE TypeOK /\ PageTypeOK
    OBVIOUS
  <2>1. TypeOK
    BY UsersAreDistinct, UndefinedIsNoValue, FS_EmptySet
    DEF PageInit, Init, TypeOK, Applied, InternshipDocs, Statuses, MaybeDates, UploadStatuses,
        ActivityTypes, Users
  <2>2. Closed \in PageRecords /\ Closed.step = "closed"
    BY AppliedIsADoc, PageIsARecord DEF Closed, Steps, Messages
  <2> QED
    BY <2>1, <2>2 DEF PageInit, PageTypeOK
<1>2. TypeOK /\ PageTypeOK /\ [PageNext]_pageVars => (TypeOK /\ PageTypeOK)'
  BY PageStepsAreSteps, PageTypesAreInductive, TypesAreInductive
<1> QED
  BY <1>1, <1>2, PTL DEF PageSpec

\* The review page is one more client: with it, the aggregate behaves as Internship.
THEOREM ReviewsAreOfInternship == PageSpec => Spec
<1>1. PageInit => Init
  BY DEF PageInit
<1>2. TypeOK /\ PageTypeOK /\ [PageNext]_pageVars => [Next]_vars
  BY PageStepsAreSteps
<1> QED
  BY <1>1, <1>2, PagesAreTyped, PTL DEF PageSpec, Spec

-----------------------------------------------------------------------------
(* What the page says.                                                      *)

\* Since what page u shows was read, there was a decision, or the student has gone.
MovedOn(u) == internship.status = "withdrawn" \/ Len(notified) > page[u].asked

\* An offer that was under review then, and is not any more, has moved on.
SinceThen(u, status) ==
  status = "offer_pending_review" =>
    internship.status = "offer_pending_review" \/ MovedOn(u)

\* The decision page u says it has sent.
SentIsLogged(u) ==
  /\ Len(notified) > page[u].asked
  /\ \E i \in DOMAIN activity :
       /\ activity[i].type \in DecisionTypes
       /\ StatusLogged[activity[i].type] = page[u].offer.status
       /\ activity[i].author = u

\* Why PageTellsTheTruth is inductive: the offer shown, or about to be shown, was as it
\* is said to be when it was read, and the second GET finds another status only if the
\* offer has moved on since.
ReaderInv(u) ==
  /\ page[u].asked <= Len(notified)
  /\ SinceThen(u, page[u].offer.status)
  /\ page[u].step = "loading" => SinceThen(u, view[u].internship.status)
  /\ page[u].step = "checking" =>
       /\ page[u].offer.status = "offer_pending_review"
       /\ view[u].internship.status = "offer_pending_review" \/ MovedOn(u)
  /\ page[u].step = "refreshing" => page[u].said = "already"
  /\ page[u].said = "sent" => SentIsLogged(u)
  /\ page[u].said = "already" => MovedOn(u)

PageInv == \A u \in Readers : ReaderInv(u)

LEMMA PageInvIsTruthful == PageInv => PageTellsTheTruth
BY DEF PageInv, ReaderInv, SentIsLogged, MovedOn, PageTellsTheTruth

\* Decisions and the timeline only accumulate, a withdrawal is for good, and an offer
\* leaves the review only by a decision or a withdrawal.
LEMMA ReviewsGoOn ==
  ASSUME TypeOK, [Next]_vars
  PROVE  /\ Len(notified) \in Nat /\ Len(notified') \in Nat
         /\ Len(notified) <= Len(notified')
         /\ internship.status = "withdrawn" => internship'.status = "withdrawn"
         /\ internship.status = "offer_pending_review" =>
              \/ internship'.status \in {"offer_pending_review", "withdrawn"}
              \/ Len(notified') > Len(notified)
         /\ \A i \in DOMAIN activity : i \in DOMAIN activity' /\ activity'[i] = activity[i]
<1>0. activity \in Seq(Entries) /\ notified \in Seq(Decisions) /\ Len(notified) \in Nat
  BY DEF TypeOK, Entries
<1>1. CASE UNCHANGED <<internship, activity, notified>>
  BY <1>0, <1>1
<1>2. CASE /\ internship'.status = "withdrawn"
           /\ UNCHANGED <<activity, notified>>
  BY <1>0, <1>2
<1>3. ASSUME NEW e \in Entries, activity' = Append(activity, e), UNCHANGED notified,
             \/ internship'.status = internship.status
             \/ Submittable(internship.status) /\ internship'.status = "offer_pending_review"
      PROVE  /\ Len(notified') = Len(notified)
             /\ internship.status = "withdrawn" => internship'.status = "withdrawn"
             /\ internship.status = "offer_pending_review" =>
                  internship'.status = "offer_pending_review"
             /\ \A i \in DOMAIN activity : i \in DOMAIN activity' /\ activity'[i] = activity[i]
  <2>1. DOMAIN Append(activity, e) = DOMAIN activity \cup {Len(activity) + 1}
        /\ \A i \in DOMAIN activity : Append(activity, e)[i] = activity[i]
    BY <1>0, AppendIsLast
  <2> QED
    BY <1>3, <2>1 DEF Submittable
<1>4. ASSUME NEW d \in Decisions, NEW e \in Entries, notified' = Append(notified, d),
             activity' = Append(activity, e), internship.status = "offer_pending_review"
      PROVE  /\ Len(notified') = Len(notified) + 1
             /\ \A i \in DOMAIN activity : i \in DOMAIN activity' /\ activity'[i] = activity[i]
  <2>1. DOMAIN Append(activity, e) = DOMAIN activity \cup {Len(activity) + 1}
        /\ \A i \in DOMAIN activity : Append(activity, e)[i] = activity[i]
    BY <1>0, AppendIsLast
  <2>2. Len(Append(notified, d)) = Len(notified) + 1
    BY <1>0, AppendIsLast
  <2> QED
    BY <1>4, <2>1, <2>2
<1>5. [type |-> "submit_offer", author |-> Owner] \in Entries
  BY DEF Entries, ActivityTypes, Users
<1>6. ASSUME NEW d \in Decisions, NEW u \in Coordinators
      PROVE  [type |-> ActivityOfDecision[d], author |-> u] \in Entries
  BY DEF Entries, ActivityTypes, Users, ActivityOfDecision, Decisions
<1>7. TimelineStep
  BY StepsAreTimelineSteps
<1>8. CASE \E e \in Entries :
             /\ activity' = Append(activity, e)
             /\ UNCHANGED notified
             /\ \/ internship'.status = internship.status
                \/ Submittable(internship.status) /\ internship'.status = "offer_pending_review"
  BY <1>0, <1>3, <1>8
<1>9. CASE \E d \in Decisions, e \in Entries :
             /\ notified' = Append(notified, d)
             /\ activity' = Append(activity, e)
             /\ internship.status = "offer_pending_review"
  BY <1>0, <1>4, <1>9
<1> QED
  BY <1>1, <1>2, <1>5, <1>6, <1>7, <1>8, <1>9 DEF TimelineStep

\* What page w says stays true while others act.
LEMMA OthersKeepReader ==
  ASSUME TypeOK, PageTypeOK, [Next]_vars, NEW w \in Readers, ReaderInv(w),
         page'[w] = page[w], view'[w].internship = view[w].internship
  PROVE  ReaderInv(w)'
<1>1. page[w].asked \in Nat
  BY DEF PageTypeOK, PageRecords
<1>2. MovedOn(w) => MovedOn(w)'
  BY <1>1, ReviewsGoOn DEF MovedOn
<1>3. ASSUME NEW status, SinceThen(w, status) PROVE SinceThen(w, status)'
  BY <1>1, <1>2, <1>3, ReviewsGoOn DEF SinceThen, MovedOn, ReaderInv
<1>4. SentIsLogged(w) => SentIsLogged(w)'
  <2> SUFFICES ASSUME SentIsLogged(w) PROVE SentIsLogged(w)'
    OBVIOUS
  <2>1. Len(notified') > page'[w].asked
    BY <1>1, ReviewsGoOn DEF SentIsLogged
  <2>2. PICK i \in DOMAIN activity :
          /\ activity[i].type \in DecisionTypes
          /\ StatusLogged[activity[i].type] = page[w].offer.status
          /\ activity[i].author = w
    BY DEF SentIsLogged
  <2>3. i \in DOMAIN activity' /\ activity'[i] = activity[i]
    BY ReviewsGoOn
  <2> QED
    BY <2>1, <2>2, <2>3 DEF SentIsLogged
<1>5. page'[w].asked <= Len(notified')
  BY <1>1, ReviewsGoOn DEF ReaderInv
<1>6. SinceThen(w, page[w].offer.status)'
  BY <1>3 DEF ReaderInv
<1>7. page[w].step = "loading" => SinceThen(w, view[w].internship.status)'
  BY <1>3 DEF ReaderInv
<1> QED
  BY <1>2, <1>4, <1>5, <1>6, <1>7 DEF ReaderInv

\* What a GET reads, and what it leaves alone.
LEMMA GetReads ==
  ASSUME TypeOK, PageTypeOK, NEW u \in Readers, NEW p, Get(u, p)
  PROVE  /\ page'[u] = p /\ \A w \in Readers \ {u} : page'[w] = page[w] /\ view'[w] = view[w]
         /\ view'[u].internship = internship
         /\ UNCHANGED <<internship, notified, activity>>
<1>1. Turn(u, p) /\ ReadParent(u)
  BY DEF Get
<1>2. page'[u] = p /\ \A w \in Readers \ {u} : page'[w] = page[w]
  BY <1>1, TurnChangesOne
<1>3. /\ view'[u] = [phase |-> "parent", version |-> version, internship |-> internship, seen |-> {}]
      /\ \A w \in Readers \ {u} : view'[w] = view[w]
      /\ UNCHANGED <<internship, notified, activity>>
  BY <1>1 DEF ReadParent, TypeOK
<1> QED
  BY <1>2, <1>3

\* What a page does without the API leaves everything else alone.
LEMMA TurnReads ==
  ASSUME PageTypeOK, NEW u \in Readers, NEW p, Turn(u, p), UNCHANGED vars
  PROVE  /\ page'[u] = p
         /\ \A w \in Readers \ {u} : page'[w] = page[w]
         /\ UNCHANGED <<internship, notified, activity, view>>
BY TurnChangesOne DEF vars

\* The post of a decision: it is logged, under the name of the coordinator, and told.
LEMMA PostIsLogged ==
  ASSUME TypeOK, PageTypeOK, NEW u \in Readers, MayPost(u), Post(u)
  PROVE  /\ Len(notified') = Len(notified) + 1
         /\ UNCHANGED view
         /\ \E i \in DOMAIN activity' :
              /\ activity'[i].type \in DecisionTypes
              /\ StatusLogged[activity'[i].type] = StatusOfDecision[page[u].submitting]
              /\ activity'[i].author = u
<1> DEFINE d == page[u].submitting
           e == [type |-> ActivityOfDecision[d], author |-> u]
<1>1. PICK m \in IfMatches, hasComment \in BOOLEAN : DecideInternshipOffer(u, m, d, hasComment)
  BY PostIsADecision
<1>2. d \in Decisions /\ u \in Users
  BY PostIsADecision
<1>3. notified' = Append(notified, d) /\ activity' = Append(activity, e) /\ UNCHANGED view
  BY <1>1 DEF DecideInternshipOffer, SaveLogged, WriteActivity, LoggedEvents
<1>4. e \in Entries
  BY <1>2 DEF Entries, ActivityTypes, ActivityOfDecision, Decisions
<1>5. activity \in Seq(Entries) /\ notified \in Seq(Decisions)
  BY DEF TypeOK, Entries
<1>6. Len(activity) + 1 \in DOMAIN activity' /\ activity'[Len(activity) + 1] = e
  BY <1>3, <1>4, <1>5, AppendIsLast
<1>7. Len(notified') = Len(notified) + 1
  BY <1>2, <1>3, <1>5, AppendIsLast
<1>8. e.type \in DecisionTypes /\ StatusLogged[e.type] = StatusOfDecision[d]
  BY <1>2 DEF DecisionTypes, StatusLogged, StatusOfDecision, ActivityOfDecision, Decisions
<1> QED
  BY <1>3, <1>6, <1>7, <1>8

\* A step of a page keeps what it says.
LEMMA ReaderKeepsReader ==
  ASSUME TypeOK, PageTypeOK, [Next]_vars, NEW u \in Readers, ReaderInv(u), PageStep(u)
  PROVE  /\ ReaderInv(u)'
         /\ \A w \in Readers \ {u} : page'[w] = page[w] /\ view'[w].internship = view[w].internship
<1> DEFINE Goal == /\ ReaderInv(u)'
                   /\ \A w \in Readers \ {u} :
                        page'[w] = page[w] /\ view'[w].internship = view[w].internship
<1>0. /\ page[u] \in PageRecords
      /\ page[u].asked \in Nat /\ Len(notified) \in Nat
      /\ view[u].internship \in InternshipDocs
  BY DEF PageTypeOK, PageRecords, TypeOK
<1>1. CASE Open(u)
  <2> DEFINE p == Page("loading", Applied, {}, Len(notified), "nothing")
  <2>1. Get(u, p)
    BY <1>1 DEF Open
  <2>2. /\ p.step = "loading" /\ p.offer.status = "applied" /\ p.asked = Len(notified)
        /\ p.said = "nothing"
    BY DEF Page, Applied
  <2>3. page'[u] = p
    BY <2>1, GetReads
  <2> HIDE DEF p
  <2> QED
    BY <1>0, <2>1, <2>2, <2>3, GetReads DEF ReaderInv, SinceThen, MovedOn
<1>2. ASSUME NEW said \in Messages, Show(u, said), SinceThen(u, view[u].internship.status),
             said # "sent", said = "already" => MovedOn(u)
      PROVE  Goal
  <2> DEFINE p == Page("idle", Fresh(u), view[u].seen, page[u].asked, said)
  <2>1. Turn(u, p) /\ UNCHANGED vars
    BY <1>2 DEF Show
  <2>2. /\ p.step = "idle" /\ p.offer.status = view[u].internship.status
        /\ p.asked = page[u].asked /\ p.said = said
    BY DEF Page, Fresh
  <2>3. page'[u] = p
    BY <2>1, TurnReads
  <2> HIDE DEF p
  <2> QED
    BY <1>0, <1>2, <2>1, <2>2, <2>3, TurnReads DEF ReaderInv, SinceThen, MovedOn
<1>3. CASE Loaded(u)
  BY <1>2, <1>3 DEF Loaded, ReaderInv, Messages
<1>4. CASE Refreshed(u)
  <2>1. MovedOn(u) /\ Show(u, "already")
    BY <1>4 DEF Refreshed, ReaderInv
  <2> QED
    BY <1>2, <2>1 DEF SinceThen, Messages
<1>5. CASE Close(u)
  <2>1. Turn(u, Closed) /\ UNCHANGED vars
    BY <1>5 DEF Close
  <2>2. /\ Closed.step = "closed" /\ Closed.offer.status = "applied" /\ Closed.asked = 0
        /\ Closed.said = "nothing"
    BY DEF Closed, Page, Applied
  <2> QED
    BY <1>0, <2>1, <2>2, TurnReads DEF ReaderInv, SinceThen, MovedOn
<1>6. ASSUME NEW d \in Decisions, NEW c \in BOOLEAN, Submit(u, d, c) PROVE Goal
  <2> DEFINE p == [page[u] EXCEPT !.step = "checking", !.said = "nothing", !.submitting = d]
  <2>1. Get(u, p) /\ CanReview(u)
    BY <1>6 DEF Submit
  <2>2. /\ p.step = "checking" /\ p.offer = page[u].offer /\ p.asked = page[u].asked
        /\ p.said = "nothing"
    BY <1>0 DEF PageRecords
  <2>3. page'[u] = p
    BY <2>1, GetReads
  <2> HIDE DEF p
  <2> QED
    BY <1>0, <2>1, <2>2, <2>3, GetReads DEF ReaderInv, SinceThen, MovedOn, CanReview
<1>7. CASE AlreadyReviewed(u)
  <2> DEFINE p == [page[u] EXCEPT !.step = "refreshing", !.said = "already"]
  <2>1. Get(u, p) /\ page[u].step = "checking" /\ view[u].internship.status # "offer_pending_review"
    BY <1>7 DEF AlreadyReviewed, Fresh
  <2>2. /\ p.step = "refreshing" /\ p.offer = page[u].offer /\ p.asked = page[u].asked
        /\ p.said = "already"
    BY <1>0 DEF PageRecords
  <2>3. page'[u] = p
    BY <2>1, GetReads
  <2>4. MovedOn(u)
    BY <2>1 DEF ReaderInv
  <2> HIDE DEF p
  <2> QED
    BY <1>0, <2>1, <2>2, <2>3, <2>4, GetReads DEF ReaderInv, SinceThen, MovedOn
<1>8. ASSUME NEW said \in Messages, GoOn(u, said), said # "sent", said = "already" => MovedOn(u)
      PROVE  Goal
  <2> DEFINE p == [page[u] EXCEPT !.step = "idle", !.said = said, !.submitting = NoDecision]
  <2>1. Turn(u, p) /\ UNCHANGED vars
    BY <1>8 DEF GoOn
  <2>2. p.step = "idle" /\ p.offer = page[u].offer /\ p.asked = page[u].asked /\ p.said = said
    BY <1>0 DEF PageRecords
  <2>3. page'[u] = p
    BY <2>1, TurnReads
  <2> HIDE DEF p
  <2> QED
    BY <1>0, <1>8, <2>1, <2>2, <2>3, TurnReads DEF ReaderInv, SinceThen, MovedOn
<1>9. CASE RefreshFails(u)
  BY <1>8, <1>9 DEF RefreshFails, ReaderInv, Messages
<1>10. CASE DecisionRefused(u) \/ RequestFails(u)
  BY <1>8, <1>10 DEF DecisionRefused, RequestFails, Messages
<1>11. CASE DecisionSent(u)
  <2> DEFINE p == [page[u] EXCEPT !.step = "idle", !.said = "sent", !.submitting = NoDecision,
                                  !.offer.status = StatusOfDecision[page[u].submitting]]
  <2>1. MayPost(u) /\ Post(u) /\ Turn(u, p)
    BY <1>11 DEF DecisionSent
  <2>2. /\ p.step = "idle" /\ p.offer.status = StatusOfDecision[page[u].submitting]
        /\ p.asked = page[u].asked /\ p.said = "sent"
    BY <1>0 DEF PageRecords, InternshipDocs
  <2>3. page'[u] = p /\ \A w \in Readers \ {u} : page'[w] = page[w]
    BY <2>1, TurnChangesOne
  <2>4. p.offer.status # "offer_pending_review"
    BY <2>1, <2>2, PostIsADecision DEF StatusOfDecision, Decisions
  <2> HIDE DEF p
  <2>5. SentIsLogged(u)'
    BY <1>0, <2>1, <2>2, <2>3, PostIsLogged DEF ReaderInv, SentIsLogged
  <2> QED
    BY <1>0, <2>1, <2>2, <2>3, <2>4, <2>5, PostIsLogged DEF ReaderInv, SinceThen
<1>12. CASE DecisionUnacknowledged(u)
  <2> DEFINE p == [page[u] EXCEPT !.step = "idle", !.said = "failed", !.submitting = NoDecision]
  <2>1. MayPost(u) /\ Post(u) /\ Turn(u, p)
    BY <1>12 DEF DecisionUnacknowledged
  <2>2. p.step = "idle" /\ p.offer = page[u].offer /\ p.asked = page[u].asked /\ p.said = "failed"
    BY <1>0 DEF PageRecords
  <2>3. page'[u] = p /\ \A w \in Readers \ {u} : page'[w] = page[w]
    BY <2>1, TurnChangesOne
  <2> HIDE DEF p
  <2>4. MovedOn(u)'
    BY <1>0, <2>1, <2>2, <2>3, PostIsLogged DEF ReaderInv, MovedOn
  <2> QED
    BY <1>0, <2>1, <2>2, <2>3, <2>4, PostIsLogged DEF ReaderInv, SinceThen
<1>13. CASE ReadAttachments(u) /\ UNCHANGED page
  <2>1. /\ view'[u].internship = view[u].internship
        /\ \A w \in Readers \ {u} : view'[w] = view[w]
    BY <1>13 DEF ReadAttachments, TypeOK
  <2> QED
    BY <1>13, <2>1, OthersKeepReader
<1> QED
  BY <1>1, <1>3, <1>4, <1>5, <1>6, <1>7, <1>9, <1>10, <1>11, <1>12, <1>13 DEF PageStep

LEMMA PageInvIsInductive ==
  ASSUME TypeOK, PageTypeOK, PageInv, [PageNext]_pageVars
  PROVE  PageInv'
<1>0. [Next]_vars
  BY PageStepsAreSteps
<1>1. ASSUME NEW u \in Readers, PageStep(u) PROVE PageInv'
  <2>1. /\ ReaderInv(u)'
        /\ \A w \in Readers \ {u} : page'[w] = page[w] /\ view'[w].internship = view[w].internship
    BY <1>0, <1>1, ReaderKeepsReader DEF PageInv
  <2>2. ASSUME NEW w \in Readers, w # u PROVE ReaderInv(w)'
    BY <1>0, <2>1, <2>2, OthersKeepReader DEF PageInv
  <2> QED
    BY <2>1, <2>2 DEF PageInv
<1>2. CASE UNCHANGED <<page, view>>
  BY <1>0, <1>2, OthersKeepReader DEF PageInv
<1>3. CASE OtherStep /\ UNCHANGED page
  <2>1. UNCHANGED view
    BY <1>3 DEF OtherStep, UserStep, OfferStep, UpdateInternship, SubmitInternshipOffer,
                DecideInternshipOffer, WithdrawInternship, AddInternshipComment,
                CreateUploadIntent, ConfirmAttachment, DeleteAttachment,
                FinalizeStorageAttachment, RunIntentAgain
  <2> QED
    BY <1>2, <1>3, <2>1
<1> QED
  BY <1>1, <1>2, <1>3 DEF PageNext, pageVars, vars

\* A coordinator who is told that the decision was sent has decided, and one who is
\* told that the item has already been reviewed was too late, whatever other
\* coordinators, other tabs and the student did in between.
THEOREM PagesAreTruthful == PageSpec => []PageTellsTheTruth
<1>1. PageInit => PageInv
  BY DEF PageInit, Init, PageInv, ReaderInv, Closed, Page, Applied, SinceThen, MovedOn
<1>2. TypeOK /\ PageTypeOK /\ PageInv /\ [PageNext]_pageVars => PageInv'
  BY PageInvIsInductive
<1> QED
  BY <1>1, <1>2, PagesAreTyped, PageInvIsTruthful, PTL DEF PageSpec

-----------------------------------------------------------------------------
(* What the pages inherit from the aggregate.                               *)

\* What a page submits with the ETag of its second GET is decided on what that GET
\* showed: the page looks at nothing but that ETag, and yet an edit, a deletion, a
\* resubmission or another decision in between makes the decision fail.
THEOREM PagesDecideInformed == PageSpec => ConditionalDecisionIsInformed
BY ReviewsAreOfInternship, ConditionalDecisionsAreInformed, PTL

\* With coordinators deciding through pages, whose answers may be lost and whose clicks
\* may be repeated, each submission still gets one answer and a closed offer none.
THEOREM ReviewsImplementOffer == PageSpec => ImplementsOfferLifecycle
BY ReviewsAreOfInternship, AggregateImplementsOffer, PTL

=============================================================================
