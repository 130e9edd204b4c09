--------------------------------- MODULE Inbox ---------------------------------
(* Notifications: the rows commands write, `PATCH /notifications/{id}`,     *)
(* `PUT /notifications` (mark all as read), which works through the unread  *)
(* rows in transactions of a bounded size, and the student's notifications  *)
(* page, which shows as read what the API told it is read.                  *)
(*                                                                          *)
(* A row never goes back to unread and no command deletes one.  The title,  *)
(* body and email delivery fields of a row play no part.                    *)
EXTENDS Naturals, FiniteSets

CONSTANTS
  Readers,    \* the users whose inbox is followed; the others never read theirs
  Sweeps,     \* the calls of PUT /notifications that may be under way
  BatchSize,  \* TXN_BATCH_SIZE
  NoReader    \* an idle sweep is nobody's

ASSUME SweepsAreSomebodys == NoReader \notin Readers

ASSUME BatchesAreNotEmpty == BatchSize \in Nat \ {0}

VARIABLES
  rows,     \* the notifications collection
  tellings, \* how many transactions have written rows so far: it sets them apart
  unread,   \* the rows of the readers whose readAt is null
  sweep,    \* the calls of PUT /notifications
  page      \* what the notifications page of a reader shows, if it is open

inboxVars == <<rows, tellings, unread, sweep, page>>

-----------------------------------------------------------------------------
(* Rows.                                                                    *)

Row(u, subject, event, nth) ==
  [userId |-> u, relatedTicketId |-> subject, event |-> event, telling |-> nth]

Inbox(u) == {n \in rows : n.userId = u}

Unread(u) == {n \in unread : n.userId = u}

\* The notifications of one command, written in its transaction with ids minted
\* there: a transaction that runs twice writes them twice.
Notify(recipients, subject, event) ==
  LET new == {Row(u, subject, event, tellings + 1) : u \in recipients}
  IN  /\ rows' = rows \cup new
      /\ tellings' = tellings + 1
      /\ unread' = unread \cup {n \in new : n.userId \in Readers}

-----------------------------------------------------------------------------
(* The page.  Rows listed and not ticked are shown as unread.               *)

Sweep(phase, u, owed) == [phase |-> phase, reader |-> u, owed |-> owed]

NoSweep == Sweep("idle", NoReader, {})

NoPage == [open |-> FALSE, listed |-> {}, ticked |-> {}]

Page(listed, ticked) == [open |-> TRUE, listed |-> listed, ticked |-> ticked]

\* The query is not restricted to the reader (DeskTypeOK).
WrongOpenPage(u) ==
  /\ ~page[u].open
  /\ page' = [page EXCEPT ![u] = Page(rows, rows \ unread)]
  /\ UNCHANGED <<rows, tellings, unread, sweep>>

\* The effect of the first mount: what the query saw, which may be shown later.
OpenPage(u) ==
  /\ ~page[u].open
  /\ page' = [page EXCEPT ![u] = Page(Inbox(u), Inbox(u) \ unread)]
  /\ UNCHANGED <<rows, tellings, unread, sweep>>

\* The answer of a mark-all under way finds the next page that is opened
\* (ShownReadIsRead).
WrongLeavePage(u) ==
  /\ page[u].open
  /\ page' = [page EXCEPT ![u] = NoPage]
  /\ UNCHANGED <<rows, tellings, unread, sweep>>

\* Nothing waits for the answer of a mark-all under way any more; what it still marks,
\* it marks like another tab.
LeavePage(u) ==
  /\ page[u].open
  /\ page' = [page EXCEPT ![u] = NoPage]
  /\ sweep' = [w \in Sweeps |-> IF sweep[w].reader = u THEN NoSweep ELSE sweep[w]]
  /\ UNCHANGED <<rows, tellings, unread>>

-----------------------------------------------------------------------------
(* Mark one as read.                                                        *)

\* The transaction: a row that is read already is left alone.
MarkRead(u, n) ==
  /\ n \in Inbox(u)
  /\ unread' = unread \ {n}

\* handleMarkRead, answered: the row is ticked.
ClickMarkRead(u, n) ==
  /\ n \in page[u].listed \ page[u].ticked
  /\ MarkRead(u, n)
  /\ page' = [page EXCEPT ![u] = Page(page[u].listed, page[u].ticked \cup {n})]
  /\ UNCHANGED <<rows, tellings, sweep>>

\* The same with the answer lost, or to another tab: the page learns nothing.
MarkReadElsewhere(u, n) ==
  /\ n \in unread
  /\ MarkRead(u, n)
  /\ UNCHANGED <<rows, tellings, sweep, page>>

-----------------------------------------------------------------------------
(* Mark all as read.                                                        *)

\* `owed`: what is unread when the call starts; history, for the properties.
StartMarkAll(w, u) ==
  /\ sweep[w].phase = "idle"
  /\ page[u].open
  /\ sweep' = [sweep EXCEPT ![w] = Sweep("running", u, Unread(u))]
  /\ UNCHANGED <<rows, tellings, unread, page>>

\* unread.slice(0, TXN_BATCH_SIZE), in the order the query returns them: any.
Slice(S, batch) ==
  /\ batch \subseteq S
  /\ IF Cardinality(S) <= BatchSize THEN batch = S ELSE Cardinality(batch) = BatchSize

\* One pass is taken to be enough (MarkAllLeavesNothingBehind).
WrongIsLastBatch(batch) == Cardinality(batch) <= BatchSize

IsLastBatch(batch) == Cardinality(batch) < BatchSize

\* Passes never end: the loop waits for an empty query of all rows (MarkAllReturns).
WrongMarkBatch(w, batch) ==
  /\ sweep[w].phase = "running"
  /\ Slice(Inbox(sweep[w].reader), batch)
  /\ unread' = unread \ batch

\* One transaction of the loop: the unread rows are queried again.
MarkBatch(w, batch) ==
  /\ sweep[w].phase = "running"
  /\ Slice(Unread(sweep[w].reader), batch)
  /\ unread' = unread \ batch

\* The loop goes on until a batch is short.
NextBatch(w, batch) ==
  /\ MarkBatch(w, batch)
  /\ sweep' = IF IsLastBatch(batch)
              THEN [sweep EXCEPT ![w].phase = "answered"] ELSE sweep
  /\ UNCHANGED <<rows, tellings, page>>

\* The acknowledgement of a batch is lost: the SDK runs the transaction again.
UnacknowledgedBatch(w, batch) ==
  /\ MarkBatch(w, batch)
  /\ UNCHANGED <<rows, tellings, sweep, page>>

\* The handler gives up; what it has marked stays marked.
FailMarkAll(w) ==
  /\ sweep[w].phase = "running"
  /\ sweep' = [sweep EXCEPT ![w] = NoSweep]
  /\ UNCHANGED <<rows, tellings, unread, page>>

\* setItems(prev => ...): whatever is listed when the answer arrives.
TickAll(u) == page[u].listed

\* The answer reaches the page that asked.
ReceiveMarkAll(w) ==
  LET u == sweep[w].reader
  IN  /\ sweep[w].phase = "answered"
      /\ sweep' = [sweep EXCEPT ![w] = NoSweep]
      /\ page' = [page EXCEPT ![u] = Page(page[u].listed, TickAll(u))]
      /\ UNCHANGED <<rows, tellings, unread>>

-----------------------------------------------------------------------------
InboxInit ==
  /\ rows = {}
  /\ tellings = 0
  /\ unread = {}
  /\ sweep = [w \in Sweeps |-> NoSweep]
  /\ page = [u \in Readers |-> NoPage]

\* What goes on between a request and its answer, and without a request.
InboxStep ==
  \/ \E w \in Sweeps : \E batch \in SUBSET unread :
        NextBatch(w, batch) \/ UnacknowledgedBatch(w, batch)
  \/ \E w \in Sweeps : FailMarkAll(w) \/ ReceiveMarkAll(w)
  \/ \E u \in Readers : LeavePage(u)

-----------------------------------------------------------------------------
(* Properties.                                                              *)

SweepsOK ==
  \A w \in Sweeps :
    /\ sweep[w].phase \in {"idle", "running", "answered"}
    /\ sweep[w].phase # "idle" => sweep[w].reader \in Readers
    /\ sweep[w].owed \subseteq rows

PagesOK ==
  \A u \in Readers : page[u].listed \subseteq Inbox(u) /\ page[u].ticked \subseteq page[u].listed

\* When mark-all answers, everything that was unread when it was called is read,
\* however many passes it took, whatever arrived between them, and whichever passes
\* were run again because their acknowledgement was lost.
MarkAllLeavesNothingBehind ==
  \A w \in Sweeps : sweep[w].phase = "answered" => sweep[w].owed \cap unread = {}

\* The notifications page shows no row as read that is not: a row that arrived while
\* mark-all was under way, or that another visit of the page lists, is not ticked by
\* the answer.
ShownReadIsRead == \A u \in Readers : page[u].ticked \cap unread = {}

\* Mark-all comes to an end: each full pass takes rows off the backlog that the next
\* one queries.
MarkAllReturns == \A w \in Sweeps : sweep[w].phase = "running" ~> sweep[w].phase # "running"

=============================================================================
