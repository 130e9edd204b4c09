--------------------------- MODULE SupportTicketsProofs ---------------------------
(* What every command on a ticket keeps: of the ticket, its activity and    *)
(* replies, and of the notifications about it.  A command runs a first      *)
(* time, with an id that is new, or a second time, after the loss of its    *)
(* acknowledgement; most of what is said here holds of both.  First, what    *)
(* every step keeps of the notifications, whoever takes it: the steps of    *)
(* Inbox, and the commands that write rows.                                  *)
EXTENDS SupportTickets, TLAPS

-----------------------------------------------------------------------------
(* The inbox.                                                                *)

SweepRecords ==
  [phase : {"idle", "running", "answered"}, reader : Readers \cup {NoReader}, owed : SUBSET rows]

PageRecords == [open : BOOLEAN, listed : SUBSET rows, ticked : SUBSET rows]

InboxShapes ==
  /\ tellings \in Nat
  /\ \A n \in rows : n = Row(n.userId, n.relatedTicketId, n.event, n.telling)
  /\ unread \subseteq rows
  /\ sweep \in [Sweeps -> SweepRecords]
  /\ page \in [Readers -> PageRecords]

\* The rows of a transaction to come are none of those there are.
RowsAreOfThePast == \A n \in rows : n.telling \in Nat /\ n.telling <= tellings

\* A call under way is of an open page; what that page lists is read or owed; and what is
\* owed is the caller's, and read by the time of the answer.
SweepsAreOfPages ==
  \A w \in Sweeps : sweep[w].phase # "idle" =>
    /\ sweep[w].reader \in Readers
    /\ page[sweep[w].reader].open
    /\ page[sweep[w].reader].listed \cap unread \subseteq sweep[w].owed
    /\ \A n \in sweep[w].owed : n.userId = sweep[w].reader
    /\ sweep[w].phase = "answered" => sweep[w].owed \cap unread = {}

InboxInv == InboxShapes /\ RowsAreOfThePast /\ SweepsAreOfPages /\ PagesOK /\ ShownReadIsRead

-----------------------------------------------------------------------------
\* The inbox starts empty.
LEMMA InboxInitInv == InboxInit => InboxInv
<1>. SUFFICES ASSUME InboxInit PROVE InboxInv  OBVIOUS
<1>1. \A w \in Sweeps : sweep[w] = NoSweep /\ NoSweep \in SweepRecords /\ NoSweep.phase = "idle"
  BY DEF InboxInit, NoSweep, Sweep, SweepRecords
<1>2. \A u \in Readers : page[u] = NoPage /\ NoPage \in PageRecords
        /\ NoPage.listed = {} /\ NoPage.ticked = {}
  BY DEF InboxInit, NoPage, PageRecords
<1>3. InboxShapes  BY <1>1, <1>2 DEF InboxInit, InboxShapes
<1>. QED  BY <1>1, <1>2, <1>3
          DEF InboxInit, InboxInv, RowsAreOfThePast, SweepsAreOfPages, PagesOK, ShownReadIsRead

\* The rows a command writes are new: no page lists them and no call under way owes them.
LEMMA NotifyKeepsInbox ==
  ASSUME InboxInv, NEW R, NEW subject, NEW event, Notify(R, subject, event), UNCHANGED <<sweep, page>>
  PROVE  InboxInv'
<1>. DEFINE new == {Row(u, subject, event, tellings + 1) : u \in R}
<1>1. rows' = rows \cup new /\ tellings' = tellings + 1
      /\ unread' = unread \cup {n \in new : n.userId \in Readers}
  BY DEF Notify
<1>2. tellings \in Nat  BY DEF InboxInv, InboxShapes
<1>3. \A n \in new : n.telling = tellings + 1 /\ n = Row(n.userId, n.relatedTicketId, n.event, n.telling)
  BY DEF Row
<1>4. new \cap rows = {}  BY <1>2, <1>3 DEF InboxInv, RowsAreOfThePast
<1>5. sweep' \in [Sweeps -> SweepRecords'] /\ page' \in [Readers -> PageRecords']
  BY <1>1 DEF InboxInv, InboxShapes, SweepRecords, PageRecords
<1>6. InboxShapes'  BY <1>1, <1>2, <1>3, <1>5 DEF InboxInv, InboxShapes
<1>7. RowsAreOfThePast'  BY <1>1, <1>2, <1>3 DEF InboxInv, RowsAreOfThePast
<1>8. \A w \in Sweeps : sweep[w].owed \subseteq rows
  BY DEF InboxInv, InboxShapes, SweepRecords
<1>9. \A u \in Readers : page[u].listed \subseteq rows /\ page[u].ticked \subseteq rows
  BY DEF InboxInv, InboxShapes, PageRecords
<1>10. \A S : S \subseteq rows => S \cap unread' = S \cap unread  BY <1>1, <1>4
<1>11. SweepsAreOfPages'
  <2>. SUFFICES ASSUME NEW w \in Sweeps, sweep[w].phase # "idle"
                PROVE  /\ sweep[w].reader \in Readers
                       /\ page[sweep[w].reader].open
                       /\ page[sweep[w].reader].listed \cap unread' \subseteq sweep[w].owed
                       /\ \A n \in sweep[w].owed : n.userId = sweep[w].reader
                       /\ sweep[w].phase = "answered" => sweep[w].owed \cap unread' = {}
    BY DEF SweepsAreOfPages
  <2>. QED  BY <1>8, <1>9, <1>10 DEF InboxInv, SweepsAreOfPages
<1>12. PagesOK'  BY <1>1, <1>9 DEF InboxInv, PagesOK, Inbox
<1>13. ShownReadIsRead'  BY <1>9, <1>10 DEF InboxInv, ShownReadIsRead
<1>. QED  BY <1>6, <1>7, <1>11, <1>12, <1>13 DEF InboxInv

\* Rows that become read disturb nothing.
LEMMA ReadingRowsKeepsInbox ==
  ASSUME InboxInv, unread' \subseteq unread, UNCHANGED <<rows, tellings, sweep, page>>
  PROVE  InboxInv'
<1>1. InboxShapes'  BY DEF InboxInv, InboxShapes, SweepRecords, PageRecords
<1>2. RowsAreOfThePast' /\ PagesOK' /\ ShownReadIsRead'
  BY DEF InboxInv, RowsAreOfThePast, PagesOK, ShownReadIsRead, Inbox
<1>3. SweepsAreOfPages'
  <2>. SUFFICES ASSUME NEW w \in Sweeps, sweep[w].phase # "idle"
                PROVE  /\ sweep[w].reader \in Readers
                       /\ page[sweep[w].reader].open
                       /\ page[sweep[w].reader].listed \cap unread' \subseteq sweep[w].owed
                       /\ \A n \in sweep[w].owed : n.userId = sweep[w].reader
                       /\ sweep[w].phase = "answered" => sweep[w].owed \cap unread' = {}
    BY DEF SweepsAreOfPages
  <2>. QED  BY DEF InboxInv, SweepsAreOfPages
<1>. QED  BY <1>1, <1>2, <1>3 DEF InboxInv

\* Nor do calls that are given up.
LEMMA GivingUpKeepsInbox ==
  ASSUME InboxInv, sweep' \in [Sweeps -> SweepRecords],
         \A w \in Sweeps : sweep'[w] = sweep[w] \/ sweep'[w].phase = "idle",
         UNCHANGED <<rows, tellings, unread, page>>
  PROVE  InboxInv'
<1>1. InboxShapes'  BY DEF InboxInv, InboxShapes, SweepRecords, PageRecords
<1>2. RowsAreOfThePast' /\ PagesOK' /\ ShownReadIsRead'
  BY DEF InboxInv, RowsAreOfThePast, PagesOK, ShownReadIsRead, Inbox
<1>3. SweepsAreOfPages'  BY DEF InboxInv, SweepsAreOfPages
<1>. QED  BY <1>1, <1>2, <1>3 DEF InboxInv

-----------------------------------------------------------------------------
(* The page.                                                                *)

\* A page that is opened shows what is there, and no call under way is of it.
LEMMA OpenPageKeepsInbox ==
  ASSUME InboxInv, NEW u \in Readers, OpenPage(u)
  PROVE  InboxInv'
<1>. DEFINE new == Page(Inbox(u), Inbox(u) \ unread)
<1>1. page' = [page EXCEPT ![u] = new] /\ UNCHANGED <<rows, tellings, unread, sweep>>
      /\ ~page[u].open
  BY DEF OpenPage
<1>2. new \in PageRecords /\ new.listed = Inbox(u) /\ new.ticked = Inbox(u) \ unread
  BY DEF Page, PageRecords, Inbox
<1>3. page \in [Readers -> PageRecords]  BY DEF InboxInv, InboxShapes
<1>4. page'[u] = new /\ \A v \in Readers \ {u} : page'[v] = page[v]  BY <1>1, <1>3
<1>5. InboxShapes'
  <2>1. page' \in [Readers -> PageRecords]  BY <1>1, <1>2, <1>3
  <2>. QED  BY <2>1, <1>1 DEF InboxInv, InboxShapes, PageRecords, SweepRecords
<1>6. \A w \in Sweeps : sweep[w].phase # "idle" => sweep[w].reader # u
  BY <1>1 DEF InboxInv, SweepsAreOfPages
<1>7. SweepsAreOfPages'  BY <1>1, <1>4, <1>6 DEF InboxInv, SweepsAreOfPages
<1>8. PagesOK' /\ ShownReadIsRead'
  BY <1>1, <1>2, <1>4 DEF InboxInv, PagesOK, ShownReadIsRead, Inbox
<1>9. RowsAreOfThePast'  BY <1>1 DEF InboxInv, RowsAreOfThePast
<1>. QED  BY <1>5, <1>7, <1>8, <1>9 DEF InboxInv

\* A page that is left takes the calls it made with it.
LEMMA LeavePageKeepsInbox ==
  ASSUME InboxInv, NEW u \in Readers, LeavePage(u)
  PROVE  InboxInv'
<1>1. /\ page' = [page EXCEPT ![u] = NoPage]
      /\ sweep' = [w \in Sweeps |-> IF sweep[w].reader = u THEN NoSweep ELSE sweep[w]]
      /\ UNCHANGED <<rows, tellings, unread>>
  BY DEF LeavePage
<1>2. NoPage \in PageRecords /\ NoPage.listed = {} /\ NoPage.ticked = {}
      /\ NoSweep \in SweepRecords /\ NoSweep.phase = "idle"
  BY DEF NoPage, PageRecords, NoSweep, Sweep, SweepRecords
<1>3. page \in [Readers -> PageRecords] /\ sweep \in [Sweeps -> SweepRecords]
  BY DEF InboxInv, InboxShapes
<1>4. page'[u] = NoPage /\ \A v \in Readers \ {u} : page'[v] = page[v]  BY <1>1, <1>3
<1>5. InboxShapes'
  <2>1. page' \in [Readers -> PageRecords] /\ sweep' \in [Sweeps -> SweepRecords]
    BY <1>1, <1>2, <1>3
  <2>. QED  BY <2>1, <1>1 DEF InboxInv, InboxShapes, PageRecords, SweepRecords
<1>6. SweepsAreOfPages'
  <2>1. \A w \in Sweeps : sweep'[w].phase # "idle" => sweep'[w] = sweep[w] /\ sweep[w].reader # u
    BY <1>1, <1>2
  <2>. QED  BY <2>1, <1>1, <1>4 DEF InboxInv, SweepsAreOfPages
<1>7. PagesOK' /\ ShownReadIsRead'
  BY <1>1, <1>2, <1>4 DEF InboxInv, PagesOK, ShownReadIsRead, Inbox
<1>8. RowsAreOfThePast'  BY <1>1 DEF InboxInv, RowsAreOfThePast
<1>. QED  BY <1>5, <1>6, <1>7, <1>8 DEF InboxInv

\* A tick is of rows that the page lists and that are read from then on.
LEMMA TickingKeepsInbox ==
  ASSUME InboxInv, NEW u \in Readers, NEW T \in SUBSET page[u].listed,
         page' = [page EXCEPT ![u] = Page(page[u].listed, T)],
         T \cap unread' = {}, unread' \subseteq unread, page[u].open,
         UNCHANGED <<rows, tellings, sweep>>
  PROVE  InboxInv'
<1>. DEFINE new == Page(page[u].listed, T)
<1>1. page \in [Readers -> PageRecords]  BY DEF InboxInv, InboxShapes
<1>2. new \in PageRecords /\ new.listed = page[u].listed /\ new.ticked = T /\ new.open = TRUE
  BY <1>1 DEF Page, PageRecords
<1>3. page'[u] = new /\ \A v \in Readers \ {u} : page'[v] = page[v]  BY <1>1
<1>4. InboxShapes'
  <2>1. page' \in [Readers -> PageRecords]  BY <1>1, <1>2
  <2>. QED  BY <2>1 DEF InboxInv, InboxShapes, PageRecords, SweepRecords
<1>5. \A v \in Readers : page'[v].listed = page[v].listed /\ (page[v].open => page'[v].open)
  BY <1>2, <1>3
<1>6. SweepsAreOfPages'
  <2>. SUFFICES ASSUME NEW w \in Sweeps, sweep[w].phase # "idle"
                PROVE  /\ sweep[w].reader \in Readers
                       /\ page'[sweep[w].reader].open
                       /\ page'[sweep[w].reader].listed \cap unread' \subseteq sweep[w].owed
                       /\ \A n \in sweep[w].owed : n.userId = sweep[w].reader
                       /\ sweep[w].phase = "answered" => sweep[w].owed \cap unread' = {}
    BY DEF SweepsAreOfPages
  <2>. QED  BY <1>5 DEF InboxInv, SweepsAreOfPages
<1>7. PagesOK' /\ ShownReadIsRead'
  BY <1>2, <1>3 DEF InboxInv, PagesOK, ShownReadIsRead, Inbox
<1>8. RowsAreOfThePast'  BY DEF InboxInv, RowsAreOfThePast
<1>. QED  BY <1>4, <1>6, <1>7, <1>8 DEF InboxInv

-----------------------------------------------------------------------------
(* The steps.                                                               *)

\* What a reader asks for.
LEMMA ReaderKeepsInbox ==
  ASSUME InboxInv, NEW u \in Readers,
         \/ OpenPage(u)
         \/ \E n \in unread : ClickMarkRead(u, n) \/ MarkReadElsewhere(u, n)
         \/ \E w \in Sweeps : StartMarkAll(w, u)
  PROVE  InboxInv'
<1>1. CASE OpenPage(u)  BY <1>1, OpenPageKeepsInbox
<1>2. ASSUME NEW n \in unread, ClickMarkRead(u, n) PROVE InboxInv'
  <2>. DEFINE T == page[u].ticked \cup {n}
  <2>1. /\ n \in page[u].listed \ page[u].ticked
        /\ unread' = unread \ {n}
        /\ page' = [page EXCEPT ![u] = Page(page[u].listed, T)]
        /\ UNCHANGED <<rows, tellings, sweep>>
    BY <1>2 DEF ClickMarkRead, MarkRead
  <2>2. T \in SUBSET page[u].listed /\ T \cap unread' = {}
    BY <2>1 DEF InboxInv, PagesOK, ShownReadIsRead
  <2>3. CASE page[u].open  BY <2>1, <2>2, <2>3, TickingKeepsInbox
  <2>4. CASE ~page[u].open
    <3>. DEFINE new == Page(page[u].listed, T)
    <3>1. page \in [Readers -> PageRecords]  BY DEF InboxInv, InboxShapes
    <3>2. new \in PageRecords /\ new.listed = page[u].listed /\ new.ticked = T
      BY <3>1, <2>2 DEF Page, PageRecords
    <3>3. page'[u] = new /\ \A v \in Readers \ {u} : page'[v] = page[v]  BY <2>1, <3>1
    <3>4. InboxShapes'
      <4>1. page' \in [Readers -> PageRecords]  BY <2>1, <3>1, <3>2
      <4>. QED  BY <4>1, <2>1 DEF InboxInv, InboxShapes, PageRecords, SweepRecords
    <3>5. SweepsAreOfPages'
      <4>1. \A w \in Sweeps : sweep[w].phase # "idle" => sweep[w].reader # u
        BY <2>4 DEF InboxInv, SweepsAreOfPages
      <4>. QED  BY <4>1, <2>1, <3>3 DEF InboxInv, SweepsAreOfPages
    <3>6. PagesOK' /\ ShownReadIsRead'
      <4>1. page'[u].listed = page[u].listed /\ page'[u].ticked = T  BY <3>2, <3>3
      <4>2. PagesOK'  BY <2>1, <2>2, <3>3, <4>1 DEF InboxInv, PagesOK, Inbox
      <4>3. ShownReadIsRead'  BY <2>1, <2>2, <3>3, <4>1 DEF InboxInv, ShownReadIsRead
      <4>. QED  BY <4>2, <4>3
    <3>7. RowsAreOfThePast'  BY <2>1 DEF InboxInv, RowsAreOfThePast
    <3>. QED  BY <3>4, <3>5, <3>6, <3>7 DEF InboxInv
  <2>. QED  BY <2>3, <2>4
<1>3. ASSUME NEW n \in unread, MarkReadElsewhere(u, n) PROVE InboxInv'
  BY <1>3, ReadingRowsKeepsInbox DEF MarkReadElsewhere, MarkRead
<1>4. ASSUME NEW w \in Sweeps, StartMarkAll(w, u) PROVE InboxInv'
  <2>. DEFINE new == Sweep("running", u, Unread(u))
  <2>1. sweep' = [sweep EXCEPT ![w] = new] /\ page[u].open
        /\ UNCHANGED <<rows, tellings, unread, page>>
    BY <1>4 DEF StartMarkAll
  <2>2. sweep \in [Sweeps -> SweepRecords] /\ unread \subseteq rows
    BY DEF InboxInv, InboxShapes
  <2>3. new \in SweepRecords /\ new.phase = "running" /\ new.reader = u /\ new.owed = Unread(u)
    BY <2>2 DEF Sweep, SweepRecords, Unread
  <2>4. sweep'[w] = new /\ \A v \in Sweeps \ {w} : sweep'[v] = sweep[v]  BY <2>1, <2>2
  <2>5. InboxShapes'
    <3>1. sweep' \in [Sweeps -> SweepRecords]  BY <2>1, <2>2, <2>3
    <3>. QED  BY <3>1, <2>1 DEF InboxInv, InboxShapes, PageRecords, SweepRecords
  <2>6. page[u].listed \cap unread \subseteq Unread(u) /\ \A n \in Unread(u) : n.userId = u
    BY DEF InboxInv, PagesOK, Inbox, Unread
  <2>7. SweepsAreOfPages'  BY <2>1, <2>3, <2>4, <2>6 DEF InboxInv, SweepsAreOfPages
  <2>8. PagesOK' /\ ShownReadIsRead' /\ RowsAreOfThePast'
    BY <2>1 DEF InboxInv, PagesOK, ShownReadIsRead, Inbox, RowsAreOfThePast
  <2>. QED  BY <2>5, <2>7, <2>8 DEF InboxInv
<1>. QED  BY <1>1, <1>2, <1>3, <1>4

\* A short batch leaves the reader nothing unread.
LEMMA LastBatchIsTheRest ==
  ASSUME NEW S, NEW batch, Slice(S, batch), IsLastBatch(batch)
  PROVE  batch = S
BY BatchesAreNotEmpty DEF Slice, IsLastBatch

\* What goes on without a request.
LEMMA InboxStepKeepsInbox ==
  ASSUME InboxInv, InboxStep
  PROVE  InboxInv'
<1>1. ASSUME NEW w \in Sweeps, NEW batch \in SUBSET unread, UnacknowledgedBatch(w, batch)
      PROVE  InboxInv'
  BY <1>1, ReadingRowsKeepsInbox DEF UnacknowledgedBatch, MarkBatch
<1>2. ASSUME NEW w \in Sweeps, NEW batch \in SUBSET unread, NextBatch(w, batch)
      PROVE  InboxInv'
  <2>1. /\ sweep[w].phase = "running"
        /\ Slice(Unread(sweep[w].reader), batch)
        /\ unread' = unread \ batch
        /\ UNCHANGED <<rows, tellings, page>>
        /\ sweep' = IF IsLastBatch(batch) THEN [sweep EXCEPT ![w].phase = "answered"] ELSE sweep
    BY <1>2 DEF NextBatch, MarkBatch
  <2>2. CASE ~IsLastBatch(batch)  BY <2>1, <2>2, ReadingRowsKeepsInbox
  <2>3. CASE IsLastBatch(batch)
    <3>1. sweep' = [sweep EXCEPT ![w].phase = "answered"]  BY <2>1, <2>3
    <3>2. sweep \in [Sweeps -> SweepRecords]  BY DEF InboxInv, InboxShapes
    <3>3. /\ sweep'[w].phase = "answered" /\ sweep'[w].reader = sweep[w].reader
          /\ sweep'[w].owed = sweep[w].owed
          /\ \A v \in Sweeps \ {w} : sweep'[v] = sweep[v]
          /\ sweep' \in [Sweeps -> SweepRecords]
      BY <3>1, <3>2 DEF SweepRecords
    <3>4. batch = Unread(sweep[w].reader)  BY <2>1, <2>3, LastBatchIsTheRest
    <3>5. sweep[w].owed \cap unread' = {}
      BY <3>4, <2>1 DEF Unread, InboxInv, SweepsAreOfPages
    <3>6. InboxShapes'  BY <3>3, <2>1 DEF InboxInv, InboxShapes, PageRecords, SweepRecords
    <3>7. SweepsAreOfPages'
      <4>. SUFFICES ASSUME NEW v \in Sweeps, sweep'[v].phase # "idle"
                    PROVE  /\ sweep'[v].reader \in Readers
                           /\ page[sweep'[v].reader].open
                           /\ page[sweep'[v].reader].listed \cap unread' \subseteq sweep'[v].owed
                           /\ \A n \in sweep'[v].owed : n.userId = sweep'[v].reader
                           /\ sweep'[v].phase = "answered" => sweep'[v].owed \cap unread' = {}
        BY <2>1 DEF SweepsAreOfPages
      <4>1. CASE v = w  BY <4>1, <3>3, <3>5, <2>1 DEF InboxInv, SweepsAreOfPages
      <4>2. CASE v # w  BY <4>2, <3>3, <2>1 DEF InboxInv, SweepsAreOfPages
      <4>. QED  BY <4>1, <4>2
    <3>8. PagesOK' /\ ShownReadIsRead' /\ RowsAreOfThePast'
      BY <2>1 DEF InboxInv, PagesOK, ShownReadIsRead, Inbox, RowsAreOfThePast
    <3>. QED  BY <3>6, <3>7, <3>8 DEF InboxInv
  <2>. QED  BY <2>2, <2>3
<1>3. ASSUME NEW w \in Sweeps, FailMarkAll(w) PROVE InboxInv'
  <2>1. sweep \in [Sweeps -> SweepRecords] /\ NoSweep \in SweepRecords /\ NoSweep.phase = "idle"
    BY DEF InboxInv, InboxShapes, NoSweep, Sweep, SweepRecords
  <2>2. sweep' = [sweep EXCEPT ![w] = NoSweep] /\ UNCHANGED <<rows, tellings, unread, page>>
    BY <1>3 DEF FailMarkAll
  <2>3. sweep' \in [Sweeps -> SweepRecords]
        /\ \A v \in Sweeps : sweep'[v] = sweep[v] \/ sweep'[v].phase = "idle"
    BY <2>1, <2>2
  <2>. QED  BY <2>2, <2>3, GivingUpKeepsInbox
<1>4. ASSUME NEW w \in Sweeps, ReceiveMarkAll(w) PROVE InboxInv'
  <2>. DEFINE u == sweep[w].reader
              new == Page(page[u].listed, page[u].listed)
  <2>1. /\ sweep[w].phase = "answered"
        /\ sweep' = [sweep EXCEPT ![w] = NoSweep]
        /\ page' = [page EXCEPT ![u] = new]
        /\ UNCHANGED <<rows, tellings, unread>>
    BY <1>4 DEF ReceiveMarkAll, TickAll
  <2>2. u \in Readers /\ page[u].open /\ page[u].listed \cap unread = {}
    BY <2>1 DEF InboxInv, SweepsAreOfPages
  <2>3. sweep \in [Sweeps -> SweepRecords] /\ NoSweep \in SweepRecords /\ NoSweep.phase = "idle"
        /\ page \in [Readers -> PageRecords]
    BY DEF InboxInv, InboxShapes, NoSweep, Sweep, SweepRecords
  <2>4. new \in PageRecords /\ new.listed = page[u].listed /\ new.ticked = page[u].listed
        /\ new.open = TRUE
    BY <2>2, <2>3 DEF Page, PageRecords
  <2>5. /\ page'[u] = new /\ \A v \in Readers \ {u} : page'[v] = page[v]
        /\ \A v \in Sweeps : v # w => sweep'[v] = sweep[v]
        /\ sweep'[w].phase = "idle"
        /\ page' \in [Readers -> PageRecords] /\ sweep' \in [Sweeps -> SweepRecords]
    BY <2>1, <2>2, <2>3, <2>4
  <2>6. InboxShapes'  BY <2>5, <2>1 DEF InboxInv, InboxShapes, PageRecords, SweepRecords
  <2>7. \A v \in Readers : page'[v].listed = page[v].listed /\ (page[v].open => page'[v].open)
    BY <2>4, <2>5
  <2>8. SweepsAreOfPages'
    <3>1. \A v \in Sweeps : sweep'[v].phase # "idle" => v # w /\ sweep'[v] = sweep[v]
      BY <2>5
    <3>. QED  BY <3>1, <2>1, <2>7 DEF InboxInv, SweepsAreOfPages
  <2>9. PagesOK' /\ ShownReadIsRead' /\ RowsAreOfThePast'
    BY <2>1, <2>2, <2>4, <2>5 DEF InboxInv, PagesOK, ShownReadIsRead, Inbox, RowsAreOfThePast
  <2>. QED  BY <2>6, <2>8, <2>9 DEF InboxInv
<1>5. ASSUME NEW u \in Readers, LeavePage(u) PROVE InboxInv'
  BY <1>5, LeavePageKeepsInbox
<1>. QED  BY <1>1, <1>2, <1>3, <1>4, <1>5 DEF InboxStep

\* The invariant is about the inbox alone.
LEMMA InboxUnchanged ==
  ASSUME InboxInv, UNCHANGED inboxVars
  PROVE  InboxInv'
<1>1. UNCHANGED <<rows, tellings, unread, sweep, page>>  BY DEF inboxVars
<1>. QED  BY <1>1, ReadingRowsKeepsInbox

\* What the properties say of the inbox.
LEMMA InboxInvGives ==
  InboxInv => SweepsOK /\ PagesOK /\ MarkAllLeavesNothingBehind /\ ShownReadIsRead
BY DEF InboxInv, InboxShapes, SweepRecords, SweepsAreOfPages, SweepsOK, MarkAllLeavesNothingBehind

-----------------------------------------------------------------------------
(* Tickets.                                                                  *)

Actors == Readers \cup Coordinators

TicketRecords ==
  [status : TicketStatuses \cup {"absent"}, userId : Readers \cup {NoReader}, version : Nat,
   event : Nat]

Commands ==
  [kind : {"transition", "reply"}, id : Nat, actor : Actors, ticketId : TicketIds,
   to : TicketStatuses, ifMatch : Nat]

Entries ==
  [id : Nat, at : Nat, from : TicketStatuses, to : TicketStatuses, actor : Actors, ifMatch : Nat,
   seen : TicketStatuses \cup {"nothing"}]

Posts == [id : Nat, authorUserId : Actors]

DeskShapes ==
  /\ minted \in Nat
  /\ ticket \in [TicketIds -> TicketRecords]
  /\ was = [t \in TicketIds |-> was[t]]
  /\ activity \in [TicketIds -> SUBSET Entries]
  /\ replies \in [TicketIds -> SUBSET Posts]
  /\ pending \subseteq Commands
  /\ ranTwice \subseteq Commands

\* What there is of a ticket that exists, and of one that does not.
TicketsOK ==
  \A t \in TicketIds :
    /\ Exists(t) =>
         /\ ticket[t].version > 0
         /\ ticket[t].userId \in Readers
         /\ was[t] \in [1..ticket[t].version -> TicketStatuses]
         /\ was[t][ticket[t].version] = ticket[t].status
    /\ ~Exists(t) => activity[t] = {} /\ replies[t] = {}

\* No id of a command to come is in use, and rows are of tickets.
IdsAreOfThePast ==
  /\ \A t \in TicketIds : Exists(t) => ticket[t].event <= minted
  /\ \A t \in TicketIds : \A e \in activity[t] : e.id <= minted
  /\ \A t \in TicketIds : \A p \in replies[t] : p.id <= minted
  /\ \A n \in rows :
       n.event \in Nat /\ n.event <= minted /\ n.relatedTicketId \in TicketIds

\* A command that may run again was carried out: its doing is on record, and the version
\* it names, if any, is gone.  Its id is its own.
PendingAreDone ==
  /\ \A c \in pending :
       /\ Exists(c.ticketId)
       /\ [event |-> c.id, by |-> c.actor] \in Doings(c.ticketId)
       /\ c.ifMatch # 0 => c.kind = "transition" /\ c.ifMatch < ticket[c.ticketId].version
  /\ \A c, d \in pending : c.id = d.id => c = d

TicketInv ==
  /\ DeskShapes
  /\ TicketsOK
  /\ IdsAreOfThePast
  /\ PendingAreDone
  /\ ActivityExplainsStatus
  /\ TransitionsAreInformed
  /\ MatchedCommandsRunOnce
  /\ EveryoneIsTold

\* The two ways in which a command is carried out.
FirstRun(c) ==
  /\ c.id = minted + 1 /\ minted' = minted + 1
  /\ c.kind = "reply" => c.ifMatch = 0
  /\ ranTwice' = ranTwice
  /\ pending' \in {pending, pending \cup {c}}

SecondRun(c) ==
  /\ c \in pending
  /\ minted' = minted
  /\ ranTwice' = ranTwice \cup {c}
  /\ pending' = pending \ {c}

-----------------------------------------------------------------------------
(* What a run does.                                                         *)

\* Whoever it is of, a command that is carried out is of a ticket that is there.
LEMMA RunFacts ==
  ASSUME TicketInv, NEW c \in Commands, Run(c)
  PROVE  /\ c.ticketId \in TicketIds /\ Exists(c.ticketId)
         /\ ticket[c.ticketId].userId \in Readers
         /\ ticket[c.ticketId].status \in TicketStatuses
         /\ ticket[c.ticketId].version \in Nat \ {0}
         /\ c.kind = "transition" =>
              Matches(c.ticketId, c.ifMatch) /\ SaveTransition(c)
         /\ c.kind = "reply" => SaveReply(c)
         /\ c.kind \in {"transition", "reply"}
         /\ Notify(Recipients(c.actor, ticket[c.ticketId].userId), c.ticketId, c.id)
<1>1. c.ticketId \in TicketIds /\ c.kind \in {"transition", "reply"}  BY DEF Commands
<1>2. Exists(c.ticketId)  BY DEF Run, MayRun, MayTransition, MayHandle
<1>3. ticket[c.ticketId] \in TicketRecords  BY <1>1 DEF TicketInv, DeskShapes
<1>4. /\ ticket[c.ticketId].userId \in Readers
      /\ ticket[c.ticketId].status \in TicketStatuses
      /\ ticket[c.ticketId].version \in Nat \ {0}
  BY <1>1, <1>2, <1>3 DEF TicketInv, TicketsOK, TicketRecords, Exists
<1>5. c.kind = "transition" => Matches(c.ticketId, c.ifMatch) /\ SaveTransition(c)
  BY DEF Run, MayRun, MayTransition
<1>6. c.kind = "reply" => SaveReply(c)  BY DEF Run
<1>7. Notify(Recipients(c.actor, ticket[c.ticketId].userId), c.ticketId, c.id)  BY DEF Run
<1>. QED  BY <1>1, <1>2, <1>4, <1>5, <1>6, <1>7

\* The documents after a transition.
LEMMA TransitionEffects ==
  ASSUME TicketInv, NEW c \in Commands, Run(c), c.kind = "transition", NEW t,
         t = c.ticketId
  PROVE  /\ ticket' \in [TicketIds -> TicketRecords]
         /\ ticket'[t].status = c.to /\ ticket'[t].userId = ticket[t].userId
         /\ ticket'[t].version = ticket[t].version + 1 /\ ticket'[t].event = ticket[t].event
         /\ \A s \in TicketIds : s # t => ticket'[s] = ticket[s] /\ was'[s] = was[s]
                                           /\ activity'[s] = activity[s]
         /\ \A s \in TicketIds : Exists(s)' <=> Exists(s)
         /\ was' = [s \in TicketIds |-> was'[s]]
         /\ was'[t] \in [1..(ticket[t].version + 1) -> TicketStatuses]
         /\ was'[t][ticket[t].version + 1] = c.to
         /\ Entry(c) \in Entries
         /\ activity' \in [TicketIds -> SUBSET Entries]
         /\ activity'[t] = {e \in activity[t] : e.id # c.id} \cup {Entry(c)}
         /\ replies' = replies
         /\ Matches(t, c.ifMatch)
<1>1. /\ t \in TicketIds /\ Exists(t)
      /\ ticket[t].status \in TicketStatuses /\ ticket[t].version \in Nat \ {0}
      /\ Matches(t, c.ifMatch) /\ SaveTransition(c) /\ ticket[t].userId \in Readers
  BY RunFacts
<1>2. c.to \in TicketStatuses /\ c.id \in Nat /\ c.actor \in Actors /\ c.ifMatch \in Nat
  BY DEF Commands
<1>3. /\ ticket \in [TicketIds -> TicketRecords]
      /\ was = [s \in TicketIds |-> was[s]]
      /\ activity \in [TicketIds -> SUBSET Entries]
  BY DEF TicketInv, DeskShapes
<1>4. ticket[t].event \in Nat  BY <1>1, <1>3 DEF TicketRecords
<1>5. /\ Moved(t, c.to) \in TicketRecords
      /\ Moved(t, c.to).status = c.to /\ Moved(t, c.to).userId = ticket[t].userId
      /\ Moved(t, c.to).version = ticket[t].version + 1
      /\ Moved(t, c.to).event = ticket[t].event
  BY <1>1, <1>2, <1>4 DEF Moved, TicketRecords
<1>6. ticket' = [ticket EXCEPT ![t] = Moved(t, c.to)] /\ replies' = replies
  BY <1>1 DEF SaveTransition
<1>7. /\ ticket'[t] = Moved(t, c.to)
      /\ \A s \in TicketIds : s # t => ticket'[s] = ticket[s]
      /\ ticket' \in [TicketIds -> TicketRecords]
  BY <1>1, <1>3, <1>5, <1>6
<1>8. \A s \in TicketIds : Exists(s)' <=> Exists(s)
  BY <1>1, <1>2, <1>5, <1>7 DEF Exists, TicketStatuses
<1>9. was[t] \in [1..ticket[t].version -> TicketStatuses]
  BY <1>1 DEF TicketInv, TicketsOK
<1>. DEFINE past == [v \in 1..(ticket[t].version + 1) |->
                       IF v <= ticket[t].version THEN was[t][v] ELSE c.to]
<1>10. was' = [was EXCEPT ![t] = past]  BY <1>1 DEF SaveTransition
<1>11. /\ was'[t] = past /\ was' = [s \in TicketIds |-> was'[s]]
       /\ \A s \in TicketIds : s # t => was'[s] = was[s]
  <2>. HIDE DEF past
  <2>. QED  BY <1>1, <1>3, <1>10
<1>12. past \in [1..(ticket[t].version + 1) -> TicketStatuses]
       /\ past[ticket[t].version + 1] = c.to
  BY <1>1, <1>2, <1>9
<1>13. Entry(c) \in Entries
  <2>1. c.ifMatch # 0 => was[t][c.ifMatch] \in TicketStatuses
    BY <1>1, <1>2, <1>9 DEF Matches
  <2>. QED  BY <2>1, <1>1, <1>2 DEF Entry, Entries
<1>14. activity' = [activity EXCEPT ![t] = {e \in activity[t] : e.id # c.id} \cup {Entry(c)}]
  BY <1>1 DEF SaveTransition, WriteEntry
<1>15. /\ activity'[t] = {e \in activity[t] : e.id # c.id} \cup {Entry(c)}
       /\ \A s \in TicketIds : s # t => activity'[s] = activity[s]
       /\ activity' \in [TicketIds -> SUBSET Entries]
  BY <1>1, <1>3, <1>13, <1>14
<1>. HIDE DEF past
<1>. QED  BY <1>1, <1>5, <1>6, <1>7, <1>8, <1>11, <1>12, <1>13, <1>15

\* The documents after a reply.
LEMMA ReplyEffects ==
  ASSUME TicketInv, NEW c \in Commands, Run(c), c.kind = "reply", NEW t, t = c.ticketId
  PROVE  /\ UNCHANGED <<ticket, was, activity>>
         /\ replies' \in [TicketIds -> SUBSET Posts]
         /\ replies'[t] = replies[t] \cup {[id |-> c.id, authorUserId |-> c.actor]}
         /\ \A s \in TicketIds : s # t => replies'[s] = replies[s]
<1>1. t \in TicketIds /\ SaveReply(c)  BY RunFacts
<1>2. [id |-> c.id, authorUserId |-> c.actor] \in Posts  BY DEF Commands, Posts
<1>3. replies \in [TicketIds -> SUBSET Posts]  BY DEF TicketInv, DeskShapes
<1>4. replies' = [replies EXCEPT ![t] = replies[t] \cup {[id |-> c.id, authorUserId |-> c.actor]}]
  BY <1>1 DEF SaveReply
<1>. QED  BY <1>1, <1>2, <1>3, <1>4 DEF SaveReply

\* Either way no ticket appears, vanishes, changes hands or goes back in versions.
LEMMA RunKeepsTickets ==
  ASSUME TicketInv, NEW c \in Commands, Run(c)
  PROVE  \A t \in TicketIds :
           /\ Exists(t)' <=> Exists(t)
           /\ ticket'[t].userId = ticket[t].userId /\ ticket'[t].event = ticket[t].event
           /\ ticket[t].version \in Nat /\ ticket'[t].version \in Nat
           /\ ticket[t].version <= ticket'[t].version
<1>1. ticket \in [TicketIds -> TicketRecords]  BY DEF TicketInv, DeskShapes
<1>2. CASE c.kind = "transition"
  <2>1. ticket' \in [TicketIds -> TicketRecords]
        /\ \A t \in TicketIds : Exists(t)' <=> Exists(t)
    BY <1>2, TransitionEffects
  <2>2. ASSUME NEW t \in TicketIds
        PROVE  /\ ticket'[t].userId = ticket[t].userId /\ ticket'[t].event = ticket[t].event
               /\ ticket'[t].version \in {ticket[t].version, ticket[t].version + 1}
    <3>1. CASE t = c.ticketId  BY <3>1, <1>2, TransitionEffects
    <3>2. CASE t # c.ticketId  BY <3>2, <1>2, TransitionEffects
    <3>. QED  BY <3>1, <3>2
  <2>3. \A t \in TicketIds : ticket[t].version \in Nat  BY <1>1 DEF TicketRecords
  <2>. QED  BY <2>1, <2>2, <2>3
<1>3. CASE c.kind = "reply"  BY <1>1, <1>3, ReplyEffects DEF TicketRecords, Exists
<1>. QED  BY <1>2, <1>3, RunFacts

-----------------------------------------------------------------------------
(* What a run keeps, one conjunct at a time.                                *)

\* The shapes.
LEMMA RunKeepsShapes ==
  ASSUME TicketInv, NEW c \in Commands, Run(c), FirstRun(c) \/ SecondRun(c)
  PROVE  DeskShapes' /\ TicketsOK'
<1>1. minted' \in Nat /\ pending' \subseteq Commands /\ ranTwice' \subseteq Commands
  BY DEF TicketInv, DeskShapes, FirstRun, SecondRun
<1>2. CASE c.kind = "transition"
  <2>1. DeskShapes'  BY <1>1, <1>2, TransitionEffects DEF TicketInv, DeskShapes
  <2>2. TicketsOK'
    <3>. SUFFICES ASSUME NEW t \in TicketIds
                  PROVE  /\ Exists(t)' =>
                              /\ ticket'[t].version > 0
                              /\ ticket'[t].userId \in Readers
                              /\ was'[t] \in [1..ticket'[t].version -> TicketStatuses]
                              /\ was'[t][ticket'[t].version] = ticket'[t].status
                         /\ ~Exists(t)' => activity'[t] = {} /\ replies'[t] = {}
      BY DEF TicketsOK
    <3>1. CASE t = c.ticketId
      <4>1. Exists(t) /\ ticket[t].version \in Nat \ {0} /\ ticket[t].userId \in Readers
        BY <3>1, RunFacts
      <4>. QED  BY <4>1, <3>1, <1>2, TransitionEffects
    <3>2. CASE t # c.ticketId  BY <3>2, <1>2, TransitionEffects DEF TicketInv, TicketsOK
    <3>. QED  BY <3>1, <3>2
  <2>. QED  BY <2>1, <2>2
<1>3. CASE c.kind = "reply"
  <2>1. DeskShapes'  BY <1>1, <1>3, ReplyEffects DEF TicketInv, DeskShapes
  <2>2. \A t \in TicketIds : t # c.ticketId => replies'[t] = replies[t]  BY <1>3, ReplyEffects
  <2>3. UNCHANGED <<ticket, was, activity>> /\ Exists(c.ticketId)  BY <1>3, ReplyEffects, RunFacts
  <2>4. TicketsOK'  BY <2>2, <2>3 DEF TicketInv, TicketsOK, Exists
  <2>. QED  BY <2>1, <2>4
<1>. QED  BY <1>2, <1>3, RunFacts

\* The id of a command is one that was minted.
LEMMA IdIsMinted ==
  ASSUME TicketInv, NEW c \in Commands, FirstRun(c) \/ SecondRun(c)
  PROVE  /\ minted \in Nat /\ minted' \in Nat /\ minted <= minted'
         /\ c.id \in Nat /\ c.id <= minted'
         /\ FirstRun(c) => c.id > minted
<1>1. minted \in Nat /\ c.id \in Nat  BY DEF TicketInv, DeskShapes, Commands
<1>2. CASE FirstRun(c)  BY <1>1, <1>2 DEF FirstRun
<1>3. CASE SecondRun(c)
  <2>1. [event |-> c.id, by |-> c.actor] \in Doings(c.ticketId) /\ c.ticketId \in TicketIds
        /\ Exists(c.ticketId)
    BY <1>3 DEF SecondRun, TicketInv, PendingAreDone, Commands
  <2>2. c.id <= minted
    BY <2>1 DEF Doings, TicketInv, IdsAreOfThePast
  <2>3. minted' = minted /\ ~(c.id = minted + 1)  BY <2>2, <1>1, <1>3 DEF SecondRun
  <2>. QED  BY <2>2, <2>3, <1>1 DEF FirstRun
<1>. QED  BY <1>2, <1>3

\* The ids.
LEMMA RunKeepsIds ==
  ASSUME TicketInv, NEW c \in Commands, Run(c), FirstRun(c) \/ SecondRun(c)
  PROVE  IdsAreOfThePast'
<1>1. /\ minted \in Nat /\ minted' \in Nat /\ minted <= minted'
      /\ c.id \in Nat /\ c.id <= minted'
  BY IdIsMinted
<1>2. \A t \in TicketIds : Exists(t)' => ticket'[t].event \in Nat /\ ticket'[t].event <= minted'
  <2>1. \A t \in TicketIds : ticket[t].event \in Nat
    BY DEF TicketInv, DeskShapes, TicketRecords
  <2>. QED  BY <2>1, <1>1, RunKeepsTickets DEF TicketInv, IdsAreOfThePast
<1>3. \A n \in rows' :
        n.event \in Nat /\ n.event <= minted' /\ n.relatedTicketId \in TicketIds
  <2>1. Notify(Recipients(c.actor, ticket[c.ticketId].userId), c.ticketId, c.id)  BY RunFacts
  <2>2. ASSUME NEW n \in rows'
        PROVE  n \in rows \/ (n.event = c.id /\ n.relatedTicketId = c.ticketId)
    BY <2>1 DEF Notify, Row
  <2>. QED  BY <2>2, <1>1, RunFacts DEF TicketInv, IdsAreOfThePast
<1>4. \A t \in TicketIds : \A e \in activity'[t] : e.id <= minted'
  <2>1. \A t \in TicketIds : \A e \in activity[t] : e.id \in Nat
    BY DEF TicketInv, DeskShapes, Entries
  <2>2. CASE c.kind = "transition"
    <3>1. Entry(c).id = c.id  BY DEF Entry
    <3>. QED  BY <3>1, <2>1, <2>2, <1>1, TransitionEffects DEF TicketInv, IdsAreOfThePast
  <2>3. CASE c.kind = "reply"
    BY <2>1, <2>3, <1>1, ReplyEffects DEF TicketInv, IdsAreOfThePast
  <2>. QED  BY <2>2, <2>3, RunFacts
<1>5. \A t \in TicketIds : \A p \in replies'[t] : p.id <= minted'
  <2>1. \A t \in TicketIds : \A p \in replies[t] : p.id \in Nat
    BY DEF TicketInv, DeskShapes, Posts
  <2>2. CASE c.kind = "transition"
    BY <2>1, <2>2, <1>1, TransitionEffects DEF TicketInv, IdsAreOfThePast
  <2>3. CASE c.kind = "reply"
    <3>1. \A t \in TicketIds : \A p \in replies'[t] : p \in replies[t] \/ p.id = c.id
      BY <2>3, ReplyEffects
    <3>. QED  BY <3>1, <2>1, <1>1 DEF TicketInv, IdsAreOfThePast
  <2>. QED  BY <2>2, <2>3, RunFacts
<1>. QED  BY <1>2, <1>3, <1>4, <1>5 DEF IdsAreOfThePast

\* The doings of a ticket: a run adds its own, if it is not there, and loses none.
LEMMA RunKeepsDoings ==
  ASSUME TicketInv, NEW c \in Commands, Run(c)
  PROVE  /\ [event |-> c.id, by |-> c.actor] \in Doings(c.ticketId)'
         /\ \A t \in TicketIds :
              /\ \A d \in Doings(t)' :
                   d \in Doings(t) \/ (t = c.ticketId /\ d = [event |-> c.id, by |-> c.actor])
              /\ \A d \in Doings(t) : d \in Doings(t)' \/ (d.event = c.id /\ t = c.ticketId)
<1>. DEFINE own == [event |-> c.id, by |-> c.actor]
<1>1. \A t \in TicketIds : ticket'[t].userId = ticket[t].userId /\ ticket'[t].event = ticket[t].event
  BY RunKeepsTickets
<1>2. c.ticketId \in TicketIds  BY RunFacts
<1>3. CASE c.kind = "transition"
  <2>1. Entry(c).id = c.id /\ Entry(c).actor = c.actor  BY DEF Entry
  <2>2. /\ activity'[c.ticketId] = {e \in activity[c.ticketId] : e.id # c.id} \cup {Entry(c)}
        /\ replies' = replies
        /\ \A s \in TicketIds : s # c.ticketId => activity'[s] = activity[s]
    BY <1>3, TransitionEffects
  <2>3. own \in Doings(c.ticketId)'  BY <2>1, <2>2 DEF Doings
  <2>4. ASSUME NEW t \in TicketIds, NEW d \in Doings(t)'
        PROVE  d \in Doings(t) \/ (t = c.ticketId /\ d = own)
    BY <2>1, <2>2, <1>1 DEF Doings
  <2>5. ASSUME NEW t \in TicketIds, NEW d \in Doings(t)
        PROVE  d \in Doings(t)' \/ (d.event = c.id /\ t = c.ticketId)
    BY <2>1, <2>2, <1>1 DEF Doings
  <2>. QED  BY <2>3, <2>4, <2>5
<1>4. CASE c.kind = "reply"
  <2>1. /\ activity' = activity
        /\ replies'[c.ticketId] =
             replies[c.ticketId] \cup {[id |-> c.id, authorUserId |-> c.actor]}
        /\ \A s \in TicketIds : s # c.ticketId => replies'[s] = replies[s]
    BY <1>4, ReplyEffects
  <2>2. own \in Doings(c.ticketId)'
    <3>. DEFINE post == [id |-> c.id, authorUserId |-> c.actor]
    <3>1. post \in replies'[c.ticketId] /\ own = [event |-> post.id, by |-> post.authorUserId]
      BY <2>1
    <3>. HIDE DEF post, own
    <3>. QED  BY <3>1 DEF Doings
  <2>3. ASSUME NEW t \in TicketIds, NEW d \in Doings(t)'
        PROVE  d \in Doings(t) \/ (t = c.ticketId /\ d = own)
    BY <2>1, <1>1 DEF Doings
  <2>4. ASSUME NEW t \in TicketIds, NEW d \in Doings(t)
        PROVE  d \in Doings(t)' \/ (d.event = c.id /\ t = c.ticketId)
    BY <2>1, <1>1 DEF Doings
  <2>. QED  BY <2>2, <2>3, <2>4
<1>. QED  BY <1>3, <1>4, RunFacts

\* The commands that may run again.
LEMMA RunKeepsPending ==
  ASSUME TicketInv, NEW c \in Commands, Run(c), FirstRun(c) \/ SecondRun(c)
  PROVE  PendingAreDone'
<1>1. minted \in Nat /\ c.id \in Nat /\ (FirstRun(c) => c.id > minted)  BY IdIsMinted
<1>2. ASSUME NEW p \in pending  PROVE p.id \in Nat /\ p.id <= minted
  <2>1. p \in Commands /\ Exists(p.ticketId)
        /\ [event |-> p.id, by |-> p.actor] \in Doings(p.ticketId)
    BY DEF TicketInv, DeskShapes, PendingAreDone
  <2>. QED  BY <2>1 DEF Commands, Doings, TicketInv, IdsAreOfThePast
<1>3. ASSUME NEW p \in pending', p # c  PROVE p \in pending /\ p.id # c.id
  <2>1. p \in pending  BY <1>3 DEF FirstRun, SecondRun
  <2>2. CASE FirstRun(c)  BY <2>1, <2>2, <1>1, <1>2
  <2>3. CASE SecondRun(c)  BY <2>1, <2>3, <1>3 DEF SecondRun, TicketInv, PendingAreDone
  <2>. QED  BY <2>1, <2>2, <2>3
<1>4. ASSUME NEW p \in pending'
      PROVE  /\ Exists(p.ticketId)'
             /\ [event |-> p.id, by |-> p.actor] \in Doings(p.ticketId)'
             /\ p.ifMatch # 0 =>
                  p.kind = "transition" /\ p.ifMatch < ticket'[p.ticketId].version
  <2>1. CASE p # c
    <3>1. p \in pending /\ p.id # c.id  BY <2>1, <1>3
    <3>2. p.ticketId \in TicketIds /\ p.ifMatch \in Nat
      BY <3>1 DEF TicketInv, DeskShapes, Commands
    <3>3. /\ Exists(p.ticketId)
          /\ [event |-> p.id, by |-> p.actor] \in Doings(p.ticketId)
          /\ p.ifMatch # 0 => p.kind = "transition" /\ p.ifMatch < ticket[p.ticketId].version
      BY <3>1 DEF TicketInv, PendingAreDone
    <3>4. Exists(p.ticketId)'  BY <3>2, <3>3, RunKeepsTickets
    <3>5. p.ifMatch # 0 => p.kind = "transition" /\ p.ifMatch < ticket'[p.ticketId].version
      BY <3>2, <3>3, RunKeepsTickets
    <3>6. [event |-> p.id, by |-> p.actor].event # c.id  BY <3>1
    <3>7. [event |-> p.id, by |-> p.actor] \in Doings(p.ticketId)'
      BY <3>2, <3>3, <3>6, RunKeepsDoings
    <3>. QED  BY <3>4, <3>5, <3>7
  <2>2. CASE p = c
    <3>1. FirstRun(c)  BY <2>2, <1>4 DEF SecondRun
    <3>2. Exists(c.ticketId)'  BY RunFacts, RunKeepsTickets
    <3>3. [event |-> c.id, by |-> c.actor] \in Doings(c.ticketId)'  BY RunKeepsDoings
    <3>4. ASSUME c.ifMatch # 0
          PROVE  c.kind = "transition" /\ c.ifMatch < ticket'[c.ticketId].version
      <4>1. c.kind = "transition"  BY <3>1, <3>4, RunFacts DEF FirstRun
      <4>2. c.ifMatch = ticket[c.ticketId].version  BY <3>4, <4>1, RunFacts DEF Matches
      <4>3. ticket'[c.ticketId].version = ticket[c.ticketId].version + 1
            /\ ticket[c.ticketId].version \in Nat
        BY <4>1, TransitionEffects, RunFacts
      <4>. QED  BY <4>1, <4>2, <4>3
    <3>. QED  BY <2>2, <3>2, <3>3, <3>4
  <2>. QED  BY <2>1, <2>2
<1>5. \A p, q \in pending' : p.id = q.id => p = q
  BY <1>3 DEF TicketInv, PendingAreDone
<1>. QED  BY <1>4, <1>5 DEF PendingAreDone

\* A command that runs again names no version.
LEMMA SecondRunIsUnmatched ==
  ASSUME TicketInv, NEW c \in Commands, Run(c), SecondRun(c)
  PROVE  c.ifMatch = 0
<1>. SUFFICES ASSUME c.ifMatch # 0 PROVE FALSE  OBVIOUS
<1>1. c.kind = "transition" /\ c.ifMatch < ticket[c.ticketId].version
  BY DEF SecondRun, TicketInv, PendingAreDone
<1>2. c.ifMatch = ticket[c.ticketId].version  BY <1>1, RunFacts DEF Matches
<1>. QED  BY <1>1, <1>2, RunFacts

\* So no command that names a version has run twice.
LEMMA RunKeepsMatched ==
  ASSUME TicketInv, NEW c \in Commands, Run(c), FirstRun(c) \/ SecondRun(c)
  PROVE  MatchedCommandsRunOnce'
<1>1. CASE FirstRun(c)  BY <1>1 DEF FirstRun, TicketInv, MatchedCommandsRunOnce
<1>2. CASE SecondRun(c)
  BY <1>2, SecondRunIsUnmatched DEF SecondRun, TicketInv, MatchedCommandsRunOnce
<1>. QED  BY <1>1, <1>2

\* The version an entry names is the one its author read: that of the status it left.
LEMMA RunKeepsInformed ==
  ASSUME TicketInv, NEW c \in Commands, Run(c)
  PROVE  TransitionsAreInformed'
<1>1. CASE c.kind = "transition"
  <2>. DEFINE t == c.ticketId
  <2>1. t \in TicketIds /\ was[t][ticket[t].version] = ticket[t].status
    BY RunFacts DEF TicketInv, TicketsOK
  <2>2. Entry(c).ifMatch # 0 => Entry(c).seen = Entry(c).from
    BY <2>1, <1>1, RunFacts DEF Entry, Matches
  <2>3. \A s \in TicketIds : \A e \in activity'[s] : e \in activity[s] \/ e = Entry(c)
    BY <1>1, TransitionEffects
  <2>. QED  BY <2>2, <2>3 DEF TicketInv, TransitionsAreInformed
<1>2. CASE c.kind = "reply"
  BY <1>2, ReplyEffects DEF TicketInv, TransitionsAreInformed
<1>. QED  BY <1>1, <1>2, RunFacts

\* What ActivityExplainsStatus says of one ticket.
Explained(t) ==
  /\ \A v \in 2..ticket[t].version : \E e \in activity[t] : e.at = v
  /\ \A e \in activity[t] : e.at \in 2..ticket[t].version
  /\ \A e, d \in activity[t] :
       /\ e.at = d.at => e = d
       /\ e.at = d.at + 1 => e.from = d.to
  /\ \A e \in activity[t] :
       /\ e.at = 2 => e.from = "open"
       /\ e.at = ticket[t].version => e.to = ticket[t].status
  /\ ticket[t].version = 1 => ticket[t].status = "open"

\* A first transition extends the account of its ticket by one entry and removes none.
LEMMA FirstTransitionIsExplained ==
  ASSUME TicketInv, NEW c \in Commands, Run(c), FirstRun(c), c.kind = "transition",
         NEW t, t = c.ticketId, Explained(t)
  PROVE  Explained(t)'
<1>. DEFINE new == Entry(c)
            v0 == ticket[t].version
<1>1. t \in TicketIds /\ v0 \in Nat \ {0}  BY RunFacts
<1>2. /\ ticket'[t].version = v0 + 1 /\ ticket'[t].status = c.to
      /\ activity'[t] = {e \in activity[t] : e.id # c.id} \cup {new}
  BY TransitionEffects
<1>3. \A e \in activity[t] : e.id # c.id
  <2>1. \A e \in activity[t] : e.id \in Nat /\ e.id <= minted
    BY <1>1 DEF TicketInv, DeskShapes, Entries, IdsAreOfThePast
  <2>. QED  BY <2>1, IdIsMinted
<1>4. activity'[t] = activity[t] \cup {new}  BY <1>2, <1>3
<1>5. new.at = v0 + 1 /\ new.from = ticket[t].status /\ new.to = c.to  BY DEF Entry
<1>6. \A e \in activity[t] : e.at \in Nat /\ e.at >= 2 /\ e.at <= v0
  BY <1>1 DEF Explained
<1>. HIDE DEF new
<1>7. ASSUME NEW v \in 2..ticket'[t].version  PROVE \E e \in activity'[t] : e.at = v
  <2>1. CASE v = v0 + 1  BY <2>1, <1>4, <1>5
  <2>2. CASE v # v0 + 1
    <3>1. v \in 2..v0  BY <2>2, <1>1, <1>2
    <3>. QED  BY <3>1, <1>4 DEF Explained
  <2>. QED  BY <2>1, <2>2
<1>8. \A e \in activity'[t] : e.at \in 2..ticket'[t].version
  BY <1>1, <1>2, <1>4, <1>5, <1>6
<1>9. ASSUME NEW e \in activity'[t], NEW d \in activity'[t]
      PROVE  /\ e.at = d.at => e = d
             /\ e.at = d.at + 1 => e.from = d.to
  <2>1. CASE e \in activity[t] /\ d \in activity[t]  BY <2>1 DEF Explained
  <2>2. CASE e = new /\ d \in activity[t]
    <3>1. e.at # d.at  BY <2>2, <1>1, <1>5, <1>6
    <3>2. e.at = d.at + 1 => d.at = v0  BY <2>2, <1>1, <1>5, <1>6
    <3>. QED  BY <3>1, <3>2, <2>2, <1>5 DEF Explained
  <2>3. CASE e \in activity[t] /\ d = new  BY <2>3, <1>1, <1>5, <1>6
  <2>4. CASE e = new /\ d = new  BY <2>4, <1>1, <1>5
  <2>. QED  BY <2>1, <2>2, <2>3, <2>4, <1>4
<1>10. ASSUME NEW e \in activity'[t]
       PROVE  /\ e.at = 2 => e.from = "open"
              /\ e.at = ticket'[t].version => e.to = ticket'[t].status
  <2>1. CASE e \in activity[t]  BY <2>1, <1>1, <1>2, <1>6 DEF Explained
  <2>2. CASE e = new
    <3>1. e.at = 2 => v0 = 1  BY <2>2, <1>1, <1>5
    <3>. QED  BY <3>1, <2>2, <1>2, <1>5 DEF Explained
  <2>. QED  BY <2>1, <2>2, <1>4
<1>11. ticket'[t].version # 1  BY <1>1, <1>2
<1>. QED  BY <1>7, <1>8, <1>9, <1>10, <1>11 DEF Explained

\* A second transition of a ticket ends what is claimed of its account; nothing else does.
LEMMA RunKeepsExplained ==
  ASSUME TicketInv, NEW c \in Commands, Run(c), FirstRun(c) \/ SecondRun(c)
  PROVE  ActivityExplainsStatus'
<1>. SUFFICES ASSUME NEW t \in TicketIds, Exists(t)', RanOnce(t)'
              PROVE  Explained(t)'
  BY DEF ActivityExplainsStatus, Explained
<1>1. RanOnce(t)  BY DEF RanOnce, FirstRun, SecondRun
<1>2. Explained(t)
  BY <1>1, RunKeepsTickets DEF TicketInv, ActivityExplainsStatus, Explained
<1>3. CASE c.kind = "transition"
  <2>1. CASE t # c.ticketId  BY <2>1, <1>2, <1>3, TransitionEffects DEF Explained
  <2>2. CASE t = c.ticketId
    <3>1. FirstRun(c)  BY <2>2, <1>3 DEF SecondRun, RanOnce
    <3>. QED  BY <3>1, <2>2, <1>2, <1>3, FirstTransitionIsExplained
  <2>. QED  BY <2>1, <2>2
<1>4. CASE c.kind = "reply"  BY <1>2, <1>4, ReplyEffects DEF Explained
<1>. QED  BY <1>3, <1>4, RunFacts

-----------------------------------------------------------------------------
(* Who is told.                                                             *)

\* Who has a row about an event, and who should.
Told(event) == {n.userId : n \in {m \in rows : m.event = event}}

Audience(t, d) == IF d.by \in Coordinators THEN {ticket[t].userId} ELSE Coordinators

\* Rows are written for the audience of the doing they tell of.
LEMMA NotifyTells ==
  ASSUME NEW R, NEW subject, NEW event, Notify(R, subject, event)
  PROVE  /\ Told(event)' = Told(event) \cup R
         /\ \A x : x # event => Told(x)' = Told(x)
         /\ \A n \in rows' :
              \/ n \in rows
              \/ n.event = event /\ n.relatedTicketId = subject
                 /\ n = Row(n.userId, subject, event, tellings + 1)
<1>. DEFINE new == {Row(u, subject, event, tellings + 1) : u \in R}
<1>1. rows' = rows \cup new  BY DEF Notify
<1>2. \A n \in new : n.event = event /\ n.relatedTicketId = subject /\ n.userId \in R
                     /\ n = Row(n.userId, subject, event, tellings + 1)
  BY DEF Row
<1>3. ASSUME NEW u \in R  PROVE \E n \in new : n.userId = u
  <2>1. Row(u, subject, event, tellings + 1) \in new  OBVIOUS
  <2>2. Row(u, subject, event, tellings + 1).userId = u  BY DEF Row
  <2>. QED  BY <2>1, <2>2
<1>. HIDE DEF new
<1>4. Told(event)' = Told(event) \cup R
  <2>1. ASSUME NEW u \in Told(event)'  PROVE u \in Told(event) \cup R
    <3>1. PICK n \in rows' : n.event = event /\ n.userId = u  BY <2>1 DEF Told
    <3>. QED  BY <3>1, <1>1, <1>2 DEF Told
  <2>2. ASSUME NEW u \in Told(event)  PROVE u \in Told(event)'
    <3>1. PICK n \in rows : n.event = event /\ n.userId = u  BY <2>2 DEF Told
    <3>. QED  BY <3>1, <1>1 DEF Told
  <2>3. ASSUME NEW u \in R  PROVE u \in Told(event)'
    <3>1. PICK n \in new : n.userId = u  BY <1>3
    <3>. QED  BY <3>1, <1>1, <1>2 DEF Told
  <2>. QED  BY <2>1, <2>2, <2>3
<1>5. ASSUME NEW x, x # event  PROVE Told(x)' = Told(x)
  <2>1. {m \in rows' : m.event = x} = {m \in rows : m.event = x}  BY <1>1, <1>2, <1>5
  <2>. QED  BY <2>1 DEF Told
<1>. QED  BY <1>1, <1>2, <1>4, <1>5

\* A second run tells the same people again of what they were told of.
LEMMA RunKeepsTold ==
  ASSUME TicketInv, NEW c \in Commands, Run(c), FirstRun(c) \/ SecondRun(c)
  PROVE  EveryoneIsTold'
<1>. DEFINE own == [event |-> c.id, by |-> c.actor]
            ct == c.ticketId
            R == Recipients(c.actor, ticket[ct].userId)
<1>1. ct \in TicketIds /\ Exists(ct) /\ Notify(R, ct, c.id)  BY RunFacts
<1>2. R = Audience(ct, own)  BY DEF Recipients, RoleOf, Audience
<1>3. \A t \in TicketIds : \A d : Audience(t, d)' = Audience(t, d)
  BY RunKeepsTickets DEF Audience
<1>4. \A t \in TicketIds : Exists(t)' <=> Exists(t)  BY RunKeepsTickets
<1>5. \A t \in TicketIds : Exists(t) => \A d \in Doings(t) : Told(d.event) = Audience(t, d)
  BY DEF TicketInv, EveryoneIsTold, Told, Audience
<1>6. Told(c.id)' = R
  <2>1. Told(c.id)' = Told(c.id) \cup R  BY <1>1, NotifyTells
  <2>2. CASE FirstRun(c)
    <3>1. \A n \in rows : n.event # c.id
      BY <2>2, IdIsMinted DEF TicketInv, IdsAreOfThePast
    <3>2. Told(c.id) = {}  BY <3>1 DEF Told
    <3>. QED  BY <2>1, <3>2
  <2>3. CASE SecondRun(c)
    <3>1. own \in Doings(ct)  BY <2>3 DEF SecondRun, TicketInv, PendingAreDone
    <3>2. Told(own.event) = Audience(ct, own)  BY <3>1, <1>1, <1>5
    <3>. QED  BY <2>1, <3>2, <1>2
  <2>. QED  BY <2>2, <2>3
<1>7. ASSUME NEW t \in TicketIds, Exists(t)', NEW d \in Doings(t)'
      PROVE  Told(d.event)' = Audience(t, d)'
  <2>1. Exists(t)  BY <1>7, <1>4
  <2>2. CASE d = own /\ t = ct  BY <2>2, <1>2, <1>3, <1>6, <1>1
  <2>3. CASE d \in Doings(t) /\ d.event # c.id
    <3>1. Told(d.event)' = Told(d.event)  BY <2>3, <1>1, NotifyTells
    <3>. QED  BY <3>1, <2>1, <2>3, <1>3, <1>5
  <2>4. CASE d \in Doings(t) /\ d.event = c.id
    <3>1. SecondRun(c)
      <4>1. d.event <= minted
        BY <2>1, <2>4 DEF Doings, TicketInv, IdsAreOfThePast
      <4>. QED  BY <4>1, <2>4, IdIsMinted
    <3>2. own \in Doings(ct)  BY <3>1 DEF SecondRun, TicketInv, PendingAreDone
    <3>3. Told(own.event) = Audience(ct, own)  BY <3>2, <1>1, <1>5
    <3>4. Told(d.event) = Audience(t, d)  BY <2>1, <2>4, <1>5
    <3>5. Audience(t, d) = R  BY <3>3, <3>4, <2>4, <1>2
    <3>. QED  BY <3>5, <2>4, <1>3, <1>6
  <2>5. d \in Doings(t) \/ (t = ct /\ d = own)  BY RunKeepsDoings, <1>7
  <2>. QED  BY <2>2, <2>3, <2>4, <2>5
<1>8. ASSUME NEW n \in rows'
      PROVE  /\ Exists(n.relatedTicketId)'
             /\ \E d \in Doings(n.relatedTicketId)' : d.event = n.event
  <2>1. CASE n \in rows
    <3>1. Exists(n.relatedTicketId) /\ \E d \in Doings(n.relatedTicketId) : d.event = n.event
      BY <2>1 DEF TicketInv, EveryoneIsTold
    <3>2. n.relatedTicketId \in TicketIds
      BY <2>1 DEF TicketInv, IdsAreOfThePast
    <3>3. PICK d \in Doings(n.relatedTicketId) : d.event = n.event  BY <3>1
    <3>4. d \in Doings(n.relatedTicketId)' \/ (d.event = c.id /\ n.relatedTicketId = ct)
      BY <3>2, <3>3, RunKeepsDoings
    <3>5. own \in Doings(ct)' /\ own.event = c.id  BY RunKeepsDoings
    <3>. QED  BY <3>1, <3>2, <3>3, <3>4, <3>5, <1>4
  <2>2. CASE n.event = c.id /\ n.relatedTicketId = ct
    <3>1. own \in Doings(ct)' /\ own.event = c.id  BY RunKeepsDoings
    <3>. QED  BY <3>1, <2>2, <1>1, <1>4
  <2>. QED  BY <2>1, <2>2, <1>1, NotifyTells
<1>9. ASSUME NEW n \in rows', NEW m \in rows', n.userId = m.userId, n.event = m.event
      PROVE  n = m \/ \E x \in ranTwice' : x.id = n.event
  <2>1. CASE n \in rows /\ m \in rows
    <3>1. n = m \/ \E x \in ranTwice : x.id = n.event
      BY <2>1, <1>9 DEF TicketInv, EveryoneIsTold
    <3>2. ranTwice \subseteq ranTwice'  BY DEF FirstRun, SecondRun
    <3>. QED  BY <3>1, <3>2
  <2>2. CASE n.event = c.id /\ SecondRun(c)  BY <2>2 DEF SecondRun
  <2>3. CASE n.event = c.id /\ FirstRun(c)
    <3>1. n \notin rows /\ m \notin rows
      <4>1. \A x \in rows : x.event \in Nat /\ x.event <= minted
        BY DEF TicketInv, IdsAreOfThePast
      <4>2. c.id \in Nat /\ minted \in Nat /\ c.id > minted  BY <2>3, IdIsMinted
      <4>. QED  BY <4>1, <4>2, <2>3, <1>9
    <3>2. n = Row(n.userId, ct, c.id, tellings + 1) /\ m = Row(m.userId, ct, c.id, tellings + 1)
      BY <3>1, <1>1, NotifyTells
    <3>. QED  BY <3>2, <1>9
  <2>4. n.event = c.id \/ (n \in rows /\ m \in rows)  BY <1>1, <1>9, NotifyTells
  <2>. QED  BY <2>1, <2>2, <2>3, <2>4
<1>. QED  BY <1>7, <1>8, <1>9 DEF EveryoneIsTold, Told, Audience

\* All of it.
LEMMA RunKeepsTicketInv ==
  ASSUME TicketInv, NEW c \in Commands, Run(c), FirstRun(c) \/ SecondRun(c)
  PROVE  TicketInv'
<1>1. DeskShapes' /\ TicketsOK'  BY RunKeepsShapes
<1>2. IdsAreOfThePast'  BY RunKeepsIds
<1>3. PendingAreDone'  BY RunKeepsPending
<1>4. ActivityExplainsStatus'  BY RunKeepsExplained
<1>5. TransitionsAreInformed'  BY RunKeepsInformed
<1>6. MatchedCommandsRunOnce'  BY RunKeepsMatched
<1>7. EveryoneIsTold'  BY RunKeepsTold
<1>. QED  BY <1>1, <1>2, <1>3, <1>4, <1>5, <1>6, <1>7 DEF TicketInv

-----------------------------------------------------------------------------
(* The steps.                                                               *)

\* A ticket that is opened has no past but its opening.
LEMMA OpenKeepsTicketInv ==
  ASSUME TicketInv, NEW u \in Readers, NEW t \in TicketIds, OpenTicket(u, t)
  PROVE  TicketInv'
<1>. PICK k : k = minted + 1  OBVIOUS
<1>. DEFINE new == [status |-> "open", userId |-> u, version |-> 1, event |-> k]
<1>1. /\ ~Exists(t)
      /\ ticket' = [ticket EXCEPT ![t] = new]
      /\ was' = [was EXCEPT ![t] = [v \in {1} |-> "open"]]
      /\ minted' = k /\ k = minted + 1
      /\ Notify(Recipients(u, u), t, k)
      /\ UNCHANGED <<activity, replies, pending, ranTwice>>
  BY DEF OpenTicket
<1>2. /\ minted \in Nat
      /\ ticket \in [TicketIds -> TicketRecords]
      /\ was = [s \in TicketIds |-> was[s]]
      /\ pending \subseteq Commands
  BY DEF TicketInv, DeskShapes
<1>3. new \in TicketRecords  BY <1>2 DEF TicketRecords, TicketStatuses
<1>4. /\ ticket'[t] = new /\ \A s \in TicketIds : s # t => ticket'[s] = ticket[s]
      /\ ticket' \in [TicketIds -> TicketRecords]
  BY <1>1, <1>2, <1>3
<1>5. /\ was'[t] = [v \in {1} |-> "open"] /\ \A s \in TicketIds : s # t => was'[s] = was[s]
      /\ was' = [s \in TicketIds |-> was'[s]]
  BY <1>1, <1>2
<1>6. Exists(t)' /\ \A s \in TicketIds : s # t => (Exists(s)' <=> Exists(s))
  BY <1>4 DEF Exists
<1>7. activity[t] = {} /\ replies[t] = {}  BY <1>1 DEF TicketInv, TicketsOK
<1>8. DeskShapes'  BY <1>1, <1>2, <1>4, <1>5 DEF TicketInv, DeskShapes
<1>9. TicketsOK'
  <2>1. was'[t] \in [1..ticket'[t].version -> TicketStatuses]
        /\ was'[t][ticket'[t].version] = ticket'[t].status
    BY <1>4, <1>5 DEF TicketStatuses
  <2>2. ASSUME NEW s \in TicketIds
        PROVE  /\ Exists(s)' =>
                    /\ ticket'[s].version > 0
                    /\ ticket'[s].userId \in Readers
                    /\ was'[s] \in [1..ticket'[s].version -> TicketStatuses]
                    /\ was'[s][ticket'[s].version] = ticket'[s].status
               /\ ~Exists(s)' => activity'[s] = {} /\ replies'[s] = {}
    <3>1. CASE s = t
      <4>1. ticket'[s].version = 1 /\ ticket'[s].userId = u  BY <3>1, <1>4
      <4>2. was'[s] \in [1..ticket'[s].version -> TicketStatuses]
            /\ was'[s][ticket'[s].version] = ticket'[s].status
        BY <3>1, <2>1
      <4>. QED  BY <4>1, <4>2, <3>1, <1>6
    <3>2. CASE s # t
      BY <3>2, <1>1, <1>4, <1>5, <1>6 DEF TicketInv, TicketsOK
    <3>. QED  BY <3>1, <3>2
  <2>. QED  BY <2>2 DEF TicketsOK
<1>10. \A n \in rows' :
         n \in rows \/ (n.event = k /\ n.relatedTicketId = t
                        /\ n = Row(n.userId, t, k, tellings + 1))
  BY <1>1, NotifyTells
<1>11. IdsAreOfThePast'
  <2>1. \A s \in TicketIds : ticket[s].event \in Nat
        /\ (\A e \in activity[s] : e.id \in Nat) /\ (\A p \in replies[s] : p.id \in Nat)
    BY DEF TicketInv, DeskShapes, TicketRecords, Entries, Posts
  <2>2. \A s \in TicketIds : Exists(s)' => ticket'[s].event <= minted'
    BY <2>1, <1>1, <1>2, <1>4, <1>6 DEF TicketInv, IdsAreOfThePast
  <2>3. /\ \A s \in TicketIds : \A e \in activity'[s] : e.id <= minted'
        /\ \A s \in TicketIds : \A p \in replies'[s] : p.id <= minted'
    BY <2>1, <1>1, <1>2 DEF TicketInv, IdsAreOfThePast
  <2>4. \A n \in rows' :
          n.event \in Nat /\ n.event <= minted' /\ n.relatedTicketId \in TicketIds
    BY <1>1, <1>2, <1>10 DEF TicketInv, IdsAreOfThePast
  <2>. QED  BY <2>2, <2>3, <2>4 DEF IdsAreOfThePast
<1>12. \A s \in TicketIds : s # t => Doings(s)' = Doings(s)
  BY <1>1, <1>4 DEF Doings
<1>13. Doings(t)' = {[event |-> k, by |-> u]}
  BY <1>1, <1>4, <1>7 DEF Doings
<1>14. PendingAreDone'
  <2>1. ASSUME NEW c \in pending
        PROVE  /\ Exists(c.ticketId)'
               /\ [event |-> c.id, by |-> c.actor] \in Doings(c.ticketId)'
               /\ c.ifMatch # 0 =>
                    c.kind = "transition" /\ c.ifMatch < ticket'[c.ticketId].version
    <3>1. c.ticketId \in TicketIds /\ c.ticketId # t
      BY <1>1, <1>2 DEF TicketInv, PendingAreDone, Commands
    <3>. QED  BY <3>1, <1>4, <1>6, <1>12 DEF TicketInv, PendingAreDone
  <2>. QED  BY <2>1, <1>1 DEF TicketInv, PendingAreDone
<1>15. ActivityExplainsStatus'
  <2>. SUFFICES ASSUME NEW s \in TicketIds, Exists(s)', RanOnce(s)'
                PROVE  Explained(s)'
    BY DEF ActivityExplainsStatus, Explained
  <2>1. CASE s = t  BY <2>1, <1>1, <1>4, <1>7 DEF Explained
  <2>2. CASE s # t
    <3>1. Explained(s)
      BY <2>2, <1>1, <1>6 DEF TicketInv, ActivityExplainsStatus, Explained, RanOnce
    <3>. QED  BY <3>1, <2>2, <1>1, <1>4 DEF Explained
  <2>. QED  BY <2>1, <2>2
<1>16. TransitionsAreInformed' /\ MatchedCommandsRunOnce'
  BY <1>1 DEF TicketInv, TransitionsAreInformed, MatchedCommandsRunOnce
<1>17. EveryoneIsTold'
  <2>1. \A n \in rows : n.event \in Nat /\ n.event <= minted /\ n.relatedTicketId \in TicketIds
    BY DEF TicketInv, IdsAreOfThePast
  <2>2. Told(k)' = Coordinators
    <3>1. Recipients(u, u) = Coordinators
      BY CoordinatorsReadElsewhere DEF Recipients, RoleOf
    <3>2. Told(k) = {}  BY <2>1, <1>2 DEF Told
    <3>3. Notify(Coordinators, t, k)  BY <3>1, <1>1
    <3>4. Told(k)' = Told(k) \cup Coordinators  BY <3>3, NotifyTells
    <3>. QED  BY <3>2, <3>4
  <2>3. ASSUME NEW s \in TicketIds, Exists(s)', NEW d \in Doings(s)'
        PROVE  Told(d.event)' = Audience(s, d)'
    <3>1. CASE s = t
      <4>1. d.event = k /\ d.by = u  BY <3>1, <2>3, <1>13
      <4>2. u \notin Coordinators  BY CoordinatorsReadElsewhere
      <4>3. Audience(s, d)' = Coordinators  BY <4>1, <4>2 DEF Audience
      <4>4. Told(d.event)' = Told(k)'  BY <4>1, <1>1
      <4>. QED  BY <4>3, <4>4, <2>2
    <3>2. CASE s # t
      <4>1. Exists(s) /\ d \in Doings(s)  BY <3>2, <2>3, <1>6, <1>12
      <4>2. Told(d.event) = Audience(s, d)
        BY <4>1 DEF TicketInv, EveryoneIsTold, Told, Audience
      <4>3. d.event <= minted
        BY <4>1 DEF Doings, TicketInv, IdsAreOfThePast
      <4>4. Told(d.event)' = Told(d.event)  BY <4>3, <1>1, <1>2, NotifyTells
      <4>5. Audience(s, d)' = Audience(s, d)  BY <3>2, <1>4 DEF Audience
      <4>. QED  BY <4>2, <4>4, <4>5
    <3>. QED  BY <3>1, <3>2
  <2>4. ASSUME NEW n \in rows'
        PROVE  /\ Exists(n.relatedTicketId)'
               /\ \E d \in Doings(n.relatedTicketId)' : d.event = n.event
    <3>1. CASE n \in rows
      <4>1. Exists(n.relatedTicketId) /\ \E d \in Doings(n.relatedTicketId) : d.event = n.event
        BY <3>1 DEF TicketInv, EveryoneIsTold
      <4>2. n.relatedTicketId \in TicketIds /\ n.relatedTicketId # t  BY <3>1, <4>1, <2>1, <1>1
      <4>. QED  BY <4>1, <4>2, <1>6, <1>12
    <3>2. CASE n.event = k /\ n.relatedTicketId = t  BY <3>2, <1>6, <1>13
    <3>. QED  BY <3>1, <3>2, <1>10
  <2>5. ASSUME NEW n \in rows', NEW m \in rows', n.userId = m.userId, n.event = m.event
        PROVE  n = m \/ \E x \in ranTwice' : x.id = n.event
    <3>1. CASE n \in rows /\ m \in rows
      BY <3>1, <2>5, <1>1 DEF TicketInv, EveryoneIsTold
    <3>2. CASE n \notin rows \/ m \notin rows
      <4>1. n.event = k  BY <3>2, <2>5, <1>10
      <4>2. n \notin rows /\ m \notin rows  BY <4>1, <2>1, <2>5, <1>2
      <4>3. n = Row(n.userId, t, k, tellings + 1)
            /\ m = Row(m.userId, t, k, tellings + 1)
        BY <4>2, <1>10
      <4>. QED  BY <4>3, <2>5
    <3>. QED  BY <3>1, <3>2
  <2>. QED  BY <2>3, <2>4, <2>5 DEF EveryoneIsTold, Told, Audience
<1>. QED  BY <1>8, <1>9, <1>11, <1>14, <1>15, <1>16, <1>17 DEF TicketInv

\* A command that is sent is a first run.
LEMMA CommandKeepsTicketInv ==
  ASSUME TicketInv, NEW u \in Actors, CommandOf(u)
  PROVE  \E c \in Commands : Send(c) /\ Run(c) /\ TicketInv'
<1>1. minted \in Nat  BY DEF TicketInv, DeskShapes
<1>2. ASSUME NEW t \in TicketIds, NEW to \in TicketStatuses, NEW ifMatch \in 0..ticket[t].version,
             TransitionTicket(u, t, to, ifMatch)
      PROVE  \E c \in Commands : Send(c) /\ FirstRun(c)
  <2>. DEFINE c == Command("transition", minted + 1, u, t, to, ifMatch)
  <2>1. ifMatch \in Nat
    <3>1. ticket[t].version \in Nat  BY DEF TicketInv, DeskShapes, TicketRecords
    <3>. QED  BY <3>1
  <2>2. c \in Commands /\ c.id = minted + 1 /\ c.kind = "transition"
    BY <1>1, <2>1 DEF Command, Commands
  <2>3. Acknowledged(c) \/ Unacknowledged(c)  BY <1>2 DEF TransitionTicket
  <2>. HIDE DEF c
  <2>4. Send(c) /\ FirstRun(c)
    BY <2>2, <2>3 DEF Acknowledged, Unacknowledged, Send, FirstRun
  <2>. QED  BY <2>2, <2>4
<1>3. ASSUME NEW t \in TicketIds, PostTicketReply(u, t)
      PROVE  \E c \in Commands : Send(c) /\ FirstRun(c)
  <2>. DEFINE c == Command("reply", minted + 1, u, t, "open", 0)
  <2>1. c \in Commands /\ c.id = minted + 1 /\ c.kind = "reply" /\ c.ifMatch = 0
    BY <1>1 DEF Command, Commands, TicketStatuses
  <2>2. Acknowledged(c) \/ Unacknowledged(c)  BY <1>3 DEF PostTicketReply
  <2>. HIDE DEF c
  <2>3. Send(c) /\ FirstRun(c)
    BY <2>1, <2>2 DEF Acknowledged, Unacknowledged, Send, FirstRun
  <2>. QED  BY <2>1, <2>3
<1>4. PICK c \in Commands : Send(c) /\ FirstRun(c)  BY <1>2, <1>3 DEF CommandOf
<1>5. Run(c)  BY <1>4 DEF Send
<1>. QED  BY <1>4, <1>5, RunKeepsTicketInv

\* The tickets' invariant is about nothing but their documents and the rows.
LEMMA TicketsUnchanged ==
  ASSUME TicketInv, UNCHANGED <<ticket, was, activity, replies, minted, ranTwice, rows>>,
         pending' \subseteq pending
  PROVE  TicketInv'
<1>1. /\ DeskShapes' /\ TicketsOK' /\ IdsAreOfThePast'
  BY DEF TicketInv, DeskShapes, TicketsOK, IdsAreOfThePast, Exists
<1>2. PendingAreDone'  BY DEF TicketInv, PendingAreDone, Exists, Doings
<1>3. ActivityExplainsStatus' /\ TransitionsAreInformed' /\ MatchedCommandsRunOnce'
  BY DEF TicketInv, ActivityExplainsStatus, TransitionsAreInformed, MatchedCommandsRunOnce,
         RanOnce, Exists
<1>4. EveryoneIsTold'  BY DEF TicketInv, EveryoneIsTold, Exists, Doings
<1>. QED  BY <1>1, <1>2, <1>3, <1>4 DEF TicketInv

\* There are no tickets at the start.
LEMMA TicketsInitInv == TicketsInit => TicketInv
<1>. SUFFICES ASSUME TicketsInit PROVE TicketInv  OBVIOUS
<1>1. \A t \in TicketIds : ticket[t] = Absent /\ ~Exists(t) /\ activity[t] = {} /\ replies[t] = {}
  BY DEF TicketsInit, Absent, Exists
<1>2. Absent \in TicketRecords  BY DEF Absent, TicketRecords
<1>3. DeskShapes  BY <1>2 DEF TicketsInit, DeskShapes
<1>4. TicketsOK /\ IdsAreOfThePast /\ PendingAreDone
  BY <1>1 DEF TicketsInit, InboxInit, TicketsOK, IdsAreOfThePast, PendingAreDone
<1>5. ActivityExplainsStatus /\ TransitionsAreInformed /\ MatchedCommandsRunOnce /\ EveryoneIsTold
  BY <1>1 DEF TicketsInit, InboxInit, ActivityExplainsStatus, TransitionsAreInformed,
              MatchedCommandsRunOnce, EveryoneIsTold
<1>. QED  BY <1>3, <1>4, <1>5 DEF TicketInv

=============================================================================
