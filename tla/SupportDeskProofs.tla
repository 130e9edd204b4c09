----------------------------- MODULE SupportDeskProofs -----------------------------
(* Proofs about the support desk, for any number of identities, requests,   *)
(* users, coordinators, tickets, commands and calls of mark-all.            *)
EXTENDS SupportDesk, SupportTicketsProofs

\* What the edge keeps: who has a user has a verified address, and so has every request
\* that is about to make one.
EdgeInv ==
  /\ EdgeTypeOK
  /\ OneUserPerIdentity
  /\ \A r \in Requests : request[r].phase # "idle" => verified[request[r].identity]

\* Tickets are opened by requests of identities.
OpenersOK ==
  /\ openedBy \in [TicketIds -> Identities \cup {Nobody}]
  /\ \A t \in TicketIds : Exists(t) => openedBy[t] \in Identities

IInv == EdgeInv /\ TicketInv /\ InboxInv /\ OpenersOK /\ TicketsHaveAnOwner

-----------------------------------------------------------------------------
(* The edge.                                                                *)

\* The record of a request, and an answered one.
LEMMA RequestTypes ==
  /\ Idle \in RequestRecords /\ Idle.phase = "idle"
  /\ \A f \in Identities, u \in UserIds :
       /\ Request("bootstrap", f, u) \in RequestRecords
       /\ Request("bootstrap", f, u).phase = "bootstrap"
       /\ Request("bootstrap", f, u).identity = f
       /\ Request("bootstrap", f, u).user = u
BY DEF Idle, Request, RequestRecords

\* Requests that end, or go on, leave the edge as it was.
LEMMA RequestsKeepEdge ==
  ASSUME EdgeInv, UNCHANGED <<verified, users, sentinel>>, NEW r \in Requests, NEW q \in RequestRecords,
         request' = [request EXCEPT ![r] = q],
         q.phase # "idle" => q.identity \in Identities /\ q.user \in UserIds /\ verified[q.identity]
  PROVE  EdgeInv'
<1>1. request \in [Requests -> RequestRecords]  BY DEF EdgeInv, EdgeTypeOK
<1>2. request'[r] = q /\ (\A p \in Requests : p # r => request'[p] = request[p])
      /\ request' \in [Requests -> RequestRecords]
  BY <1>1
<1>3. EdgeTypeOK'  BY <1>2 DEF EdgeInv, EdgeTypeOK, RequestRecords
<1>4. OneUserPerIdentity'  BY DEF EdgeInv, OneUserPerIdentity
<1>. QED  BY <1>2, <1>3, <1>4 DEF EdgeInv

\* A user and its sentinel are made together, and for an identity that had neither.
LEMMA InsertKeepsUsers ==
  ASSUME EdgeInv, NEW r \in Requests, InsertUser(r)
  PROVE  /\ verified' = verified
         /\ users' \in [UserIds -> Identities \cup {Nobody}]
         /\ sentinel' \in [Identities -> UserIds \cup {NoUser}]
         /\ OneUserPerIdentity'
         /\ \A f \in Identities : sentinel[f] # NoUser => sentinel'[f] = sentinel[f]
<1>. DEFINE f == request[r].identity
            u == request[r].user
<1>1. f \in Identities /\ u \in UserIds /\ verified[f]
  BY DEF InsertUser, EdgeInv, EdgeTypeOK
<1>2. /\ users[u] = Nobody /\ sentinel[f] = NoUser
      /\ users' = [users EXCEPT ![u] = f]
      /\ sentinel' = [sentinel EXCEPT ![f] = u]
      /\ verified' = verified
  BY DEF InsertUser, IsNew
<1>3. users \in [UserIds -> Identities \cup {Nobody}] /\ sentinel \in [Identities -> UserIds \cup {NoUser}]
  BY DEF EdgeInv, EdgeTypeOK
<1>4. /\ users'[u] = f /\ \A v \in UserIds : v # u => users'[v] = users[v]
      /\ sentinel'[f] = u /\ \A g \in Identities : g # f => sentinel'[g] = sentinel[g]
  BY <1>1, <1>2, <1>3
<1>5. ASSUME NEW g \in Identities, sentinel'[g] # NoUser
      PROVE  users'[sentinel'[g]] = g /\ verified'[g]
  <2>1. CASE g = f  BY <2>1, <1>1, <1>2, <1>4
  <2>2. CASE g # f
    <3>1. sentinel[g] \in UserIds /\ users[sentinel[g]] = g /\ verified[g]
      BY <2>2, <1>3, <1>4, <1>5 DEF EdgeInv, OneUserPerIdentity
    <3>2. sentinel[g] # u  BY <3>1, <1>2, AbsenceIsNoOne
    <3>. QED  BY <2>2, <3>1, <3>2, <1>2, <1>4
  <2>. QED  BY <2>1, <2>2
<1>6. ASSUME NEW v \in UserIds, users'[v] # Nobody
      PROVE  sentinel'[users'[v]] = v
  <2>1. CASE v = u  BY <2>1, <1>4
  <2>2. CASE v # u
    <3>1. users[v] \in Identities /\ sentinel[users[v]] = v /\ users'[v] = users[v]
      BY <2>2, <1>3, <1>4, <1>6 DEF EdgeInv, OneUserPerIdentity
    <3>2. users[v] # f  BY <3>1, <1>2, AbsenceIsNoOne
    <3>. QED  BY <3>1, <3>2, <1>4
  <2>. QED  BY <2>1, <2>2
<1>. QED  BY <1>1, <1>2, <1>3, <1>4, <1>5, <1>6 DEF OneUserPerIdentity

\* Every step of the edge keeps its invariant, and no identity loses the user it has.
LEMMA EdgeStepKeepsEdge ==
  ASSUME EdgeInv, EdgeStep
  PROVE  EdgeInv' /\ \A f \in Identities : sentinel[f] # NoUser => sentinel'[f] = sentinel[f]
<1>1. ASSUME NEW f \in Identities, VerifyEmail(f)
      PROVE  EdgeInv' /\ sentinel' = sentinel
  <2>1. verified' \in [Identities -> BOOLEAN] /\ \A g \in Identities : verified[g] => verified'[g]
    BY <1>1 DEF VerifyEmail, EdgeInv, EdgeTypeOK
  <2>2. UNCHANGED <<users, sentinel, request>>  BY <1>1 DEF VerifyEmail
  <2>3. EdgeTypeOK' /\ OneUserPerIdentity'
    BY <2>1, <2>2 DEF EdgeInv, EdgeTypeOK, OneUserPerIdentity
  <2>4. \A r \in Requests : request[r].phase # "idle" => request[r].identity \in Identities
    BY DEF EdgeInv, EdgeTypeOK
  <2>. QED  BY <2>1, <2>2, <2>3, <2>4 DEF EdgeInv
<1>2. ASSUME NEW r \in Requests, NEW f \in Identities, LookUpInVain(r, f)
      PROVE  EdgeInv' /\ sentinel' = sentinel
  <2>1. PICK u \in UserIds : request' = [request EXCEPT ![r] = Request("bootstrap", f, u)]
    BY <1>2 DEF LookUpInVain
  <2>2. verified[f] /\ UNCHANGED <<verified, users, sentinel>>
    BY <1>2 DEF LookUpInVain, MayBootstrap
  <2>3. EdgeInv'  BY <2>1, <2>2, RequestTypes, RequestsKeepEdge
  <2>. QED  BY <2>2, <2>3
<1>3. ASSUME NEW r \in Requests, Bootstrap(r) \/ BootstrapUnacknowledged(r)
      PROVE  EdgeInv' /\ \A f \in Identities : sentinel[f] # NoUser => sentinel'[f] = sentinel[f]
  <2>1. InsertUser(r) /\ request' \in {request, [request EXCEPT ![r] = Idle]}
    BY <1>3 DEF Bootstrap, BootstrapUnacknowledged, Finish
  <2>2. request \in [Requests -> RequestRecords]  BY DEF EdgeInv, EdgeTypeOK
  <2>3. /\ request' \in [Requests -> RequestRecords]
        /\ \A q \in Requests : request'[q].phase # "idle" => request'[q] = request[q]
    BY <2>1, <2>2, RequestTypes
  <2>4. verified' = verified  BY <2>1, InsertKeepsUsers
  <2>5. EdgeTypeOK'  BY <2>1, <2>3, <2>4, InsertKeepsUsers DEF EdgeInv, EdgeTypeOK
  <2>. QED  BY <2>1, <2>3, <2>4, <2>5, InsertKeepsUsers DEF EdgeInv
<1>4. ASSUME NEW r \in Requests, LoseRace(r) \/ Drop(r)
      PROVE  EdgeInv' /\ sentinel' = sentinel
  <2>1. request' = [request EXCEPT ![r] = Idle] /\ UNCHANGED <<verified, users, sentinel>>
    BY <1>4 DEF LoseRace, Drop, Finish
  <2>. QED  BY <2>1, RequestTypes, RequestsKeepEdge
<1>. QED  BY <1>1, <1>2, <1>3, <1>4 DEF EdgeStep, Hydrate

-----------------------------------------------------------------------------
(* The desk.                                                                *)

\* A request that finds its user acts as one.
LEMMA FoundIsUser ==
  ASSUME EdgeInv, NEW f \in Identities, Finds(f)
  PROVE  Lookup(f) \in Readers
BY InboxesOfStudents DEF EdgeInv, EdgeTypeOK, Finds, Lookup

\* Nothing of the tickets changes hands when commands run on them.
LEMMA RunKeepsOwners ==
  ASSUME IInv, NEW c \in Commands, Run(c), UNCHANGED <<edgeVars, openedBy>>
  PROVE  OpenersOK' /\ TicketsHaveAnOwner'
<1>1. \A t \in TicketIds : (Exists(t)' <=> Exists(t)) /\ ticket'[t].userId = ticket[t].userId
  BY RunKeepsTickets DEF IInv
<1>2. sentinel' = sentinel /\ openedBy' = openedBy  BY DEF edgeVars
<1>. QED  BY <1>1, <1>2 DEF IInv, OpenersOK, TicketsHaveAnOwner

\* A run of a command keeps the inbox.
LEMMA RunKeepsInbox ==
  ASSUME InboxInv, NEW c \in Commands, Run(c)
  PROVE  InboxInv'
<1>1. Notify(Recipients(c.actor, ticket[c.ticketId].userId), c.ticketId, c.id)
      /\ UNCHANGED <<sweep, page>>
  BY DEF Run
<1>. QED  BY <1>1, NotifyKeepsInbox

\* What users send about tickets there are.
LEMMA CommandKeepsIInv ==
  ASSUME IInv, NEW u \in Actors, CommandOf(u), UNCHANGED <<edgeVars, openedBy>>
  PROVE  IInv'
<1>1. PICK c \in Commands : Run(c) /\ TicketInv'  BY CommandKeepsTicketInv DEF IInv
<1>2. InboxInv'  BY <1>1, RunKeepsInbox DEF IInv
<1>3. OpenersOK' /\ TicketsHaveAnOwner'  BY <1>1, RunKeepsOwners
<1>4. EdgeInv'  BY DEF IInv, EdgeInv, EdgeTypeOK, OneUserPerIdentity, edgeVars
<1>. QED  BY <1>1, <1>2, <1>3, <1>4 DEF IInv

\* The edge, and what it keeps for the tickets.
LEMMA EdgeStepKeepsIInv ==
  ASSUME IInv, EdgeStep, UNCHANGED <<deskVars, inboxVars, openedBy>>
  PROVE  IInv'
<1>1. EdgeInv' /\ \A f \in Identities : sentinel[f] # NoUser => sentinel'[f] = sentinel[f]
  BY EdgeStepKeepsEdge DEF IInv
<1>2. UNCHANGED <<ticket, was, activity, replies, minted, pending, ranTwice, rows, openedBy>>
  BY DEF deskVars, inboxVars
<1>3. TicketInv'  BY <1>2, TicketsUnchanged DEF IInv
<1>4. InboxInv'  BY InboxUnchanged DEF IInv
<1>5. OpenersOK'  BY <1>2 DEF IInv, OpenersOK, Exists
<1>6. TicketsHaveAnOwner'
  <2>. SUFFICES ASSUME NEW t \in TicketIds, Exists(t)
                PROVE  sentinel'[openedBy[t]] = ticket[t].userId
    BY <1>2 DEF TicketsHaveAnOwner, Exists
  <2>1. openedBy[t] \in Identities /\ sentinel[openedBy[t]] = ticket[t].userId
    BY DEF IInv, OpenersOK, TicketsHaveAnOwner
  <2>2. ticket[t].userId # NoUser
    BY InboxesOfStudents, AbsenceIsNoOne DEF IInv, TicketInv, TicketsOK
  <2>. QED  BY <2>1, <2>2, <1>1
<1>. QED  BY <1>1, <1>3, <1>4, <1>5, <1>6 DEF IInv

\* A ticket is opened by the user the sentinel names.
LEMMA OpeningKeepsIInv ==
  ASSUME IInv, NEW f \in Identities, Finds(f), NEW t \in TicketIds, OpensTicket(f, Lookup(f), t),
         UNCHANGED edgeVars
  PROVE  IInv'
<1>. DEFINE u == Lookup(f)
<1>1. u \in Readers  BY FoundIsUser DEF IInv
<1>2. OpenTicket(u, t) /\ openedBy' = [openedBy EXCEPT ![t] = f]  BY DEF OpensTicket
<1>3. TicketInv'  BY <1>1, <1>2, OpenKeepsTicketInv DEF IInv
<1>4. InboxInv'
  <2>1. Notify(Recipients(u, u), t, minted + 1) /\ UNCHANGED <<sweep, page>>
    BY <1>2 DEF OpenTicket
  <2>. QED  BY <2>1, NotifyKeepsInbox DEF IInv
<1>5. EdgeInv' /\ sentinel' = sentinel
  BY DEF IInv, EdgeInv, EdgeTypeOK, OneUserPerIdentity, edgeVars
<1>6. ticket \in [TicketIds -> TicketRecords] /\ openedBy \in [TicketIds -> Identities \cup {Nobody}]
  BY DEF IInv, TicketInv, DeskShapes, OpenersOK
<1>7. /\ openedBy'[t] = f /\ \A s \in TicketIds : s # t => openedBy'[s] = openedBy[s]
      /\ openedBy' \in [TicketIds -> Identities \cup {Nobody}]
  BY <1>2, <1>6
<1>8. ticket'[t].userId = u /\ \A s \in TicketIds : s # t => ticket'[s] = ticket[s]
  BY <1>2, <1>6 DEF OpenTicket
<1>9. OpenersOK'  BY <1>7, <1>8 DEF IInv, OpenersOK, Exists
<1>10. TicketsHaveAnOwner'
  <2>1. sentinel[f] = u  BY DEF Lookup
  <2>. QED  BY <2>1, <1>5, <1>7, <1>8 DEF IInv, TicketsHaveAnOwner, Exists
<1>. QED  BY <1>3, <1>4, <1>5, <1>9, <1>10 DEF IInv

\* What happens in the inbox alone.
LEMMA InboxAloneKeepsIInv ==
  ASSUME IInv, InboxInv', rows' = rows, UNCHANGED <<edgeVars, deskVars, openedBy>>
  PROVE  IInv'
<1>1. UNCHANGED <<ticket, was, activity, replies, minted, pending, ranTwice>>  BY DEF deskVars
<1>2. TicketInv'  BY <1>1, TicketsUnchanged DEF IInv
<1>3. EdgeInv' /\ OpenersOK' /\ TicketsHaveAnOwner'
  BY <1>1 DEF IInv, EdgeInv, EdgeTypeOK, OneUserPerIdentity, edgeVars, OpenersOK,
              TicketsHaveAnOwner, Exists
<1>. QED  BY <1>2, <1>3 DEF IInv

\* Commands that run again, are refused, and what goes on in the inbox.
LEMMA TicketsStepKeepsIInv ==
  ASSUME IInv, TicketsStep, UNCHANGED <<edgeVars, openedBy>>
  PROVE  IInv'
<1>1. ASSUME NEW c \in pending, RunAgain(c) PROVE IInv'
  <2>1. c \in Commands  BY DEF IInv, TicketInv, DeskShapes
  <2>2. Run(c) /\ SecondRun(c)  BY <1>1 DEF RunAgain, Again, SecondRun
  <2>3. TicketInv'  BY <2>1, <2>2, RunKeepsTicketInv DEF IInv
  <2>4. InboxInv'  BY <2>1, <2>2, RunKeepsInbox DEF IInv
  <2>5. OpenersOK' /\ TicketsHaveAnOwner'  BY <2>1, <2>2, RunKeepsOwners
  <2>6. EdgeInv'  BY DEF IInv, EdgeInv, EdgeTypeOK, OneUserPerIdentity, edgeVars
  <2>. QED  BY <2>3, <2>4, <2>5, <2>6 DEF IInv
<1>2. ASSUME NEW c \in pending, RefuseAgain(c) PROVE IInv'
  <2>1. UNCHANGED <<ticket, was, activity, replies, minted, ranTwice, inboxVars>>
        /\ pending' \subseteq pending
    BY <1>2 DEF RefuseAgain
  <2>2. InboxInv' /\ rows' = rows  BY <2>1, InboxUnchanged DEF IInv, inboxVars
  <2>3. TicketInv'  BY <2>1, <2>2, TicketsUnchanged DEF IInv
  <2>4. EdgeInv' /\ OpenersOK' /\ TicketsHaveAnOwner'
    BY <2>1 DEF IInv, EdgeInv, EdgeTypeOK, OneUserPerIdentity, edgeVars, OpenersOK,
                TicketsHaveAnOwner, Exists
  <2>. QED  BY <2>2, <2>3, <2>4 DEF IInv
<1>3. ASSUME InboxStep, UNCHANGED deskVars PROVE IInv'
  <2>1. InboxInv'  BY <1>3, InboxStepKeepsInbox DEF IInv
  <2>2. rows' = rows
    BY <1>3 DEF InboxStep, NextBatch, MarkBatch, UnacknowledgedBatch, FailMarkAll,
                ReceiveMarkAll, LeavePage
  <2>. QED  BY <1>3, <2>1, <2>2, InboxAloneKeepsIInv
<1>. QED  BY <1>1, <1>2, <1>3 DEF TicketsStep

\* A request of a student.
LEMMA StudentKeepsIInv ==
  ASSUME IInv, NEW f \in Identities, StudentRequest(f)
  PROVE  IInv'
<1>. DEFINE u == Lookup(f)
<1>1. Finds(f) /\ StudentDoes(f, u) /\ UNCHANGED edgeVars  BY DEF StudentRequest
<1>2. u \in Readers  BY <1>1, FoundIsUser DEF IInv
<1>. HIDE DEF u
<1>3. CASE \E t \in TicketIds : OpensTicket(f, u, t)
  BY <1>1, <1>3, OpeningKeepsIInv DEF u
<1>4. CASE CommandOf(u) /\ UNCHANGED openedBy
  BY <1>1, <1>2, <1>4, CommandKeepsIInv DEF Actors
<1>5. CASE ReadsInbox(u) /\ UNCHANGED <<deskVars, openedBy>>
  <2>1. InboxInv'  BY <1>2, <1>5, ReaderKeepsInbox DEF IInv, ReadsInbox
  <2>2. rows' = rows
    BY <1>5 DEF ReadsInbox, OpenPage, ClickMarkRead, MarkReadElsewhere, StartMarkAll
  <2>. QED  BY <1>1, <1>5, <2>1, <2>2, InboxAloneKeepsIInv
<1>. QED  BY <1>1, <1>3, <1>4, <1>5 DEF StudentDoes

-----------------------------------------------------------------------------
(* The invariant.                                                           *)

\* The invariant holds at the start.
LEMMA InitIInv == Init => IInv
<1>. SUFFICES ASSUME Init PROVE IInv  OBVIOUS
<1>1. \A r \in Requests : request[r] = Idle  BY DEF Init, EdgeInit
<1>2. EdgeTypeOK
  BY <1>1, RequestTypes DEF Init, EdgeInit, EdgeTypeOK
<1>3. EdgeInv
  BY <1>1, <1>2, RequestTypes DEF Init, EdgeInit, EdgeInv, OneUserPerIdentity
<1>4. TicketInv  BY TicketsInitInv DEF Init
<1>5. InboxInv  BY InboxInitInv DEF Init, TicketsInit
<1>6. \A t \in TicketIds : ~Exists(t)  BY DEF Init, TicketsInit, Absent, Exists
<1>7. OpenersOK /\ TicketsHaveAnOwner  BY <1>6 DEF Init, OpenersOK, TicketsHaveAnOwner
<1>. QED  BY <1>3, <1>4, <1>5, <1>7 DEF IInv

\* The invariant is kept by every step.
LEMMA NextIInv == IInv /\ [Next]_vars => IInv'
<1>. SUFFICES ASSUME IInv, [Next]_vars PROVE IInv'  OBVIOUS
<1>1. CASE EdgeStep /\ UNCHANGED <<deskVars, inboxVars, openedBy>>
  BY <1>1, EdgeStepKeepsIInv
<1>2. ASSUME NEW f \in Identities, StudentRequest(f) PROVE IInv'
  BY <1>2, StudentKeepsIInv
<1>3. ASSUME NEW c \in Acting, CoordinatorRequest(c) PROVE IInv'
  BY <1>3, CoordinatorsAct, CommandKeepsIInv DEF CoordinatorRequest, Actors
<1>4. CASE TicketsStep /\ UNCHANGED <<edgeVars, openedBy>>
  BY <1>4, TicketsStepKeepsIInv
<1>5. CASE UNCHANGED vars
  <2>1. UNCHANGED <<edgeVars, deskVars, inboxVars, openedBy>>  BY <1>5 DEF vars
  <2>2. InboxInv' /\ rows' = rows  BY <2>1, InboxUnchanged DEF IInv, inboxVars
  <2>. QED  BY <2>1, <2>2, InboxAloneKeepsIInv
<1>. QED  BY <1>1, <1>2, <1>3, <1>4, <1>5 DEF Next

\* The inductive invariant holds throughout.
LEMMA InvariantHolds == Spec => []IInv
BY InitIInv, NextIInv, PTL DEF Spec

-----------------------------------------------------------------------------
(* Theorems.                                                                *)

\* Every document keeps its shape.
THEOREM TypeCorrect == Spec => []DeskTypeOK
<1>1. IInv => DeskTypeOK
  <2>. SUFFICES ASSUME IInv PROVE DeskTypeOK  OBVIOUS
  <2>1. EdgeTypeOK /\ SweepsOK /\ PagesOK  BY InboxInvGives DEF IInv, EdgeInv
  <2>2. \A t \in TicketIds : Exists(t) =>
          ticket[t].status \in TicketStatuses /\ ticket[t].userId \in UserIds
    BY InboxesOfStudents DEF IInv, TicketInv, DeskShapes, TicketsOK, TicketRecords, Exists
  <2>. QED  BY <2>1, <2>2 DEF DeskTypeOK
<1>. QED  BY <1>1, InvariantHolds, PTL

\* However many first requests race, an identity has one user, once it is verified.
THEOREM IdentitiesHaveOneUser == Spec => []OneUserPerIdentity
<1>1. IInv => OneUserPerIdentity  BY DEF IInv, EdgeInv
<1>. QED  BY <1>1, InvariantHolds, PTL

\* A ticket belongs to the user its author's identity has for good.
THEOREM TicketsKeepTheirOwner == Spec => []TicketsHaveAnOwner
<1>1. IInv => TicketsHaveAnOwner  BY DEF IInv
<1>. QED  BY <1>1, InvariantHolds, PTL

\* The activity of a ticket explains its status, unless a transition took effect twice.
THEOREM ActivityIsAnAccount == Spec => []ActivityExplainsStatus
<1>1. IInv => ActivityExplainsStatus  BY DEF IInv, TicketInv
<1>. QED  BY <1>1, InvariantHolds, PTL

\* A transition sent with If-Match is made on the status its author had read.
THEOREM TransitionsInformed == Spec => []TransitionsAreInformed
<1>1. IInv => TransitionsAreInformed  BY DEF IInv, TicketInv
<1>. QED  BY <1>1, InvariantHolds, PTL

\* A command with If-Match never takes effect twice.
THEOREM MatchedRunOnce == Spec => []MatchedCommandsRunOnce
<1>1. IInv => MatchedCommandsRunOnce  BY DEF IInv, TicketInv
<1>. QED  BY <1>1, InvariantHolds, PTL

\* What happens to a ticket is told to exactly those it concerns.
THEOREM ConcernedAreTold == Spec => []EveryoneIsTold
<1>1. IInv => EveryoneIsTold  BY DEF IInv, TicketInv
<1>. QED  BY <1>1, InvariantHolds, PTL

\* When mark-all answers, all that was unread when it was called is read.
THEOREM MarkAllIsThorough == Spec => []MarkAllLeavesNothingBehind
<1>1. IInv => MarkAllLeavesNothingBehind  BY InboxInvGives DEF IInv
<1>. QED  BY <1>1, InvariantHolds, PTL

\* The page shows no row as read that is not.
THEOREM PageIsTruthful == Spec => []ShownReadIsRead
<1>1. IInv => ShownReadIsRead  BY InboxInvGives DEF IInv
<1>. QED  BY <1>1, InvariantHolds, PTL

-----------------------------------------------------------------------------
(* What students are promised.                                              *)

Owner == [t \in TicketIds |-> ticket[t].userId]

Status == [t \in TicketIds |-> ticket[t].status]

\* A table of allowed moves, read either way.
LEMMA AllowedMoves ==
  ASSUME NEW from, NEW to \in TicketStatuses, NEW role, role \in AllowedRoles(from, to)
  PROVE  <<from, to>> \in Help!Moves
<1>1. CASE from = "open" /\ to = "in_progress"
  BY <1>1 DEF Help!Moves
<1>2. CASE from = "in_progress" /\ to = "resolved"
  BY <1>2 DEF Help!Moves
<1>3. CASE from \in {"open", "in_progress", "resolved"} /\ to = "closed"
  BY <1>3 DEF Help!Moves
<1>4. CASE from \in {"resolved", "closed"} /\ to = "open"
  BY <1>4 DEF Help!Moves
<1>5. \/ from = "open" /\ to = "in_progress"
      \/ from = "in_progress" /\ to = "resolved"
      \/ from \in {"open", "in_progress", "resolved"} /\ to = "closed"
      \/ from \in {"resolved", "closed"} /\ to = "open"
  BY DEF AllowedRoles
<1>. QED  BY <1>1, <1>2, <1>3, <1>4, <1>5

\* A command moves its ticket as tickets may move, or leaves status and owner alone.
LEMMA RunRefines ==
  ASSUME IInv, NEW c \in Commands, Run(c), UNCHANGED <<edgeVars, openedBy>>
  PROVE  [Help!Next]_Help!vars
<1>1. UNCHANGED <<verified, sentinel, openedBy>>  BY DEF edgeVars
<1>2. Owner' = Owner
  BY RunKeepsTickets DEF IInv, Owner
<1>3. CASE c.kind = "transition"
  <2>1. MayTransition(c) /\ SaveTransition(c)  BY <1>3 DEF Run, MayRun
  <2>2. c.ticketId \in TicketIds /\ c.to \in TicketStatuses  BY DEF Commands
  <2>3. ticket' = [ticket EXCEPT ![c.ticketId] = Moved(c.ticketId, c.to)]
    BY <2>1 DEF SaveTransition
  <2>4. ticket \in [TicketIds -> TicketRecords]  BY DEF IInv, TicketInv, DeskShapes
  <2>5. Moved(c.ticketId, c.to).status = c.to  BY DEF Moved
  <2>6. Status' = [Status EXCEPT ![c.ticketId] = c.to]
    BY <2>2, <2>3, <2>4, <2>5 DEF Status
  <2>7. <<Status[c.ticketId], c.to>> \in Help!Moves
    BY <2>1, <2>2, AllowedMoves DEF MayTransition, Status
  <2>8. Help!Move(c.ticketId, c.to)
    BY <1>1, <1>2, <2>6, <2>7 DEF Help!Move, Owner, Status
  <2>. QED  BY <2>2, <2>8 DEF Help!Next, TicketStatuses
<1>4. CASE c.kind = "reply"
  <2>1. ticket' = ticket  BY <1>4 DEF Run, SaveReply
  <2>. QED  BY <1>1, <2>1 DEF Help!vars
<1>. QED  BY <1>3, <1>4 DEF Commands

\* A commit that makes a user registers a verified identity under an id of its own.
LEMMA InsertRefines ==
  ASSUME IInv, NEW r \in Requests, InsertUser(r), UNCHANGED <<deskVars, openedBy>>
  PROVE  [Help!Next]_Help!vars
<1>. DEFINE f == request[r].identity
            u == request[r].user
<1>1. f \in Identities /\ u \in UserIds /\ verified[f]
  BY DEF InsertUser, IInv, EdgeInv, EdgeTypeOK
<1>2. /\ users[u] = Nobody /\ sentinel[f] = NoUser
      /\ sentinel' = [sentinel EXCEPT ![f] = u]
      /\ verified' = verified
  BY DEF InsertUser, IsNew
<1>3. \A g \in Identities : sentinel[g] # u
  <2>. SUFFICES ASSUME NEW g \in Identities, sentinel[g] = u PROVE FALSE  OBVIOUS
  <2>1. users[u] = g  BY <1>1, AbsenceIsNoOne DEF IInv, EdgeInv, OneUserPerIdentity
  <2>. QED  BY <2>1, <1>2, AbsenceIsNoOne
<1>4. Help!Register(f, u)
  BY <1>1, <1>2, <1>3 DEF Help!Register, deskVars
<1>. QED  BY <1>1, <1>4 DEF Help!Next

\* Of the edge, only the address and the new user matter.
LEMMA EdgeRefines ==
  ASSUME IInv, EdgeStep, UNCHANGED <<deskVars, openedBy>>
  PROVE  [Help!Next]_Help!vars
<1>1. ASSUME NEW f \in Identities, VerifyEmail(f) PROVE [Help!Next]_Help!vars
  <2>1. Help!Verify(f)  BY <1>1 DEF VerifyEmail, Help!Verify, deskVars
  <2>. QED  BY <2>1 DEF Help!Next
<1>2. ASSUME NEW r \in Requests, Bootstrap(r) \/ BootstrapUnacknowledged(r)
      PROVE  [Help!Next]_Help!vars
  BY <1>2, InsertRefines DEF Bootstrap, BootstrapUnacknowledged
<1>3. CASE UNCHANGED <<verified, sentinel>>
  BY <1>3 DEF Help!vars, deskVars
<1>. QED  BY <1>1, <1>2, <1>3 DEF EdgeStep, Hydrate, LookUpInVain, LoseRace, Drop

\* The user a request found, or has just made, opens the ticket: it is the account of
\* the identity.
LEMMA OpeningRefines ==
  ASSUME IInv, NEW f \in Identities, Finds(f), NEW t \in TicketIds, OpensTicket(f, Lookup(f), t),
         UNCHANGED edgeVars
  PROVE  [Help!Next]_Help!vars
<1>1. UNCHANGED <<verified, sentinel>> /\ sentinel[f] # NoUser
  BY DEF edgeVars, Finds, Lookup
<1>2. /\ ticket[t].status = "absent"
      /\ ticket' = [ticket EXCEPT ![t] = [status |-> "open", userId |-> sentinel[f],
                                          version |-> 1, event |-> minted + 1]]
      /\ openedBy' = [openedBy EXCEPT ![t] = f]
  BY DEF OpensTicket, OpenTicket, Exists, Lookup
<1>3. ticket \in [TicketIds -> TicketRecords]  BY DEF IInv, TicketInv, DeskShapes
<1>4. Owner' = [Owner EXCEPT ![t] = sentinel[f]] /\ Status' = [Status EXCEPT ![t] = "open"]
  BY <1>2, <1>3 DEF Owner, Status
<1>5. Help!Open(f, t)
  BY <1>1, <1>2, <1>4 DEF Help!Open, Owner, Status
<1>. QED  BY <1>5 DEF Help!Next

LEMMA StepsImplementHelpDesk ==
  ASSUME IInv, [Next]_vars
  PROVE  [Help!Next]_Help!vars
<1>1. ASSUME UNCHANGED <<verified, sentinel, openedBy, ticket>> PROVE [Help!Next]_Help!vars
  BY <1>1 DEF Help!vars
<1>2. CASE EdgeStep /\ UNCHANGED <<deskVars, inboxVars, openedBy>>
  BY <1>2, EdgeRefines
<1>3. ASSUME NEW u \in Actors, CommandOf(u), UNCHANGED <<edgeVars, openedBy>>
      PROVE  [Help!Next]_Help!vars
  BY <1>3, CommandKeepsTicketInv, RunRefines DEF IInv
<1>4. ASSUME NEW f \in Identities, StudentRequest(f) PROVE [Help!Next]_Help!vars
  <2>1. Finds(f) /\ StudentDoes(f, Lookup(f)) /\ UNCHANGED edgeVars  BY <1>4 DEF StudentRequest
  <2>2. Lookup(f) \in Actors  BY <2>1, FoundIsUser DEF IInv, Actors
  <2>3. CASE \E t \in TicketIds : OpensTicket(f, Lookup(f), t)
    BY <2>1, <2>3, OpeningRefines
  <2>4. CASE CommandOf(Lookup(f)) /\ UNCHANGED openedBy
    BY <2>1, <2>2, <2>4, <1>3
  <2>5. CASE UNCHANGED <<deskVars, openedBy>>
    BY <2>1, <2>5, <1>1 DEF edgeVars, deskVars
  <2>. QED  BY <2>1, <2>3, <2>4, <2>5 DEF StudentDoes
<1>5. ASSUME NEW c \in Acting, CoordinatorRequest(c) PROVE [Help!Next]_Help!vars
  BY <1>3, <1>5, CoordinatorsAct DEF CoordinatorRequest, Actors
<1>6. CASE TicketsStep /\ UNCHANGED <<edgeVars, openedBy>>
  <2>1. ASSUME NEW c \in pending, RunAgain(c) PROVE [Help!Next]_Help!vars
    <3>1. c \in Commands /\ Run(c)
      BY <2>1 DEF IInv, TicketInv, DeskShapes, RunAgain, Again
    <3>. QED  BY <1>6, <3>1, RunRefines
  <2>2. CASE UNCHANGED ticket
    BY <1>1, <1>6, <2>2 DEF edgeVars
  <2>. QED  BY <1>6, <2>1, <2>2 DEF TicketsStep, RefuseAgain, deskVars
<1>7. CASE UNCHANGED vars
  BY <1>1, <1>7 DEF vars, edgeVars, deskVars
<1>. QED  BY <1>2, <1>4, <1>5, <1>6, <1>7 DEF Next

\* To a student the whole desk is a HelpDesk: one account per verified identity, tickets
\* that stay with it, and statuses that move only as they may.
THEOREM DeskImplementsHelpDesk == Spec => ImplementsHelpDesk
<1>1. Init => Help!Init
  BY InboxesOfStudents DEF Init, EdgeInit, TicketsInit, Absent, Help!Init
<1>2. IInv /\ [Next]_vars => [Help!Next]_Help!vars
  BY StepsImplementHelpDesk
<1>. QED  BY <1>1, <1>2, InvariantHolds, PTL DEF Spec, ImplementsHelpDesk, Help!Spec

=============================================================================
