------------------------------- MODULE SupportDesk -------------------------------
(* The support desk as its users meet it: every request of a student is     *)
(* hydrated by JitBootstrap and then carries out one command of             *)
(* SupportTickets or Inbox as the user the hydrator named.  Coordinators'   *)
(* requests always find their user.                                         *)
EXTENDS JitBootstrap, SupportTickets

CONSTANT Acting  \* bound: the coordinators who send commands; the others are only told

ASSUME InboxesOfStudents == Readers = UserIds /\ NoReader = NoUser

ASSUME CoordinatorsAct == Acting \subseteq Coordinators

VARIABLE openedBy  \* the identity whose request opened each ticket: history

vars == <<edgeVars, deskVars, inboxVars, openedBy>>

\* What a request of an identity does once it is hydrated as a user.
OpensTicket(f, u, t) ==
  /\ OpenTicket(u, t)
  /\ openedBy' = [openedBy EXCEPT ![t] = f]

ReadsInbox(u) ==
  \/ OpenPage(u)
  \/ \E n \in unread : ClickMarkRead(u, n) \/ MarkReadElsewhere(u, n)
  \/ \E w \in Sweeps : StartMarkAll(w, u)

StudentDoes(f, u) ==
  \/ \E t \in TicketIds : OpensTicket(f, u, t)
  \/ CommandOf(u) /\ UNCHANGED openedBy
  \/ ReadsInbox(u) /\ UNCHANGED <<deskVars, openedBy>>

\* A request of a student that finds, or has just created, its user.
StudentRequest(f) == Finds(f) /\ StudentDoes(f, Lookup(f)) /\ UNCHANGED edgeVars

CoordinatorRequest(c) == CommandOf(c) /\ UNCHANGED <<edgeVars, openedBy>>

-----------------------------------------------------------------------------
Init ==
  /\ EdgeInit
  /\ TicketsInit
  /\ openedBy = [t \in TicketIds |-> Nobody]

Next ==
  \/ EdgeStep /\ UNCHANGED <<deskVars, inboxVars, openedBy>>
  \/ \E f \in Identities : StudentRequest(f)
  \/ \E c \in Acting : CoordinatorRequest(c)
  \/ TicketsStep /\ UNCHANGED <<edgeVars, openedBy>>

\* The handler runs on: nothing but its own transactions is waited for.
Fairness ==
  \A w \in Sweeps :
    WF_vars(\E batch \in SUBSET unread :
              NextBatch(w, batch) /\ UNCHANGED <<edgeVars, deskVars, openedBy>>)

Spec == Init /\ [][Next]_vars /\ Fairness

-----------------------------------------------------------------------------
(* Properties.                                                              *)

\* Every document keeps its shape.
DeskTypeOK ==
  /\ EdgeTypeOK
  /\ SweepsOK
  /\ PagesOK
  /\ \A t \in TicketIds : Exists(t) =>
       ticket[t].status \in TicketStatuses /\ ticket[t].userId \in UserIds

\* A ticket belongs to the platform user its author's identity has for good, although
\* the request that opened it may have raced to create that user: nobody is shut out
\* of the ticket they opened.
TicketsHaveAnOwner ==
  \A t \in TicketIds : Exists(t) => sentinel[openedBy[t]] = ticket[t].userId

-----------------------------------------------------------------------------
(* What students are promised: HelpDesk.                                    *)

Help == INSTANCE HelpDesk WITH
          account <- sentinel,
          author <- openedBy,
          owner <- [t \in TicketIds |-> ticket[t].userId],
          status <- [t \in TicketIds |-> ticket[t].status]

\* To a student all of this is a HelpDesk: whatever races to create the user, however
\* often a command takes effect, and though lookups and commands are transactions apart,
\* there is one account per identity, tickets stay with it, and no status is skipped.
ImplementsHelpDesk == Help!Spec

=============================================================================
