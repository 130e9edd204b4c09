----------------------------- MODULE SupportTickets -----------------------------
(* Support tickets: opening one, its transitions, with or without If-Match, *)
(* its replies, and the notifications all of these write.                   *)
(*                                                                          *)
(* A command is one Firestore transaction, so one step.  When its           *)
(* acknowledgement is lost the SDK runs the handler again, on the documents *)
(* as they are by then, with the id of the activity entry or the reply it   *)
(* minted before the transaction.  Opening is not run again to any effect:  *)
(* the ticket is written with `create`.                                     *)
EXTENDS Inbox

CONSTANTS
  TicketIds,     \* ids of tickets: never reused
  Coordinators,  \* the users whose role is 'coordinator', all provisioned
  MaxCommands,   \* bound: the commands that are sent
  MaxPending     \* bound: the commands with a lost acknowledgement at a time

ASSUME CoordinatorsReadElsewhere == Coordinators \cap Readers = {}

VARIABLES
  ticket,    \* the tickets collection
  was,       \* the statuses of each ticket, by version: history, for what If-Match names
  activity,  \* the activity subcollection of each ticket
  replies,   \* the replies subcollection of each ticket
  minted,    \* the ids minted so far by the commands that were carried out
  pending,   \* the commands carried out whose acknowledgement was lost
  ranTwice   \* the commands that took effect twice: history

deskVars == <<ticket, was, activity, replies, minted, pending, ranTwice>>

TicketStatuses == {"open", "in_progress", "resolved", "closed"}

Absent == [status |-> "absent", userId |-> NoReader, version |-> 0, event |-> 0]

Exists(t) == ticket[t].status # "absent"

RoleOf(u) == IF u \in Coordinators THEN "coordinator" ELSE "student-owner"

-----------------------------------------------------------------------------
(* Who may do what, and who is told.                                        *)

\* ALLOWED_TRANSITIONS
AllowedRoles(from, to) ==
  CASE from = "open" /\ to = "in_progress" -> {"coordinator"}
    [] from = "in_progress" /\ to = "resolved" -> {"coordinator"}
    [] from \in {"open", "in_progress", "resolved"} /\ to = "closed" ->
         {"student-owner", "coordinator"}
    [] from \in {"resolved", "closed"} /\ to = "open" -> {"student-owner"}
    [] OTHER -> {}

\* requireSelfOrRole(actor, ticket.userId, ['coordinator'])
MayHandle(u, t) == Exists(t) /\ (u \in Coordinators \/ ticket[t].userId = u)

\* Everybody but the actor who has to do with the ticket is told (EveryoneIsTold).
WrongRecipients(u, owner) == (Coordinators \cup {owner}) \ {u}

\* A student's doings are told to every coordinator, a coordinator's to the owner.
Recipients(u, owner) == IF RoleOf(u) = "coordinator" THEN {owner} ELSE Coordinators

-----------------------------------------------------------------------------
(* POST /tickets                                                            *)

OpenTicket(u, t) ==
  /\ minted < MaxCommands
  /\ ~Exists(t)
  /\ ticket' = [ticket EXCEPT ![t] = [status |-> "open", userId |-> u, version |-> 1,
                                      event |-> minted + 1]]
  /\ was' = [was EXCEPT ![t] = [v \in {1} |-> "open"]]
  /\ minted' = minted + 1
  /\ Notify(Recipients(u, u), t, minted + 1)
  /\ UNCHANGED <<activity, replies, pending, ranTwice, sweep, page>>

-----------------------------------------------------------------------------
(* Transitions and replies, as what one run of the handler does with a      *)
(* command.  `ifMatch` is the version the If-Match header names, 0 without. *)

Command(kind, id, u, t, to, ifMatch) ==
  [kind |-> kind, id |-> id, actor |-> u, ticketId |-> t, to |-> to, ifMatch |-> ifMatch]

\* An ETag of the past is good as long as the status is as it was (TransitionsAreInformed).
WrongMatches(t, ifMatch) == ifMatch = 0 \/ ifMatch <= ticket[t].version

Matches(t, ifMatch) == ifMatch = 0 \/ ifMatch = ticket[t].version

Entry(c) ==
  [id |-> c.id, at |-> ticket[c.ticketId].version + 1, from |-> ticket[c.ticketId].status,
   to |-> c.to, actor |-> c.actor, ifMatch |-> c.ifMatch,
   seen |-> IF c.ifMatch = 0 THEN "nothing" ELSE was[c.ticketId][c.ifMatch]]

Moved(t, to) ==
  [status |-> to, userId |-> ticket[t].userId, version |-> ticket[t].version + 1,
   event |-> ticket[t].event]

MayTransition(c) ==
  /\ MayHandle(c.actor, c.ticketId)
  /\ Matches(c.ticketId, c.ifMatch)
  /\ RoleOf(c.actor) \in AllowedRoles(ticket[c.ticketId].status, c.to)

\* The activity entry is written with `set`: a second run overwrites the first.
WriteEntry(c) ==
  activity' = [activity EXCEPT ![c.ticketId] =
                 {e \in activity[c.ticketId] : e.id # c.id} \cup {Entry(c)}]

\* The version is not rotated (ActivityExplainsStatus).
WrongSaveTransition(c) ==
  /\ ticket' = [ticket EXCEPT ![c.ticketId] =
                  [status |-> c.to, userId |-> ticket[c.ticketId].userId,
                   version |-> ticket[c.ticketId].version, event |-> ticket[c.ticketId].event]]
  /\ WriteEntry(c)
  /\ UNCHANGED <<was, replies>>

SaveTransition(c) ==
  /\ ticket' = [ticket EXCEPT ![c.ticketId] = Moved(c.ticketId, c.to)]
  /\ was' = [was EXCEPT ![c.ticketId] =
               [v \in 1..(ticket[c.ticketId].version + 1) |->
                  IF v <= ticket[c.ticketId].version THEN was[c.ticketId][v] ELSE c.to]]
  /\ WriteEntry(c)
  /\ UNCHANGED replies

\* Only updatedAt of the ticket changes: a reply does not rotate the version.
SaveReply(c) ==
  /\ replies' = [replies EXCEPT ![c.ticketId] = @ \cup {[id |-> c.id, authorUserId |-> c.actor]}]
  /\ UNCHANGED <<ticket, was, activity>>

MayRun(c) ==
  \/ c.kind = "transition" /\ MayTransition(c)
  \/ c.kind = "reply" /\ MayHandle(c.actor, c.ticketId)

\* The handler, to the commit.
Run(c) ==
  /\ MayRun(c)
  /\ \/ c.kind = "transition" /\ SaveTransition(c)
     \/ c.kind = "reply" /\ SaveReply(c)
  /\ Notify(Recipients(c.actor, ticket[c.ticketId].userId), c.ticketId, c.id)
  /\ UNCHANGED <<sweep, page>>

-----------------------------------------------------------------------------
(* Commands sent by clients, and commands run again.                        *)

Send(c) ==
  /\ minted < MaxCommands
  /\ Run(c)
  /\ minted' = minted + 1
  /\ UNCHANGED ranTwice

Acknowledged(c) == Send(c) /\ UNCHANGED pending

Unacknowledged(c) ==
  /\ Cardinality(pending) < MaxPending
  /\ Send(c)
  /\ pending' = pending \cup {c}

\* POST /tickets/{id}/transitions
TransitionTicket(u, t, to, ifMatch) ==
  LET c == Command("transition", minted + 1, u, t, to, ifMatch)
  IN  Acknowledged(c) \/ Unacknowledged(c)

\* POST /tickets/{id}/replies
PostTicketReply(u, t) ==
  LET c == Command("reply", minted + 1, u, t, "open", 0)
  IN  Acknowledged(c) \/ Unacknowledged(c)

\* If-Match is checked before the transaction, once (MatchedCommandsRunOnce).
WrongAgain(c) == Command(c.kind, c.id, c.actor, c.ticketId, c.to, 0)

\* The second run gets the command as it was sent.
Again(c) == c

RunAgain(c) ==
  /\ Run(Again(c))
  /\ pending' = pending \ {c}
  /\ ranTwice' = ranTwice \cup {c}
  /\ UNCHANGED minted

\* 404, 412, 403 or 409 for a command that was carried out.
RefuseAgain(c) ==
  /\ ~MayRun(c)
  /\ pending' = pending \ {c}
  /\ UNCHANGED <<ticket, was, activity, replies, minted, ranTwice, inboxVars>>

-----------------------------------------------------------------------------
TicketsInit ==
  /\ InboxInit
  /\ ticket = [t \in TicketIds |-> Absent]
  /\ was = [t \in TicketIds |-> [v \in {} |-> "open"]]
  /\ activity = [t \in TicketIds |-> {}]
  /\ replies = [t \in TicketIds |-> {}]
  /\ minted = 0
  /\ pending = {}
  /\ ranTwice = {}

\* What goes on between a request and its answer, and without a request.
TicketsStep ==
  \/ \E c \in pending : RunAgain(c) \/ RefuseAgain(c)
  \/ InboxStep /\ UNCHANGED deskVars

\* The commands a user sends.
CommandOf(u) ==
  \/ \E t \in TicketIds, to \in TicketStatuses : \E ifMatch \in 0..ticket[t].version :
        TransitionTicket(u, t, to, ifMatch)
  \/ \E t \in TicketIds : PostTicketReply(u, t)

-----------------------------------------------------------------------------
(* Properties.                                                              *)

\* No transition of the ticket took effect twice.
RanOnce(t) == \A c \in ranTwice : c.ticketId = t => c.kind = "reply"

\* The activity of a ticket is an unbroken account of its status, one entry for each
\* version, unless a transition took effect twice: its second entry overwrites the
\* first, and the account has a gap.
ActivityExplainsStatus ==
  \A t \in TicketIds : Exists(t) /\ RanOnce(t) =>
    /\ \A v \in 2..ticket[t].version : \E e \in activity[t] : e.at = v
    /\ \A e \in activity[t] : e.at \in 2..ticket[t].version
    /\ \A e, d \in activity[t] :
         /\ e.at = d.at => e = d
         /\ e.at = d.at + 1 => e.from = d.to
    /\ \A e \in activity[t] :
         /\ e.at = 2 => e.from = "open"
         /\ e.at = ticket[t].version => e.to = ticket[t].status
    /\ ticket[t].version = 1 => ticket[t].status = "open"

\* A transition sent with If-Match is made on the status its author had read, though
\* student and coordinators race, and though a status may come back.
TransitionsAreInformed ==
  \A t \in TicketIds : \A e \in activity[t] : e.ifMatch # 0 => e.seen = e.from

\* A command with If-Match never takes effect twice: when the SDK runs it again after
\* a lost acknowledgement, the version it names is gone.
MatchedCommandsRunOnce == \A c \in ranTwice : c.ifMatch = 0

\* What happened to a ticket, by whom.
Doings(t) ==
  {[event |-> ticket[t].event, by |-> ticket[t].userId]}
    \cup {[event |-> e.id, by |-> e.actor] : e \in activity[t]}
    \cup {[event |-> p.id, by |-> p.authorUserId] : p \in replies[t]}

\* Whatever happened to a ticket was told to exactly those it concerns: to every
\* coordinator if it was the owner's doing, to the owner if it was a coordinator's.
\* It was told once, unless the command took effect twice; and nothing else was told.
EveryoneIsTold ==
  /\ \A t \in TicketIds : Exists(t) =>
       \A d \in Doings(t) :
         {n.userId : n \in {m \in rows : m.event = d.event}} =
           IF d.by \in Coordinators THEN {ticket[t].userId} ELSE Coordinators
  /\ \A n \in rows :
       /\ Exists(n.relatedTicketId)
       /\ \E d \in Doings(n.relatedTicketId) : d.event = n.event
  /\ \A n, m \in rows :
       n.userId = m.userId /\ n.event = m.event =>
         n = m \/ \E c \in ranTwice : c.id = n.event

=============================================================================
