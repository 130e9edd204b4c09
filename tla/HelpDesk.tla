-------------------------------- MODULE HelpDesk --------------------------------
(* What SupportDesk promises to a student, without racing first requests,   *)
(* sentinels, versions, activity entries, commands that run twice, inboxes  *)
(* and notifications: a verified identity gets one account and keeps it, a  *)
(* ticket belongs to the account of the identity that opened it, and its    *)
(* status only moves as tickets may move.                                   *)
CONSTANTS
  Identities, UserIds, TicketIds,
  Nobody,  \* no identity
  NoUser   \* no account

VARIABLES
  verified,  \* whether the address of each identity has been verified
  account,   \* the account of each identity, NoUser if it has none
  author,    \* the identity that opened each ticket
  owner,     \* the account each ticket belongs to
  status     \* the status of each ticket, "absent" if there is none

vars == <<verified, account, author, owner, status>>

Init ==
  /\ verified = [f \in Identities |-> FALSE]
  /\ account = [f \in Identities |-> NoUser]
  /\ author = [t \in TicketIds |-> Nobody]
  /\ owner = [t \in TicketIds |-> NoUser]
  /\ status = [t \in TicketIds |-> "absent"]

Verify(f) ==
  /\ verified' = [verified EXCEPT ![f] = TRUE]
  /\ UNCHANGED <<account, author, owner, status>>

\* An account is somebody's only once.
Register(f, u) ==
  /\ verified[f]
  /\ account[f] = NoUser
  /\ \A g \in Identities : account[g] # u
  /\ account' = [account EXCEPT ![f] = u]
  /\ UNCHANGED <<verified, author, owner, status>>

Open(f, t) ==
  /\ account[f] # NoUser
  /\ status[t] = "absent"
  /\ author' = [author EXCEPT ![t] = f]
  /\ owner' = [owner EXCEPT ![t] = account[f]]
  /\ status' = [status EXCEPT ![t] = "open"]
  /\ UNCHANGED <<verified, account>>

Moves ==
  {<<"open", "in_progress">>, <<"in_progress", "resolved">>,
   <<"open", "closed">>, <<"in_progress", "closed">>, <<"resolved", "closed">>,
   <<"resolved", "open">>, <<"closed", "open">>}

Move(t, to) ==
  /\ <<status[t], to>> \in Moves
  /\ status' = [status EXCEPT ![t] = to]
  /\ UNCHANGED <<verified, account, author, owner>>

Next ==
  \/ \E f \in Identities :
       \/ Verify(f)
       \/ \E u \in UserIds : Register(f, u)
       \/ \E t \in TicketIds : Open(f, t)
  \/ \E t \in TicketIds : \E to \in {"open", "in_progress", "resolved", "closed"} : Move(t, to)

Spec == Init /\ [][Next]_vars

=============================================================================
