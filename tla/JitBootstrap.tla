------------------------------ MODULE JitBootstrap ------------------------------
(* Requests of students at the edge: the token verified, the user looked up *)
(* by identity outside any transaction, and on the first request of a       *)
(* verified identity the user and its identity sentinel created in one      *)
(* transaction.  Coordinators are provisioned before they send anything, so *)
(* their lookups always find them.                                          *)
(*                                                                          *)
(* A user and its sentinel never change again once they are there, so a     *)
(* lookup that finds them can be taken together with the command it is for; *)
(* a lookup that finds nothing is stale at once, and a step of its own.     *)
(* A request that has created its user goes on like one that finds it.      *)
EXTENDS Naturals, FiniteSets

CONSTANTS
  Identities,  \* Firebase accounts with a student's address
  UserIds,     \* ids minted for users: never minted twice
  Requests,    \* the first requests that may be under way
  Nobody,      \* no identity
  NoUser       \* no user id

ASSUME AbsenceIsNoOne == Nobody \notin Identities /\ NoUser \notin UserIds

VARIABLES
  verified,  \* whether the identity provider has seen the address verified
  users,     \* the identity each users/{id} document carries, Nobody if there is none
  sentinel,  \* the userIdentities collection: the user id under each identity
  request    \* the requests whose lookup found nothing, from there to their answer

edgeVars == <<verified, users, sentinel, request>>

\* `user` is the user id the request has minted.
Request(phase, f, u) == [phase |-> phase, identity |-> f, user |-> u]

Idle == Request("idle", Nobody, NoUser)

\* The request is answered, whatever the answer.
Finish(r) == request' = [request EXCEPT ![r] = Idle]

-----------------------------------------------------------------------------
(* The identity provider.                                                   *)

VerifyEmail(f) ==
  /\ verified' = [verified EXCEPT ![f] = TRUE]
  /\ UNCHANGED <<users, sentinel, request>>

-----------------------------------------------------------------------------
(* The hydrator.                                                            *)

\* findByIdentity: the sentinel, then the user it names, which has to be there.
Lookup(f) == sentinel[f]

Finds(f) == Lookup(f) # NoUser /\ users[Lookup(f)] # Nobody

\* Another call of idGenerator.next() never gives the same id.
FreshId(u) == users[u] = Nobody /\ \A r \in Requests : request[r].user # u

\* Whether the address is verified is not asked (OneUserPerIdentity).
WrongMayBootstrap(f) == TRUE

\* The token attests it: a token from before the verification does not, and its
\* request goes on without a platform user, to be refused by every route.
MayBootstrap(f) == verified[f]

\* No sentinel: a user id is minted.
LookUpInVain(r, f) ==
  /\ request[r].phase = "idle"
  /\ Lookup(f) = NoUser
  /\ MayBootstrap(f)
  /\ \E u \in UserIds : FreshId(u) /\ request' = [request EXCEPT ![r] = Request("bootstrap", f, u)]
  /\ UNCHANGED <<verified, users, sentinel>>

\* Both documents are written with `create`.
IsNew(r) == users[request[r].user] = Nobody /\ sentinel[request[r].identity] = NoUser

\* The sentinel is written with `set`: the last request wins (ImplementsHelpDesk).
WrongInsertUser(r) ==
  /\ request[r].phase = "bootstrap"
  /\ users[request[r].user] = Nobody
  /\ users' = [users EXCEPT ![request[r].user] = request[r].identity]
  /\ sentinel' = [sentinel EXCEPT ![request[r].identity] = request[r].user]
  /\ UNCHANGED verified

InsertUser(r) ==
  /\ request[r].phase = "bootstrap"
  /\ IsNew(r)
  /\ users' = [users EXCEPT ![request[r].user] = request[r].identity]
  /\ sentinel' = [sentinel EXCEPT ![request[r].identity] = request[r].user]
  /\ UNCHANGED verified

Bootstrap(r) == InsertUser(r) /\ Finish(r)

\* The commit took effect and the SDK never learns of it: it runs again.
BootstrapUnacknowledged(r) == InsertUser(r) /\ UNCHANGED request

\* ALREADY_EXISTS: the request fails, though its identity has a user now.
LoseRace(r) ==
  /\ request[r].phase = "bootstrap"
  /\ ~IsNew(r)
  /\ Finish(r)
  /\ UNCHANGED <<verified, users, sentinel>>

\* Firestore does not answer, with the retries used up.
Drop(r) ==
  /\ request[r].phase # "idle"
  /\ Finish(r)
  /\ UNCHANGED <<verified, users, sentinel>>

-----------------------------------------------------------------------------
EdgeInit ==
  /\ verified = [f \in Identities |-> FALSE]
  /\ users = [u \in UserIds |-> Nobody]
  /\ sentinel = [f \in Identities |-> NoUser]
  /\ request = [r \in Requests |-> Idle]

Hydrate(r) ==
  \/ \E f \in Identities : LookUpInVain(r, f)
  \/ Bootstrap(r)
  \/ BootstrapUnacknowledged(r)
  \/ LoseRace(r)
  \/ Drop(r)

EdgeStep ==
  \/ \E f \in Identities : VerifyEmail(f)
  \/ \E r \in Requests : Hydrate(r)

-----------------------------------------------------------------------------
(* Properties.                                                              *)

RequestRecords ==
  [phase : {"idle", "bootstrap"}, identity : Identities \cup {Nobody},
   user : UserIds \cup {NoUser}]

EdgeTypeOK ==
  /\ verified \in [Identities -> BOOLEAN]
  /\ users \in [UserIds -> Identities \cup {Nobody}]
  /\ sentinel \in [Identities -> UserIds \cup {NoUser}]
  /\ request \in [Requests -> RequestRecords]
  /\ \A r \in Requests :
       request[r].phase # "idle" => request[r].identity \in Identities /\ request[r].user \in UserIds

\* An identity has one platform user, once its address is verified, however many
\* first requests race: users and sentinels name each other.
OneUserPerIdentity ==
  /\ \A f \in Identities :
       sentinel[f] # NoUser => users[sentinel[f]] = f /\ verified[f]
  /\ \A u \in UserIds : users[u] # Nobody => sentinel[users[u]] = u

=============================================================================
