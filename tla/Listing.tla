-------------------------------- MODULE Listing --------------------------------
(* What Placement promises to those who apply, without semesters, profiles, *)
(* drafts, verifications, sentinels or notifications: an opportunity is on  *)
(* offer in one stretch of time, an application is filed within it, once    *)
(* per student, under an id of its own, and stays as it was filed.          *)
CONSTANTS Students, Opportunities, InternshipIds

VARIABLES
  stage,  \* of each opportunity: "not yet" on offer, "on offer", or "over"
  filed   \* the applications

vars == <<stage, filed>>

Init ==
  /\ stage = [o \in Opportunities |-> "not yet"]
  /\ filed = {}

Publish(o) ==
  /\ stage[o] = "not yet"
  /\ stage' = [stage EXCEPT ![o] = "on offer"]
  /\ UNCHANGED filed

\* Without having been on offer, too.
End(o) ==
  /\ stage[o] # "over"
  /\ stage' = [stage EXCEPT ![o] = "over"]
  /\ UNCHANGED filed

File(i, s, o) ==
  /\ stage[o] = "on offer"
  /\ \A other \in filed :
       other.id # i /\ ~(other.userId = s /\ other.opportunityId = o)
  /\ filed' = filed \cup {[id |-> i, userId |-> s, opportunityId |-> o]}
  /\ UNCHANGED stage

Next ==
  \/ \E o \in Opportunities : Publish(o) \/ End(o)
  \/ \E i \in InternshipIds, s \in Students, o \in Opportunities : File(i, s, o)

Spec == Init /\ [][Next]_vars

=============================================================================
