--------------------------- MODULE OfferLifecycle ---------------------------
(* What the Internship aggregate promises about an offer, without versions, *)
(* attachments or a timeline: the student and the coordinators take turns,  *)
(* every submission gets at most one answer, a coordinator answers nothing  *)
(* that was not submitted, and an approval, a rejection or a withdrawal     *)
(* ends it.                                                                 *)
EXTENDS Naturals, Sequences

VARIABLES
  stage,      \* whose turn it is: "student", "coordinator", or "closed"
  submitted,  \* how many times the offer was submitted
  answers     \* the decisions sent to the student, in order

vars == <<stage, submitted, answers>>

Answers == {"approved", "rejected", "changes_requested"}

Init == stage = "student" /\ submitted = 0 /\ answers = <<>>

Submit ==
  /\ stage = "student"
  /\ stage' = "coordinator"
  /\ submitted' = submitted + 1
  /\ UNCHANGED answers

Answer(decision) ==
  /\ stage = "coordinator"
  /\ stage' = IF decision = "changes_requested" THEN "student" ELSE "closed"
  /\ answers' = Append(answers, decision)
  /\ UNCHANGED submitted

Withdraw ==
  /\ stage \in {"student", "coordinator"}
  /\ stage' = "closed"
  /\ UNCHANGED <<submitted, answers>>

Next == Submit \/ (\E decision \in Answers : Answer(decision)) \/ Withdraw

Spec == Init /\ [][Next]_vars

=============================================================================
