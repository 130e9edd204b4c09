---------------------------- MODULE DocumentedOffer ----------------------------
(* What AttachmentUpload promises to the coordinator who opens the document *)
(* of an offer, without browser tabs, signed URLs, storage events, polling, *)
(* clean-ups or transactions run again: a document can be opened only once  *)
(* its bytes are stored, an offer goes to review only with such a document  *)
(* and keeps it for good, and whatever is dropped is handed to the purge in *)
(* the same step.  A document that was dropped may be announced once more,  *)
(* but only as long as no bytes were stored for it.                         *)
EXTENDS Naturals

CONSTANT AttachmentIds

VARIABLES
  stage,      \* "student", "coordinator" (under review), "decided" or "withdrawn"
  document,   \* of each document: "absent", "uploading", "finalized" or "deleted"
  announced,  \* how often each document was announced
  bytes,      \* the documents whose bytes are in the bucket
  purging     \* the announcements to be purged: <<document, which announcement of it>>

vars == <<stage, document, announced, bytes, purging>>

Init ==
  /\ stage = "student"
  /\ document = [a \in AttachmentIds |-> "absent"]
  /\ announced = [a \in AttachmentIds |-> 0]
  /\ bytes = {}
  /\ purging = {}

Announce(a) ==
  /\ document[a] \in {"absent", "deleted"}
  /\ a \notin bytes
  /\ document' = [document EXCEPT ![a] = "uploading"]
  /\ announced' = [announced EXCEPT ![a] = @ + 1]
  /\ UNCHANGED <<stage, bytes, purging>>

\* Also when the document has been dropped meanwhile.
Store(a) ==
  /\ document[a] # "absent"
  /\ bytes' = bytes \cup {a}
  /\ UNCHANGED <<stage, document, announced, purging>>

Finalize(a) ==
  /\ document[a] = "uploading"
  /\ a \in bytes
  /\ document' = [document EXCEPT ![a] = "finalized"]
  /\ UNCHANGED <<stage, announced, bytes, purging>>

Drop(a) ==
  /\ stage = "student"
  /\ document[a] \in {"uploading", "finalized"}
  /\ document' = [document EXCEPT ![a] = "deleted"]
  /\ purging' = purging \cup {<<a, announced[a]>>}
  /\ UNCHANGED <<stage, announced, bytes>>

Submit ==
  /\ stage = "student"
  /\ \E a \in AttachmentIds : document[a] = "finalized"
  /\ stage' = "coordinator"
  /\ UNCHANGED <<document, announced, bytes, purging>>

Decide(next) ==
  /\ stage = "coordinator"
  /\ stage' = next
  /\ UNCHANGED <<document, announced, bytes, purging>>

Withdraw ==
  /\ stage \in {"student", "coordinator"}
  /\ stage' = "withdrawn"
  /\ UNCHANGED <<document, announced, bytes, purging>>

Next ==
  \/ \E a \in AttachmentIds : Announce(a) \/ Store(a) \/ Finalize(a) \/ Drop(a)
  \/ Submit
  \/ \E next \in {"student", "decided"} : Decide(next)
  \/ Withdraw

Spec == Init /\ [][Next]_vars

-----------------------------------------------------------------------------
\* Whoever reviews the offer, or looks up why it was decided, has a document to open
\* whose present announcement is not handed to the purge.  (An earlier announcement of
\* the same document may be, from before it had any bytes.)
ReviewsHaveDocuments ==
  stage \in {"coordinator", "decided"} =>
    \E a \in AttachmentIds :
      /\ document[a] = "finalized"
      /\ a \in bytes
      /\ <<a, announced[a]>> \notin purging

=============================================================================
