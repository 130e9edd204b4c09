----------------------- MODULE OpportunityDocumentsProofs -----------------------
(* Proofs about OpportunityDocuments, for any number of attachments, tabs,  *)
(* contents, commands and PUTs.                                             *)
EXTENDS OpportunityDocuments, TLAPS

Attachments == [state : {"none", "uploading", "finalized"}, gen : Nat]

Opportunities == [version : Nat \ {0}, status : Statuses, content : Contents]

TabRecords ==
  [phase : {"closed", "listing", "loaded"}, parent : Opportunities,
   attachments : [Files -> Attachments]]

Commands ==
  UNION { [kind : {"update"}, arg : Contents, ifMatch : Nat],
          [kind : {"transition"}, arg : {"published", "archived"}, ifMatch : Nat],
          [kind : {"verify"}, arg : {"published", "rejected"}, ifMatch : Nat],
          [kind : {"intent"}, arg : Files, ifMatch : Nat],
          [kind : {"remove"}, arg : Files, ifMatch : Nat] }

Events == [file : Files, gen : Nat \ {0}]

Purges == [id : Nat, file : Files, gen : Nat, of : Nat \ {0}]

\* The shapes of everything, the bucket's side and the database's.
Shapes ==
  /\ opp \in Opportunities
  /\ docs \in [Files -> Attachments]
  /\ purges \subseteq Purges
  /\ url \in [Files -> {"none", "live", "expired"}]
  /\ stored \in [Files -> Nat]
  /\ events \subseteq Events
  /\ tab \in [Tabs -> TabRecords]
  /\ recorded \in [Files -> Nat]

\* What an attachment, an event or a row of the purge queue says of the bucket is so.
Generations ==
  /\ \A f \in Files :
       \/ docs[f] \in {NoAttachment, Attachment("uploading", 0)}
       \/ docs[f].state = "finalized" /\ docs[f].gen \in 1..stored[f]
  /\ \A e \in events : e.gen \in 1..stored[e.file]
  /\ \A p \in purges : p.gen \in 0..stored[p.file]

\* A tab has read the past or the present; the present, if its version is the present one.
Readings ==
  \A k \in Tabs :
    /\ tab[k].phase # "closed" => tab[k].parent.version <= opp.version
    /\ tab[k].phase # "closed" /\ tab[k].parent.version = opp.version => tab[k].parent = opp
    /\ tab[k].phase = "loaded" /\ tab[k].parent.version = opp.version => tab[k].attachments = docs

\* Additions are numbered from one, and no row of the queue is of a future one.
Numbering ==
  /\ \A f \in Files : Attached(f) => recorded[f] > 0
  /\ \A p \in purges : p.of <= recorded[p.file]

\* All of it but the commands that may run again.
Core == Shapes /\ Generations /\ Readings /\ Numbering /\ PurgedOnce

IInv == Core /\ pending \subseteq Commands

-----------------------------------------------------------------------------
(* One run of a handler.                                                    *)

\* A save leaves every tab behind: none has read the version it makes.
LEMMA SaveLeavesTabsBehind ==
  ASSUME Shapes, Readings, NEW s \in Statuses, NEW t \in Contents, Save(s, t), tab' = tab
  PROVE  opp' \in Opportunities /\ Readings'
<1>1. opp' = Opportunity(opp.version + 1, s, t)  BY DEF Save
<1>2. opp.version \in Nat  BY DEF Shapes, Opportunities
<1>3. opp' \in Opportunities /\ opp'.version = opp.version + 1
  BY <1>1, <1>2 DEF Opportunities, Opportunity
<1>4. ASSUME NEW k \in Tabs, tab[k].phase # "closed"
      PROVE  tab[k].parent.version < opp'.version
  <2>1. tab[k].parent.version \in Nat  BY <1>4 DEF Shapes, TabRecords, Opportunities
  <2>. QED  BY <2>1, <1>2, <1>3, <1>4 DEF Readings
<1>5. ASSUME NEW k \in Tabs, tab[k].phase # "closed"
      PROVE  tab[k].parent.version \in Nat /\ opp'.version \in Nat
  BY <1>2, <1>3, <1>5 DEF Shapes, TabRecords, Opportunities
<1>. QED  BY <1>3, <1>4, <1>5 DEF Readings

\* What a save of the parent alone keeps.
LEMMA SaveKeepsCore ==
  ASSUME Core, NEW s \in Statuses, NEW t \in Contents, Save(s, t), AttachmentsStay,
         UNCHANGED <<url, stored, events, tab>>
  PROVE  Core'
<1>1. opp' \in Opportunities /\ Readings'  BY SaveLeavesTabsBehind DEF Core
<1>2. Shapes'  BY <1>1 DEF Core, Shapes, AttachmentsStay
<1>3. Generations'  BY DEF Core, Generations, AttachmentsStay
<1>4. Numbering'  BY DEF Core, Numbering, AttachmentsStay, Attached
<1>5. PurgedOnce'  BY DEF Core, PurgedOnce, AttachmentsStay, Attached
<1>. QED  BY <1>1, <1>2, <1>3, <1>4, <1>5 DEF Core

\* A recorded intent is one more addition, and the row of it is there.
LEMMA IntentKeepsCore ==
  ASSUME Core, NEW c \in Commands, RecordIntent(c), UNCHANGED <<url, stored, events, tab>>
  PROVE  Core'
<1>. DEFINE f == c.arg
<1>1. c.kind = "intent" /\ f \in Files  BY DEF RecordIntent, Commands
<1>2. opp.status \in Statuses /\ opp.content \in Contents
  BY DEF Core, Shapes, Opportunities
<1>3. opp' \in Opportunities /\ Readings'
  BY <1>2, SaveLeavesTabsBehind DEF Core, RecordIntent
<1>4. /\ docs' = [docs EXCEPT ![f] = Attachment("uploading", 0)]
      /\ recorded' = [recorded EXCEPT ![f] = recorded[f] + 1]
      /\ purges' = purges
      /\ ~Attached(f)
  BY DEF RecordIntent
<1>5. docs \in [Files -> Attachments] /\ recorded \in [Files -> Nat] /\ purges \subseteq Purges
  BY DEF Core, Shapes
<1>6. Attachment("uploading", 0) \in Attachments /\ Attachment("uploading", 0) # NoAttachment
  BY DEF Attachment, Attachments, NoAttachment
<1>7. /\ docs'[f] = Attachment("uploading", 0) /\ recorded'[f] = recorded[f] + 1
      /\ \A g \in Files \ {f} : docs'[g] = docs[g] /\ recorded'[g] = recorded[g]
      /\ recorded[f] \in Nat
  BY <1>1, <1>4, <1>5
<1>8. Shapes'  BY <1>1, <1>3, <1>4, <1>5, <1>6 DEF Core, Shapes
<1>9. Generations'  BY <1>4, <1>7 DEF Core, Generations
<1>10. \A p \in purges : p.file \in Files /\ p.of \in Nat /\ p.of <= recorded[p.file]
  BY <1>5 DEF Core, Numbering, Purges
<1>11. Numbering'  BY <1>4, <1>7, <1>10, <1>1 DEF Core, Numbering, Attached
<1>12. PurgedOnce'
  <2>1. ASSUME NEW g \in Files, NEW n \in 1..recorded'[g]
        PROVE  \/ Attached(g)' /\ n = recorded'[g]
               \/ \E p \in purges' : p.file = g /\ p.of = n
    <3>1. CASE g = f /\ n = recorded'[f]  BY <3>1, <1>6, <1>7 DEF Attached
    <3>2. CASE g = f /\ n # recorded'[f]
      <4>1. n \in 1..recorded[f]  BY <3>2, <2>1, <1>7
      <4>. QED  BY <4>1, <3>2, <1>1, <1>4 DEF Core, PurgedOnce
    <3>3. CASE g # f  BY <3>3, <2>1, <1>4, <1>7 DEF Core, PurgedOnce, Attached
    <3>. QED  BY <3>1, <3>2, <3>3
  <2>2. \A p, q \in purges' : p.file = q.file /\ p.of = q.of => p = q
    BY <1>4 DEF Core, PurgedOnce
  <2>3. ASSUME NEW p \in purges'  PROVE ~(Attached(p.file)' /\ p.of = recorded'[p.file])
    <3>1. CASE p.file = f  BY <3>1, <1>4, <1>7, <1>10
    <3>2. CASE p.file # f  BY <3>2, <1>4, <1>7, <1>10 DEF Core, PurgedOnce, Attached
    <3>. QED  BY <3>1, <3>2
  <2>. QED  BY <2>1, <2>2, <2>3 DEF PurgedOnce
<1>. QED  BY <1>3, <1>8, <1>9, <1>11, <1>12 DEF Core

\* A removal turns the row that is there into a row of the queue.
LEMMA RemovalKeepsCore ==
  ASSUME Core, NEW c \in Commands, RemoveAttachment(c), UNCHANGED <<url, stored, events, tab>>
  PROVE  Core'
<1>. DEFINE f == c.arg
            new == Purge(f)
<1>1. f \in Files  BY DEF RemoveAttachment, Commands
<1>2. opp.status \in Statuses /\ opp.content \in Contents /\ opp.version \in Nat
  BY DEF Core, Shapes, Opportunities
<1>3. opp' \in Opportunities /\ Readings'
  BY <1>2, SaveLeavesTabsBehind DEF Core, RemoveAttachment
<1>4. /\ docs' = [docs EXCEPT ![f] = NoAttachment]
      /\ purges' = purges \cup {new}
      /\ recorded' = recorded
      /\ Attached(f)
  BY DEF RemoveAttachment, MayRemove
<1>5. docs \in [Files -> Attachments] /\ recorded \in [Files -> Nat] /\ purges \subseteq Purges
      /\ stored \in [Files -> Nat]
  BY DEF Core, Shapes
<1>6. NoAttachment \in Attachments  BY DEF Attachment, Attachments, NoAttachment
<1>7. docs'[f] = NoAttachment /\ \A g \in Files \ {f} : docs'[g] = docs[g]
  BY <1>1, <1>4, <1>5
<1>8. recorded[f] \in Nat \ {0}  BY <1>1, <1>4, <1>5 DEF Core, Numbering
<1>9. new \in Purges /\ new.file = f /\ new.of = recorded[f] /\ new.gen = docs[f].gen
  BY <1>1, <1>2, <1>5, <1>8 DEF Purge, Purges, Attachments
<1>10. Shapes'  BY <1>1, <1>3, <1>4, <1>5, <1>6, <1>9 DEF Core, Shapes
<1>11. new.gen \in 0..stored[f]
  <2>1. stored[f] \in Nat  BY <1>1, <1>5
  <2>2. CASE docs[f] \in {NoAttachment, Attachment("uploading", 0)}
    BY <2>1, <2>2, <1>9 DEF NoAttachment, Attachment
  <2>3. CASE docs[f].gen \in 1..stored[f]  BY <2>1, <2>3, <1>9
  <2>. QED  BY <2>2, <2>3, <1>1 DEF Core, Generations
<1>12. Generations'
  <2>1. \A p \in purges' : p.gen \in 0..stored'[p.file]
    BY <1>4, <1>9, <1>11 DEF Core, Generations
  <2>. QED  BY <2>1, <1>7 DEF Core, Generations
<1>13. Numbering'
  <2>1. \A p \in purges' : p.of <= recorded'[p.file]
    BY <1>4, <1>8, <1>9 DEF Core, Numbering
  <2>. QED  BY <2>1, <1>4, <1>7 DEF Core, Numbering, Attached
<1>14. PurgedOnce'
  <2>1. ASSUME NEW g \in Files, NEW n \in 1..recorded'[g]
        PROVE  \/ Attached(g)' /\ n = recorded'[g]
               \/ \E p \in purges' : p.file = g /\ p.of = n
    <3>1. CASE g = f /\ n = recorded[f]  BY <3>1, <1>4, <1>9
    <3>2. CASE g = f /\ n # recorded[f]  BY <3>2, <2>1, <1>4 DEF Core, PurgedOnce
    <3>3. CASE g # f  BY <3>3, <2>1, <1>4, <1>7 DEF Core, PurgedOnce, Attached
    <3>. QED  BY <3>1, <3>2, <3>3
  <2>2. \A p \in purges : ~(p.file = f /\ p.of = recorded[f])
    BY <1>1, <1>4 DEF Core, PurgedOnce
  <2>3. \A p, q \in purges' : p.file = q.file /\ p.of = q.of => p = q
    BY <2>2, <1>4, <1>9 DEF Core, PurgedOnce
  <2>4. \A p \in purges' : ~(Attached(p.file)' /\ p.of = recorded'[p.file])
    <3>1. \A p \in purges' : p.file \in Files
      BY <1>4, <1>5, <1>9 DEF Purges
    <3>. QED  BY <3>1, <1>4, <1>7, <1>9 DEF Core, PurgedOnce, Attached
  <2>. QED  BY <2>1, <2>3, <2>4 DEF PurgedOnce
<1>. QED  BY <1>3, <1>10, <1>12, <1>13, <1>14 DEF Core

\* A run of any handler, the first or the second, keeps the invariant.
LEMMA RunKeepsCore ==
  ASSUME Core, NEW c \in Commands, Run(c), UNCHANGED <<url, stored, events, tab>>
  PROVE  Core'
<1>1. opp.status \in Statuses /\ opp.content \in Contents
  BY DEF Core, Shapes, Opportunities
<1>2. CASE UpdateOpportunity(c)
  <2>1. c.arg \in Contents  BY <1>2 DEF UpdateOpportunity, Commands
  <2>. QED  BY <2>1, <1>1, <1>2, SaveKeepsCore DEF UpdateOpportunity
<1>3. CASE TransitionOpportunity(c)
  <2>1. c.arg \in Statuses  BY <1>3 DEF TransitionOpportunity, IsAllowedTransition, Statuses
  <2>. QED  BY <2>1, <1>1, <1>3, SaveKeepsCore DEF TransitionOpportunity
<1>4. CASE VerifyOpportunity(c)
  <2>1. c.arg \in Statuses  BY <1>4 DEF VerifyOpportunity, Statuses
  <2>. QED  BY <2>1, <1>1, <1>4, SaveKeepsCore DEF VerifyOpportunity
<1>5. CASE RecordIntent(c)  BY <1>5, IntentKeepsCore
<1>6. CASE RemoveAttachment(c)  BY <1>6, RemovalKeepsCore
<1>. QED  BY <1>2, <1>3, <1>4, <1>5, <1>6 DEF Run

-----------------------------------------------------------------------------
(* The tabs, the bucket and the worker.                                     *)

\* A tab reads the parent, and later the attachments, as they are.
LEMMA ReadingKeepsCore ==
  ASSUME Core, NEW k \in Tabs, ReadParent(k) \/ ListAttachments(k)
  PROVE  Core'
<1>1. UNCHANGED <<opp, docs, purges, url, stored, events, recorded>>
  BY DEF ReadParent, ListAttachments
<1>2. tab \in [Tabs -> TabRecords] /\ opp \in Opportunities /\ docs \in [Files -> Attachments]
  BY DEF Core, Shapes
<1>3. \A j \in Tabs \ {k} : tab'[j] = tab[j]
  BY <1>2 DEF ReadParent, ListAttachments
<1>4. tab'[k] \in TabRecords /\ tab' \in [Tabs -> TabRecords]
  <2>1. CASE ReadParent(k)
    <3>1. Tab("listing", opp, tab[k].attachments) \in TabRecords  BY <1>2 DEF Tab, TabRecords
    <3>. QED  BY <2>1, <3>1, <1>2 DEF ReadParent
  <2>2. CASE ListAttachments(k)
    <3>1. Tab("loaded", tab[k].parent, docs) \in TabRecords  BY <1>2 DEF Tab, TabRecords
    <3>. QED  BY <2>2, <3>1, <1>2 DEF ListAttachments
  <2>. QED  BY <2>1, <2>2
<1>5. Readings'
  <2>1. CASE ReadParent(k)
    <3>1. tab'[k] = Tab("listing", opp, tab[k].attachments)  BY <2>1, <1>2 DEF ReadParent
    <3>2. tab'[k].phase = "listing" /\ tab'[k].parent = opp /\ opp.version \in Nat
      BY <3>1, <1>2 DEF Tab, Opportunities
    <3>. QED  BY <3>2, <1>1, <1>3 DEF Core, Readings
  <2>2. CASE ListAttachments(k)
    <3>1. tab'[k] = Tab("loaded", tab[k].parent, docs) /\ tab[k].phase = "listing"
      BY <2>2, <1>2 DEF ListAttachments
    <3>2. tab'[k].phase = "loaded" /\ tab'[k].parent = tab[k].parent /\ tab'[k].attachments = docs
      BY <3>1 DEF Tab
    <3>. QED  BY <3>1, <3>2, <1>1, <1>3 DEF Core, Readings
  <2>. QED  BY <2>1, <2>2
<1>6. Shapes'  BY <1>1, <1>4 DEF Core, Shapes
<1>7. Generations' /\ Numbering'  BY <1>1 DEF Core, Generations, Numbering, Attached
<1>8. PurgedOnce'  BY <1>1 DEF Core, PurgedOnce, Attached
<1>. QED  BY <1>5, <1>6, <1>7, <1>8 DEF Core

\* Signing, expiry and PUTs touch no document; a PUT makes a generation that is new.
LEMMA BucketKeepsCore ==
  ASSUME Core, NEW f \in Files, SignUrl(f) \/ ExpireUrl(f) \/ Put(f)
  PROVE  Core'
<1>1. UNCHANGED <<opp, docs, purges, tab, recorded>>  BY DEF SignUrl, ExpireUrl, Put
<1>2. Readings' /\ Numbering' /\ PurgedOnce'
  BY <1>1 DEF Core, Readings, Numbering, PurgedOnce, Attached
<1>3. CASE SignUrl(f) \/ ExpireUrl(f)
  <2>1. UNCHANGED <<stored, events>> /\ url' \in [Files -> {"none", "live", "expired"}]
    BY <1>3 DEF SignUrl, ExpireUrl, Core, Shapes
  <2>2. Shapes'  BY <2>1, <1>1 DEF Core, Shapes
  <2>3. Generations'  BY <2>1, <1>1 DEF Core, Generations
  <2>. QED  BY <2>2, <2>3, <1>2 DEF Core
<1>4. CASE Put(f)
  <2>1. /\ stored' = [stored EXCEPT ![f] = stored[f] + 1]
        /\ events' = events \cup {[file |-> f, gen |-> stored[f] + 1]}
        /\ url' = url
    BY <1>4 DEF Put
  <2>2. /\ stored \in [Files -> Nat] /\ events \subseteq Events /\ purges \subseteq Purges
        /\ docs \in [Files -> Attachments]
    BY DEF Core, Shapes
  <2>3. stored' \in [Files -> Nat] /\ stored'[f] = stored[f] + 1 /\ stored[f] \in Nat
        /\ \A g \in Files : stored[g] \in Nat /\ stored'[g] \in Nat /\ stored[g] <= stored'[g]
    BY <2>1, <2>2
  <2>4. [file |-> f, gen |-> stored[f] + 1] \in Events  BY <2>3 DEF Events
  <2>5. Shapes'  BY <2>1, <2>2, <2>3, <2>4, <1>1 DEF Core, Shapes
  <2>6. Generations'
    <3>1. ASSUME NEW g \in Files
          PROVE  \/ docs'[g] \in {NoAttachment, Attachment("uploading", 0)}
                 \/ docs'[g].state = "finalized" /\ docs'[g].gen \in 1..stored'[g]
      BY <2>3, <1>1 DEF Core, Generations
    <3>2. ASSUME NEW e \in events'  PROVE e.gen \in 1..stored'[e.file]
      <4>1. CASE e \in events
        <5>1. e.file \in Files  BY <4>1, <2>2 DEF Events
        <5>2. e.gen \in 1..stored[e.file]  BY <4>1 DEF Core, Generations
        <5>. QED  BY <5>1, <5>2, <2>3
      <4>2. CASE e = [file |-> f, gen |-> stored[f] + 1]  BY <4>2, <2>3
      <4>. QED  BY <3>2, <4>1, <4>2, <2>1
    <3>3. ASSUME NEW p \in purges'  PROVE p.gen \in 0..stored'[p.file]
      <4>1. p \in purges /\ p.file \in Files  BY <3>3, <1>1, <2>2 DEF Purges
      <4>2. p.gen \in 0..stored[p.file]  BY <4>1 DEF Core, Generations
      <4>. QED  BY <4>1, <4>2, <2>3
    <3>. QED  BY <3>1, <3>2, <3>3 DEF Generations
  <2>. QED  BY <2>5, <2>6, <1>2 DEF Core
<1>. QED  BY <1>3, <1>4

\* The worker finalizes a row that is there, with a generation that was stored.
LEMMA DeliveryKeepsCore ==
  ASSUME Core, NEW e \in events, Deliver(e)
  PROVE  Core'
<1>. DEFINE f == e.file
<1>1. f \in Files /\ e.gen \in Nat \ {0} /\ e.gen \in 1..stored[f]
  BY DEF Core, Shapes, Events, Generations
<1>2. /\ docs[f].state = "uploading"
      /\ docs' = [docs EXCEPT ![f] = Finalized(e.gen)]
      /\ Save(opp.status, opp.content)
      /\ UNCHANGED <<purges, url, stored, events, tab, recorded>>
  BY DEF Deliver, FinalizeAttachment
<1>3. opp.status \in Statuses /\ opp.content \in Contents  BY DEF Core, Shapes, Opportunities
<1>4. opp' \in Opportunities /\ Readings'  BY <1>2, <1>3, SaveLeavesTabsBehind DEF Core
<1>5. Finalized(e.gen) \in Attachments /\ Finalized(e.gen) # NoAttachment
      /\ Finalized(e.gen).state = "finalized" /\ Finalized(e.gen).gen = e.gen
  BY <1>1 DEF Finalized, Attachment, Attachments, NoAttachment
<1>6. docs \in [Files -> Attachments]  BY DEF Core, Shapes
<1>7. docs'[f] = Finalized(e.gen) /\ \A g \in Files \ {f} : docs'[g] = docs[g]
  BY <1>1, <1>2, <1>6
<1>8. \A g \in Files : Attached(g)' <=> Attached(g)
  BY <1>2, <1>5, <1>7 DEF Attached, NoAttachment, Attachment
<1>9. Shapes'  BY <1>1, <1>2, <1>4, <1>5, <1>6 DEF Core, Shapes
<1>10. Generations'  BY <1>1, <1>2, <1>5, <1>7 DEF Core, Generations
<1>11. Numbering'  BY <1>2, <1>8 DEF Core, Numbering
<1>12. PurgedOnce'
  <2>1. \A p \in purges : p.file \in Files  BY DEF Core, Shapes, Purges
  <2>. QED  BY <2>1, <1>2, <1>8 DEF Core, PurgedOnce
<1>. QED  BY <1>4, <1>9, <1>10, <1>11, <1>12 DEF Core

-----------------------------------------------------------------------------
(* The invariant.                                                           *)

\* The headers a client can send are versions, so what it sends is a command.
LEMMA WhatIsSent ==
  ASSUME Core,
         SendUpdate \/ SendTransition \/ SendVerification \/ SendIntent \/ SendRemoval
  PROVE  \E c \in Commands : Send(c)
<1>1. Headers \subseteq Nat
  BY DEF Headers, Core, Shapes, TabRecords, Opportunities
<1>2. CASE SendUpdate
  <2>1. PICK t \in Contents, e \in Headers : Send(Command("update", t, e))
    BY <1>2 DEF SendUpdate
  <2>2. Command("update", t, e) \in [kind : {"update"}, arg : Contents, ifMatch : Nat]
    BY <1>1 DEF Command
  <2>. QED  BY <2>1, <2>2 DEF Commands
<1>3. CASE SendTransition
  <2>1. PICK to \in {"published", "archived"}, e \in Headers : Send(Command("transition", to, e))
    BY <1>3 DEF SendTransition
  <2>2. Command("transition", to, e)
          \in [kind : {"transition"}, arg : {"published", "archived"}, ifMatch : Nat]
    BY <1>1 DEF Command
  <2>. QED  BY <2>1, <2>2 DEF Commands
<1>4. CASE SendVerification
  <2>1. PICK to \in {"published", "rejected"}, e \in Headers : Send(Command("verify", to, e))
    BY <1>4 DEF SendVerification
  <2>2. Command("verify", to, e)
          \in [kind : {"verify"}, arg : {"published", "rejected"}, ifMatch : Nat]
    BY <1>1 DEF Command
  <2>. QED  BY <2>1, <2>2 DEF Commands
<1>5. CASE SendIntent
  <2>1. PICK f \in Files : Send(Command("intent", f, 0))  BY <1>5 DEF SendIntent
  <2>2. Command("intent", f, 0) \in [kind : {"intent"}, arg : Files, ifMatch : Nat]
    BY DEF Command
  <2>. QED  BY <2>1, <2>2 DEF Commands
<1>6. CASE SendRemoval
  <2>1. PICK f \in Files : Send(Command("remove", f, 0))  BY <1>6 DEF SendRemoval
  <2>2. Command("remove", f, 0) \in [kind : {"remove"}, arg : Files, ifMatch : Nat]
    BY DEF Command
  <2>. QED  BY <2>1, <2>2 DEF Commands
<1>. QED  BY <1>2, <1>3, <1>4, <1>5, <1>6

\* The invariant holds at the start.
LEMMA InitIInv == Init => IInv
<1>. SUFFICES ASSUME Init PROVE IInv  OBVIOUS
<1>1. NoAttachment \in Attachments  BY DEF NoAttachment, Attachment, Attachments
<1>2. PICK status \in {"draft", "pending_verification"} : opp = Opportunity(1, status, Initial)
  BY DEF Init
<1>3. opp \in Opportunities
  BY <1>2, InitialIsContent DEF Opportunity, Opportunities, Statuses
<1>4. docs \in [Files -> Attachments] /\ \A f \in Files : docs[f] = NoAttachment
  BY <1>1 DEF Init
<1>5. Tab("closed", opp, docs) \in TabRecords /\ Tab("closed", opp, docs).phase = "closed"
  BY <1>3, <1>4 DEF Tab, TabRecords
<1>6. Shapes  BY <1>3, <1>4, <1>5 DEF Init, Shapes
<1>7. Generations /\ Numbering /\ PurgedOnce
  BY <1>4 DEF Init, Generations, Numbering, PurgedOnce, Attached
<1>8. Readings  BY <1>5 DEF Init, Readings
<1>. QED  BY <1>6, <1>7, <1>8 DEF Init, IInv, Core

\* The invariant is kept by every step.
LEMMA NextIInv == IInv /\ [Next]_vars => IInv'
<1>. SUFFICES ASSUME IInv, [Next]_vars PROVE IInv'  OBVIOUS
<1>1. ASSUME NEW k \in Tabs, ReadParent(k) \/ ListAttachments(k) PROVE IInv'
  <2>1. pending' = pending  BY <1>1 DEF ReadParent, ListAttachments
  <2>. QED  BY <1>1, <2>1, ReadingKeepsCore DEF IInv
<1>2. ASSUME SendUpdate \/ SendTransition \/ SendVerification \/ SendIntent \/ SendRemoval
      PROVE  IInv'
  <2>1. PICK c \in Commands : Send(c)  BY <1>2, WhatIsSent DEF IInv
  <2>2. Core'  BY <2>1, RunKeepsCore DEF IInv, Send
  <2>3. pending' \subseteq Commands  BY <2>1 DEF IInv, Send
  <2>. QED  BY <2>2, <2>3 DEF IInv
<1>3. ASSUME NEW c \in pending, RunAgain(c) PROVE IInv'
  <2>1. c \in Commands  BY DEF IInv
  <2>2. Core'  BY <2>1, <1>3, RunKeepsCore DEF IInv, RunAgain
  <2>. QED  BY <2>2, <1>3 DEF IInv, RunAgain
<1>4. ASSUME NEW c \in pending, RefuseAgain(c) PROVE IInv'
  BY <1>4 DEF RefuseAgain, IInv, Core, Shapes, Generations, Readings, Numbering, PurgedOnce, Attached
<1>5. ASSUME NEW f \in Files, SignUrl(f) \/ ExpireUrl(f) \/ Put(f) PROVE IInv'
  <2>1. pending' = pending  BY <1>5 DEF SignUrl, ExpireUrl, Put
  <2>. QED  BY <1>5, <2>1, BucketKeepsCore DEF IInv
<1>6. ASSUME NEW e \in events, Deliver(e) PROVE IInv'
  <2>1. pending' = pending  BY <1>6 DEF Deliver
  <2>. QED  BY <1>6, <2>1, DeliveryKeepsCore DEF IInv
<1>7. CASE UNCHANGED vars
  BY <1>7 DEF vars, IInv, Core, Shapes, Generations, Readings, Numbering, PurgedOnce, Attached
<1>. QED  BY <1>1, <1>2, <1>3, <1>4, <1>5, <1>6, <1>7 DEF Next

\* The inductive invariant holds throughout.
LEMMA InvariantHolds == Spec => []IInv
BY InitIInv, NextIInv, PTL DEF Spec

-----------------------------------------------------------------------------
(* Theorems.                                                                *)

\* Every document keeps its shape, and finalized attachments and rows of the purge queue
\* name generations that were stored.
THEOREM TypeCorrect == Spec => []DocumentsTypeOK
<1>1. IInv => DocumentsTypeOK
  BY DEF IInv, Core, Shapes, Generations, DocumentsTypeOK, Opportunities
<1>. QED  BY <1>1, InvariantHolds, PTL

\* However many tabs read and write, a command whose If-Match holds is made in full view.
THEOREM EditsInformed == Spec => []EditsAreInformed
<1>1. IInv => EditsAreInformed
  <2>. SUFFICES ASSUME IInv, NEW k \in Tabs, tab[k].phase = "loaded",
                       Matches(tab[k].parent.version)
                PROVE  tab[k].parent = opp /\ tab[k].attachments = docs
    BY DEF EditsAreInformed
  <2>1. tab[k].parent.version # 0
    BY DEF IInv, Core, Shapes, TabRecords, Opportunities
  <2>. QED  BY <2>1 DEF Matches, IInv, Core, Readings
<1>. QED  BY <1>1, InvariantHolds, PTL

\* However often commands run again, every addition of an attachment is there or undone
\* by exactly one row of the purge queue.
THEOREM PurgedExactlyOnce == Spec => []PurgedOnce
<1>1. IInv => PurgedOnce  BY DEF IInv, Core
<1>. QED  BY <1>1, InvariantHolds, PTL

-----------------------------------------------------------------------------
(* The bucket.                                                              *)

\* There is no object without a URL, no URL without an intent, and an intent that was
\* recorded stays on record.
Signed ==
  \A f \in Files :
    /\ url[f] # "none" => recorded[f] > 0
    /\ stored[f] > 0 => url[f] # "none"

\* Additions are counted up.
LEMMA RecordedGrows ==
  ASSUME IInv, [Next]_vars, NEW f \in Files, recorded[f] > 0
  PROVE  recorded'[f] > 0
<1>1. recorded \in [Files -> Nat]  BY DEF IInv, Core, Shapes
<1>2. ASSUME NEW c, Run(c) PROVE recorded'[f] > 0
  <2>1. CASE RecordIntent(c)
    <3>1. recorded' = [recorded EXCEPT ![c.arg] = recorded[c.arg] + 1]
      BY <2>1 DEF RecordIntent
    <3>. QED  BY <1>1, <3>1
  <2>2. CASE recorded' = recorded  BY <2>2
  <2>. QED  BY <1>2, <2>1, <2>2 DEF Run, UpdateOpportunity, TransitionOpportunity,
            VerifyOpportunity, RemoveAttachment, AttachmentsStay
<1>3. CASE SendUpdate \/ SendTransition \/ SendVerification \/ SendIntent \/ SendRemoval
  BY <1>2, <1>3, WhatIsSent DEF IInv, Send
<1>4. ASSUME NEW c \in pending, RunAgain(c) PROVE recorded'[f] > 0
  BY <1>2, <1>4 DEF RunAgain
<1>5. CASE recorded' = recorded  BY <1>5
<1>. QED  BY <1>3, <1>4, <1>5 DEF Next, ReadParent, ListAttachments, RefuseAgain, SignUrl,
          ExpireUrl, Put, Deliver, vars

LEMMA SignedIsInductive == IInv /\ Signed /\ [Next]_vars => Signed'
<1>. SUFFICES ASSUME IInv, Signed, [Next]_vars, NEW f \in Files
              PROVE  /\ url'[f] # "none" => recorded'[f] > 0
                     /\ stored'[f] > 0 => url'[f] # "none"
  BY DEF Signed
<1>1. recorded[f] > 0 => recorded'[f] > 0  BY RecordedGrows
<1>2. url \in [Files -> {"none", "live", "expired"}] /\ stored \in [Files -> Nat]
  BY DEF IInv, Core, Shapes
<1>3. ASSUME NEW g \in Files, SignUrl(g) \/ ExpireUrl(g) \/ Put(g)
      PROVE  /\ url'[f] # "none" => recorded'[f] > 0
             /\ stored'[f] > 0 => url'[f] # "none"
  <2>1. CASE g = f  BY <1>2, <1>3, <2>1 DEF Signed, SignUrl, ExpireUrl, Put
  <2>2. CASE g # f  BY <1>2, <1>3, <2>2 DEF Signed, SignUrl, ExpireUrl, Put
  <2>. QED  BY <2>1, <2>2
<1>4. CASE UNCHANGED <<url, stored>>  BY <1>1, <1>4 DEF Signed
<1>5. ASSUME SendUpdate \/ SendTransition \/ SendVerification \/ SendIntent \/ SendRemoval
      PROVE  UNCHANGED <<url, stored>>
  BY <1>5, WhatIsSent DEF IInv, Send
<1>. QED  BY <1>3, <1>4, <1>5 DEF Next, ReadParent, ListAttachments, RunAgain, RefuseAgain,
          Deliver, vars

\* No object of the bucket is lost track of, however late it is PUT.
THEOREM ObjectsAreTracked == Spec => []StoredIsTracked
<1>1. Init => Signed
  BY DEF Init, Signed
<1>2. IInv /\ Signed => StoredIsTracked
  <2>. SUFFICES ASSUME IInv, Signed, NEW f \in Files, stored[f] > 0
                PROVE  Attached(f) \/ \E p \in purges : p.file = f
    BY DEF StoredIsTracked
  <2>1. recorded[f] \in Nat /\ recorded[f] > 0
    BY DEF IInv, Core, Shapes, Signed
  <2>2. recorded[f] \in 1..recorded[f]  BY <2>1
  <2>. QED  BY <2>2 DEF IInv, Core, PurgedOnce
<1>. QED  BY <1>1, <1>2, SignedIsInductive, InvariantHolds, PTL DEF Spec

-----------------------------------------------------------------------------
(* Versions.                                                                *)

\* A run of a handler makes the next version.
LEMMA RunsRotate ==
  ASSUME Core, NEW c, Run(c)
  PROVE  opp'.version = opp.version + 1
<1>1. \A status, content : Opportunity(opp.version + 1, status, content).version = opp.version + 1
  BY DEF Opportunity
<1>. QED  BY <1>1 DEF Run, UpdateOpportunity, TransitionOpportunity, VerifyOpportunity,
          RecordIntent, RemoveAttachment, Save

\* Versions only grow.
LEMMA VersionsGrow ==
  ASSUME IInv, [Next]_vars
  PROVE  opp.version \in Nat /\ opp'.version \in Nat /\ opp.version <= opp'.version
<1>1. opp.version \in Nat  BY DEF IInv, Core, Shapes, Opportunities
<1>2. ASSUME NEW c, Run(c) PROVE opp'.version = opp.version + 1
  BY <1>2, RunsRotate DEF IInv
<1>3. ASSUME NEW e \in events, Deliver(e) PROVE opp'.version = opp.version + 1
  BY <1>3 DEF Deliver, FinalizeAttachment, Save, Opportunity
<1>4. CASE SendUpdate \/ SendTransition \/ SendVerification \/ SendIntent \/ SendRemoval
  BY <1>1, <1>2, <1>4, WhatIsSent DEF IInv, Send
<1>5. CASE opp' = opp  BY <1>1, <1>5
<1>. QED  BY <1>1, <1>2, <1>3, <1>4, <1>5 DEF Next, ReadParent, ListAttachments, RunAgain,
          RefuseAgain, SignUrl, ExpireUrl, Put, vars

\* A command that is to run again has run, on the version it named if it named one.
LEMMA PendingHaveRun ==
  ASSUME [Next]_vars, NEW c \in pending', c \notin pending
  PROVE  Run(c) /\ (c.ifMatch = 0 \/ c.ifMatch = opp.version)
<1>1. Send(c) /\ (c.kind \in {"intent", "remove"} => c.ifMatch = 0)
  <2>1. \A kind, arg, e : /\ Command(kind, arg, e).kind = kind
                          /\ Command(kind, arg, e).ifMatch = e
    BY DEF Command
  <2>2. \A d : Send(d) => c = d  BY DEF Send
  <2>. QED  BY <2>1, <2>2 DEF Next, SendUpdate, SendTransition, SendVerification, SendIntent,
            SendRemoval, ReadParent, ListAttachments, RunAgain, RefuseAgain, SignUrl,
            ExpireUrl, Put, Deliver, vars
<1>2. Run(c)  BY <1>1 DEF Send
<1>. QED  BY <1>1, <1>2 DEF Run, UpdateOpportunity, TransitionOpportunity, VerifyOpportunity,
          RecordIntent, RemoveAttachment, Matches

\* The version a command named is of the past once the command has run.
Spent == \A c \in pending : c.ifMatch # 0 => c.ifMatch < opp.version

LEMMA SpentIsInductive == IInv /\ Spent /\ [Next]_vars => Spent'
<1>. SUFFICES ASSUME IInv, Spent, [Next]_vars, NEW c \in pending', c.ifMatch # 0
              PROVE  c.ifMatch < opp'.version
  BY DEF Spent
<1>1. opp.version \in Nat /\ opp'.version \in Nat /\ opp.version <= opp'.version
  BY VersionsGrow
<1>2. CASE c \in pending
  <2>1. c.ifMatch \in Nat  BY <1>2 DEF IInv, Commands
  <2>. QED  BY <1>1, <1>2, <2>1 DEF Spent
<1>3. CASE c \notin pending
  BY <1>1, <1>3, PendingHaveRun, RunsRotate DEF IInv
<1>. QED  BY <1>2, <1>3

\* A command with If-Match never takes effect twice.
THEOREM MatchedRunOnce == Spec => []MatchedCommandsRunOnce
<1>1. Init => Spent
  BY DEF Init, Spent
<1>2. IInv /\ Spent => MatchedCommandsRunOnce
  <2>1. IInv => opp.version \in Nat  BY DEF IInv, Core, Shapes, Opportunities
  <2>. QED  BY <2>1 DEF Spent, MatchedCommandsRunOnce, Matches
<1>. QED  BY <1>1, <1>2, SpentIsInductive, InvariantHolds, PTL DEF Spec

-----------------------------------------------------------------------------
(* What those who apply are promised.                                       *)

\* The stage an opportunity is in, by its status.
LEMMA StageByStatus ==
  /\ opp.status \in {"draft", "pending_verification"} => Stage = "not yet"
  /\ opp.status = "published" => Stage = "on offer"
  /\ opp.status \in {"rejected", "archived"} => Stage = "over"
  /\ opp'.status = "published" => Stage' = "on offer"
  /\ opp'.status \in {"rejected", "archived"} => Stage' = "over"
<1>1. /\ opp.status \in {"draft", "pending_verification"} => Stage = "not yet"
      /\ opp.status = "published" => Stage = "on offer"
      /\ opp.status \in {"rejected", "archived"} => Stage = "over"
  BY DEF Stage
<1>2. opp'.status = "published" => Stage' = "on offer"
  BY DEF Stage
<1>3. opp'.status \in {"rejected", "archived"} => Stage' = "over"
  BY DEF Stage
<1>. QED  BY <1>1, <1>2, <1>3

\* A save under another status moves the opportunity on.
LEMMA StageMoves ==
  ASSUME [Next]_vars, IInv
  PROVE  \/ Stage' = Stage
         \/ Stage = "not yet" /\ Stage' = "on offer"
         \/ Stage # "over" /\ Stage' = "over"
<1>. DEFINE Goal == \/ Stage' = Stage
                    \/ Stage = "not yet" /\ Stage' = "on offer"
                    \/ Stage # "over" /\ Stage' = "over"
<1>1. ASSUME opp'.status = opp.status PROVE Goal  BY <1>1 DEF Stage
<1>2. \A v, status, content : Opportunity(v, status, content).status = status
  BY DEF Opportunity
<1>3. ASSUME NEW c, Run(c) PROVE Goal
  <2>1. CASE TransitionOpportunity(c)
    <3>1. opp'.status = c.arg /\ IsAllowedTransition(opp.status, c.arg)
      BY <1>2, <2>1 DEF TransitionOpportunity, Save
    <3>. QED  BY <3>1, StageByStatus DEF IsAllowedTransition
  <2>2. CASE VerifyOpportunity(c)
    <3>1. /\ opp'.status = c.arg /\ c.arg \in {"published", "rejected"}
          /\ opp.status = "pending_verification"
      BY <1>2, <2>2 DEF VerifyOpportunity, Save
    <3>. QED  BY <3>1, StageByStatus
  <2>3. CASE UpdateOpportunity(c) \/ RecordIntent(c) \/ RemoveAttachment(c)
    <3>1. \E content : Save(opp.status, content)
      BY <2>3 DEF UpdateOpportunity, RecordIntent, RemoveAttachment
    <3>2. opp'.status = opp.status  BY <1>2, <3>1 DEF Save
    <3>. QED  BY <1>1, <3>2
  <2>. QED  BY <1>3, <2>1, <2>2, <2>3 DEF Run
<1>4. CASE SendUpdate \/ SendTransition \/ SendVerification \/ SendIntent \/ SendRemoval
  BY <1>3, <1>4, WhatIsSent DEF IInv, Send
<1>5. ASSUME NEW e \in events, Deliver(e) PROVE Goal
  <2>1. opp' = Opportunity(opp.version + 1, opp.status, opp.content)
    BY <1>5 DEF Deliver, FinalizeAttachment, Save
  <2>2. opp'.status = opp.status  BY <1>2, <2>1
  <2>. QED  BY <1>1, <2>2
<1>6. CASE opp' = opp  BY <1>1, <1>6
<1>. QED  BY <1>3, <1>4, <1>5, <1>6 DEF Next, ReadParent, ListAttachments, RunAgain,
          RefuseAgain, SignUrl, ExpireUrl, Put, vars

\* However often transitions and verifications run, an opportunity is on offer in one
\* stretch of time.
THEOREM DocumentsImplementListing == Spec => ImplementsListing
<1>1. ASSUME Init PROVE Offered!Init
  <2>1. opp.status \in {"draft", "pending_verification"}
    BY <1>1 DEF Init, Opportunity
  <2>2. Stage = "not yet"
    BY <2>1, StageByStatus
  <2>. QED  BY <2>2 DEF Offered!Init
<1>2. IInv /\ [Next]_vars => [Offered!Next]_Offered!vars
  <2>. SUFFICES ASSUME IInv, [Next]_vars PROVE [Offered!Next]_Offered!vars  OBVIOUS
  <2>1. Stage = "not yet" /\ Stage' = "on offer" => Offered!Publish("this")
    BY DEF Offered!Publish
  <2>2. Stage # "over" /\ Stage' = "over" => Offered!End("this")
    BY DEF Offered!End
  <2>. QED  BY <2>1, <2>2, StageMoves DEF Offered!Next, Offered!vars
<1>. QED  BY <1>1, <1>2, InvariantHolds, PTL DEF Spec, ImplementsListing, Offered!Spec

=============================================================================
